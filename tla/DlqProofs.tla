----------------------------- MODULE DlqProofs -----------------------------
(***************************************************************************)
(* Proofs about a row of automation's dead-letter collection, for any      *)
(* number of sweeps and manual retries in progress, any caps and bounds.   *)
(***************************************************************************)
EXTENDS DlqRetry, TLAPS, FiniteSetTheorems

(* A step is an action of a runner, the passage of time, an intervention   *)
(* or a stutter.                                                           *)
LEMMA Steps ==
  ASSUME [Next]_vars
  PROVE  \/ \E r \in Runners :
              Ask(r) \/ ScanDue(r) \/ ScanStuck(r) \/ Claim(r) \/ PassOver(r)
                \/ Wanted(r) \/ Gone(r) \/ Unknown(r) \/ Dispatch(r)
                \/ WriteThrough(r) \/ Abandon(r) \/ Crash(r)
         \/ \E r \in Runners, x \in Results : Settle(r, x) \/ Miss(r, x)
         \/ ExpireLease \/ Outlive
         \/ \E p \in Paused : Freeze(p)
         \/ \E d \in BOOLEAN : Resume(d)
         \/ PauseRow \/ Unfreeze \/ Toggle \/ ReadToDismiss \/ Dismiss
         \/ UNCHANGED vars
  BY DEF Next, Sweep, Work, Operators

(* What every action keeps of the row and of the runners' copies.          *)
Shape ==
  /\ row \in [status : Statuses, attempts : Nat, gen : Nat, stale : BOOLEAN,
              cap : Nat, next : BOOLEAN]
  /\ run \in [Runners -> Copies]

(* The runners that have a claim, or the outcome of one, in hand.          *)
Held == Drivers \union {r \in Runners : run[r].pc = "missed"}


LEMMA Caps ==
  ASSUME NEW c \in Nat, NEW x
  PROVE  CapFor(c, x) \in Nat /\ CapFor(c, x) <= c
  BY DlqAssumption DEF CapFor

LEMMA IdleIsACopy == Idle \in Copies
  BY DEF Idle, Copies

LEMMA Outcomes ==
  ASSUME Shape, NEW r \in Runners, NEW x \in Results
  PROVE  /\ Outcome(r, x) \in [status : Statuses, attempts : Nat, gen : Nat,
                              stale : BOOLEAN, cap : Nat, next : BOOLEAN]
         /\ Outcome(r, x).status \in {"resolved", "failed", "exhausted"}
         /\ Outcome(r, x).stale = row.stale
         /\ Outcome(r, x).gen = row.gen
         /\ Outcome(r, x).attempts = row.attempts
         /\ x = "success" => Outcome(r, x).status = "resolved"
<1>1. run[r].cap \in Nat /\ run[r].attempts \in Nat
  BY DEF Shape, Copies
<1>2. CapFor(run[r].cap, x) \in Nat
  BY <1>1, Caps
<1> QED
  BY <1>1, <1>2 DEF Shape, Outcome, Statuses

(* The row and the copies keep their shape.                                *)
LEMMA ShapeStep ==
  ASSUME TypeOK, [Next]_vars
  PROVE  Shape'
<1> USE IdleIsACopy
<1>1. Shape
  BY DEF TypeOK, Shape
<1>2. CASE UNCHANGED vars
  BY <1>1, <1>2 DEF Shape, vars
<1>3. ASSUME NEW r \in Runners,
             Ask(r) \/ ScanDue(r) \/ ScanStuck(r) \/ PassOver(r) \/ Wanted(r)
               \/ Dispatch(r) \/ Crash(r)
      PROVE  Shape'
  <2>1. row' = row
    BY <1>3 DEF Ask, ScanDue, ScanStuck, PassOver, Wanted, Dispatch, Crash
  <2>2. run[r] \in Copies /\ row.status \in Statuses
    BY <1>1 DEF Shape
  <2>3. \E c \in Copies : run' = [run EXCEPT ![r] = c]
    <3>1. CASE PassOver(r) \/ Crash(r)
      BY <3>1 DEF PassOver, Crash
    <3>2. CASE Ask(r) \/ ScanDue(r) \/ ScanStuck(r)
      <4>1. PICK h \in BOOLEAN : Pick(r, h)
        BY <3>2 DEF Ask, ScanDue, ScanStuck
      <4>2. [run[r] EXCEPT !.pc = "picked", !.from = row.status, !.human = h]
              \in Copies
        BY <2>2 DEF Copies
      <4> QED
        BY <4>1, <4>2 DEF Pick
    <3>3. CASE Wanted(r)
      <4>1. [run[r] EXCEPT !.pc = "wanted"] \in Copies
        BY <2>2 DEF Copies, Driving
      <4> QED
        BY <3>3, <4>1 DEF Wanted
    <3>4. CASE Dispatch(r)
      <4>1. [run[r] EXCEPT !.pc = "sending"] \in Copies
        BY <2>2 DEF Copies, Driving
      <4> QED
        BY <3>4, <4>1 DEF Dispatch
    <3> QED
      BY <1>3, <3>1, <3>2, <3>3, <3>4
  <2> QED
    BY <1>1, <2>1, <2>3 DEF Shape
<1>4. ASSUME NEW r \in Runners, Claim(r)
      PROVE  Shape'
  <2>0. row' = [row EXCEPT !.status = "retrying", !.attempts = @ + 1,
                          !.gen = @ + 1, !.stale = FALSE]
    BY <1>4 DEF Claim
  <2>1. row' \in [status : Statuses, attempts : Nat, gen : Nat,
                  stale : BOOLEAN, cap : Nat, next : BOOLEAN]
    <3>1. row.attempts + 1 \in Nat /\ row.gen + 1 \in Nat
      BY <1>1 DEF Shape
    <3> QED
      BY <1>1, <2>0, <3>1 DEF Shape, Statuses
  <2>2. run[r] \in Copies
    BY <1>1 DEF Shape
  <2>3. \A p \in {"spent", "claimed"} :
          [run[r] EXCEPT !.pc = p, !.gen = row'.gen, !.attempts = row'.attempts,
                         !.cap = row.cap] \in Copies
    BY <1>1, <2>1, <2>2 DEF Copies, Driving, Shape
  <2>4. \E c \in Copies : run' = [run EXCEPT ![r] = c]
    <3>1. PICK p \in {"spent", "claimed"} :
            run' = [run EXCEPT ![r].pc = p, ![r].gen = row'.gen,
                               ![r].attempts = row'.attempts, ![r].cap = row.cap]
      BY <1>4, Zenon DEF Claim
    <3> QED
      BY <2>3, <3>1
  <2> QED
    BY <1>1, <2>1, <2>4 DEF Shape
<1>5. ASSUME NEW r \in Runners, NEW new, WriteBack(r, new),
             new \in [status : Statuses, attempts : Nat, gen : Nat,
                      stale : BOOLEAN, cap : Nat, next : BOOLEAN]
      PROVE  Shape'
  BY <1>1, <1>5 DEF Shape, WriteBack
<1>6. ASSUME NEW r \in Runners, Gone(r) \/ Unknown(r) \/ Abandon(r)
      PROVE  Shape'
  <2>1. run[r].attempts \in Nat
    BY <1>1 DEF Shape, Copies
  <2>2. CASE Gone(r) \/ Unknown(r)
    <3>1. PICK again \in BOOLEAN : Park(r, again)
      BY <2>2 DEF Gone, Unknown
    <3> DEFINE n == IF run[r].attempts > 1 THEN run[r].attempts - 1 ELSE 1
    <3>2. n \in Nat
      BY <2>1
    <3> HIDE DEF n
    <3>3. [row EXCEPT !.status = "failed", !.next = again, !.attempts = n]
            \in [status : Statuses, attempts : Nat, gen : Nat,
                 stale : BOOLEAN, cap : Nat, next : BOOLEAN]
      BY <1>1, <3>2 DEF Shape, Statuses
    <3>4. WriteBack(r, [row EXCEPT !.status = "failed", !.next = again,
                                   !.attempts = n])
      BY <3>1 DEF Park, n
    <3> QED
      BY <1>5, <3>3, <3>4
  <2>3. CASE Abandon(r)
    BY <1>1, <1>5, <2>3 DEF Abandon, Shape, Statuses
  <2> QED
    BY <1>6, <2>2, <2>3
<1>7. ASSUME NEW r \in Runners, NEW x \in Results, Settle(r, x)
      PROVE  Shape'
  BY <1>1, <1>5, <1>7, Outcomes DEF Settle
<1>8. ASSUME NEW r \in Runners, NEW x \in Results, Miss(r, x)
      PROVE  Shape'
  <2>1. [run[r] EXCEPT !.pc = "missed", !.result = x] \in Copies
    BY <1>1 DEF Shape, Copies
  <2> QED
    BY <1>1, <1>8, <2>1 DEF Shape, Miss
<1>9. ASSUME NEW r \in Runners, WriteThrough(r)
      PROVE  Shape'
  <2>1. "success" \in Results
    BY DEF Results
  <2> QED
    BY <1>1, <1>9, <2>1, Outcomes DEF Shape, WriteThrough
<1>10. CASE ExpireLease \/ Outlive \/ Unfreeze \/ Toggle \/ ReadToDismiss
            \/ (\E p \in Paused : Freeze(p)) \/ (\E d \in BOOLEAN : Resume(d))
  <2>1. run' = run
    BY <1>10 DEF ExpireLease, Outlive, Unfreeze, Toggle, ReadToDismiss, Freeze,
       Resume
  <2>2. \/ row' = row
        \/ row' = [row EXCEPT !.stale = TRUE]
        \/ row' = [row EXCEPT !.status = "failed", !.next = TRUE]
        \/ row' = [row EXCEPT !.status = "dismissed"]
    BY <1>10 DEF ExpireLease, Outlive, Unfreeze, Toggle, ReadToDismiss, Freeze,
       Resume
  <2> QED
    BY <1>1, <2>1, <2>2 DEF Shape, Statuses
<1>11. CASE PauseRow \/ Dismiss
  <2>1. freezing # "none" => freezing \in Statuses
    BY DEF TypeOK, Statuses
  <2>2. run' = run
    BY <1>11 DEF PauseRow, Dismiss
  <2>3. \/ row' = row
        \/ row' = [row EXCEPT !.status = "dismissed", !.stale = FALSE]
        \/ /\ freezing # "none"
           /\ row' = [row EXCEPT !.status = freezing, !.stale = FALSE]
    BY <1>11 DEF PauseRow, Dismiss, Seize
  <2> QED
    BY <1>1, <2>1, <2>2, <2>3 DEF Shape, Statuses
<1> QED
  BY <1>2, <1>3, <1>4, <1>6, <1>7, <1>8, <1>9, <1>10, <1>11, Steps

(* The bookkeeping keeps its types.                                        *)
LEMMA BooksStep ==
  ASSUME TypeOK, [Next]_vars
  PROVE  /\ rule' \in [enabled : BOOLEAN, frozen : BOOLEAN, shut : BOOLEAN]
         /\ freezing' \in Paused \union {"none"}
         /\ dismissing' \in BOOLEAN
         /\ changes' \in Nat
         /\ mishaps' \in Nat
         /\ first' = first
         /\ first' \in Failures
         /\ sent' \subseteq Nat
         /\ grants' \in Nat
         /\ released' \in BOOLEAN
         /\ lost' \subseteq Nat
<1> USE DEF TypeOK
<1>1. first' = first
  BY Steps, Zenon DEF Ask, Pick, ScanDue, ScanStuck, Claim, PassOver, Wanted, Gone,
     Unknown, Park, WriteBack, Dispatch, Settle, Miss, WriteThrough, Abandon,
     Crash, ExpireLease, Outlive, Freeze, PauseRow, Unfreeze, Resume, Toggle,
     ReadToDismiss, Dismiss, vars, history
<1>2. CASE UNCHANGED vars
  BY <1>2 DEF vars, history
<1>3. ASSUME NEW r \in Runners,
             ScanDue(r) \/ ScanStuck(r) \/ PassOver(r) \/ Wanted(r)
               \/ ExpireLease \/ \E x \in Results : Miss(r, x)
      PROVE  UNCHANGED <<rule, freezing, dismissing, changes, mishaps, history>>
  BY <1>3 DEF ScanDue, ScanStuck, PassOver, Wanted, ExpireLease, Miss
<1>4. ASSUME NEW r \in Runners, Ask(r)
      PROVE  /\ UNCHANGED <<rule, freezing, dismissing, mishaps, history>>
             /\ changes' = changes + 1
  BY <1>4 DEF Ask, Change
<1>5. ASSUME NEW r \in Runners, Claim(r)
      PROVE  /\ UNCHANGED <<rule, freezing, dismissing, changes, mishaps, sent,
                            released, lost>>
             /\ grants' \in {grants, grants + 1}
  BY <1>5 DEF Claim
<1>6. ASSUME NEW r \in Runners,
             Gone(r) \/ Unknown(r) \/ Abandon(r) \/ Crash(r)
               \/ \E x \in Results : Settle(r, x)
      PROVE  /\ UNCHANGED <<rule, freezing, dismissing, changes, sent, grants,
                            released>>
             /\ mishaps' \in {mishaps, mishaps + 1}
             /\ lost' \subseteq Nat
  <2>1. run[r].gen \in Nat
    BY DEF Copies
  <2> QED
    BY <1>6, <2>1 DEF Gone, Unknown, Abandon, Crash, Settle, Park, WriteBack,
                      Mishap, LostIf
<1>7. ASSUME NEW r \in Runners, Dispatch(r)
      PROVE  /\ UNCHANGED <<rule, freezing, dismissing, changes, mishaps, grants,
                            released, lost>>
             /\ sent' \subseteq Nat
  <2>1. run[r].gen \in Nat
    BY DEF Copies
  <2> QED
    BY <1>7, <2>1 DEF Dispatch
<1>8. ASSUME NEW r \in Runners, WriteThrough(r)
      PROVE  /\ UNCHANGED <<rule, freezing, dismissing, changes, mishaps, sent,
                            grants, released>>
             /\ lost' \subseteq Nat
  <2>1. run[r].gen \in Nat
    BY DEF Copies
  <2> QED
    BY <1>8, <2>1 DEF WriteThrough, LostIf
<1>9. CASE Outlive
  BY <1>1, <1>9 DEF Outlive, Mishap
<1>10. ASSUME NEW p \in Paused, Freeze(p)
       PROVE  /\ UNCHANGED <<dismissing, mishaps, history>>
              /\ changes' = changes + 1
              /\ rule' = [rule EXCEPT !.frozen = TRUE, !.shut = TRUE]
              /\ freezing' = p
  BY <1>10 DEF Freeze, Change
<1>11. CASE PauseRow \/ Dismiss
  BY <1>1, <1>11 DEF PauseRow, Dismiss
<1>12. CASE Unfreeze \/ Toggle \/ ReadToDismiss
  <2>1. /\ UNCHANGED <<freezing, mishaps, history>>
        /\ changes' = changes + 1
        /\ dismissing' \in {dismissing, TRUE}
    BY <1>12 DEF Unfreeze, Toggle, ReadToDismiss, Change
  <2>2. \/ rule' = rule
        \/ rule' = [rule EXCEPT !.frozen = FALSE, !.shut = FALSE]
        \/ rule' = [rule EXCEPT !.enabled = ~@, !.frozen = FALSE]
    BY <1>12 DEF Unfreeze, Toggle, ReadToDismiss
  <2>3. rule' \in [enabled : BOOLEAN, frozen : BOOLEAN, shut : BOOLEAN]
    BY <2>2
  <2>4. changes' \in Nat
    BY <2>1
  <2>5. dismissing' \in BOOLEAN
    BY <2>1, Zenon
  <2> QED
    BY <2>1, <2>3, <2>4, <2>5, Zenon DEF history
<1>13. ASSUME NEW d \in BOOLEAN, Resume(d)
       PROVE  /\ UNCHANGED <<rule, freezing, dismissing, mishaps, sent, lost>>
              /\ changes' = changes + 1
              /\ grants' \in {grants, grants + 1}
              /\ released' \in BOOLEAN
  BY <1>13 DEF Resume, Change
<1>14. CASE ExpireLease
  BY <1>14 DEF ExpireLease, history
<1>15. CASE \E r \in Runners :
               Ask(r) \/ ScanDue(r) \/ ScanStuck(r) \/ PassOver(r) \/ Wanted(r)
                 \/ \E x \in Results : Miss(r, x)
  <2>1. PICK r \in Runners :
          Ask(r) \/ ScanDue(r) \/ ScanStuck(r) \/ PassOver(r) \/ Wanted(r)
            \/ \E x \in Results : Miss(r, x)
    BY <1>15
  <2>2. /\ UNCHANGED <<rule, freezing, dismissing, mishaps, history>>
        /\ changes' \in {changes, changes + 1}
    BY <1>3, <1>4, <2>1
  <2> QED
    BY <2>2 DEF history
<1>16. CASE \E r \in Runners :
               Claim(r) \/ Gone(r) \/ Unknown(r) \/ Abandon(r) \/ Crash(r)
                 \/ \E x \in Results : Settle(r, x)
  <2>1. /\ UNCHANGED <<rule, freezing, dismissing, changes, sent, released>>
        /\ lost' \subseteq Nat
        /\ mishaps' \in {mishaps, mishaps + 1}
        /\ grants' \in {grants, grants + 1}
    BY <1>5, <1>6, <1>16
  <2> QED
    BY <1>1, <2>1
<1>17. CASE \E r \in Runners : Dispatch(r) \/ WriteThrough(r)
  BY <1>1, <1>7, <1>8, <1>17
<1>18. CASE \E p \in Paused : Freeze(p)
  <2>1. PICK p \in Paused : Freeze(p)
    BY <1>18
  <2>2. /\ UNCHANGED <<dismissing, mishaps, history>>
        /\ changes' = changes + 1
        /\ rule' = [rule EXCEPT !.frozen = TRUE, !.shut = TRUE]
        /\ freezing' = p
    BY <1>10, <2>1
  <2>3. changes' \in Nat
    BY <2>2
  <2>4. rule' \in [enabled : BOOLEAN, frozen : BOOLEAN, shut : BOOLEAN]
    BY <2>2
  <2>5. freezing' \in Paused \union {"none"}
    BY <2>2, Zenon
  <2> QED
    BY <2>2, <2>3, <2>4, <2>5, Zenon DEF history
<1>19. CASE \E d \in BOOLEAN : Resume(d)
  <2>1. PICK d \in BOOLEAN : Resume(d)
    BY <1>19
  <2>2. /\ UNCHANGED <<rule, freezing, dismissing, mishaps, sent, lost>>
        /\ changes' = changes + 1
        /\ grants' \in {grants, grants + 1}
        /\ released' \in BOOLEAN
    BY <1>13, <2>1
  <2> QED
    BY <1>1, <2>2
<1> QED
  BY <1>2, <1>9, <1>11, <1>12, <1>14, <1>15, <1>16, <1>17, <1>18, <1>19, Steps

-----------------------------------------------------------------------------
(* A lease that has run out has no runner that still counts on it.         *)
StaleIsFree == row.status = "retrying" /\ row.stale => Drivers \subseteq evicted

PickedWasOpen ==
  \A r \in Runners :
    run[r].pc = "picked" => run[r].from \in {"failed", "retrying", "exhausted"}

(* The runners hold different generations, none beyond the row's; that of  *)
(* a runner that has not dispatched yet is unused.                         *)
GensDiffer ==
  /\ \A r \in Drivers : run[r].gen <= row.gen
  /\ \A r, s \in Drivers : run[r].gen = run[s].gen => r = s
  /\ \A r \in Runners :
       run[r].pc \in {"claimed", "spent", "wanted"} => run[r].gen \notin sent
  /\ \A g \in sent : g <= row.gen

Claims ==
  /\ evicted \subseteq Held
  /\ OneRunner
  /\ StaleIsFree
  /\ PickedWasOpen
  /\ GensDiffer

ClaimInv == TypeOK /\ Claims

LEMMA ClaimsStep ==
  ASSUME TypeOK, Claims, [Next]_vars
  PROVE  Claims'
<1> DEFINE Same(r) == \A s \in Runners \ {r} : run'[s] = run[s]
<1>1. /\ Shape
      /\ Shape'
      /\ sent \subseteq Nat
  BY ShapeStep DEF TypeOK, Shape
<1>2. \A r \in Runners : run[r].gen \in Nat /\ run'[r].gen \in Nat
  BY <1>1 DEF Shape, Copies
<1>3. row.gen \in Nat
  BY <1>1 DEF Shape
<1> USE DEF Claims, Held, OneRunner, StaleIsFree, PickedWasOpen, GensDiffer,
            Drivers, Driving
(* Steps that leave the row and the claims to others.                      *)
<1>4. ASSUME UNCHANGED <<row, run, evicted, sent>>
      PROVE  Claims'
  BY <1>4
<1>5. ASSUME NEW r \in Runners, Same(r), UNCHANGED <<row, evicted, sent>>,
             run[r].pc \in {"idle", "picked"},
             \/ run'[r].pc = "idle"
             \/ /\ run'[r].pc = "picked"
                /\ run'[r].from \in {"failed", "retrying", "exhausted"}
      PROVE  Claims'
  BY <1>2, <1>5
<1>6. ASSUME NEW r \in Runners, Same(r), UNCHANGED <<row, evicted>>,
             run'[r].gen = run[r].gen,
             \/ run[r].pc = "claimed" /\ run'[r].pc = "wanted" /\ sent' = sent
             \/ /\ run[r].pc = "wanted" /\ run'[r].pc = "sending"
                /\ sent' = sent \union {run[r].gen}
             \/ /\ run[r].pc = "sending" /\ run'[r].pc = "missed"
                /\ row.status # "retrying" /\ sent' = sent
      PROVE  Claims'
  BY <1>2, <1>6
<1>7. ASSUME NEW r \in Runners, Same(r), run'[r].pc = "idle", sent' = sent,
             evicted' = evicted \ {r}, row'.gen = row.gen,
             row'.stale = row.stale,
             \/ row'.status = row.status
             \/ row.status # "retrying" /\ row'.status # "retrying"
      PROVE  Claims'
  BY <1>2, <1>7
(* A claim.                                                                *)
<1>8. ASSUME NEW r \in Runners, Same(r), run[r].pc = "picked",
             run'[r].pc \in {"claimed", "spent"}, run'[r].gen = row.gen + 1,
             row'.gen = row.gen + 1, row'.status = "retrying", ~row'.stale,
             row.status # "retrying" \/ row.stale,
             UNCHANGED <<evicted, sent>>
      PROVE  Claims'
  <2>1. Drivers \subseteq evicted
    BY <1>8
  <2>2. Drivers' = Drivers \union {r}
    BY <1>8
  <2>3. \A g \in sent : g # row.gen + 1
    BY <1>1, <1>3
  <2>4. \A s \in Drivers : run[s].gen # row.gen + 1
    BY <1>2, <1>3
  <2> QED
    BY <1>1, <1>2, <1>3, <1>8, <2>1, <2>2, <2>3, <2>4
(* Whatever takes the row out of 'retrying'.                               *)
<1>9. ASSUME NEW r \in Runners, Same(r), run'[r].pc = "idle", sent' = sent,
             row.status = "retrying", row'.status # "retrying",
             row'.gen = row.gen,
             evicted' = (evicted \union Drivers) \ {r}
      PROVE  Claims'
  BY <1>2, <1>9
<1>10. ASSUME UNCHANGED <<run, sent>>, row'.status # "retrying",
              row'.gen = row.gen,
              evicted' = IF row.status = "retrying" THEN evicted \union Drivers
                         ELSE evicted
       PROVE  Claims'
  BY <1>2, <1>10
(* The lease runs out.                                                     *)
<1>11. ASSUME UNCHANGED <<run, sent>>, row.status = "retrying",
              row'.status = "retrying", row'.gen = row.gen,
              NEW S \in SUBSET Drivers, evicted' = evicted \union S,
              \A s \in Drivers : run[s].gen = row.gen => s \in S
       PROVE  Claims'
  <2>1. Drivers' = Drivers /\ Held' = Held
    BY <1>11
  <2>2. Drivers \subseteq evicted'
    BY <1>11
  <2>3. evicted' \subseteq Held
    BY <1>11
  <2> QED
    BY <1>11, <2>1, <2>2, <2>3
<1> USE DEF Shape
<1> HIDE DEF Claims, Held, OneRunner, StaleIsFree, PickedWasOpen, GensDiffer,
             Drivers, Driving
<1> SUFFICES ASSUME ~UNCHANGED <<row, run, evicted, sent>>
             PROVE  Claims'
  BY <1>4
<1>12. ASSUME NEW r \in Runners,
              Ask(r) \/ ScanDue(r) \/ ScanStuck(r)
       PROVE  Claims'
  <2>1. PICK h \in BOOLEAN : Pick(r, h)
    BY <1>12 DEF Ask, ScanDue, ScanStuck
  <2>2. /\ UNCHANGED <<row, evicted, sent>>
        /\ row.status \in {"failed", "retrying", "exhausted"}
    BY <1>12 DEF Ask, ScanDue, ScanStuck, history
  <2>3. /\ Same(r)
        /\ run[r].pc = "idle"
        /\ run'[r].pc = "picked"
        /\ run'[r].from = row.status
    BY <1>1, <2>1 DEF Pick, Idle, Copies
  <2> QED
    BY <1>5, <2>2, <2>3
<1>13. ASSUME NEW r \in Runners, PassOver(r)
       PROVE  Claims'
  <2>1. UNCHANGED <<row, evicted, sent>> /\ run[r].pc = "picked"
    BY <1>13 DEF PassOver, history
  <2>2. Same(r) /\ run'[r].pc = "idle"
    BY <1>1, <1>13 DEF PassOver, Idle
  <2> QED
    BY <1>5, <2>1, <2>2
<1>14. ASSUME NEW r \in Runners,
              Wanted(r) \/ Dispatch(r) \/ \E x \in Results : Miss(r, x)
       PROVE  Claims'
  <2>1. UNCHANGED <<row, evicted>>
    BY <1>14 DEF Wanted, Dispatch, Miss, history
  <2>2. Same(r) /\ run'[r].gen = run[r].gen
    BY <1>1, <1>14 DEF Wanted, Dispatch, Miss, Copies
  <2>3. \/ run[r].pc = "claimed" /\ run'[r].pc = "wanted" /\ sent' = sent
        \/ /\ run[r].pc = "wanted" /\ run'[r].pc = "sending"
           /\ sent' = sent \union {run[r].gen}
        \/ /\ run[r].pc = "sending" /\ run'[r].pc = "missed"
           /\ row.status # "retrying" /\ sent' = sent
    BY <1>1, <1>14 DEF Wanted, Dispatch, Miss, Copies, history
  <2> QED
    BY <1>6, <2>1, <2>2, <2>3
<1>15. ASSUME NEW r \in Runners, Crash(r)
       PROVE  Claims'
  <2>1. Same(r) /\ run'[r].pc = "idle"
    BY <1>1, <1>15 DEF Crash, Idle
  <2>2. row' = row /\ sent' = sent /\ evicted' = evicted \ {r}
    BY <1>15 DEF Crash
  <2> QED
    <3>1. /\ row'.gen = row.gen
          /\ row'.stale = row.stale
          /\ row'.status = row.status
      BY <2>2
    <3> QED
      BY <1>7, <2>1, <2>2, <3>1, Zenon
<1>16. ASSUME NEW r \in Runners, WriteThrough(r)
       PROVE  Claims'
  <2>1. Same(r) /\ run'[r].pc = "idle"
    BY <1>1, <1>16 DEF WriteThrough, Idle
  <2>2. sent' = sent /\ evicted' = evicted \ {r}
    BY <1>16 DEF WriteThrough
  <2>3. /\ Outcome(r, "success").status = "resolved"
        /\ Outcome(r, "success").stale = row.stale
        /\ Outcome(r, "success").gen = row.gen
    BY <1>1, Outcomes DEF Results
  <2>4. /\ row'.gen = row.gen
        /\ row'.stale = row.stale
        /\ \/ row'.status = row.status
           \/ row.status \in Paused /\ row'.status = "resolved"
    <3>1. \/ row' = row
          \/ row.status \in Paused /\ row' = Outcome(r, "success")
      BY <1>16 DEF WriteThrough
    <3> QED
      BY <2>3, <3>1
  <2> QED
    BY <1>7, <2>1, <2>2, <2>4 DEF Paused
<1>17. ASSUME NEW r \in Runners, Claim(r)
       PROVE  Claims'
  <2>1. row' = [row EXCEPT !.status = "retrying", !.attempts = @ + 1,
                          !.gen = @ + 1, !.stale = FALSE]
    BY <1>17 DEF Claim
  <2>2. /\ row'.gen = row.gen + 1
        /\ row'.status = "retrying"
        /\ ~row'.stale
    BY <1>1, <2>1
  <2>3. /\ UNCHANGED <<evicted, sent>>
        /\ run[r].pc = "picked"
        /\ row.status # "retrying" \/ row.stale
    BY <1>17 DEF Claim, Claimable
  <2>4. PICK p \in {"spent", "claimed"} :
          run' = [run EXCEPT ![r].pc = p, ![r].gen = row'.gen,
                             ![r].attempts = row'.attempts, ![r].cap = row.cap]
    BY <1>17, Zenon DEF Claim
  <2>5. /\ Same(r)
        /\ run'[r].pc \in {"claimed", "spent"}
        /\ run'[r].gen = row'.gen
    BY <1>1, <2>4 DEF Copies
  <2> QED
    BY <1>8, <2>2, <2>3, <2>5
<1>18. ASSUME NEW r \in Runners, NEW new, WriteBack(r, new),
              new.status # "retrying", new.gen = row.gen
       PROVE  Claims'
  <2>1. Same(r) /\ run'[r].pc = "idle"
    BY <1>1, <1>18 DEF WriteBack, Idle
  <2>2. CASE row.status = "retrying"
    BY <1>9, <1>18, <2>1, <2>2 DEF WriteBack
  <2>3. CASE row.status # "retrying"
    BY <1>7, <1>18, <2>1, <2>3 DEF WriteBack
  <2> QED
    BY <2>2, <2>3
<1>19. ASSUME NEW r \in Runners, Gone(r) \/ Unknown(r)
       PROVE  Claims'
  <2>1. PICK again \in BOOLEAN : Park(r, again)
    BY <1>19 DEF Gone, Unknown
  <2> QED
    BY <1>1, <1>18, <2>1 DEF Park
<1>20. ASSUME NEW r \in Runners, Abandon(r)
       PROVE  Claims'
  BY <1>1, <1>18, <1>20 DEF Abandon
<1>21. ASSUME NEW r \in Runners, NEW x \in Results, Settle(r, x)
       PROVE  Claims'
  <2>1. Outcome(r, x).gen = row.gen /\ Outcome(r, x).status # "retrying"
    BY <1>1, Outcomes
  <2> QED
    BY <1>18, <1>21, <2>1 DEF Settle
<1>22. CASE ExpireLease
  <2>1. /\ UNCHANGED <<run, evicted, sent>>
        /\ row.status = "retrying"
        /\ Owners = {}
        /\ row' = [row EXCEPT !.stale = TRUE]
    BY <1>22 DEF ExpireLease, history
  <2> QED
    BY <1>1, <1>11, <2>1 DEF Owners
<1>23. CASE Outlive
  <2>1. /\ UNCHANGED <<run, sent>>
        /\ row.status = "retrying"
        /\ row' = [row EXCEPT !.stale = TRUE]
        /\ evicted' = evicted \union Owners
    BY <1>23 DEF Outlive
  <2> QED
    BY <1>1, <1>11, <2>1 DEF Owners
<1>24. CASE PauseRow \/ Dismiss
  <2>1. /\ UNCHANGED <<run, sent>>
        /\ evicted' = IF row.status = "retrying" THEN evicted \union Drivers
                      ELSE evicted
    BY <1>24 DEF PauseRow, Dismiss, Seize
  <2>2. freezing \in Paused \union {"none"}
    BY DEF TypeOK
  <2>3. row'.gen = row.gen /\ row'.status # "retrying"
    BY <1>1, <1>24, <2>2 DEF PauseRow, Dismiss, Seize, Paused
  <2> QED
    BY <1>10, <2>1, <2>3
<1>25. ASSUME NEW d \in BOOLEAN, Resume(d)
       PROVE  Claims'
  <2>1. UNCHANGED <<run, sent, evicted>> /\ row.status # "retrying"
    BY <1>25 DEF Resume
  <2>2. row'.gen = row.gen /\ row'.status # "retrying"
    BY <1>1, <1>25 DEF Resume
  <2> QED
    BY <1>10, <2>1, <2>2
<1>26. CASE (\E p \in Paused : Freeze(p)) \/ Unfreeze \/ Toggle \/ ReadToDismiss
            \/ UNCHANGED vars
  BY <1>4, <1>26 DEF Freeze, Unfreeze, Toggle, ReadToDismiss, vars, history
<1> QED
  BY <1>12, <1>13, <1>14, <1>15, <1>16, <1>17, <1>19, <1>20, <1>21, <1>22,
     <1>23, <1>24, <1>25, <1>26, Steps

-----------------------------------------------------------------------------
LEMMA ClaimInit == Init => ClaimInv
<1> SUFFICES ASSUME Init
             PROVE  ClaimInv
  OBVIOUS
<1>1. first \in Results /\ CapFor(MaxAttempts, first) \in Nat
  BY Caps, DlqAssumption DEF Init, Results
<1>2. \A r \in Runners : run[r] = Idle
  BY DEF Init
<1>3. Drivers = {} /\ Held = {}
  BY <1>2 DEF Drivers, Held, Driving, Idle
<1>4. row \in [status : Statuses, attempts : Nat, gen : Nat, stale : BOOLEAN,
               cap : Nat, next : BOOLEAN]
  BY <1>1 DEF Init, Statuses
<1>5. TypeOK
  BY <1>4, IdleIsACopy DEF Init, TypeOK
<1>6. Claims
  BY <1>2, <1>3 DEF Init, Claims, OneRunner, StaleIsFree, PickedWasOpen,
     GensDiffer, Idle
<1> QED
  BY <1>5, <1>6 DEF ClaimInv

LEMMA ClaimNext == ClaimInv /\ [Next]_vars => ClaimInv'
<1> SUFFICES ASSUME TypeOK, Claims, [Next]_vars
             PROVE  TypeOK' /\ Claims'
  BY DEF ClaimInv
<1>1. Claims'
  BY ClaimsStep
<1>2. TypeOK'
  BY <1>1, ShapeStep, BooksStep DEF TypeOK, Shape, Claims, Held
<1> QED
  BY <1>1, <1>2

LEMMA ClaimAlways == Spec => []ClaimInv
  BY ClaimInit, ClaimNext, PTL DEF Spec

(* The row, its rule, the runners and the bookkeeping keep their types     *)
(* (DlqRow and the statuses of dlq-retry.policy.ts).                       *)
THEOREM TypeCorrect == Spec => []TypeOK
<1>1. ClaimInv => TypeOK
  BY DEF ClaimInv
<1> QED
  BY <1>1, ClaimAlways, PTL

(* "Exactly-one runner per row" (dlq-retry.service.ts:39), the evicted     *)
(* set aside.                                                              *)
THEOREM RunnersAreAlone == Spec => []OneRunner
<1>1. ClaimInv => OneRunner
  BY DEF ClaimInv, Claims
<1> QED
  BY <1>1, ClaimAlways, PTL

(* No generation is dispatched twice (dlq-retry.service.ts:213).           *)
THEOREM RetriesAreNew == Spec => RetryIsNew
<1>1. ClaimInv => \A r \in Runners : Dispatch(r) => run[r].gen \notin sent
  BY DEF ClaimInv, Claims, GensDiffer, Dispatch
<1>2. ClaimInv /\ [Next]_vars =>
        [\A r \in Runners : Dispatch(r) => run[r].gen \notin sent]_vars
  BY <1>1
<1> QED
  BY <1>2, ClaimAlways, PTL DEF Spec, RetryIsNew

Reopens == ~( /\ row.status = "dismissed" => row'.status = "dismissed"
              /\ row.status = "resolved" =>
                   \/ row'.status = "resolved"
                   \/ dismissing /\ row'.status = "dismissed" )

LEMMA ClosedStep ==
  ASSUME ClaimInv, [Next]_vars
  PROVE  ~Reopens
<1>1. CASE row' = row
  BY <1>1 DEF Reopens
<1>2. ASSUME NEW r \in Runners, Claim(r)
      PROVE  row.status \notin Closed
  BY <1>2 DEF ClaimInv, Claims, PickedWasOpen, Claim, Claimable, Closed
<1>3. ASSUME NEW r \in Runners, Gone(r) \/ Unknown(r) \/ Abandon(r)
                                  \/ \E x \in Results : Settle(r, x)
      PROVE  row' = row \/ row.status \notin Closed
  BY <1>3 DEF Gone, Unknown, Abandon, Settle, Park, WriteBack, Closed
<1>4. ASSUME NEW r \in Runners, WriteThrough(r)
      PROVE  row' = row \/ row.status \notin Closed
  BY <1>4 DEF WriteThrough, Closed, Paused
<1>5. CASE PauseRow
  BY <1>5 DEF PauseRow, Seize, Reopens
<1>6. CASE Dismiss
  <2>1. row \in [status : Statuses, attempts : Nat, gen : Nat, stale : BOOLEAN,
                 cap : Nat, next : BOOLEAN]
    BY DEF ClaimInv, TypeOK
  <2>2. dismissing /\ row'.status = "dismissed"
    BY <1>6, <2>1 DEF Dismiss, Seize
  <2> QED
    BY <2>2 DEF Reopens
<1>7. ASSUME NEW d \in BOOLEAN, Resume(d)
      PROVE  row.status \notin Closed
  BY <1>7 DEF Resume, Closed
<1>8. ASSUME NEW r \in Runners,
             Ask(r) \/ ScanDue(r) \/ ScanStuck(r) \/ PassOver(r) \/ Wanted(r)
               \/ Dispatch(r) \/ Crash(r) \/ \E x \in Results : Miss(r, x)
      PROVE  row' = row
  BY <1>8 DEF Ask, ScanDue, ScanStuck, PassOver, Wanted, Dispatch, Crash, Miss
<1>9. CASE ExpireLease \/ Outlive
  BY <1>9 DEF ExpireLease, Outlive, Reopens
<1>10. CASE (\E p \in Paused : Freeze(p)) \/ Unfreeze \/ Toggle \/ ReadToDismiss
            \/ UNCHANGED vars
  BY <1>1, <1>10 DEF Freeze, Unfreeze, Toggle, ReadToDismiss, vars
<1>11. CASE row.status \notin Closed
  BY <1>11 DEF Reopens, Closed
<1> QED
  BY <1>1, <1>2, <1>3, <1>4, <1>5, <1>6, <1>7, <1>8, <1>9, <1>10, <1>11, Steps

(* Nothing reopens a row that was resolved or dismissed (the filters of    *)
(* claim, settle and freezeRules).                                         *)
THEOREM ClosedStaysClosed == Spec => ClosedIsFinal
<1>1. ClaimInv /\ [Next]_vars =>
        [/\ row.status = "dismissed" => row'.status = "dismissed"
         /\ row.status = "resolved" =>
              \/ row'.status = "resolved"
              \/ dismissing /\ row'.status = "dismissed"]_vars
  BY ClosedStep DEF Reopens
<1> QED
  BY <1>1, ClaimAlways, PTL DEF Spec, ClosedIsFinal

-----------------------------------------------------------------------------
(* Until a row is released under a runner, whoever lost its claim finds    *)
(* the row parked or closed.                                               *)
StaysParked ==
  ~released =>
    \A r \in Runners : r \in evicted \/ run[r].pc = "missed" =>
         row.status \in Paused \union Closed

(* Then the runner of a row in 'retrying' is alone.                        *)
LEMMA AloneAtWork ==
  ASSUME ClaimInv, StaysParked, ~released, row.status = "retrying",
         NEW r \in Drivers
  PROVE  evicted = {} /\ Drivers = {r} /\ \A s \in Runners : run[s].pc # "missed"
<1>1. \A s \in Runners : s \notin evicted /\ run[s].pc # "missed"
  BY DEF StaysParked, Paused, Closed
<1>2. evicted = {}
  BY <1>1 DEF ClaimInv, Claims, Held, Drivers
<1>3. \A s \in Drivers : run[s].gen = row.gen
  BY <1>2 DEF ClaimInv, Claims, OneRunner
<1>4. \A s \in Drivers : s = r
  BY <1>3 DEF ClaimInv, Claims, GensDiffer
<1> QED
  BY <1>1, <1>2, <1>4

LEMMA OthersStay ==
  ASSUME TypeOK, NEW r \in Runners, NEW new, WriteBack(r, new)
  PROVE  /\ \A s \in Runners \ {r} : run'[s] = run[s]
         /\ run'[r] = Idle
  BY DEF TypeOK, WriteBack

LEMMA ReleasedStays ==
  ASSUME [Next]_vars, released
  PROVE  released'
  BY Steps, Zenon DEF Ask, Pick, ScanDue, ScanStuck, Claim, PassOver, Wanted, Gone,
     Unknown, Park, WriteBack, Dispatch, Settle, Miss, WriteThrough, Abandon,
     Crash, ExpireLease, Outlive, Freeze, PauseRow, Unfreeze, Resume, Toggle,
     ReadToDismiss, Dismiss, vars, history

LEMMA ParkedStep ==
  ASSUME ClaimInv, StaysParked, [Next]_vars, ~released'
  PROVE  StaysParked'
<1>1. /\ row \in [status : Statuses, attempts : Nat, gen : Nat, stale : BOOLEAN,
                  cap : Nat, next : BOOLEAN]
      /\ run \in [Runners -> Copies]
      /\ TypeOK
      /\ Shape
  BY DEF ClaimInv, TypeOK, Shape
<1>2. ~released
  BY ReleasedStays
<1>3. \A r \in Runners : r \in evicted \/ run[r].pc = "missed" =>
        row.status \in Paused \union Closed
  BY <1>2 DEF StaysParked
<1>4. ASSUME UNCHANGED <<row, run, evicted>>
      PROVE  StaysParked'
  BY <1>3, <1>4 DEF StaysParked
<1>5. ASSUME NEW r \in Runners,
             Ask(r) \/ ScanDue(r) \/ ScanStuck(r) \/ PassOver(r) \/ Wanted(r)
               \/ Dispatch(r) \/ Crash(r)
      PROVE  StaysParked'
  <2>1. UNCHANGED row /\ evicted' \subseteq evicted
    BY <1>5 DEF Ask, ScanDue, ScanStuck, PassOver, Wanted, Dispatch, Crash,
       history
  <2>2. \A s \in Runners : run'[s].pc = "missed" => run[s].pc = "missed"
    BY <1>1, <1>5 DEF Ask, ScanDue, ScanStuck, Pick, PassOver, Wanted, Dispatch,
       Crash, Idle, Copies
  <2> QED
    BY <1>3, <2>1, <2>2 DEF StaysParked
<1>6. ASSUME NEW r \in Runners, Claim(r)
      PROVE  StaysParked'
  <2>1. row.status \in {"failed", "retrying", "exhausted"}
    BY <1>6 DEF ClaimInv, Claims, PickedWasOpen, Claim, Claimable
  <2>2. \A s \in Runners : s \notin evicted /\ run[s].pc # "missed"
    BY <1>3, <2>1 DEF Paused, Closed
  <2>3. UNCHANGED evicted
    BY <1>6 DEF Claim
  <2>4. \A s \in Runners : run'[s].pc # "missed"
    BY <1>1, <1>6, <2>2 DEF Claim, Copies
  <2> QED
    BY <1>3, <2>2, <2>3, <2>4 DEF StaysParked
<1>7. ASSUME NEW r \in Runners, r \in Drivers, NEW new, WriteBack(r, new)
      PROVE  StaysParked'
  <2>1. /\ \A s \in Runners \ {r} : run'[s] = run[s]
        /\ run'[r] = Idle
    BY <1>1, <1>7, OthersStay
  <2>2. CASE row.status = "retrying"
    <3>1. evicted = {} /\ Drivers = {r} /\ \A s \in Runners : run[s].pc # "missed"
      BY <1>2, <1>7, <2>2, AloneAtWork
    <3>2. evicted' = {}
      BY <1>7, <2>2, <3>1 DEF WriteBack
    <3> QED
      BY <1>3, <2>1, <3>1, <3>2 DEF StaysParked, Idle
  <2>3. CASE row.status # "retrying"
    <3>1. row' = row /\ evicted' \subseteq evicted
      BY <1>7, <2>3 DEF WriteBack
    <3> QED
      BY <1>3, <2>1, <3>1 DEF StaysParked, Idle
  <2> QED
    BY <2>2, <2>3
<1>8. ASSUME NEW r \in Runners, Gone(r) \/ Unknown(r) \/ Abandon(r)
                                  \/ \E x \in Results : Settle(r, x)
      PROVE  StaysParked'
  <2>1. r \in Drivers /\ \E new : WriteBack(r, new)
    BY <1>8 DEF Gone, Unknown, Abandon, Settle, Park, Drivers, Driving
  <2> QED
    BY <1>7, <2>1
<1>9. ASSUME NEW r \in Runners, NEW x \in Results, Miss(r, x)
      PROVE  StaysParked'
  <2>1. r \in Drivers /\ row.status # "retrying"
    BY <1>9 DEF Miss, Drivers, Driving
  <2>2. r \in evicted
    BY <2>1 DEF ClaimInv, Claims, OneRunner
  <2>3. UNCHANGED <<row, evicted>>
    BY <1>9 DEF Miss, history
  <2>4. \A s \in Runners \ {r} : run'[s] = run[s]
    BY <1>1, <1>9 DEF Miss
  <2> QED
    BY <1>3, <2>2, <2>3, <2>4 DEF StaysParked
<1>10. ASSUME NEW r \in Runners, WriteThrough(r)
       PROVE  StaysParked'
  <2>1. /\ row.status \in Paused \union Closed
        /\ "success" \in Results
        /\ evicted' \subseteq evicted
    BY <1>3, <1>10 DEF WriteThrough, Results
  <2>2. Outcome(r, "success").status = "resolved"
    BY <1>1, <2>1, Outcomes
  <2>3. \/ row' = row
        \/ row' = Outcome(r, "success")
    BY <1>10 DEF WriteThrough
  <2>4. row'.status \in Paused \union Closed
    BY <2>1, <2>2, <2>3 DEF Closed
  <2> QED
    BY <2>4 DEF StaysParked
<1>11. CASE ExpireLease
  <2>1. row.status = "retrying" /\ UNCHANGED <<run, evicted>>
    BY <1>11 DEF ExpireLease, history
  <2> QED
    BY <1>3, <2>1 DEF StaysParked, Paused, Closed
<1>12. CASE Outlive
  BY <1>12 DEF Outlive
<1>13. CASE PauseRow \/ Dismiss
  <2>1. freezing \in Paused \union {"none"} /\ UNCHANGED run
    BY <1>1, <1>13 DEF PauseRow, Dismiss, TypeOK
  <2>2. \/ row' = row /\ evicted' = evicted
        \/ row'.status \in Paused \union Closed
    BY <1>1, <1>13, <2>1 DEF PauseRow, Dismiss, Seize, Closed
  <2> QED
    BY <1>3, <2>1, <2>2 DEF StaysParked
<1>14. ASSUME NEW d \in BOOLEAN, Resume(d)
       PROVE  StaysParked'
  <2>1. UNCHANGED <<run, evicted>>
    BY <1>14 DEF Resume
  <2>2. CASE d
    <3>1. \A s \in Runners : s \notin Held
      BY <1>14, <2>2 DEF Resume, Held, Drivers
    <3>2. \A s \in Runners : s \notin evicted /\ run[s].pc # "missed"
      BY <3>1 DEF ClaimInv, Claims, Held
    <3> QED
      BY <1>3, <2>1, <3>2 DEF StaysParked
  <2>3. CASE ~d
    BY <1>1, <1>3, <1>14, <2>1, <2>3 DEF Resume, StaysParked, Closed
  <2> QED
    BY <2>2, <2>3
<1>15. CASE (\E p \in Paused : Freeze(p)) \/ Unfreeze \/ Toggle \/ ReadToDismiss
            \/ UNCHANGED vars
  BY <1>4, <1>15 DEF Freeze, Unfreeze, Toggle, ReadToDismiss, vars, history
<1> QED
  BY <1>5, <1>6, <1>8, <1>9, <1>10, <1>11, <1>12, <1>13, <1>14, <1>15, Steps

LEMMA ParkedAlways == Spec => [](ClaimInv /\ StaysParked)
<1>1. Init => StaysParked
  BY DEF Init, StaysParked, Idle
<1>2. ClaimInv /\ StaysParked /\ [Next]_vars => StaysParked'
  BY ParkedStep DEF StaysParked
<1> QED
  BY <1>1, <1>2, ClaimAlways, PTL DEF Spec

(* What a step loses: on a parked or closed row the second write of settle *)
(* loses nothing.                                                          *)
LEMMA LostStep ==
  ASSUME ClaimInv, StaysParked, [Next]_vars, lost' # lost
  PROVE  released \/ \E r \in Runners : Crash(r) /\ OwesSuccess(r)
<1>1. TypeOK
  BY DEF ClaimInv
<1>2. CASE \E r \in Runners : Crash(r)
  BY <1>2 DEF Crash, LostIf
<1>3. ASSUME NEW r \in Runners, WriteThrough(r)
      PROVE  released
  <2>1. SUFFICES ASSUME ~released PROVE FALSE
    OBVIOUS
  <2>2. run[r].result = "success" /\ row'.status \notin Closed
    BY <1>3 DEF WriteThrough, LostIf
  <2>3. row.status \in Paused \union Closed
    BY <1>3, <2>1 DEF StaysParked, WriteThrough
  <2>4. row.status \in Paused => row' = Outcome(r, "success")
    BY <1>3, <2>2 DEF WriteThrough
  <2>5. row.status \notin Paused => row' = row
    BY <1>3 DEF WriteThrough
  <2>6. Outcome(r, "success").status = "resolved"
    BY Outcomes DEF Results, ClaimInv, Shape, TypeOK
  <2> QED
    BY <2>2, <2>3, <2>4, <2>5, <2>6 DEF Closed
<1> QED
  BY <1>2, <1>3, Steps, Zenon DEF Ask, Pick, ScanDue, ScanStuck, Claim, PassOver,
     Wanted, Gone, Unknown, Park, WriteBack, Dispatch, Settle, Miss, Abandon,
     ExpireLease, Outlive, Freeze, PauseRow, Unfreeze, Resume, Toggle,
     ReadToDismiss, Dismiss, vars, history

(* Whatever is done to the row under its dispatch, a success is lost only  *)
(* with its own runner, or where the row was made claimable under one      *)
(* (settle's two writes, dlq-retry.service.ts:425, :440).                  *)
THEOREM SuccessesAreKept == Spec => SuccessIsKept
<1>1. ClaimInv /\ StaysParked /\ [Next]_vars =>
        [lost' # lost =>
           released \/ \E r \in Runners : Crash(r) /\ OwesSuccess(r)]_vars
  BY LostStep
<1> QED
  BY <1>1, ParkedAlways, PTL DEF Spec, SuccessIsKept

-----------------------------------------------------------------------------
(* The runners that may yet dispatch.                                      *)
Pending == {r \in Runners : run[r].pc \in {"claimed", "wanted"}}

(* The dispatches that took place or may yet.                              *)
Spending == Cardinality(sent) + Cardinality(Pending)

Budget == CapFor(MaxAttempts, first)

(* Every dispatch is covered by an attempt, and by the budget or a grant;  *)
(* a row that is scheduled has one left.                                   *)
Covered ==
  /\ row.attempts >= 1
  /\ Spending <= row.attempts
  /\ Spending <= Budget + grants
  /\ row.status = "failed" /\ row.next => Spending < Budget + grants
  /\ \A r \in Drivers \ evicted :
       run[r].attempts = row.attempts /\ row.attempts >= 2

(* Doubt only narrows the caps, and a sweep picks no exhausted row.        *)
CapsFit ==
  /\ IsFiniteSet(sent)
  /\ row.cap <= Budget
  /\ \A r \in Runners : run[r].cap <= Budget
  /\ \A r \in Runners :
       run[r].pc = "picked" /\ ~run[r].human =>
         run[r].from \in {"failed", "retrying"}

BudgetInv == CapsFit /\ (~released => Covered)

LEMMA Counts ==
  ASSUME TypeOK, IsFiniteSet(sent)
  PROVE  /\ IsFiniteSet(Pending)
         /\ Cardinality(Pending) \in Nat
         /\ Cardinality(sent) \in Nat
         /\ Spending \in Nat
         /\ Budget \in Nat
<1>1. IsFiniteSet(Pending)
  BY DlqAssumption, FS_Subset DEF Pending
<1>2. Cardinality(Pending) \in Nat /\ Cardinality(sent) \in Nat
  BY <1>1, FS_CardinalityType
<1>3. Budget \in Nat
  BY Caps, DlqAssumption DEF Budget
<1> QED
  BY <1>1, <1>2, <1>3 DEF Spending

(* How a step moves the count.                                             *)
LEMMA SameCount ==
  ASSUME sent' = sent,
         \A r \in Runners : run'[r].pc \in {"claimed", "wanted"} <=>
                             run[r].pc \in {"claimed", "wanted"}
  PROVE  Spending' = Spending
<1>1. Pending' = Pending
  BY DEF Pending
<1> QED
  BY <1>1 DEF Spending

LEMMA OneMore ==
  ASSUME TypeOK, IsFiniteSet(sent), NEW r \in Runners, sent' = sent,
         \A s \in Runners \ {r} : run'[s] = run[s],
         run[r].pc \notin {"claimed", "wanted"},
         run'[r].pc \in {"claimed", "wanted"}
  PROVE  Spending' = Spending + 1
<1>1. Pending' = Pending \union {r} /\ r \notin Pending
  BY DEF Pending
<1>2. IsFiniteSet(Pending) /\ Cardinality(Pending) \in Nat
      /\ Cardinality(sent) \in Nat
  BY Counts
<1>3. Cardinality(Pending') = Cardinality(Pending) + 1
  BY <1>1, <1>2, FS_AddElement
<1> QED
  BY <1>2, <1>3 DEF Spending

LEMMA OneLess ==
  ASSUME TypeOK, IsFiniteSet(sent), NEW r \in Runners, sent' = sent,
         \A s \in Runners \ {r} : run'[s] = run[s],
         run[r].pc \in {"claimed", "wanted"},
         run'[r].pc \notin {"claimed", "wanted"}
  PROVE  Spending' = Spending - 1
<1>1. Pending' = Pending \ {r} /\ r \in Pending
  BY DEF Pending
<1>2. IsFiniteSet(Pending) /\ Cardinality(Pending) \in Nat
      /\ Cardinality(sent) \in Nat
  BY Counts
<1>3. Cardinality(Pending') = Cardinality(Pending) - 1
  BY <1>1, <1>2, FS_RemoveElement
<1> QED
  BY <1>2, <1>3 DEF Spending

LEMMA Sent ==
  ASSUME ClaimInv, IsFiniteSet(sent), NEW r \in Runners, Dispatch(r)
  PROVE  Spending' = Spending /\ IsFiniteSet(sent')
<1>1. run[r].gen \notin sent /\ sent' = sent \union {run[r].gen}
  BY DEF ClaimInv, Claims, GensDiffer, Dispatch
<1>2. Pending' = Pending \ {r} /\ r \in Pending
  BY DEF ClaimInv, TypeOK, Pending, Dispatch, Copies
<1>3. IsFiniteSet(Pending) /\ Cardinality(Pending) \in Nat
      /\ Cardinality(sent) \in Nat
  BY Counts DEF ClaimInv
<1>4. Cardinality(Pending') = Cardinality(Pending) - 1
  BY <1>2, <1>3, FS_RemoveElement
<1>5. Cardinality(sent') = Cardinality(sent) + 1 /\ IsFiniteSet(sent')
  BY <1>1, FS_AddElement
<1> QED
  BY <1>3, <1>4, <1>5 DEF Spending

LEMMA CapsFitStep ==
  ASSUME ClaimInv, CapsFit, [Next]_vars
  PROVE  CapsFit'
<1>1. /\ row \in [status : Statuses, attempts : Nat, gen : Nat, stale : BOOLEAN,
                  cap : Nat, next : BOOLEAN]
      /\ run \in [Runners -> Copies]
      /\ TypeOK
      /\ Shape
      /\ Budget \in Nat
      /\ Budget' = Budget
  BY Counts, BooksStep DEF ClaimInv, TypeOK, Shape, CapsFit, Budget, CapFor
<1> DEFINE Same(r) == \A s \in Runners \ {r} : run'[s] = run[s]
<1>2. /\ IsFiniteSet(sent)
      /\ row.cap <= Budget
      /\ \A s \in Runners : run[s].cap <= Budget
      /\ \A s \in Runners : run[s].pc = "picked" /\ ~run[s].human =>
           run[s].from \in {"failed", "retrying"}
  BY DEF CapsFit
<1>3. Idle.cap <= Budget /\ Idle.pc # "picked"
  BY <1>1 DEF Idle
<1>4. ASSUME NEW c \in Nat, c <= Budget, NEW x
      PROVE  CapFor(c, x) \in Nat /\ CapFor(c, x) <= Budget
  BY <1>1, <1>4, Caps
<1>5. ASSUME NEW r \in Runners, Same(r), IsFiniteSet(sent'),
             row'.cap <= Budget, run'[r].cap <= Budget,
             run'[r].pc = "picked" /\ ~run'[r].human =>
               run'[r].from \in {"failed", "retrying"}
      PROVE  CapsFit'
  BY <1>1, <1>2, <1>5 DEF CapsFit
<1>6. ASSUME run' = run, sent' = sent, row'.cap = row.cap
      PROVE  CapsFit'
  BY <1>1, <1>6 DEF CapsFit
<1>7. ASSUME NEW r \in Runners, Same(r), run'[r] = Idle, sent' = sent,
             row'.cap <= Budget
      PROVE  CapsFit'
  BY <1>2, <1>3, <1>5, <1>7
<1>8. ASSUME NEW r \in Runners, Ask(r) \/ ScanDue(r) \/ ScanStuck(r)
      PROVE  CapsFit'
  <2>1. PICK h \in BOOLEAN : Pick(r, h) /\ (~h => row.status \in {"failed", "retrying"})
    BY <1>8 DEF Ask, ScanDue, ScanStuck
  <2>2. row' = row /\ sent' = sent
    BY <1>8 DEF Ask, ScanDue, ScanStuck, history
  <2>3. /\ Same(r)
        /\ run'[r].cap = run[r].cap
        /\ run'[r].from = row.status
        /\ run'[r].human = h
    BY <1>1, <2>1 DEF Pick, Copies
  <2> QED
    BY <1>2, <1>5, <2>1, <2>2, <2>3
<1>9. ASSUME NEW r \in Runners, PassOver(r) \/ Crash(r)
      PROVE  CapsFit'
  <2>1. Same(r) /\ run'[r] = Idle /\ row' = row /\ sent' = sent
    BY <1>1, <1>9 DEF PassOver, Crash, history
  <2> QED
    BY <1>2, <1>7, <2>1
<1>10. ASSUME NEW r \in Runners, NEW new, WriteBack(r, new), new.cap <= Budget
       PROVE  CapsFit'
  <2>1. Same(r) /\ run'[r] = Idle /\ sent' = sent
    BY <1>1, <1>10, OthersStay DEF WriteBack
  <2>2. row'.cap <= Budget
    BY <1>2, <1>10 DEF WriteBack
  <2> QED
    BY <1>7, <2>1, <2>2
<1>11. ASSUME NEW r \in Runners, Gone(r) \/ Unknown(r)
       PROVE  CapsFit'
  <2>1. PICK again \in BOOLEAN : Park(r, again)
    BY <1>11 DEF Gone, Unknown
  <2>2. [row EXCEPT !.status = "failed", !.next = again,
                    !.attempts = IF run[r].attempts > 1
                                 THEN run[r].attempts - 1 ELSE 1].cap = row.cap
    BY <1>1
  <2> QED
    BY <1>2, <1>10, <2>1, <2>2 DEF Park
<1>12. ASSUME NEW r \in Runners, NEW x
       PROVE  Outcome(r, x).cap <= Budget
  <2>1. run[r].cap \in Nat
    BY <1>1 DEF Copies
  <2>2. Outcome(r, x).cap = CapFor(run[r].cap, x)
    BY <1>1 DEF Outcome
  <2> QED
    BY <1>2, <1>4, <2>1, <2>2
<1>13. ASSUME NEW r \in Runners,
              Abandon(r) \/ \E x \in Results : Settle(r, x)
       PROVE  CapsFit'
  <2>1. CASE Abandon(r)
    <3>1. [row EXCEPT !.status = "exhausted", !.next = FALSE].cap = row.cap
      BY <1>1
    <3> QED
      BY <1>2, <1>10, <2>1, <3>1 DEF Abandon
  <2>2. CASE \E x \in Results : Settle(r, x)
    BY <1>10, <1>12, <2>2 DEF Settle
  <2> QED
    BY <1>13, <2>1, <2>2
<1>14. ASSUME NEW r \in Runners, WriteThrough(r)
       PROVE  CapsFit'
  <2>1. row' = row \/ row' = Outcome(r, "success")
    BY <1>14 DEF WriteThrough
  <2>2. Same(r) /\ run'[r] = Idle /\ sent' = sent
    BY <1>1, <1>14 DEF WriteThrough
  <2> QED
    BY <1>2, <1>7, <1>12, <2>1, <2>2
<1>15. ASSUME NEW r \in Runners,
              Wanted(r) \/ Dispatch(r) \/ \E x \in Results : Miss(r, x)
       PROVE  CapsFit'
  <2>1. /\ Same(r)
        /\ run'[r].cap = run[r].cap
        /\ run'[r].pc # "picked"
    BY <1>1, <1>15 DEF Wanted, Dispatch, Miss, Copies
  <2>2. row' = row
    BY <1>15 DEF Wanted, Dispatch, Miss
  <2>3. IsFiniteSet(sent')
    BY <1>2, <1>15, Sent DEF Wanted, Miss, history
  <2> QED
    BY <1>2, <1>5, <2>1, <2>2, <2>3
<1>16. ASSUME NEW r \in Runners, Claim(r)
       PROVE  CapsFit'
  <2>1. row' = [row EXCEPT !.status = "retrying", !.attempts = @ + 1,
                          !.gen = @ + 1, !.stale = FALSE]
    BY <1>16 DEF Claim
  <2>2. PICK p \in {"spent", "claimed"} :
          run' = [run EXCEPT ![r].pc = p, ![r].gen = row'.gen,
                             ![r].attempts = row'.attempts, ![r].cap = row.cap]
    BY <1>16, Zenon DEF Claim
  <2>3. Same(r) /\ run'[r].cap = row.cap /\ run'[r].pc # "picked"
    BY <1>1, <2>2 DEF Copies
  <2>4. row'.cap = row.cap /\ sent' = sent
    BY <1>1, <1>16, <2>1 DEF Claim
  <2> QED
    BY <1>2, <1>5, <2>3, <2>4
<1>17. CASE ExpireLease \/ Outlive \/ PauseRow \/ Dismiss
            \/ \E d \in BOOLEAN : Resume(d)
  <2>1. run' = run /\ sent' = sent
    BY <1>17 DEF ExpireLease, Outlive, PauseRow, Dismiss, Resume, history
  <2>2. row'.cap = row.cap
    BY <1>1, <1>17 DEF ExpireLease, Outlive, PauseRow, Dismiss, Resume, Seize
  <2> QED
    BY <1>6, <2>1, <2>2
<1>18. CASE (\E p \in Paused : Freeze(p)) \/ Unfreeze \/ Toggle \/ ReadToDismiss
            \/ UNCHANGED vars
  BY <1>6, <1>18 DEF Freeze, Unfreeze, Toggle, ReadToDismiss, vars, history
<1> QED
  BY <1>8, <1>9, <1>11, <1>13, <1>14, <1>15, <1>16, <1>17, <1>18, Steps

LEMMA CoveredStep ==
  ASSUME ClaimInv, StaysParked, BudgetInv, [Next]_vars, ~released'
  PROVE  Covered'
<1>1. /\ row \in [status : Statuses, attempts : Nat, gen : Nat, stale : BOOLEAN,
                  cap : Nat, next : BOOLEAN]
      /\ run \in [Runners -> Copies]
      /\ TypeOK
      /\ Shape
      /\ Budget \in Nat
      /\ Budget' = Budget
      /\ Spending \in Nat
      /\ grants \in Nat
      /\ IsFiniteSet(sent)
      /\ row.cap <= Budget
  BY Counts, BooksStep DEF ClaimInv, TypeOK, Shape, BudgetInv, CapsFit, Budget,
     CapFor
<1>2. ~released
  BY ReleasedStays
<1>3. /\ row.attempts >= 1
      /\ Spending <= row.attempts
      /\ Spending <= Budget + grants
      /\ row.status = "failed" /\ row.next => Spending < Budget + grants
      /\ \A r \in Drivers \ evicted :
           run[r].attempts = row.attempts /\ row.attempts >= 2
  BY <1>2 DEF BudgetInv, Covered
<1> DEFINE Same(r) == \A s \in Runners \ {r} : run'[s] = run[s]
(* Steps that leave the attempts alone and dispatch nothing new.           *)
<1>4. ASSUME Spending' \in {Spending, Spending - 1}, grants' = grants,
             row'.attempts = row.attempts,
             row'.status = "failed" /\ row'.next =>
               row.status = "failed" /\ row.next,
             \A r \in Drivers' \ evicted' :
               r \in Drivers \ evicted /\ run'[r].attempts = run[r].attempts
      PROVE  Covered'
  BY <1>1, <1>3, <1>4 DEF Covered
<1>5. ASSUME NEW r \in Runners, Same(r), sent' = sent, row' = row,
             evicted \ {r} \subseteq evicted', grants' = grants,
             run[r].pc \notin {"claimed", "wanted"},
             run'[r].pc \notin Driving
      PROVE  Covered'
  <2>1. Spending' = Spending
    BY <1>5, SameCount DEF Driving
  <2>2. \A s \in Drivers' \ evicted' :
          s \in Drivers \ evicted /\ run'[s].attempts = run[s].attempts
    BY <1>5 DEF Drivers
  <2> QED
    BY <1>4, <1>5, <2>1, <2>2
<1>6. ASSUME NEW r \in Runners, Ask(r) \/ ScanDue(r) \/ ScanStuck(r)
                                  \/ PassOver(r)
      PROVE  Covered'
  <2>1. /\ UNCHANGED <<row, sent, evicted, grants>>
        /\ run[r].pc \notin {"claimed", "wanted"}
    BY <1>6 DEF Ask, ScanDue, ScanStuck, PassOver, Pick, Idle, history
  <2>2. Same(r) /\ run'[r].pc \notin Driving
    BY <1>1, <1>6 DEF Ask, ScanDue, ScanStuck, PassOver, Pick, Idle, Copies,
       Driving
  <2> QED
    BY <1>5, <2>1, <2>2
<1>7. ASSUME NEW r \in Runners, NEW x \in Results, Miss(r, x)
      PROVE  Covered'
  <2>1. UNCHANGED <<row, sent, evicted, grants>> /\ run[r].pc = "sending"
    BY <1>7 DEF Miss, history
  <2>2. Same(r) /\ run'[r].pc \notin Driving
    BY <1>1, <1>7 DEF Miss, Copies, Driving
  <2> QED
    BY <1>5, <2>1, <2>2
<1>8. ASSUME NEW r \in Runners, Wanted(r) \/ Dispatch(r)
      PROVE  Covered'
  <2>1. UNCHANGED <<row, evicted, grants>>
    BY <1>8 DEF Wanted, Dispatch, history
  <2>2. /\ Same(r)
        /\ run'[r].attempts = run[r].attempts
        /\ run[r].pc \in Driving
    BY <1>1, <1>8 DEF Wanted, Dispatch, Copies, Driving
  <2>3. Wanted(r) => Spending' = Spending
    <3> SUFFICES ASSUME Wanted(r)
                 PROVE  Spending' = Spending
      OBVIOUS
    <3>1. /\ run[r].pc = "claimed" /\ run'[r].pc = "wanted"
          /\ sent' = sent
      BY <1>1 DEF Wanted, Copies, history
    <3> QED
      BY <2>2, <3>1, SameCount
  <2>4. Dispatch(r) => Spending' = Spending
    BY <1>1, Sent
  <2>5. Spending' = Spending
    BY <1>8, <2>3, <2>4
  <2>6. \A s \in Drivers' \ evicted' :
          s \in Drivers \ evicted /\ run'[s].attempts = run[s].attempts
    BY <2>1, <2>2 DEF Drivers
  <2>7. row'.attempts = row.attempts /\ row'.status = row.status
        /\ row'.next = row.next
    BY <2>1
  <2>8. Spending' \in {Spending, Spending - 1} /\ grants' = grants
    BY <2>1, <2>5
  <2> QED
    BY <1>4, <2>6, <2>7, <2>8
(* The runner of the row hands it back: then nobody drives it.             *)
<1>9. ASSUME NEW r \in Drivers, NEW new, WriteBack(r, new),
             row.status = "retrying"
      PROVE  /\ row' = new
             /\ Drivers' = {}
             /\ run[r].attempts = row.attempts
             /\ row.attempts >= 2
             /\ grants' = grants
             /\ run[r].pc \in {"claimed", "wanted"} => Spending' = Spending - 1
             /\ run[r].pc \notin {"claimed", "wanted"} => Spending' = Spending
  <2>1. /\ r \in Runners
        /\ evicted = {}
        /\ Drivers = {r}
    BY <1>2, <1>9, AloneAtWork DEF Drivers
  <2>2. Same(r) /\ run'[r] = Idle
    BY <1>1, <1>9, <2>1, OthersStay
  <2>3. run'[r].pc \notin Driving
    BY <2>2 DEF Idle, Driving
  <2>4. Drivers' = {}
    BY <2>1, <2>2, <2>3 DEF Drivers
  <2>5. row' = new /\ grants' = grants /\ sent' = sent
    BY <1>9 DEF WriteBack
  <2>6. run[r].pc \in {"claimed", "wanted"} => Spending' = Spending - 1
    BY <1>1, <2>1, <2>2, <2>3, <2>5, OneLess DEF Driving
  <2>7. run[r].pc \notin {"claimed", "wanted"} => Spending' = Spending
    BY <2>2, <2>3, <2>5, SameCount DEF Driving
  <2>8. run[r].attempts = row.attempts /\ row.attempts >= 2
    BY <1>3, <2>1
  <2> QED
    BY <2>4, <2>5, <2>6, <2>7, <2>8
(* A runner leaves the row as it is.                                       *)
<1>10. ASSUME NEW r \in Runners, Same(r), run'[r] = Idle, sent' = sent,
              grants' = grants, evicted \ {r} \subseteq evicted',
              row'.attempts = row.attempts,
              row'.status = "failed" /\ row'.next =>
                row.status = "failed" /\ row.next
       PROVE  Covered'
  <2>1. run'[r].pc \notin Driving
    BY <1>10 DEF Idle, Driving
  <2>2. Spending' \in {Spending, Spending - 1}
    <3>1. CASE run[r].pc \in {"claimed", "wanted"}
      BY <1>1, <1>10, <2>1, <3>1, OneLess DEF Driving
    <3>2. CASE run[r].pc \notin {"claimed", "wanted"}
      BY <1>10, <2>1, <3>2, SameCount DEF Driving
    <3> QED
      BY <3>1, <3>2
  <2>3. \A s \in Drivers' \ evicted' :
          s \in Drivers \ evicted /\ run'[s].attempts = run[s].attempts
    BY <1>10, <2>1 DEF Drivers
  <2> QED
    BY <1>4, <1>10, <2>2, <2>3
<1>11. ASSUME NEW r \in Drivers, NEW new, WriteBack(r, new),
              row.status # "retrying"
       PROVE  Covered'
  <2>1. r \in Runners
    BY DEF Drivers
  <2>2. Same(r) /\ run'[r] = Idle
    BY <1>1, <1>11, <2>1, OthersStay
  <2>3. row' = row /\ sent' = sent /\ grants' = grants /\ evicted' = evicted \ {r}
    BY <1>11 DEF WriteBack
  <2>4. row'.attempts = row.attempts /\ row'.status = row.status
        /\ row'.next = row.next
    BY <2>3
  <2> QED
    BY <1>10, <2>1, <2>2, <2>3, <2>4
<1>12. ASSUME NEW r \in Runners, Gone(r) \/ Unknown(r)
       PROVE  Covered'
  <2>1. PICK again \in BOOLEAN : Park(r, again)
    BY <1>12 DEF Gone, Unknown
  <2>2. r \in Drivers /\ run[r].pc = "claimed"
    BY <1>12 DEF Gone, Unknown, Drivers, Driving
  <2> DEFINE n == IF run[r].attempts > 1 THEN run[r].attempts - 1 ELSE 1
             new == [row EXCEPT !.status = "failed", !.next = again,
                                !.attempts = n]
  <2>3. WriteBack(r, new)
    BY <2>1 DEF Park
  <2>4. CASE row.status = "retrying"
    <3>1. /\ row' = new
          /\ Drivers' = {}
          /\ run[r].attempts = row.attempts
          /\ row.attempts >= 2
          /\ grants' = grants
          /\ Spending' = Spending - 1
      BY <1>9, <2>2, <2>3, <2>4
    <3>2. n = row.attempts - 1
      BY <1>1, <3>1
    <3>3. row'.attempts = row.attempts - 1
      BY <1>1, <3>1, <3>2
    <3> QED
      BY <1>1, <1>3, <3>1, <3>3 DEF Covered
  <2> QED
    BY <1>11, <2>2, <2>3, <2>4
<1>13. ASSUME NEW r \in Runners, Abandon(r)
       PROVE  Covered'
  <2> DEFINE new == [row EXCEPT !.status = "exhausted", !.next = FALSE]
  <2>1. r \in Drivers /\ run[r].pc = "spent" /\ WriteBack(r, new)
    BY <1>13 DEF Abandon, Drivers, Driving
  <2>2. CASE row.status = "retrying"
    <3>1. /\ row' = new
          /\ Drivers' = {}
          /\ grants' = grants
          /\ Spending' = Spending
      BY <1>9, <2>1, <2>2
    <3>2. row'.attempts = row.attempts /\ row'.status = "exhausted"
      BY <1>1, <3>1
    <3> QED
      BY <1>1, <1>3, <3>1, <3>2 DEF Covered
  <2> QED
    BY <1>11, <2>1, <2>2
<1>14. ASSUME NEW r \in Runners, NEW x \in Results, Settle(r, x)
       PROVE  Covered'
  <2>1. /\ r \in Drivers
        /\ run[r].pc = "sending"
        /\ row.status = "retrying"
        /\ WriteBack(r, Outcome(r, x))
    BY <1>14 DEF Settle, Drivers, Driving
  <2>2. /\ row' = Outcome(r, x)
        /\ Drivers' = {}
        /\ run[r].attempts = row.attempts
        /\ grants' = grants
        /\ Spending' = Spending
    BY <1>9, <2>1
  <2>3. row'.attempts = row.attempts
    BY <1>1, <2>2, Outcomes
  <2>4. run[r].cap \in Nat /\ run[r].cap <= Budget
    BY <1>1 DEF Copies, BudgetInv, CapsFit
  <2>5. CapFor(run[r].cap, x) <= run[r].cap /\ CapFor(run[r].cap, x) \in Nat
    BY <2>4, Caps
  <2>6. row'.next => run[r].attempts < CapFor(run[r].cap, x)
    BY <1>1, <2>2 DEF Outcome
  <2>7. row'.next => Spending < Budget + grants
    BY <1>1, <1>3, <2>2, <2>4, <2>5, <2>6
  <2> QED
    BY <1>1, <1>3, <2>2, <2>3, <2>7 DEF Covered
<1>15. ASSUME NEW r \in Runners, WriteThrough(r)
       PROVE  Covered'
  <2>1. "success" \in Results
    BY DEF Results
  <2>2. \/ row' = row
        \/ row' = Outcome(r, "success")
    BY <1>15 DEF WriteThrough
  <2>3. row'.attempts = row.attempts
        /\ (row'.status = "failed" => row' = row)
    BY <1>1, <2>1, <2>2, Outcomes
  <2>4. row'.status = "failed" /\ row'.next => row.status = "failed" /\ row.next
    BY <2>3
  <2>5. /\ Same(r)
        /\ run'[r] = Idle
        /\ sent' = sent
        /\ grants' = grants
        /\ evicted' = evicted \ {r}
    BY <1>1, <1>15 DEF WriteThrough
  <2> QED
    BY <1>10, <2>3, <2>4, <2>5
<1>16. ASSUME NEW r \in Runners, Crash(r)
       PROVE  Covered'
  <2>1. /\ Same(r)
        /\ run'[r] = Idle
        /\ UNCHANGED <<row, sent, grants>>
        /\ evicted' = evicted \ {r}
    BY <1>1, <1>16 DEF Crash
  <2>2. row'.attempts = row.attempts /\ row'.status = row.status
        /\ row'.next = row.next
    BY <2>1
  <2> QED
    BY <1>10, <2>1, <2>2
(* What leaves the runners alone.                                          *)
<1>17. ASSUME UNCHANGED <<run, sent, grants>>, evicted \subseteq evicted',
              row'.attempts = row.attempts,
              row'.status = "failed" /\ row'.next =>
                row.status = "failed" /\ row.next
       PROVE  Covered'
  <2>1. Spending' = Spending
    BY <1>17, SameCount
  <2>2. \A s \in Drivers' \ evicted' :
          s \in Drivers \ evicted /\ run'[s].attempts = run[s].attempts
    BY <1>17 DEF Drivers
  <2> QED
    BY <1>4, <1>17, <2>1, <2>2
<1>18. CASE ExpireLease
  <2>1. row' = [row EXCEPT !.stale = TRUE]
    BY <1>18 DEF ExpireLease
  <2>2. UNCHANGED <<run, sent, grants, evicted>>
    BY <1>18 DEF ExpireLease, history
  <2> QED
    BY <1>1, <1>17, <2>1, <2>2
<1>19. CASE Outlive
  BY <1>19 DEF Outlive
<1>20. CASE PauseRow \/ Dismiss
  <2>1. /\ UNCHANGED <<run, sent, grants>>
        /\ evicted \subseteq evicted'
        /\ freezing \in Paused \union {"none"}
    BY <1>1, <1>20 DEF PauseRow, Dismiss, Seize, TypeOK
  <2>2. \/ row' = row
        \/ row' = [row EXCEPT !.status = "dismissed", !.stale = FALSE]
        \/ /\ freezing \in Paused
           /\ row' = [row EXCEPT !.status = freezing, !.stale = FALSE]
    BY <1>20, <2>1 DEF PauseRow, Dismiss, Seize
  <2>3. row'.attempts = row.attempts /\ (row'.status = "failed" => row' = row)
    BY <1>1, <2>2 DEF Paused
  <2> QED
    BY <1>17, <2>1, <2>3
<1>21. ASSUME NEW d \in BOOLEAN, Resume(d)
       PROVE  Covered'
  <2>1. UNCHANGED <<run, sent, evicted>>
    BY <1>21 DEF Resume
  <2>2. Spending' = Spending
    BY <2>1, SameCount
  <2>3. row'.attempts = row.attempts
    BY <1>1, <1>21 DEF Resume
  <2>4. \A s \in Drivers' \ evicted' :
          run'[s].attempts = row'.attempts /\ row'.attempts >= 2
    BY <1>3, <2>1, <2>3 DEF Drivers
  <2>5. CASE d
    <3>1. grants' = grants + 1
      BY <1>21, <2>5 DEF Resume
    <3> QED
      BY <1>1, <1>3, <2>2, <2>3, <2>4, <3>1 DEF Covered
  <2>6. CASE ~d
    <3>1. grants' = grants /\ row'.status = "dismissed"
      BY <1>1, <1>21, <2>6 DEF Resume
    <3> QED
      BY <1>1, <1>3, <2>2, <2>3, <2>4, <3>1 DEF Covered
  <2> QED
    BY <2>5, <2>6
<1>22. CASE (\E p \in Paused : Freeze(p)) \/ Unfreeze \/ Toggle \/ ReadToDismiss
            \/ UNCHANGED vars
  <2>1. UNCHANGED <<row, run, sent, grants, evicted>>
    BY <1>22 DEF Freeze, Unfreeze, Toggle, ReadToDismiss, vars, history
  <2>2. row'.attempts = row.attempts /\ row'.status = row.status
        /\ row'.next = row.next
    BY <2>1
  <2> QED
    BY <1>17, <2>1, <2>2
<1>23. ASSUME NEW r \in Runners, Claim(r)
       PROVE  Covered'
  <2>1. row' = [row EXCEPT !.status = "retrying", !.attempts = @ + 1,
                          !.gen = @ + 1, !.stale = FALSE]
    BY <1>23 DEF Claim
  <2>2. PICK p \in {"spent", "claimed"} :
          /\ run' = [run EXCEPT ![r].pc = p, ![r].gen = row'.gen,
                             ![r].attempts = row'.attempts, ![r].cap = row.cap]
          /\ run[r].from = "retrying" /\ row'.attempts > row.cap => p = "spent"
    BY <1>23, Zenon DEF Claim
  <2>3. row'.status = "retrying" /\ row'.attempts = row.attempts + 1
    BY <1>1, <2>1
  <2>4. /\ Same(r)
        /\ run'[r].attempts = row'.attempts
        /\ run'[r].pc = p
        /\ run[r].pc = "picked"
    BY <1>1, <1>23, <2>2 DEF Copies, Claim
  <2>5. UNCHANGED <<sent, evicted>>
    BY <1>23 DEF Claim
  <2>6. Drivers \subseteq evicted
    <3>1. /\ row.status = run[r].from
          /\ run[r].from = "retrying" => row.stale
      BY <1>23 DEF Claim, Claimable
    <3> QED
      BY <3>1 DEF ClaimInv, Claims, OneRunner, StaleIsFree
  <2>7. \A s \in Drivers' \ evicted' :
          run'[s].attempts = row'.attempts /\ row'.attempts >= 2
    <3>1. \A s \in Drivers' \ evicted' : s = r
      BY <2>4, <2>5, <2>6 DEF Drivers
    <3>2. row'.attempts >= 2
      BY <1>1, <1>3, <2>3
    <3> QED
      BY <2>4, <3>1, <3>2
  <2>8. CASE p = "spent"
    <3>1. Spending' = Spending
      BY <2>4, <2>5, <2>8, SameCount
    <3>2. grants' \in {grants, grants + 1}
      BY <1>23 DEF Claim
    <3> QED
      BY <1>1, <1>3, <2>3, <2>7, <3>1, <3>2 DEF Covered
  <2>9. CASE p = "claimed"
    <3>1. Spending' = Spending + 1
      BY <1>1, <2>4, <2>5, <2>9, OneMore
    <3>2. Spending + 1 <= Budget + grants'
      <4>1. CASE run[r].human \/ (run[r].from = "failed" /\ ~row.next)
        <5>1. grants' = grants + 1
          BY <1>23, <4>1 DEF Claim
        <5> QED
          BY <1>1, <1>3, <5>1
      <4>2. CASE ~run[r].human /\ ~(run[r].from = "failed" /\ ~row.next)
        <5>1. grants' = grants
          BY <1>23, <4>2 DEF Claim
        <5>2. run[r].from \in {"failed", "retrying"}
          BY <2>4, <4>2 DEF BudgetInv, CapsFit
        <5>3. CASE run[r].from = "failed"
          <6>1. row.status = "failed" /\ row.next
            BY <1>23, <4>2, <5>3 DEF Claim, Claimable
          <6> QED
            BY <1>1, <1>3, <5>1, <6>1
        <5>4. CASE run[r].from = "retrying"
          <6>1. ~(row'.attempts > row.cap)
            BY <2>2, <2>9, <5>4
          <6> QED
            BY <1>1, <1>3, <2>3, <5>1, <6>1
        <5> QED
          BY <5>2, <5>3, <5>4
      <4> QED
        BY <4>1, <4>2
    <3> QED
      BY <1>1, <1>3, <2>3, <2>7, <3>1, <3>2 DEF Covered
  <2> QED
    BY <2>2, <2>8, <2>9
<1> QED
  BY <1>6, <1>7, <1>8, <1>12, <1>13, <1>14, <1>15, <1>16, <1>18, <1>19, <1>20,
     <1>21, <1>22, <1>23, Steps

LEMMA BudgetInit == Init => BudgetInv
<1> SUFFICES ASSUME Init
             PROVE  BudgetInv
  OBVIOUS
<1>1. /\ sent = {0}
      /\ grants = 0
      /\ run = [r \in Runners |-> Idle]
      /\ row = [status |-> "failed", attempts |-> 1, gen |-> 0, stale |-> FALSE,
                cap |-> CapFor(MaxAttempts, first),
                next |-> first # "config" /\ CapFor(MaxAttempts, first) > 1]
  BY DEF Init
<1>2. Budget \in Nat
  BY Caps, DlqAssumption DEF Budget
<1>3. Budget >= 1
  BY DlqAssumption DEF Budget, CapFor
<1>4. \A r \in Runners : run[r] = Idle
  BY <1>1
<1>5. Pending = {} /\ Drivers = {}
  BY <1>4 DEF Pending, Drivers, Driving, Idle
<1>6. IsFiniteSet(sent) /\ Cardinality(sent) = 1
  BY <1>1, FS_Singleton
<1>7. Cardinality(Pending) = 0
  BY <1>5, FS_EmptySet
<1>8. Spending = 1
  BY <1>6, <1>7 DEF Spending
<1>9. row.attempts = 1 /\ row.cap = Budget /\ (row.next => Budget > 1)
  BY <1>1 DEF Budget
<1>10. CapsFit
  BY <1>2, <1>4, <1>6, <1>9 DEF CapsFit, Idle
<1>11. Covered
  BY <1>1, <1>2, <1>3, <1>5, <1>8, <1>9 DEF Covered
<1> QED
  BY <1>10, <1>11 DEF BudgetInv

(* "A hard attempt cap": as many dispatches as the budget and the grants   *)
(* allow, until the row is released under a runner (the claims of          *)
(* dlq-retry.service.ts:220 and :191, the cap of settle, :395).            *)
THEOREM BudgetsAreKept == Spec => []BudgetIsKept
<1>1. ClaimInv /\ StaysParked /\ BudgetInv /\ [Next]_vars => BudgetInv'
  BY CapsFitStep, CoveredStep DEF BudgetInv
<1>2. ClaimInv /\ BudgetInv => BudgetIsKept
  <2> SUFFICES ASSUME ClaimInv, BudgetInv, ~released
               PROVE  Cardinality(sent) <= Budget + grants
    BY DEF BudgetIsKept, Budget
  <2>1. TypeOK /\ IsFiniteSet(sent) /\ grants \in Nat
    BY DEF ClaimInv, TypeOK, BudgetInv, CapsFit
  <2>2. /\ Cardinality(Pending) \in Nat
        /\ Cardinality(sent) \in Nat
        /\ Budget \in Nat
    BY <2>1, Counts
  <2>3. Cardinality(sent) + Cardinality(Pending) <= Budget + grants
    BY DEF BudgetInv, Covered, Spending
  <2> QED
    BY <2>1, <2>2, <2>3
<1> QED
  BY <1>1, <1>2, BudgetInit, ParkedAlways, PTL DEF Spec
=============================================================================
