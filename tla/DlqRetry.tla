------------------------------ MODULE DlqRetry ------------------------------
(***************************************************************************)
(* One row of automation's dead-letter collection and all that write it    *)
(* (automation/src/automation): the sweeps of the replicas and the manual  *)
(* RetryDlq, which share one path of claim, gate, dispatch and settlement  *)
(* (dlq-retry.service.ts, dlq-retry.policy.ts), and the operator's         *)
(* dismissal, the freeze of a module or project and its resumption         *)
(* (automation.service.ts).                                                *)
(*                                                                         *)
(* Every write is conditional on the row's status alone.  A claim is a     *)
(* lease: its stamp updated_at is modelled by stale, TRUE once the lease   *)
(* has run out.  Of next_retry_at only whether a retry is scheduled is     *)
(* kept (next); when it falls due is left to chance.                       *)
(***************************************************************************)
EXTENDS Naturals, FiniteSets

CONSTANTS
  Runners,       \* sweeps and calls of RetryDlq that are in progress
  MaxAttempts,   \* AUTOMATION_DLQ_MAX_ATTEMPTS
  AmbiguousCap,  \* AUTOMATION_DLQ_AMBIGUOUS_MAX_ATTEMPTS
  MaxGen,        \* bound: no sweep starts on a row of this generation
  MaxChanges,    \* bound: interventions of operators and of control
  MaxMishaps     \* bound: crashes, failing reads, outlived leases

ASSUME DlqAssumption ==
  /\ IsFiniteSet(Runners)
  /\ MaxAttempts \in Nat \ {0}
  /\ AmbiguousCap \in Nat \ {0}
  /\ MaxGen \in Nat
  /\ MaxChanges \in Nat
  /\ MaxMishaps \in Nat

VARIABLES
  row,         \* the row
  rule,        \* its rule: the enabled flag, state frozen; the module's gate
  freezing,    \* the status a FreezeRules call has yet to park rows as
  dismissing,  \* a DismissDlq call has read the row and has yet to write it
  run,         \* Runners -> what a runner is at, and its copy of the row
  changes,     \* interventions so far
  mishaps,     \* mishaps so far
  first,       \* how the first delivery failed
  sent,        \* the generations that were dispatched
  grants,      \* what entitles to a dispatch beyond the budget, so far
  evicted,     \* the runners whose claim was taken from them
  released,    \* the row was made claimable under a runner at work
  lost         \* the generations whose success was written nowhere

history == <<first, sent, grants, evicted, released, lost>>

vars == <<row, rule, freezing, dismissing, run, changes, mishaps, history>>

Paused == {"paused_module_disabled", "paused_project_archived"}

Statuses == {"failed", "retrying", "exhausted", "resolved", "dismissed"}
            \union Paused

Closed == {"resolved", "dismissed"}

(* refused: a retryable failure that surely did not happen; ambiguous: one *)
(* of an external effect that may have; config: not worth another attempt. *)
Failures == {"refused", "ambiguous", "config"}

Results == Failures \union {"success"}

Idle == [pc |-> "idle", from |-> "none", human |-> FALSE, gen |-> 0,
         attempts |-> 0, cap |-> 0, result |-> "none"]

(* The runners that hold a claim they have not settled.                    *)
Driving == {"claimed", "spent", "wanted", "sending"}

Drivers == {r \in Runners : run[r].pc \in Driving}

(* attemptCapFor: doubt narrows the budget.                                *)
CapFor(cap, result) ==
  IF result = "ambiguous" /\ AmbiguousCap < cap THEN AmbiguousCap ELSE cap

(* toDlq: the dispatcher has recorded a failed action.                     *)
Init ==
  /\ first \in Failures
  /\ row = [status |-> "failed", attempts |-> 1, gen |-> 0, stale |-> FALSE,
            cap |-> CapFor(MaxAttempts, first),
            next |-> first # "config" /\ CapFor(MaxAttempts, first) > 1]
  /\ rule = [enabled |-> TRUE, frozen |-> FALSE, shut |-> FALSE]
  /\ freezing = "none"
  /\ dismissing = FALSE
  /\ run = [r \in Runners |-> Idle]
  /\ changes = 0
  /\ mishaps = 0
  /\ sent = {0}
  /\ grants = 0
  /\ evicted = {}
  /\ released = FALSE
  /\ lost = {}

Mishap == mishaps < MaxMishaps /\ mishaps' = mishaps + 1

Change == changes < MaxChanges /\ changes' = changes + 1

-----------------------------------------------------------------------------
(* A row is picked from a list that was read, and claimed later.           *)
Pick(r, human) ==
  /\ run[r] = Idle
  /\ run' = [run EXCEPT ![r].pc = "picked", ![r].from = row.status,
                        ![r].human = human]

(* sweep: what is due, of which there is a list at a time.                 *)
ScanDue(r) ==
  /\ row.status = "failed"
  /\ row.next
  /\ row.gen < MaxGen
  /\ Pick(r, FALSE)
  /\ UNCHANGED <<row, rule, freezing, dismissing, changes, mishaps, history>>

(* A slip: the condition on next_retry_at is kept for the stuck rows.      *)
ScanStuckDue(r) ==
  /\ row.status = "retrying"
  /\ row.stale
  /\ row.next
  /\ Pick(r, FALSE)
  /\ UNCHANGED <<row, rule, freezing, dismissing, changes, mishaps, history>>

(* reclaimStuck: rows whose lease has run out.                             *)
ScanStuck(r) ==
  /\ row.status = "retrying"
  /\ row.stale
  /\ Pick(r, FALSE)
  /\ UNCHANGED <<row, rule, freezing, dismissing, changes, mishaps, history>>

(* RetryDlq: the guards on the status it reads.                            *)
Ask(r) ==
  /\ row.status \in {"failed", "exhausted"}
  /\ Pick(r, TRUE)
  /\ Change
  /\ UNCHANGED <<row, rule, freezing, dismissing, mishaps, history>>

(* A slip: a reclaim does not check the lease again.                       *)
ClaimableByStatus(r) == row.status = run[r].from

(* The filter of the claim: the status that was read and, of a reclaim,    *)
(* the expired lease.                                                      *)
Claimable(r) ==
  /\ row.status = run[r].from
  /\ run[r].from = "retrying" => row.stale

(* A slip: a reclaim is taken for the same delivery, and keeps its         *)
(* generation.                                                             *)
ClaimAgain(r) ==
  /\ run[r].pc = "picked"
  /\ Claimable(r)
  /\ row' = [row EXCEPT !.status = "retrying", !.attempts = @ + 1,
                        !.gen = IF run[r].from = "retrying" THEN @ ELSE @ + 1,
                        !.stale = FALSE]
  /\ run' = [run EXCEPT ![r].pc =
                 IF run[r].from = "retrying" /\ row'.attempts > row.cap
                 THEN "spent" ELSE "claimed",
               ![r].gen = row'.gen, ![r].attempts = row'.attempts,
               ![r].cap = row.cap]
  /\ grants' = IF run[r].human \/ (run[r].from = "failed" /\ ~row.next)
               THEN grants + 1 ELSE grants
  /\ UNCHANGED <<rule, freezing, dismissing, changes, mishaps, first, sent,
                 evicted, released, lost>>

(* A reclaim whose budget is spent is not dispatched; the other claims do  *)
(* not look at the budget.                                                 *)
Claim(r) ==
  /\ run[r].pc = "picked"
  /\ Claimable(r)
  /\ row' = [row EXCEPT !.status = "retrying", !.attempts = @ + 1,
                        !.gen = @ + 1, !.stale = FALSE]
  /\ run' = [run EXCEPT ![r].pc =
                 IF run[r].from = "retrying" /\ row'.attempts > row.cap
                 THEN "spent" ELSE "claimed",
               ![r].gen = row'.gen, ![r].attempts = row'.attempts,
               ![r].cap = row.cap]
  /\ grants' = IF run[r].human \/ (run[r].from = "failed" /\ ~row.next)
               THEN grants + 1 ELSE grants
  /\ UNCHANGED <<rule, freezing, dismissing, changes, mishaps, first, sent,
                 evicted, released, lost>>

(* The claim finds the row in another state, or the module's gate is shut; *)
(* it answers from a cache and fails open, so a claim does not wait for    *)
(* it.                                                                     *)
PassOver(r) ==
  /\ run[r].pc = "picked"
  /\ ~Claimable(r) \/ (~run[r].human /\ rule.shut)
  /\ run' = [run EXCEPT ![r] = Idle]
  /\ UNCHANGED <<row, rule, freezing, dismissing, changes, mishaps, history>>

-----------------------------------------------------------------------------
(* The row is written where it is still 'retrying', whoever made it so: if *)
(* another runner did, that one's claim is gone.                           *)
WriteBack(r, new) ==
  /\ row' = IF row.status = "retrying" THEN new ELSE row
  /\ run' = [run EXCEPT ![r] = Idle]
  /\ evicted' = (IF row.status = "retrying" THEN evicted \union Drivers
                 ELSE evicted) \ {r}
  /\ UNCHANGED <<rule, freezing, dismissing, changes, first, sent, grants,
                 released, lost>>

(* park: the attempt is given back, counted from what was claimed.         *)
Park(r, again) ==
  WriteBack(r, [row EXCEPT !.status = "failed", !.next = again,
                           !.attempts = IF run[r].attempts > 1
                                        THEN run[r].attempts - 1 ELSE 1])

(* ruleGate: read after the claim and before the dispatch.                 *)
Wanted(r) ==
  /\ run[r].pc = "claimed"
  /\ rule.enabled /\ ~rule.frozen
  /\ run' = [run EXCEPT ![r].pc = "wanted"]
  /\ UNCHANGED <<row, rule, freezing, dismissing, changes, mishaps, history>>

Gone(r) ==
  /\ run[r].pc = "claimed"
  /\ ~rule.enabled
  /\ Park(r, FALSE)
  /\ UNCHANGED mishaps

Unknown(r) ==
  /\ run[r].pc = "claimed"
  /\ IF rule.enabled /\ rule.frozen THEN UNCHANGED mishaps ELSE Mishap
  /\ Park(r, TRUE)

(* dispatchOne under the claimed generation.                               *)
Dispatch(r) ==
  /\ run[r].pc = "wanted"
  /\ run' = [run EXCEPT ![r].pc = "sending"]
  /\ sent' = sent \union {run[r].gen}
  /\ UNCHANGED <<row, rule, freezing, dismissing, changes, mishaps, first,
                 grants, evicted, released, lost>>

(* A slip: off by one in the comparison with the cap.                      *)
OutcomeOneMore(r, result) ==
  LET cap == CapFor(run[r].cap, result)
      more == run[r].attempts <= cap
  IN  [row EXCEPT
        !.status = IF result = "success" THEN "resolved"
                   ELSE IF result = "config" \/ more THEN "failed"
                   ELSE "exhausted",
        !.next = result \in {"refused", "ambiguous"} /\ more,
        !.cap = cap]

(* What settle makes of a result.                                          *)
Outcome(r, result) ==
  LET cap == CapFor(run[r].cap, result)
      more == run[r].attempts < cap
  IN  [row EXCEPT
        !.status = IF result = "success" THEN "resolved"
                   ELSE IF result = "config" \/ more THEN "failed"
                   ELSE "exhausted",
        !.next = result \in {"refused", "ambiguous"} /\ more,
        !.cap = cap]

(* A slip: the outcome is written by the row's id alone.                   *)
SettleById(r, result) ==
  /\ run[r].pc = "sending"
  /\ row' = Outcome(r, result)
  /\ run' = [run EXCEPT ![r] = Idle]
  /\ evicted' = (IF row.status = "retrying" THEN evicted \union Drivers
                 ELSE evicted) \ {r}
  /\ UNCHANGED <<rule, freezing, dismissing, changes, mishaps, first, sent,
                 grants, released, lost>>

Settle(r, result) ==
  /\ run[r].pc = "sending"
  /\ row.status = "retrying"
  /\ WriteBack(r, Outcome(r, result))
  /\ UNCHANGED mishaps

(* The row has left 'retrying' under the dispatch; a second write follows. *)
Miss(r, result) ==
  /\ run[r].pc = "sending"
  /\ row.status # "retrying"
  /\ run' = [run EXCEPT ![r].pc = "missed", ![r].result = result]
  /\ UNCHANGED <<row, rule, freezing, dismissing, changes, mishaps, history>>

(* The success of a runner that ends here and leaves the row open is lost. *)
LostIf(success, r) ==
  lost' = IF success /\ row'.status \notin Closed THEN lost \union {run[r].gen}
                                                  ELSE lost

(* A slip: an outcome that finds the row parked is dropped.                *)
DropOutcome(r) ==
  /\ run[r].pc = "missed"
  /\ UNCHANGED row
  /\ LostIf(run[r].result = "success", r)
  /\ run' = [run EXCEPT ![r] = Idle]
  /\ evicted' = evicted \ {r}
  /\ UNCHANGED <<rule, freezing, dismissing, changes, mishaps, first, sent,
                 grants, released>>

(* On a parked row a success is written whole, a failure only noted.       *)
WriteThrough(r) ==
  /\ run[r].pc = "missed"
  /\ row' = IF row.status \in Paused /\ run[r].result = "success"
            THEN Outcome(r, "success") ELSE row
  /\ LostIf(run[r].result = "success", r)
  /\ run' = [run EXCEPT ![r] = Idle]
  /\ evicted' = evicted \ {r}
  /\ UNCHANGED <<rule, freezing, dismissing, changes, mishaps, first, sent,
                 grants, released>>

Abandon(r) ==
  /\ run[r].pc = "spent"
  /\ WriteBack(r, [row EXCEPT !.status = "exhausted", !.next = FALSE])
  /\ UNCHANGED mishaps

-----------------------------------------------------------------------------
(* The runner has dispatched and has yet to write a success: the one it    *)
(* has in hand, or the one that the answer may be.                         *)
OwesSuccess(r) ==
  \/ run[r].pc = "sending"
  \/ run[r].pc = "missed" /\ run[r].result = "success"

(* The process dies, or a write or a read of the store throws, the second  *)
(* write of settle included: the sweep logs it and goes on, the row stays  *)
(* as it is, and a success that was to be written is lost.                 *)
Crash(r) ==
  /\ run[r] # Idle
  /\ Mishap
  /\ run' = [run EXCEPT ![r] = Idle]
  /\ evicted' = evicted \ {r}
  /\ UNCHANGED row
  /\ LostIf(OwesSuccess(r), r)
  /\ UNCHANGED <<rule, freezing, dismissing, changes, first, sent, grants,
                 released>>

Owners == {r \in Drivers : run[r].gen = row.gen}

(* The lease is longer than any dispatch: it runs out on a dead runner.    *)
ExpireLease ==
  /\ row.status = "retrying"
  /\ ~row.stale
  /\ Owners = {}
  /\ row' = [row EXCEPT !.stale = TRUE]
  /\ UNCHANGED <<rule, freezing, dismissing, run, changes, mishaps, history>>

(* ... unless the process is held up for as long as that.                  *)
Outlive ==
  /\ row.status = "retrying"
  /\ ~row.stale
  /\ Owners # {}
  /\ Mishap
  /\ row' = [row EXCEPT !.stale = TRUE]
  /\ evicted' = evicted \union Owners
  /\ released' = TRUE
  /\ UNCHANGED <<rule, freezing, dismissing, run, changes, first, sent, grants,
                 lost>>

-----------------------------------------------------------------------------
(* What others do to the row takes the claim from who drives it.           *)
Seize(new) ==
  /\ row' = new
  /\ evicted' = IF row.status = "retrying" THEN evicted \union Drivers
                ELSE evicted

(* Control suspends the module or archives the project and calls           *)
(* freezeRules: the rules first, then the rows.                            *)
Freeze(status) ==
  /\ freezing = "none"
  /\ Change
  /\ rule' = [rule EXCEPT !.frozen = TRUE, !.shut = TRUE]
  /\ freezing' = status
  /\ UNCHANGED <<row, dismissing, run, mishaps, history>>

(* A slip: the row's status becomes the reason of the freeze.              *)
PauseAsReason ==
  /\ freezing # "none"
  /\ freezing' = "none"
  /\ Seize(IF row.status \in {"retrying", "failed"}
           THEN [row EXCEPT !.status = "module_disabled"] ELSE row)
  /\ UNCHANGED <<rule, dismissing, run, changes, mishaps, first, sent, grants,
                 released, lost>>

PauseRow ==
  /\ freezing # "none"
  /\ freezing' = "none"
  /\ Seize(IF row.status \in {"retrying", "failed"}
           THEN [row EXCEPT !.status = freezing, !.stale = FALSE] ELSE row)
  /\ UNCHANGED <<rule, dismissing, run, changes, mishaps, first, sent, grants,
                 released, lost>>

Unfreeze ==
  /\ rule.shut
  /\ Change
  /\ rule' = [rule EXCEPT !.frozen = FALSE, !.shut = FALSE]
  /\ UNCHANGED <<row, freezing, dismissing, run, mishaps, history>>

(* resumePausedDlq: rows that an archived project parked are not resumed.  *)
Resume(deliver) ==
  /\ row.status = "paused_module_disabled"
  /\ Change
  /\ row' = IF deliver THEN [row EXCEPT !.status = "failed", !.next = TRUE]
            ELSE [row EXCEPT !.status = "dismissed"]
  /\ grants' = IF deliver THEN grants + 1 ELSE grants
  /\ released' = (released \/ (deliver /\ \E r \in Runners :
                                 run[r].pc \in Driving \union {"missed"}))
  /\ UNCHANGED <<rule, freezing, dismissing, run, mishaps, first, sent,
                 evicted, lost>>

(* setRuleEnabled refuses a rule that it reads as frozen and writes later: *)
(* a call that read before the freeze lifts it.                            *)
Toggle ==
  /\ Change
  /\ rule' = [rule EXCEPT !.enabled = ~@, !.frozen = FALSE]
  /\ UNCHANGED <<row, freezing, dismissing, run, mishaps, history>>

(* dismissDlq: it checks what it reads and writes without a condition.     *)
ReadToDismiss ==
  /\ ~dismissing
  /\ row.status # "resolved"
  /\ Change
  /\ dismissing' = TRUE
  /\ UNCHANGED <<row, rule, freezing, run, mishaps, history>>

Dismiss ==
  /\ dismissing
  /\ dismissing' = FALSE
  /\ Seize([row EXCEPT !.status = "dismissed", !.stale = FALSE])
  /\ UNCHANGED <<rule, freezing, run, changes, mishaps, first, sent, grants,
                 released, lost>>

-----------------------------------------------------------------------------
Sweep(r) == ScanDue(r) \/ ScanStuck(r)

Work(r) ==
  \/ Claim(r)
  \/ PassOver(r)
  \/ Wanted(r)
  \/ Gone(r)
  \/ Unknown(r)
  \/ Dispatch(r)
  \/ \E result \in Results : Settle(r, result) \/ Miss(r, result)
  \/ WriteThrough(r)
  \/ Abandon(r)

Operators ==
  \/ \E status \in Paused : Freeze(status)
  \/ PauseRow
  \/ Unfreeze
  \/ \E deliver \in BOOLEAN : Resume(deliver)
  \/ Toggle
  \/ ReadToDismiss
  \/ Dismiss

Next ==
  \/ \E r \in Runners : Ask(r) \/ Sweep(r) \/ Work(r) \/ Crash(r)
  \/ ExpireLease
  \/ Outlive
  \/ Operators

Spec == Init /\ [][Next]_vars

(* The timer of every replica goes on, a runner that does not die goes on, *)
(* and time passes.  Nothing is assumed of operators.                      *)
FairSpec ==
  Spec /\ (\A r \in Runners : WF_vars(Sweep(r) \/ Work(r)))
       /\ WF_vars(ExpireLease)

-----------------------------------------------------------------------------
Copies == [pc : {"idle", "picked", "missed"} \union Driving,
           from : Statuses \union {"none"}, human : BOOLEAN, gen : Nat,
           attempts : Nat, cap : Nat, result : Results \union {"none"}]

(* The shape of the state.                                                 *)
TypeOK ==
  /\ row \in [status : Statuses, attempts : Nat, gen : Nat, stale : BOOLEAN,
              cap : Nat, next : BOOLEAN]
  /\ rule \in [enabled : BOOLEAN, frozen : BOOLEAN, shut : BOOLEAN]
  /\ freezing \in Paused \union {"none"}
  /\ dismissing \in BOOLEAN
  /\ run \in [Runners -> Copies]
  /\ changes \in Nat
  /\ mishaps \in Nat
  /\ first \in Failures
  /\ sent \subseteq Nat
  /\ grants \in Nat
  /\ evicted \subseteq Drivers \union {r \in Runners : run[r].pc = "missed"}
  /\ released \in BOOLEAN
  /\ lost \subseteq Nat

(* "Exactly-one runner per row" (dlq-retry.service.ts:39): who drives the  *)
(* row holds its current claim, or was evicted: outlived its lease, or had *)
(* the row frozen, dismissed or settled under it.  So two that were not    *)
(* evicted never drive it together.                                        *)
OneRunner ==
  \A r \in Drivers \ evicted : row.status = "retrying" /\ run[r].gen = row.gen

(* "A crash between claim and dispatch can never re-use a spent            *)
(* generation" (dlq-retry.service.ts:213): every dispatch goes out under a *)
(* generation of its own, also those of evicted runners.                   *)
RetryIsNew ==
  [][\A r \in Runners : Dispatch(r) => run[r].gen \notin sent]_vars

(* "A hard attempt cap", "a lease expiry can never mint attempts for free" *)
(* (dlq-retry.service.ts:46, :167), and a doubtful first delivery is       *)
(* repeated once: there are no more dispatches than the budget allows,     *)
(* save one for every manual retry, every resumption and every claim from  *)
(* a list that was out of date; as long as no runner was left at work on a *)
(* released row, whose count of attempts it may set back.                  *)
BudgetIsKept ==
  ~released => Cardinality(sent) <= CapFor(MaxAttempts, first) + grants

(* Dropping a success "would be worse than losing a log line"              *)
(* (dlq-retry.service.ts:433).  Whatever is done to the row under the      *)
(* dispatch, a success is lost in two ways only: its own runner fails      *)
(* after the dispatch and before one of the two writes of settle is in     *)
(* (dlq-retry.service.ts:425, :440), or the row was made claimable again,  *)
(* by a resumption or an expired lease, under a runner.                    *)
SuccessIsKept ==
  [][lost' # lost =>
       released \/ \E r \in Runners : Crash(r) /\ OwesSuccess(r)]_vars

(* No late outcome, no freeze and no sweep reopens what was resolved or    *)
(* dismissed; only a dismissal that read it earlier overwrites a           *)
(* resolution.                                                             *)
ClosedIsFinal ==
  [][/\ row.status = "dismissed" => row'.status = "dismissed"
     /\ row.status = "resolved" =>
          \/ row'.status = "resolved"
          \/ dismissing /\ row'.status = "dismissed"]_vars

(* "retrying always resolves" (dlq-retry.service.ts:54), whoever dies,     *)
(* unless the module is suspended.                                         *)
RetryingResolves ==
  row.status = "retrying" ~> row.status # "retrying" \/ rule.shut
=============================================================================
