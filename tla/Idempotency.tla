---------------------------- MODULE Idempotency ----------------------------
(***************************************************************************)
(* The mutation ledger (shared/src/idempotency.ts withIdempotency) for one *)
(* {projectId, key}: several calls with the same key, retries of a client  *)
(* or redeliveries of an event, in one process or in several.              *)
(*                                                                         *)
(* A call claims the key by inserting a pending row under a unique index.  *)
(* The one that inserted it runs the executor and completes the row with   *)
(* the result; the others poll the row.  Every database call is a step of  *)
(* its own.  A run of the executor that applied the mutation is numbered,  *)
(* and its number stands for its result.                                   *)
(***************************************************************************)
EXTENDS Integers

CONSTANTS
  Callers,   \* the calls made with the key
  MaxPolls,  \* waitAttempts + 1 reads of a pending row
  Faults     \* what may go wrong:
             \*   "late"   an executor throws after its mutation was applied
             \*   "ledger" a write to the ledger is refused or times out
             \*   "crash"  the process of a call dies
             \*   "ttl"    the TTL index reaps the row while calls are made

ASSUME LedgerAssumption ==
  /\ MaxPolls \in Nat \ {0}
  /\ Faults \subseteq {"late", "ledger", "crash", "ttl"}

VARIABLES
  row,      \* the ledger row: its status, "none" when there is no row
  stored,   \* the result in the row (0: none)
  applied,  \* how many times the mutation has been applied
  pc,       \* Callers -> where the call is
  polls,    \* Callers -> reads of the row so far
  result,   \* Callers -> the result in hand
  outcome,  \* Callers -> how the call ended
  mishaps   \* the faults that have happened (for the properties)

ledger == <<row, stored>>
vars == <<row, stored, applied, pc, polls, result, outcome, mishaps>>

GoesWrong(f) ==
  /\ f \in Faults
  /\ mishaps' = mishaps \union {f}

Goto(c, l) == pc' = [pc EXCEPT ![c] = l]

Return(c, o) ==
  /\ Goto(c, "end")
  /\ outcome' = [outcome EXCEPT ![c] = o]

Init ==
  /\ row = "none" /\ stored = 0
  /\ applied = 0
  /\ pc = [c \in Callers |-> "claim"]
  /\ polls = [c \in Callers |-> 0]
  /\ result = [c \in Callers |-> 0]
  /\ outcome = [c \in Callers |-> "none"]
  /\ mishaps = {}

-----------------------------------------------------------------------------
(* A slip: look first, insert after - here, an insert that is no claim.    *)
ClaimWithoutIndex(c) ==
  /\ pc[c] = "claim"
  /\ row' = "pending" /\ stored' = 0
  /\ Goto(c, "execute")
  /\ UNCHANGED <<applied, polls, result, outcome, mishaps>>

(* insertOne of the pending row succeeds ...                               *)
Claim(c) ==
  /\ pc[c] = "claim"
  /\ row = "none"
  /\ row' = "pending" /\ stored' = 0
  /\ Goto(c, "execute")
  /\ UNCHANGED <<applied, polls, result, outcome, mishaps>>

(* ... or hits the unique index ...                                        *)
ClaimIsTaken(c) ==
  /\ pc[c] = "claim"
  /\ row # "none"
  /\ Goto(c, "poll")
  /\ UNCHANGED <<ledger, applied, polls, result, outcome, mishaps>>

(* ... or fails otherwise: the error is the caller's, the row may be in.   *)
ClaimFails(c) ==
  /\ GoesWrong("ledger")
  /\ pc[c] = "claim"
  /\ \/ row = "none" /\ row' = "pending" /\ stored' = 0
     \/ UNCHANGED ledger
  /\ Return(c, "error")
  /\ UNCHANGED <<applied, polls, result>>

ExecutorSucceeds(c) ==
  /\ pc[c] = "execute"
  /\ applied' = applied + 1
  /\ result' = [result EXCEPT ![c] = applied + 1]
  /\ Goto(c, "complete")
  /\ UNCHANGED <<ledger, polls, outcome, mishaps>>

(* The executor throws: a refusal of the domain ("rejected") or a failure  *)
(* of the infrastructure ("error"), which a late one always is.            *)
ExecutorFails(c) ==
  /\ pc[c] = "execute"
  /\ \E why \in {"rejected", "error"} :
       /\ outcome' = [outcome EXCEPT ![c] = why]
       /\ \/ UNCHANGED <<applied, mishaps>>
          \/ /\ GoesWrong("late") /\ why = "error"
             /\ applied' = applied + 1
  /\ Goto(c, "release")
  /\ UNCHANGED <<ledger, polls, result>>

(* updateOne to done: without the row it matches nothing, and says so to   *)
(* nobody.                                                                 *)
Complete(c) ==
  /\ pc[c] = "complete"
  /\ IF row = "none" THEN UNCHANGED ledger
                     ELSE row' = "done" /\ stored' = result[c]
  /\ Return(c, "ok")
  /\ UNCHANGED <<applied, polls, result, mishaps>>

(* updateOne rejects, applied or not; the catch releases the claim.        *)
CompleteFails(c) ==
  /\ GoesWrong("ledger")
  /\ pc[c] = "complete"
  /\ \/ row # "none" /\ row' = "done" /\ stored' = result[c]
     \/ UNCHANGED ledger
  /\ outcome' = [outcome EXCEPT ![c] = "error"]
  /\ Goto(c, "release")
  /\ UNCHANGED <<applied, polls, result>>

(* A slip: the failed claim is not released.                               *)
ReleaseForgotten(c) ==
  /\ pc[c] = "release"
  /\ Goto(c, "end")
  /\ UNCHANGED <<ledger, applied, polls, result, outcome, mishaps>>

(* deleteOne, whose own failure is swallowed; then the error is rethrown.  *)
Release(c) ==
  /\ pc[c] = "release"
  /\ \/ row' = "none" /\ stored' = 0 /\ UNCHANGED mishaps
     \/ GoesWrong("ledger") /\ UNCHANGED ledger
  /\ Goto(c, "end")
  /\ UNCHANGED <<applied, polls, result, outcome>>

(* A slip: a pending row is answered as if it were done.                   *)
PollAnswersPending(c) ==
  /\ pc[c] = "poll"
  /\ row # "none"
  /\ result' = [result EXCEPT ![c] = stored]
  /\ Return(c, "ok")
  /\ UNCHANGED <<ledger, applied, polls, mishaps>>

(* awaitExistingResult: a done row is replayed ...                         *)
Replay(c) ==
  /\ pc[c] = "poll"
  /\ row = "done"
  /\ result' = [result EXCEPT ![c] = stored]
  /\ Return(c, "ok")
  /\ UNCHANGED <<ledger, applied, polls, mishaps>>

(* A slip: one read more than the budget.                                  *)
PollOnceTooOften(c) ==
  /\ pc[c] = "poll"
  /\ row = "pending"
  /\ polls[c] < MaxPolls
  /\ polls' = [polls EXCEPT ![c] = @ + 1]
  /\ UNCHANGED <<ledger, applied, pc, result, outcome, mishaps>>

(* ... a pending one is read again, MaxPolls times ...                     *)
PollAgain(c) ==
  /\ pc[c] = "poll"
  /\ row = "pending"
  /\ polls[c] + 1 < MaxPolls
  /\ polls' = [polls EXCEPT ![c] = @ + 1]
  /\ UNCHANGED <<ledger, applied, pc, result, outcome, mishaps>>

(* A slip: who gives up cleans up, a claim that is not its own.            *)
GiveUpReleases(c) ==
  /\ pc[c] = "poll"
  /\ row = "none" \/ polls[c] + 1 >= MaxPolls
  /\ row' = "none" /\ stored' = 0
  /\ Return(c, "busy")
  /\ UNCHANGED <<applied, polls, result, mishaps>>

(* ... and then, or when the row went, the answer is                    *)
(* FAILED_PRECONDITION, "already being processed".                         *)
GiveUp(c) ==
  /\ pc[c] = "poll"
  /\ \/ row = "none"
     \/ row = "pending" /\ polls[c] + 1 >= MaxPolls
  /\ Return(c, "busy")
  /\ UNCHANGED <<ledger, applied, polls, result, mishaps>>

(* The process of the call dies; what it wrote stays.                      *)
Crash(c) ==
  /\ GoesWrong("crash")
  /\ pc[c] # "end"
  /\ Return(c, "crashed")
  /\ UNCHANGED <<ledger, applied, polls, result>>

(* The TTL index on createdAt removes the row, whatever its status.        *)
Expire ==
  /\ GoesWrong("ttl")
  /\ row # "none"
  /\ row' = "none" /\ stored' = 0
  /\ UNCHANGED <<applied, pc, polls, result, outcome>>

-----------------------------------------------------------------------------
Work(c) ==
  \/ Claim(c) \/ ClaimIsTaken(c) \/ ClaimFails(c)
  \/ ExecutorSucceeds(c) \/ ExecutorFails(c)
  \/ Complete(c) \/ CompleteFails(c) \/ Release(c)
  \/ Replay(c) \/ PollAgain(c) \/ GiveUp(c)

Call(c) == Work(c) \/ Crash(c)

Next == Expire \/ \E c \in Callers : Call(c)

Spec == Init /\ [][Next]_vars

-----------------------------------------------------------------------------
(* The types of the variables; a call that is over has an outcome, and one *)
(* that has a successful outcome has a result in hand.                     *)
TypeOK ==
  /\ row \in {"none", "pending", "done"}
  /\ stored \in Nat
  /\ applied \in Nat
  /\ pc \in [Callers -> {"claim", "execute", "complete", "release", "poll", "end"}]
  /\ polls \in [Callers -> 0..(MaxPolls - 1)]
  /\ result \in [Callers -> Nat]
  /\ outcome \in [Callers -> {"none", "ok", "busy", "rejected", "error", "crashed"}]
  /\ mishaps \subseteq Faults
  /\ \A c \in Callers : pc[c] = "end" => outcome[c] # "none"

Owners == {c \in Callers : pc[c] \in {"execute", "complete", "release"}}

(* One call at a time owns the key: nobody runs the executor while another *)
(* call runs it or is still writing down or taking back what came of it.   *)
OneOwner ==
  "ttl" \notin mishaps => \A c, d \in Owners : c = d

CleanSoFar == mishaps \subseteq {"crash"}

(* "At-most-once per {projectId, operation, key}", as long as what fails   *)
(* is the executor, before it applied anything, or the whole process.      *)
AtMostOnce ==
  CleanSoFar => applied <= 1

(* A successful answer is the result of a run that applied the mutation,   *)
(* and while the row lives every successful answer is the same.            *)
AnswersAgree ==
  /\ \A c \in Callers : outcome[c] = "ok" => result[c] \in 1..applied
  /\ CleanSoFar =>
       \A c, d \in Callers :
         outcome[c] = "ok" /\ outcome[d] = "ok" => result[c] = result[d]

(* A claim is not left pending: the call that made it completes it or      *)
(* takes it back, as long as its process lives and the ledger can be       *)
(* written.  (A claim that a dead process left waits for the TTL index.)   *)
ClaimIsSettled ==
  row = "pending" ~> row # "pending" \/ mishaps \intersect {"crash", "ledger"} # {}
=============================================================================
