---------------------------- MODULE SearchIndex ----------------------------
(***************************************************************************)
(* The search projection: the service search keeps one index document per  *)
(* CRM record, by the events of the record's own service (search-          *)
(* projection.service.ts, search-projection.apply.ts) and by a rebuild     *)
(* from the source collections (reindex, search.service.ts).               *)
(*                                                                         *)
(* A mutation of a record emits one event, and a position in the log is    *)
(* the event's time, which is also the version it carries: one clock, that *)
(* never shows the same time twice.  (The code compares the milliseconds   *)
(* of the envelopes; two events of one millisecond, and replicas whose     *)
(* clocks differ, are not modelled.)  Some events are handled at a time,   *)
(* in any order (retries overtake), and every call to the database is a    *)
(* step.  A field holds the time of the mutation that set it, 0 when it is *)
(* blank; what a mutation sets is taken to be new.                         *)
(***************************************************************************)
EXTENDS Integers, Sequences, FiniteSets

CONSTANTS
  Users,         \* who sends requests to the records' own service
  Records,
  Fields,        \* the whitelisted projection inputs of a record, no owner
  Flat,          \* those also kept as top-level attributes for access control
  Stamped,       \* the kinds of event whose idempotencyKey carries a time
  Runs,          \* the rebuilds started, by an operator or by a first search
  Faults,        \* what may go wrong:
                 \*   "crash"  the process of a handler dies
                 \*   "ledger" a write to the dedup ledger fails, or the one
                 \*            of the watermark after the event is applied
                 \*   "dead"   the retry ladder is exhausted
  Prefetch,      \* how many events are in hand at a time (20)
  MaxMutations   \* bound: the length of the log

Kinds == {"created", "updated", "deleted", "restored", "purged"}

NoRun == "no run"

ASSUME SearchAssumption ==
  /\ Fields # {}
  /\ Flat \subseteq Fields
  /\ Stamped \subseteq Kinds
  /\ Faults \subseteq {"crash", "ledger", "dead"}
  /\ Prefetch \in Nat \ {0}
  /\ MaxMutations \in Nat
  /\ NoRun \notin Runs

VARIABLES
  requests, \* those that have read their record and not yet written it
  source,  \* Records -> the record: where it is, and its fields
  log,     \* the events emitted so far
  phase,   \* events -> where the handling of the event is
  hand,    \* events -> the fields the handler is about to write
  fate,    \* events -> what became of an event that was acked
  dedup,   \* the keys in search_event_dedup
  index,   \* Records -> the index document, version 0 when there is none
  rpc,     \* Runs -> where the rebuild is
  now,     \* Runs -> when it started
  todo,    \* Runs -> rows its cursor has not reached
  rows,    \* Runs -> Records -> fields read and not yet written
  lock,    \* the run in search_index_state
  stale,   \* is the lock older than its TTL?
  calm,    \* runs alone in the system since they started (for a property)
  clean    \* has no fault happened yet? (for the properties)

delivery == <<phase, hand, fate, dedup>>
rebuild == <<rpc, now, todo, rows, lock, stale>>
vars == <<requests, source, log, delivery, index, rebuild, calm, clean>>

Events == 1..Len(log)
Clock == Len(log)
Blank == [f \in Fields |-> 0]
NoDoc == [version |-> 0, live |-> FALSE, fields |-> Blank, erased |-> FALSE,
          run |-> NoRun]

(* The idempotencyKey of an event, as the record's service builds it.      *)
Key(e) == [kind |-> log[e].kind, record |-> log[e].record,
           at |-> IF log[e].kind \in Stamped THEN e ELSE 0]

GoesWrong(f) ==
  /\ f \in Faults
  /\ clean' = FALSE

Init ==
  /\ requests = {}
  /\ source = [r \in Records |-> [state |-> "none", fields |-> Blank]]
  /\ log = <<>>
  /\ phase = <<>> /\ hand = <<>> /\ fate = <<>>
  /\ dedup = {}
  /\ index = [r \in Records |-> NoDoc]
  /\ rpc = [x \in Runs |-> "idle"]
  /\ now = [x \in Runs |-> 0]
  /\ todo = [x \in Runs |-> {}]
  /\ rows = [x \in Runs |-> [r \in Records |-> Blank]]
  /\ lock = NoRun /\ stale = FALSE
  /\ calm = {} /\ clean = TRUE

-----------------------------------------------------------------------------
(* The record's own service: a write of the record and its outbox row, in  *)
(* one transaction.  An event of kind "updated" carries what changed, one  *)
(* of kind "created" everything, the others no field at all.               *)
Mutate(r, kind, to, changed) ==
  /\ source' = [source EXCEPT ![r] =
       [state |-> to,
        fields |-> IF to = "gone" THEN Blank
                   ELSE [f \in Fields |-> IF f \in changed THEN Clock + 1
                                                           ELSE @.fields[f]]]]
  /\ log' = Append(log, [kind |-> kind, record |-> r, changed |-> changed])
  /\ phase' = Append(phase, "queued")
  /\ hand' = Append(hand, Blank)
  /\ fate' = Append(fate, "none")
  /\ calm' = {}
  /\ UNCHANGED <<dedup, index, rebuild, clean>>

(* The bound: a request is taken in if the log has room for its event.     *)
Room == Clock + Cardinality(requests) < MaxMutations

Create(r) ==
  /\ Room
  /\ source[r].state = "none"
  /\ Mutate(r, "created", "live", Fields)
  /\ UNCHANGED requests

(* A request reads the record it is about: update and remove go on if it   *)
(* is alive, restore and purge if it is in the trash.  (One that is        *)
(* refused, or fails before its transaction, leaves no trace.)             *)
Read(u, r) ==
  /\ Room
  /\ \A q \in requests : q.user # u
  /\ source[r].state \in {"live", "trash"}
  /\ requests' = requests \union
       {[user |-> u, record |-> r, state |-> source[r].state]}
  /\ UNCHANGED <<source, log, delivery, index, rebuild, calm, clean>>

(* ... and writes it later by its id alone, whatever has become of it, and *)
(* emits the event whether or not there was a record left to write.        *)
Commit(q, kind, to, changed) ==
  /\ Mutate(q.record, kind,
            IF source[q.record].state = "gone" THEN "gone" ELSE to, changed)
  /\ requests' = requests \ {q}

Update(q) ==
  /\ q.state = "live"
  /\ \E f \in Fields : Commit(q, "updated", source[q.record].state, {f})
Remove(q)  == q.state = "live" /\ Commit(q, "deleted", "trash", {})
Restore(q) == q.state = "trash" /\ Commit(q, "restored", "live", {})
Purge(q)   == q.state = "trash" /\ Commit(q, "purged", "gone", {})

(* The TTL index on purgeAt deletes a record in the trash, with no event.  *)
Expire(r) ==
  /\ source[r].state = "trash"
  /\ source' = [source EXCEPT ![r] = [state |-> "gone", fields |-> Blank]]
  /\ calm' = {}
  /\ UNCHANGED <<requests, log, delivery, index, rebuild, clean>>

-----------------------------------------------------------------------------
(* handle(event): claim the key, apply, ack.                               *)
Proceed(e, p) == phase' = [phase EXCEPT ![e] = p]

Done(e, f) ==
  /\ Proceed(e, "done")
  /\ fate' = [fate EXCEPT ![e] = f]
  /\ hand' = [hand EXCEPT ![e] = Blank]

Requeue(e) ==
  /\ Proceed(e, "queued")
  /\ hand' = [hand EXCEPT ![e] = Blank]

FirstPhase(e) == IF log[e].kind \in {"updated", "restored"} THEN "read" ELSE "write"

Carried(e) == [f \in Fields |-> IF f \in log[e].changed THEN e ELSE 0]

InHand == {e \in Events : phase[e] \in {"read", "check", "write"}}

(* A slip: the key is checked, and written when all is done.               *)
ClaimLater(e) ==
  /\ phase[e] = "queued"
  /\ Cardinality(InHand) < Prefetch
  /\ Key(e) \notin dedup
  /\ Proceed(e, FirstPhase(e))
  /\ hand' = [hand EXCEPT ![e] = Carried(e)]
  /\ UNCHANGED <<requests, source, log, fate, dedup, index, rebuild, calm, clean>>

Claim(e) ==
  /\ phase[e] = "queued"
  /\ Cardinality(InHand) < Prefetch
  /\ Key(e) \notin dedup
  /\ dedup' = dedup \union {Key(e)}
  /\ Proceed(e, FirstPhase(e))
  /\ hand' = [hand EXCEPT ![e] = Carried(e)]
  /\ UNCHANGED <<requests, source, log, fate, index, rebuild, calm, clean>>

(* The insert hits the key: "already processed", acked.  Another delivery  *)
(* of an event that is being handled ends here too, and leaves no trace.   *)
Duplicate(e) ==
  /\ phase[e] = "queued"
  /\ Key(e) \in dedup
  /\ Done(e, "duplicate")
  /\ UNCHANGED <<requests, source, log, dedup, index, rebuild, calm, clean>>

(* The insert fails, and yet the row is in: the retry is a duplicate.      *)
ClaimFails(e) ==
  /\ GoesWrong("ledger")
  /\ phase[e] = "queued"
  /\ dedup' = dedup \union {Key(e)}
  /\ UNCHANGED <<requests, source, log, phase, hand, fate, index, rebuild, calm>>

(* knownFields: a partial event is merged over what the document holds.    *)
ReadFields(e) ==
  LET doc == index[log[e].record] IN
  /\ phase[e] = "read"
  /\ hand' = [hand EXCEPT ![e] =
                [f \in Fields |-> IF @[f] = 0 THEN doc.fields[f] ELSE @[f]]]
  /\ Proceed(e, IF doc.version = 0 THEN "check" ELSE "write")
  /\ UNCHANGED <<requests, source, log, fate, dedup, index, rebuild, calm, clean>>

(* projectUpsert: without an owner in hand no document is inserted.        *)
CheckExists(e) ==
  /\ phase[e] = "check"
  /\ index[log[e].record].version > 0
  /\ Proceed(e, "write")
  /\ UNCHANGED <<requests, source, log, hand, fate, dedup, index, rebuild, calm, clean>>

Orphan(e) ==
  /\ phase[e] = "check"
  /\ index[log[e].record].version = 0
  /\ Done(e, "orphan")
  /\ UNCHANGED <<requests, source, log, dedup, index, rebuild, calm, clean>>

(* A slip: the version guard is lost.                                      *)
UpsertedUnguarded(doc, e) ==
  [doc EXCEPT !.version = e, !.live = TRUE,
              !.fields = IF hand[e] = Blank THEN @ ELSE hand[e]]

(* What the write of an event makes of a document: an upsert or a          *)
(* tombstone if its version is newer, an erasure whatever the version,     *)
(* which unsets a key "abacFields" that no document has: the flat          *)
(* attributes stay.                                                        *)
Upserted(doc, e) ==
  IF doc.version < e
  THEN [doc EXCEPT !.version = e, !.live = TRUE,
                   !.fields = IF hand[e] = Blank THEN @ ELSE hand[e]]
  ELSE doc

Tombstoned(doc, e) ==
  IF doc.version < e THEN [doc EXCEPT !.version = e, !.live = FALSE] ELSE doc

(* A slip: the erasure keeps the version of the last upsert.               *)
ErasedBelow(doc, e) ==
  [doc EXCEPT !.live = FALSE, !.erased = TRUE,
              !.fields = [f \in Fields |-> IF f \in Flat THEN @[f] ELSE 0]]

Erased(doc, e) ==
  [doc EXCEPT !.version = IF @ < e THEN e ELSE @,
              !.live = FALSE, !.erased = TRUE,
              !.fields = [f \in Fields |-> IF f \in Flat THEN @[f] ELSE 0]]

Written(e) ==
  [index EXCEPT ![log[e].record] =
     CASE log[e].kind = "deleted" -> Tombstoned(@, e)
       [] log[e].kind = "purged"  -> Erased(@, e)
       [] OTHER                   -> Upserted(@, e)]

Write(e) ==
  /\ phase[e] = "write"
  /\ index' = Written(e)
  /\ Done(e, "applied")
  /\ UNCHANGED <<requests, source, log, dedup, rebuild, calm, clean>>

(* A call rejects, a write applied or not: the claim is released and the   *)
(* event climbs the retry ladder.  The claim stays if the release fails;   *)
(* it is not released at all if the event is written and recordProcessed   *)
(* is what rejects.                                                        *)
HandlerFails(e) ==
  /\ e \in InHand
  /\ \/ UNCHANGED index
     \/ phase[e] = "write" /\ index' = Written(e)
  /\ \/ dedup' = dedup \ {Key(e)} /\ UNCHANGED clean
     \/ UNCHANGED dedup /\ GoesWrong("ledger")
  /\ Requeue(e)
  /\ UNCHANGED <<requests, source, log, fate, rebuild, calm>>

(* ... or the ladder is exhausted.                                         *)
DeadLetter(e) ==
  /\ GoesWrong("dead")
  /\ e \in InHand
  /\ dedup' = dedup \ {Key(e)}
  /\ Done(e, "dead")
  /\ UNCHANGED <<requests, source, log, index, rebuild, calm>>

(* The process dies; the broker delivers the event again.                  *)
HandlerDies(e) ==
  /\ GoesWrong("crash")
  /\ e \in InHand
  /\ Requeue(e)
  /\ UNCHANGED <<requests, source, log, fate, dedup, index, rebuild, calm>>

-----------------------------------------------------------------------------
(* reindex(projectId): lock, stream the live rows into the index, tombstone *)
(* what the pass has not touched, unlock.                                   *)
RunAt(x, p) == rpc' = [rpc EXCEPT ![x] = p]

Ends(x) ==
  /\ RunAt(x, "end")
  /\ now' = [now EXCEPT ![x] = 0]
  /\ todo' = [todo EXCEPT ![x] = {}]

Active(x) == rpc[x] \in {"scan", "sweep", "swept", "skipped"}

Acquire(x) ==
  /\ rpc[x] = "idle"
  /\ lock = NoRun \/ stale
  /\ lock' = x /\ stale' = FALSE
  /\ now' = [now EXCEPT ![x] = Clock]
  /\ todo' = [todo EXCEPT ![x] = Records]
  /\ RunAt(x, "scan")
  /\ calm' = IF \/ \E e \in Events : phase[e] # "done"
                \/ \E y \in Runs : Active(y)
             THEN {} ELSE {x}
  /\ UNCHANGED <<requests, source, log, delivery, index, rows, clean>>

Refused(x) ==
  /\ rpc[x] = "idle"
  /\ lock # NoRun /\ ~stale
  /\ RunAt(x, "end")
  /\ UNCHANGED <<requests, source, log, delivery, index, now, todo, rows, lock, stale,
                 calm, clean>>

(* The cursor reaches a row, which may have changed since the pass began.  *)
ReadRow(x, r) ==
  /\ rpc[x] = "scan"
  /\ r \in todo[x]
  /\ todo' = [todo EXCEPT ![x] = @ \ {r}]
  /\ rows' = IF source[r].state = "live"
             THEN [rows EXCEPT ![x][r] = source[r].fields] ELSE rows
  /\ UNCHANGED <<requests, source, log, delivery, index, rpc, now, lock, stale, calm,
                 clean>>

(* A slip: the version of the pass is set, not maximised.                  *)
RebuiltAnyVersion(doc, x, r) ==
  [doc EXCEPT !.version = now[x], !.live = TRUE, !.fields = rows[x][r],
              !.run = x]

(* flushIndexBatch, one operation of the bulk: everything but the version  *)
(* is set, whatever version the document has reached.                      *)
Rebuilt(doc, x, r) ==
  [doc EXCEPT !.version = IF @ < now[x] THEN now[x] ELSE @, !.live = TRUE,
              !.fields = rows[x][r], !.run = x]

FlushRow(x, r) ==
  /\ rpc[x] = "scan"
  /\ rows[x][r] # Blank
  /\ index' = [index EXCEPT ![r] = Rebuilt(@, x, r)]
  /\ rows' = [rows EXCEPT ![x][r] = Blank]
  /\ UNCHANGED <<requests, source, log, delivery, rpc, now, todo, lock, stale, calm,
                 clean>>

(* A slip: the lock is prolonged, not verified.                            *)
RenewBlindly(x) ==
  /\ rpc[x] = "scan"
  /\ todo[x] = {} /\ \A r \in Records : rows[x][r] = Blank
  /\ RunAt(x, "sweep") /\ stale' = FALSE
  /\ UNCHANGED <<requests, source, log, delivery, index, now, todo, rows, lock, calm,
                 clean>>

(* renewReindexLock: a pass that lost the lock does not sweep.             *)
Renew(x) ==
  /\ rpc[x] = "scan"
  /\ todo[x] = {} /\ \A r \in Records : rows[x][r] = Blank
  /\ IF lock = x THEN RunAt(x, "sweep") /\ stale' = FALSE
                 ELSE RunAt(x, "skipped") /\ UNCHANGED stale
  /\ UNCHANGED <<requests, source, log, delivery, index, now, todo, rows, lock, calm,
                 clean>>

(* A slip: only documents of an earlier pass are swept.                    *)
SweepStampedOnly(x) ==
  /\ rpc[x] = "sweep"
  /\ index' = [r \in Records |->
                 IF index[r].run \notin {x, NoRun}
                 THEN [index[r] EXCEPT !.live = FALSE] ELSE index[r]]
  /\ RunAt(x, "swept")
  /\ UNCHANGED <<requests, source, log, delivery, now, todo, rows, lock, stale, calm,
                 clean>>

Sweep(x) ==
  /\ rpc[x] = "sweep"
  /\ index' = [r \in Records |->
                 IF index[r].run # x THEN [index[r] EXCEPT !.live = FALSE]
                                     ELSE index[r]]
  /\ RunAt(x, "swept")
  /\ UNCHANGED <<requests, source, log, delivery, now, todo, rows, lock, stale, calm,
                 clean>>

(* The pass is truncated, or one of its calls rejects: no sweep.           *)
Abort(x) ==
  /\ rpc[x] \in {"scan", "sweep"}
  /\ RunAt(x, "skipped")
  /\ rows' = [rows EXCEPT ![x] = [r \in Records |-> Blank]]
  /\ UNCHANGED <<requests, source, log, delivery, index, now, todo, lock, stale, calm,
                 clean>>

(* Only the run's own lock is released; it may have passed to another.     *)
Release(x) ==
  /\ rpc[x] \in {"swept", "skipped"}
  /\ IF lock = x THEN lock' = NoRun /\ stale' = FALSE
                 ELSE UNCHANGED <<lock, stale>>
  /\ Ends(x)
  /\ UNCHANGED <<requests, source, log, delivery, index, rows, calm, clean>>

RunDies(x) ==
  /\ "crash" \in Faults
  /\ Active(x)
  /\ Ends(x)
  /\ rows' = [rows EXCEPT ![x] = [r \in Records |-> Blank]]
  /\ UNCHANGED <<requests, source, log, delivery, index, lock, stale, calm,
                 clean>>

(* The TTL of the lock passes, but not between a renewal and the sweep it  *)
(* is made for.                                                            *)
LockExpires ==
  /\ lock # NoRun /\ ~stale
  /\ rpc[lock] # "sweep"
  /\ stale' = TRUE
  /\ UNCHANGED <<requests, source, log, delivery, index, rpc, now, todo, rows, lock, calm,
                 clean>>

-----------------------------------------------------------------------------
Settle(q) == Update(q) \/ Remove(q) \/ Restore(q) \/ Purge(q)

Domain ==
  \/ \E r \in Records : Create(r) \/ Expire(r) \/ \E u \in Users : Read(u, r)
  \/ \E q \in requests : Settle(q)

Handle(e) ==
  \/ Claim(e) \/ Duplicate(e) \/ ClaimFails(e)
  \/ ReadFields(e) \/ CheckExists(e) \/ Orphan(e) \/ Write(e)
  \/ HandlerFails(e) \/ DeadLetter(e) \/ HandlerDies(e)

Reindex(x) ==
  \/ Acquire(x) \/ Refused(x)
  \/ \E r \in Records : ReadRow(x, r) \/ FlushRow(x, r)
  \/ Renew(x) \/ Sweep(x) \/ Abort(x) \/ Release(x) \/ RunDies(x)

Next ==
  \/ Domain
  \/ \E e \in Events : Handle(e)
  \/ \E x \in Runs : Reindex(x)
  \/ LockExpires

Spec == Init /\ [][Next]_vars

-----------------------------------------------------------------------------
Fates == {"none", "applied", "duplicate", "orphan", "dead"}

Doc == [version : Nat, live : BOOLEAN, fields : [Fields -> Nat],
        erased : BOOLEAN, run : Runs \union {NoRun}]

Requests == [user : Users, record : Records, state : {"live", "trash"}]

(* The types of the variables; an event has a fate when it was acked, and  *)
(* while it is in hand its key is claimed, by it alone (claimDedup).       *)
TypeOK ==
  /\ requests \subseteq Requests
  /\ \A p, q \in requests : p.user = q.user => p = q
  /\ source \in [Records -> [state : {"none", "live", "trash", "gone"},
                              fields : [Fields -> Nat]]]
  /\ log \in Seq([kind : Kinds, record : Records, changed : SUBSET Fields])
  /\ phase \in [Events -> {"queued", "read", "check", "write", "done"}]
  /\ hand \in [Events -> [Fields -> Nat]]
  /\ fate \in [Events -> Fates]
  /\ \A e \in Events : fate[e] = "none" <=> phase[e] # "done"
  /\ \A e \in InHand :
       Key(e) \in dedup /\ \A d \in InHand : Key(d) = Key(e) => d = e
  /\ dedup \subseteq [kind : Kinds, record : Records, at : Nat]
  /\ index \in [Records -> Doc]
  /\ rpc \in [Runs -> {"idle", "scan", "sweep", "swept", "skipped", "end"}]
  /\ now \in [Runs -> Nat]
  /\ todo \in [Runs -> SUBSET Records]
  /\ rows \in [Runs -> [Records -> [Fields -> Nat]]]
  /\ lock \in Runs \union {NoRun}
  /\ stale \in BOOLEAN
  /\ calm \subseteq Runs
  /\ clean \in BOOLEAN

EventsOf(r) == {e \in Events : log[e].record = r}

(* Every event is acked, nothing went wrong, and no rebuild was started.   *)
AtRest ==
  /\ \A e \in Events : phase[e] = "done"
  /\ clean
  /\ \A x \in Runs : rpc[x] = "idle"

(* Where the write of an event of this kind leaves a record it finds.      *)
After(kind) ==
  CASE kind = "deleted" -> "trash"
    [] kind = "purged"  -> "gone"
    [] OTHER            -> "live"

(* The last event of a record tells where it is.  It does not if its       *)
(* request read a record that another one wrote before it committed, nor   *)
(* of a record the TTL has deleted.                                        *)
LastEventTells(r) ==
  \A e \in EventsOf(r) :
    (\A d \in EventsOf(r) : d <= e) => source[r].state = After(log[e].kind)

(* Out of order and concurrently as they are handled, after whatever       *)
(* crashes and retries, once the events of a record are all applied its    *)
(* document is findable exactly when the record is alive, erased exactly   *)
(* when it is gone, and has the version of the last event: the version     *)
(* guards of projectUpsert and indexDelete, the $max of indexPurge.  If    *)
(* the last event tells of another state than the record's, no consumer    *)
(* can know better, and the document does not agree; nor is anything said  *)
(* of it after a first rebuild, which writes past the guards.              *)
AgreesAtRest ==
  (\A x \in Runs : rpc[x] = "idle") =>
    \A r \in Records :
      /\ LastEventTells(r)
      /\ \A e \in EventsOf(r) : fate[e] = "applied"
      => /\ index[r].live <=> source[r].state = "live"
         /\ index[r].erased <=> source[r].state = "gone"
         /\ \A e \in EventsOf(r) : e <= index[r].version

(* No straggler of the events before a purge brings an erased record or    *)
(* its texts back: indexPurge keeps a marker with the version of the purge *)
(* for this.  An event emitted after the purge does, that of a request     *)
(* which had read the record before; and so does a rebuild.                *)
PurgedStaysErased ==
  \A r \in Records :
    index[r].erased /\ index[r].run = NoRun =>
      \/ /\ ~index[r].live
         /\ \A f \in Fields \ Flat : index[r].fields[f] = 0
      \/ \E p \in EventsOf(r) : log[p].kind = "purged" /\ p < index[r].version

(* "crm.<entity>.deleted -> tombstone": a deleted record is not findable   *)
(* once its events are handled.  The second deletion of a record has the   *)
(* key of the first, and is taken for its duplicate; and a request that    *)
(* read the record before the deletion emits an event after it.            *)
DeletedIsNotFindable ==
  AtRest => \A r \in Records : source[r].state = "trash" => ~index[r].live

(* No pass sweeps unless it holds the lock, so that two never sweep what   *)
(* the other one has just written (TODO-491).                              *)
OneSweeper == \A x \in Runs : rpc[x] = "sweep" => lock = x

(* A pass that had the system to itself and swept leaves an index that     *)
(* agrees with the source, whatever was lost before: dead letters, claims  *)
(* that outlived a crash, events taken for duplicates.                     *)
ReindexRepairs ==
  \A x \in calm :
    rpc[x] = "swept" =>
      \A r \in Records :
        /\ index[r].live <=> source[r].state = "live"
        /\ index[r].live => index[r].fields = source[r].fields

(* The version of a document never decreases, by events that overtake one  *)
(* another or by a pass that began before them.                            *)
VersionsGrow ==
  [][\A r \in Records : index[r].version <= index'[r].version]_vars
=============================================================================
