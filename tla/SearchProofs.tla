--------------------------- MODULE SearchProofs ----------------------------
(***************************************************************************)
(* Proofs about the search index, for any records, fields, rebuilds,       *)
(* faults, idempotency keys and limits.                                    *)
(***************************************************************************)
EXTENDS SearchIndex, SequenceTheorems, TLAPS

Event == [kind : Kinds, record : Records, changed : SUBSET Fields]

Phases == {"queued", "read", "check", "write", "done"}

(* Each variable's type, and the exclusiveness of claims, by a name.       *)
RequestType ==
  /\ requests \subseteq Requests
  /\ \A p, q \in requests : p.user = q.user => p = q
SourceType ==
  source \in [Records -> [state : {"none", "live", "trash", "gone"},
                          fields : [Fields -> Nat]]]
LogType == log \in Seq(Event)
HandlerType ==
  /\ phase \in [Events -> Phases]
  /\ hand \in [Events -> [Fields -> Nat]]
  /\ fate \in [Events -> Fates]
FateType == \A e \in Events : fate[e] = "none" <=> phase[e] # "done"
ClaimType ==
  \A e \in InHand :
    Key(e) \in dedup /\ \A d \in InHand : Key(d) = Key(e) => d = e
DedupType == dedup \subseteq [kind : Kinds, record : Records, at : Nat]
IndexType == index \in [Records -> Doc]
RunType ==
  /\ rpc \in [Runs -> {"idle", "scan", "sweep", "swept", "skipped", "end"}]
  /\ now \in [Runs -> Nat]
  /\ todo \in [Runs -> SUBSET Records]
  /\ rows \in [Runs -> [Records -> [Fields -> Nat]]]
LockType == lock \in Runs \union {NoRun} /\ stale \in BOOLEAN
RestType == calm \subseteq Runs /\ clean \in BOOLEAN

Parts ==
  /\ RequestType
  /\ SourceType /\ LogType /\ HandlerType /\ FateType /\ ClaimType
  /\ DedupType /\ IndexType /\ RunType /\ LockType /\ RestType

LEMMA TypeParts == (TypeOK <=> Parts) /\ (TypeOK' <=> Parts')
BY DEF TypeOK, Parts, RequestType, SourceType, LogType, HandlerType, FateType, ClaimType,
       DedupType, IndexType, RunType, LockType, RestType, Event, Phases

(* A sequence of length n, read as a function, grows by one element.       *)
LEMMA AppendFunction ==
  ASSUME NEW S, NEW n \in Nat, NEW f \in [1..n -> S], NEW v \in S
  PROVE  /\ Append(f, v) \in [1..(n + 1) -> S]
         /\ \A i \in 1..n : Append(f, v)[i] = f[i]
         /\ Append(f, v)[n + 1] = v
<1>1. f \in Seq(S) /\ Len(f) = n
  OBVIOUS
<1>2. /\ Append(f, v) \in Seq(S) /\ Len(Append(f, v)) = n + 1
      /\ \A i \in 1..n : Append(f, v)[i] = f[i]
      /\ Append(f, v)[n + 1] = v
  BY <1>1, AppendProperties
<1>3. QED
  BY <1>2, LenProperties

LEMMA BlankType == Blank \in [Fields -> Nat]
BY DEF Blank

LEMMA InitTypeOK == Init => TypeOK
<1> SUFFICES ASSUME Init PROVE TypeOK
  OBVIOUS
<1>1. Events = {}
  BY DEF Init, Events
<1>2. NoDoc \in Doc
  BY BlankType DEF NoDoc, Doc
<1>3. SourceType /\ IndexType /\ RunType
  BY <1>2, BlankType DEF Init, SourceType, IndexType, RunType
<1>4. LogType /\ HandlerType /\ FateType /\ ClaimType
  BY <1>1 DEF Init, LogType, HandlerType, FateType, ClaimType, InHand
<1>5. RequestType /\ DedupType /\ LockType /\ RestType
  BY DEF Init, RequestType, DedupType, LockType, RestType
<1>6. QED
  BY <1>3, <1>4, <1>5, TypeParts DEF Parts

(* What a mutation of a record leaves of the events before it.             *)
LEMMA MutateFrame ==
  ASSUME TypeOK, NEW r \in Records, NEW kind \in Kinds, NEW to,
         NEW changed \in SUBSET Fields, Mutate(r, kind, to, changed)
  PROVE  /\ Len(log) \in Nat
         /\ log' \in Seq(Event) /\ Len(log') = Len(log) + 1
         /\ Events' = Events \union {Len(log) + 1}
         /\ \A e \in Events : log'[e] = log[e]
         /\ log'[Len(log) + 1] = [kind |-> kind, record |-> r, changed |-> changed]
         /\ phase' \in [Events' -> Phases]
         /\ hand' \in [Events' -> [Fields -> Nat]]
         /\ fate' \in [Events' -> Fates]
         /\ \A e \in Events : phase'[e] = phase[e] /\ fate'[e] = fate[e]
         /\ phase'[Len(log) + 1] = "queued" /\ fate'[Len(log) + 1] = "none"
<1> DEFINE new == [kind |-> kind, record |-> r, changed |-> changed]
           n == Len(log)
<1>1. log \in Seq(Event) /\ n \in Nat /\ new \in Event
  BY TypeParts DEF Parts, LogType, Event
<1>2. log' = Append(log, new)
  BY DEF Mutate
<1>3. /\ log' \in Seq(Event) /\ Len(log') = n + 1
      /\ \A e \in 1..n : log'[e] = log[e]
      /\ log'[n + 1] = new
  BY <1>1, <1>2
<1>4. Events' = 1..(n + 1) /\ Events = 1..n
  BY <1>3 DEF Events
<1>5. /\ phase \in [1..n -> Phases] /\ hand \in [1..n -> [Fields -> Nat]]
      /\ fate \in [1..n -> Fates]
  BY <1>4, TypeParts DEF Parts, HandlerType
<1>6. /\ phase' = Append(phase, "queued") /\ hand' = Append(hand, Blank)
      /\ fate' = Append(fate, "none")
  BY DEF Mutate
<1>7. "queued" \in Phases /\ "none" \in Fates
  BY DEF Phases, Fates
<1> HIDE DEF n, new
<1>8. \A v \in Phases :
        /\ Append(phase, v) \in [1..(n + 1) -> Phases]
        /\ \A i \in 1..n : Append(phase, v)[i] = phase[i]
        /\ Append(phase, v)[n + 1] = v
  <2> TAKE v \in Phases
  <2>1. Append(phase, v) \in [1..(n + 1) -> Phases]
    BY <1>1, <1>5, AppendFunction
  <2>2. \A i \in 1..n : Append(phase, v)[i] = phase[i]
    BY <1>1, <1>5, AppendFunction
  <2>3. Append(phase, v)[n + 1] = v
    BY <1>1, <1>5, AppendFunction
  <2>4. QED
    BY <2>1, <2>2, <2>3
<1>9. \A v \in Fates :
        /\ Append(fate, v) \in [1..(n + 1) -> Fates]
        /\ \A i \in 1..n : Append(fate, v)[i] = fate[i]
        /\ Append(fate, v)[n + 1] = v
  <2> TAKE v \in Fates
  <2>1. Append(fate, v) \in [1..(n + 1) -> Fates]
    BY <1>1, <1>5, AppendFunction
  <2>2. \A i \in 1..n : Append(fate, v)[i] = fate[i]
    BY <1>1, <1>5, AppendFunction
  <2>3. Append(fate, v)[n + 1] = v
    BY <1>1, <1>5, AppendFunction
  <2>4. QED
    BY <2>1, <2>2, <2>3
<1>10. Append(hand, Blank) \in [1..(n + 1) -> [Fields -> Nat]]
  BY <1>1, <1>5, BlankType, AppendFunction
<1>11. 1..(n + 1) = (1..n) \union {n + 1}
  BY <1>1
<1>12. QED
  BY <1>1, <1>3, <1>4, <1>6, <1>7, <1>8, <1>9, <1>10, <1>11
     DEF n, new

LEMMA MutateTypeOK ==
  ASSUME TypeOK, NEW r \in Records, NEW kind \in Kinds,
         NEW to \in {"none", "live", "trash", "gone"},
         NEW changed \in SUBSET Fields, Mutate(r, kind, to, changed),
         RequestType'
  PROVE  TypeOK'
<1>1. SourceType'
  <2>1. Clock + 1 \in Nat
    BY MutateFrame DEF Clock
  <2>2. source \in [Records -> [state : {"none", "live", "trash", "gone"},
                                fields : [Fields -> Nat]]]
    BY TypeParts DEF Parts, SourceType
  <2>3. QED
    BY <2>1, <2>2, BlankType DEF Mutate, SourceType
<1>2. LogType' /\ HandlerType'
  BY MutateFrame DEF LogType, HandlerType
<1>3. FateType'
  <2>1. SUFFICES ASSUME NEW e \in Events'
                 PROVE  fate'[e] = "none" <=> phase'[e] # "done"
    BY DEF FateType
  <2>2. CASE e \in Events
    <3>1. fate'[e] = fate[e] /\ phase'[e] = phase[e]
      BY <2>2, MutateFrame
    <3>2. QED
      BY <2>2, <3>1, TypeParts DEF Parts, FateType
  <2>3. CASE e = Len(log) + 1
    BY <2>3, MutateFrame
  <2>4. Events' = Events \union {Len(log) + 1}
    BY MutateFrame
  <2>5. QED
    BY <2>1, <2>2, <2>3, <2>4, Zenon
<1>4. InHand' = InHand /\ \A e \in InHand : Key(e)' = Key(e)
  BY MutateFrame DEF InHand, Key
<1>5. ClaimType'
  BY <1>4, TypeParts DEF Parts, ClaimType, Mutate
<1>6. DedupType' /\ IndexType' /\ RunType' /\ LockType' /\ RestType'
  BY TypeParts DEF Parts, Mutate, rebuild, DedupType, IndexType, RunType, LockType,
                   RestType
<1>7. QED
  BY <1>1, <1>2, <1>3, <1>5, <1>6, TypeParts DEF Parts

(* Every mutation emits the event of its kind and leaves the record where  *)
(* a write of this kind leaves it; one that is gone stays gone.            *)
Left(r, kind) ==
  IF source[r].state = "gone" THEN "gone"
  ELSE IF kind = "updated" THEN source[r].state
  ELSE After(kind)

Mutates(r, kind) ==
  \E changed \in SUBSET Fields :
    /\ Mutate(r, kind, Left(r, kind), changed)
    /\ \/ kind = "created" /\ source[r].state = "none" /\ changed = Fields
          /\ UNCHANGED requests
       \/ \E q \in requests :
            /\ q.record = r /\ requests' = requests \ {q}
            /\ kind # "created" /\ (kind = "updated" => q.state = "live")

LEMMA DomainSteps ==
  ASSUME TypeOK, Domain
  PROVE  \/ \E r \in Records, kind \in Kinds : Mutates(r, kind)
         \/ \E r \in Records : Expire(r)
         \/ \E u \in Users, r \in Records : Read(u, r)
<1> USE DEF Kinds, After, Left
<1>1. CASE \E r \in Records : Create(r)
  BY <1>1 DEF Create, Mutates
<1>2. ASSUME NEW q \in requests, Settle(q)
      PROVE  \E r \in Records, kind \in Kinds : Mutates(r, kind)
  <2>1. q.record \in Records
    BY TypeParts DEF Parts, RequestType, Requests
  <2>2. CASE Update(q)
    <3>1. PICK f \in Fields :
            Commit(q, "updated", source[q.record].state, {f})
      BY <2>2 DEF Update
    <3>2. Mutate(q.record, "updated", Left(q.record, "updated"), {f})
          /\ requests' = requests \ {q} /\ q.state = "live"
      BY <2>2, <3>1 DEF Update, Commit
    <3>3. Mutates(q.record, "updated")
      BY <3>2 DEF Mutates
    <3> QED
      BY <2>1, <3>3
  <2>3. CASE Remove(q)
    <3>1. Mutates(q.record, "deleted")
      BY <2>3 DEF Remove, Commit, Mutates
    <3> QED
      BY <2>1, <3>1
  <2>4. CASE Restore(q)
    <3>1. Mutates(q.record, "restored")
      BY <2>4 DEF Restore, Commit, Mutates
    <3> QED
      BY <2>1, <3>1
  <2>5. CASE Purge(q)
    <3>1. Mutates(q.record, "purged")
      BY <2>5 DEF Purge, Commit, Mutates
    <3> QED
      BY <2>1, <3>1
  <2> QED
    BY <1>2, <2>2, <2>3, <2>4, <2>5 DEF Settle
<1> QED
  BY <1>1, <1>2 DEF Domain

(* What the record's service leaves to others.                             *)
LEMMA DomainFrame ==
  ASSUME Domain
  PROVE  /\ UNCHANGED <<dedup, index, rebuild, clean>>
         /\ calm' = {} \/ UNCHANGED <<source, log, delivery, calm>>
<1>1. CASE \E r \in Records : Create(r)
  BY <1>1 DEF Create, Mutate
<1>2. CASE \E r \in Records : Expire(r) \/ \E u \in Users : Read(u, r)
  BY <1>2 DEF Expire, Read, delivery
<1>3. ASSUME NEW q \in requests, Settle(q)
      PROVE  UNCHANGED <<dedup, index, rebuild, clean>> /\ calm' = {}
  <2>1. PICK kind, to, changed : Commit(q, kind, to, changed)
    BY <1>3 DEF Settle, Update, Remove, Restore, Purge
  <2> QED
    BY <2>1 DEF Commit, Mutate
<1> QED
  BY <1>1, <1>2, <1>3 DEF Domain

LEMMA LeftType ==
  ASSUME TypeOK, NEW r \in Records, NEW kind
  PROVE  Left(r, kind) \in {"none", "live", "trash", "gone"}
BY TypeParts DEF Parts, SourceType, Left, After

LEMMA DomainTypeOK ==
  ASSUME TypeOK, Domain
  PROVE  TypeOK'
<1>1. RequestType
  BY TypeParts DEF Parts
<1>2. ASSUME NEW r \in Records, NEW kind \in Kinds, Mutates(r, kind)
      PROVE  TypeOK'
  <2>1. RequestType'
    BY <1>1, <1>2 DEF Mutates, RequestType
  <2>2. PICK changed \in SUBSET Fields : Mutate(r, kind, Left(r, kind), changed)
    BY <1>2 DEF Mutates
  <2> QED
    BY <2>1, <2>2, LeftType, MutateTypeOK
<1>3. ASSUME NEW r \in Records, Expire(r) \/ \E u \in Users : Read(u, r)
      PROVE  TypeOK'
  <2>1. /\ UNCHANGED <<log, delivery, index, rebuild, clean>>
        /\ calm' \in {{}, calm}
    BY <1>3 DEF Expire, Read
  <2>2. Events' = Events /\ InHand' = InHand /\ \A e : Key(e)' = Key(e)
    BY <2>1 DEF delivery, Events, InHand, Key
  <2>3. RequestType'
    BY <1>1, <1>3 DEF Expire, Read, RequestType, Requests
  <2>4. SourceType'
    <3>1. CASE Expire(r)
      <4>1. source' = [source EXCEPT ![r] = [state |-> "gone", fields |-> Blank]]
        BY <3>1 DEF Expire
      <4> QED
        BY <4>1, BlankType, TypeParts DEF Parts, SourceType
    <3>2. CASE \E u \in Users : Read(u, r)
      BY <3>2, TypeParts DEF Parts, Read, SourceType
    <3> QED
      BY <1>3, <3>1, <3>2
  <2>5. /\ LogType' /\ HandlerType' /\ FateType' /\ ClaimType' /\ DedupType'
        /\ IndexType' /\ RunType' /\ LockType' /\ RestType'
    BY <2>1, <2>2, TypeParts
       DEF Parts, delivery, rebuild, LogType, HandlerType, FateType, ClaimType,
           DedupType, IndexType, RunType, LockType, RestType
  <2> QED
    BY <2>3, <2>4, <2>5, TypeParts DEF Parts
<1> QED
  BY <1>2, <1>3, DomainSteps

(* What is known of an event of the log.                                   *)
LEMMA EventType ==
  ASSUME TypeOK, NEW e \in Events
  PROVE  /\ e \in Nat
         /\ log[e] \in Event /\ log[e].record \in Records
         /\ log[e].kind \in Kinds
         /\ Key(e) \in [kind : Kinds, record : Records, at : Nat]
         /\ hand[e] \in [Fields -> Nat]
         /\ index[log[e].record] \in Doc
<1>1. log \in Seq(Event) /\ Len(log) \in Nat
  BY TypeParts DEF Parts, LogType
<1>2. e \in Nat /\ log[e] \in Event
  BY <1>1 DEF Events
<1>3. log[e].record \in Records /\ log[e].kind \in Kinds
  BY <1>2 DEF Event
<1>4. Key(e) \in [kind : Kinds, record : Records, at : Nat]
  BY <1>2, <1>3 DEF Key
<1>5. hand[e] \in [Fields -> Nat] /\ index[log[e].record] \in Doc
  BY <1>3, TypeParts DEF Parts, HandlerType, IndexType
<1>6. QED
  BY <1>2, <1>3, <1>4, <1>5

LEMMA WrittenType ==
  ASSUME TypeOK, NEW e \in Events
  PROVE  Written(e) \in [Records -> Doc]
<1> DEFINE doc == index[log[e].record]
<1>1. /\ e \in Nat /\ hand[e] \in [Fields -> Nat] /\ log[e].record \in Records
      /\ doc \in [version : Nat, live : BOOLEAN, fields : [Fields -> Nat],
                  erased : BOOLEAN, run : Runs \union {NoRun}]
  BY EventType DEF Doc
<1> HIDE DEF doc
<1>2. Upserted(doc, e) \in Doc
  BY <1>1 DEF Upserted, Doc
<1>3. Tombstoned(doc, e) \in Doc
  BY <1>1 DEF Tombstoned, Doc
<1>4. Erased(doc, e) \in Doc
  <2>1. [f \in Fields |-> IF f \in Flat THEN doc.fields[f] ELSE 0]
          \in [Fields -> Nat]
    BY <1>1
  <2>2. (IF doc.version < e THEN e ELSE doc.version) \in Nat
    BY <1>1
  <2>3. QED
    BY <1>1, <2>1, <2>2 DEF Erased, Doc
<1>5. index \in [Records -> Doc]
  BY TypeParts DEF Parts, IndexType
<1>6. QED
  BY <1>1, <1>2, <1>3, <1>4, <1>5 DEF Written, doc

(* A step of the handler of one event.                                     *)
LEMMA HandleTypeOK ==
  ASSUME TypeOK, NEW e \in Events, Handle(e)
  PROVE  TypeOK'
<1> USE DEF Parts
<1>1. log' = log /\ Events' = Events /\ \A d \in Events : Key(d)' = Key(d)
  BY DEF Handle, Claim, Duplicate, ClaimFails, ReadFields, CheckExists, Orphan,
         Write, HandlerFails, DeadLetter, HandlerDies, Events, Key
<1>2. RequestType' /\ SourceType' /\ LogType' /\ RunType' /\ LockType' /\ RestType'
  <2>1. UNCHANGED <<requests, source, log, rebuild, calm>> /\ clean' \in {clean, FALSE}
    BY DEF Handle, Claim, Duplicate, ClaimFails, ReadFields, CheckExists, Orphan,
           Write, HandlerFails, DeadLetter, HandlerDies, GoesWrong
  <2>2. QED
    BY <2>1, TypeParts DEF rebuild, RequestType, SourceType, LogType, RunType, LockType,
                           RestType
<1>3. IndexType'
  <2>1. UNCHANGED index \/ index' = Written(e)
    BY DEF Handle, Claim, Duplicate, ClaimFails, ReadFields, CheckExists, Orphan,
           Write, HandlerFails, DeadLetter, HandlerDies
  <2>2. QED
    BY <2>1, TypeParts, WrittenType DEF IndexType
<1>4. DedupType'
  <2>1. dedup' \subseteq dedup \union {Key(e)}
    BY DEF Handle, Claim, Duplicate, ClaimFails, ReadFields, CheckExists, Orphan,
           Write, HandlerFails, DeadLetter, HandlerDies
  <2>2. QED
    BY <2>1, TypeParts, EventType DEF DedupType
<1>5. HandlerType'
  <2>1. hand' = [hand EXCEPT ![e] = hand'[e]] /\ hand'[e] \in [Fields -> Nat]
    <3>1. Carried(e) \in [Fields -> Nat]
      BY EventType DEF Carried
    <3>2. [f \in Fields |-> IF hand[e][f] = 0 THEN index[log[e].record].fields[f]
                                             ELSE hand[e][f]] \in [Fields -> Nat]
      BY EventType DEF Doc
    <3>3. hand \in [Events -> [Fields -> Nat]]
      BY TypeParts DEF HandlerType
    <3>4. QED
      BY <3>1, <3>2, <3>3, BlankType
      DEF Handle, Claim, Duplicate, ClaimFails, ReadFields, CheckExists, Orphan,
          Write, HandlerFails, DeadLetter, HandlerDies, Done, Requeue
  <2>2. phase' = [phase EXCEPT ![e] = phase'[e]] /\ phase'[e] \in Phases
    <3>1. FirstPhase(e) \in Phases
      BY DEF FirstPhase, Phases
    <3>2. phase \in [Events -> Phases]
      BY TypeParts DEF HandlerType
    <3>3. QED
      BY <3>1, <3>2
      DEF Handle, Claim, Duplicate, ClaimFails, ReadFields, CheckExists, Orphan,
          Write, HandlerFails, DeadLetter, HandlerDies, Done, Requeue, Proceed,
          Phases
  <2>3. fate' \in [Events -> Fates]
    <3>1. fate \in [Events -> Fates]
      BY TypeParts DEF HandlerType
    <3>2. QED
      BY <3>1
      DEF Handle, Claim, Duplicate, ClaimFails, ReadFields, CheckExists, Orphan,
          Write, HandlerFails, DeadLetter, HandlerDies, Done, Requeue, Fates
  <2>4. QED
    BY <1>1, <2>1, <2>2, <2>3, TypeParts DEF HandlerType
<1>6. FateType'
  <2>1. /\ fate \in [Events -> Fates] /\ phase \in [Events -> Phases]
        /\ \A d \in Events : fate[d] = "none" <=> phase[d] # "done"
    BY TypeParts DEF HandlerType, FateType
  <2>2. CASE \E f \in Fates \ {"none"} : Done(e, f)
    <3>1. PICK f \in Fates \ {"none"} : Done(e, f)
      BY <2>2
    <3>2. QED
      BY <1>1, <2>1, <3>1 DEF FateType, Done, Proceed
  <2>3. CASE /\ UNCHANGED fate
             /\ \/ UNCHANGED phase
                \/ /\ phase[e] # "done"
                   /\ \E p \in Phases \ {"done"} : Proceed(e, p)
    BY <1>1, <2>1, <2>3 DEF FateType, Proceed
  <2>4. (\E f \in Fates \ {"none"} : Done(e, f))
        \/ /\ UNCHANGED fate
           /\ \/ UNCHANGED phase
              \/ /\ phase[e] # "done"
                 /\ \E p \in Phases \ {"done"} : Proceed(e, p)
    BY DEF Handle, Claim, Duplicate, ClaimFails, ReadFields, CheckExists, Orphan,
           Write, HandlerFails, DeadLetter, HandlerDies, Requeue, Fates, Phases,
           FirstPhase, InHand
  <2>5. QED
    BY <2>2, <2>3, <2>4
<1>7. ClaimType'
  <2>1. /\ phase \in [Events -> Phases]
        /\ \A c \in InHand :
             Key(c) \in dedup /\ \A d \in InHand : Key(d) = Key(c) => d = c
    BY TypeParts DEF HandlerType, ClaimType
  <2>2. InHand \subseteq Events
    BY DEF InHand
  <2>3. CASE InHand' \subseteq InHand /\ dedup \subseteq dedup'
    BY <1>1, <2>1, <2>2, <2>3 DEF ClaimType
  <2>4. CASE InHand' \subseteq InHand \ {e} /\ e \in InHand
             /\ dedup \ {Key(e)} \subseteq dedup'
    BY <1>1, <2>1, <2>2, <2>4 DEF ClaimType
  <2>5. CASE Claim(e)
    <3>1. Key(e) \notin dedup /\ dedup' = dedup \union {Key(e)}
      BY <2>5 DEF Claim
    <3>2. InHand' \subseteq InHand \union {e}
      BY <1>1, <2>1, <2>5 DEF Claim, Proceed, InHand
    <3>3. QED
      BY <1>1, <2>1, <2>2, <3>1, <3>2 DEF ClaimType
  <2>6. CASE Duplicate(e) \/ ClaimFails(e)
    <3>1. InHand' \subseteq InHand
      BY <1>1, <2>1, <2>6 DEF Duplicate, ClaimFails, Done, Proceed, InHand
    <3>2. QED
      BY <2>3, <2>6, <3>1 DEF Duplicate, ClaimFails
  <2>7. CASE ReadFields(e) \/ CheckExists(e)
    <3>1. InHand' \subseteq InHand
      BY <1>1, <2>1, <2>7 DEF ReadFields, CheckExists, Proceed, InHand
    <3>2. QED
      BY <2>3, <2>7, <3>1 DEF ReadFields, CheckExists
  <2>8. CASE Orphan(e) \/ Write(e) \/ HandlerDies(e)
    <3>1. InHand' \subseteq InHand
      BY <1>1, <2>1, <2>8 DEF Orphan, Write, HandlerDies, Done, Requeue, Proceed,
                              InHand
    <3>2. QED
      BY <2>3, <2>8, <3>1 DEF Orphan, Write, HandlerDies
  <2>9. CASE HandlerFails(e) \/ DeadLetter(e)
    <3>1. InHand' \subseteq InHand \ {e} /\ e \in InHand
      BY <1>1, <2>1, <2>9 DEF HandlerFails, DeadLetter, Done, Requeue, Proceed,
                              InHand
    <3>2. QED
      BY <2>4, <2>9, <3>1 DEF HandlerFails, DeadLetter
  <2>10. QED
    BY <2>5, <2>6, <2>7, <2>8, <2>9 DEF Handle
<1>8. QED
  BY <1>2, <1>3, <1>4, <1>5, <1>6, <1>7, TypeParts

(* A step of a rebuild, or the passing of a lock's time.                   *)
LEMMA ReindexTypeOK ==
  ASSUME TypeOK, (\E x \in Runs : Reindex(x)) \/ LockExpires
  PROVE  TypeOK'
<1> USE DEF Parts
<1>1. /\ UNCHANGED <<requests, source, log, delivery, clean>>
      /\ Events' = Events /\ InHand' = InHand /\ \A d \in Events : Key(d)' = Key(d)
  BY DEF Reindex, Acquire, Refused, ReadRow, FlushRow, Renew, Sweep, Abort,
         Release, RunDies, LockExpires, Events, InHand, Key, delivery
<1>2. /\ RequestType' /\ SourceType' /\ LogType' /\ HandlerType' /\ FateType'
      /\ DedupType'
  BY <1>1, TypeParts DEF delivery, RequestType, SourceType, LogType, HandlerType, FateType,
                         DedupType
<1>3. ClaimType'
  <2>1. InHand \subseteq Events
    BY DEF InHand
  <2>2. QED
    BY <1>1, <2>1, TypeParts DEF delivery, ClaimType
<1>4. IndexType' /\ RunType' /\ LockType' /\ RestType'
  <2>1. CASE LockExpires
    BY <2>1, TypeParts DEF LockExpires, IndexType, RunType, LockType, RestType
  <2>2. ASSUME NEW x \in Runs, Reindex(x)
        PROVE  IndexType' /\ RunType' /\ LockType' /\ RestType'
    <3> USE DEF IndexType, RunType, LockType, RestType, RunAt, Ends
    <3>1. CASE Acquire(x)
      <4>1. Clock \in Nat
        BY TypeParts DEF LogType, Clock
      <4>2. QED
        BY <3>1, <4>1, TypeParts DEF Acquire
    <3>2. CASE Refused(x)
      BY <3>2, TypeParts DEF Refused
    <3>3. ASSUME NEW r \in Records, ReadRow(x, r)
          PROVE  IndexType' /\ RunType' /\ LockType' /\ RestType'
      <4>1. source[r].fields \in [Fields -> Nat]
        BY TypeParts DEF SourceType
      <4>2. QED
        BY <3>3, <4>1, TypeParts DEF ReadRow
    <3>4. ASSUME NEW r \in Records, FlushRow(x, r)
          PROVE  IndexType' /\ RunType' /\ LockType' /\ RestType'
      <4>1. index' \in [Records -> Doc]
        <5>1. /\ rows[x][r] \in [Fields -> Nat] /\ now[x] \in Nat
              /\ index \in [Records -> Doc]
          BY TypeParts
        <5>2. (IF index[r].version < now[x] THEN now[x] ELSE index[r].version)
                \in Nat
          BY <5>1 DEF Doc
        <5>3. index[r] \in Doc
          BY <5>1
        <5>4. Rebuilt(index[r], x, r) \in Doc
          BY <5>1, <5>2, <5>3 DEF Rebuilt, Doc
        <5>5. QED
          BY <3>4, <5>1, <5>4 DEF FlushRow
      <4>2. QED
        BY <3>4, <4>1, BlankType, TypeParts DEF FlushRow
    <3>5. CASE Sweep(x)
      <4>1. index' \in [Records -> Doc]
        <5>1. index \in [Records -> Doc]
          BY TypeParts
        <5>2. QED
          BY <3>5, <5>1 DEF Sweep, Doc
      <4>2. QED
        BY <3>5, <4>1, TypeParts DEF Sweep
    <3>6. CASE Abort(x) \/ RunDies(x)
      <4>1. [r \in Records |-> Blank] \in [Records -> [Fields -> Nat]]
        BY BlankType
      <4>2. rows' = [rows EXCEPT ![x] = [r \in Records |-> Blank]]
        BY <3>6 DEF Abort, RunDies
      <4>3. rows' \in [Runs -> [Records -> [Fields -> Nat]]]
        BY <4>1, <4>2, TypeParts
      <4>4. CASE Abort(x)
        BY <4>3, <4>4, TypeParts DEF Abort
      <4>5. CASE RunDies(x)
        BY <4>3, <4>5, TypeParts DEF RunDies
      <4>6. QED
        BY <3>6, <4>4, <4>5
    <3>7. CASE Renew(x)
      BY <3>7, TypeParts DEF Renew
    <3>8. CASE Release(x)
      BY <3>8, TypeParts DEF Release
    <3>9. QED
      BY <2>2, <3>1, <3>2, <3>3, <3>4, <3>5, <3>6, <3>7, <3>8 DEF Reindex
  <2>3. QED
    BY <2>1, <2>2
<1>5. QED
  BY <1>2, <1>3, <1>4, TypeParts

LEMMA NextTypeOK == TypeOK /\ [Next]_vars => TypeOK'
<1> SUFFICES ASSUME TypeOK, [Next]_vars PROVE TypeOK'
  OBVIOUS
<1>1. CASE Next
  BY <1>1, DomainTypeOK, HandleTypeOK, ReindexTypeOK DEF Next
<1>2. CASE UNCHANGED vars
  BY <1>2 DEF vars, delivery, rebuild, TypeOK, Events, InHand, Key
<1>3. QED
  BY <1>1, <1>2

(* The types of the variables, and that the claim on a key is exclusive:   *)
(* claimDedup is a lock on the event as long as it is in hand.             *)
THEOREM TypeCorrect == Spec => []TypeOK
BY InitTypeOK, NextTypeOK, PTL DEF Spec

-----------------------------------------------------------------------------
(* What the write of an event does to the document of its record, and to   *)
(* no other: the version does not decrease; an erasure leaves nothing; and *)
(* a document that has reached the version of the event is left as it is   *)
(* unless the event is an erasure.                                         *)
LEMMA WrittenProperties ==
  ASSUME TypeOK, NEW e \in Events, NEW r \in Records
  PROVE  /\ r # log[e].record => Written(e)[r] = index[r]
         /\ index[r].version <= Written(e)[r].version
         /\ Written(e)[r].run = index[r].run
         /\ r = log[e].record /\ log[e].kind = "purged" =>
              /\ e <= Written(e)[r].version
              /\ ~Written(e)[r].live
              /\ \A f \in Fields \ Flat : Written(e)[r].fields[f] = 0
         /\ log[e].kind # "purged" =>
              /\ Written(e)[r].erased = index[r].erased
              /\ e <= index[r].version => Written(e)[r] = index[r]
<1> DEFINE doc == index[r]
<1>1. /\ e \in Nat /\ index \in [Records -> Doc]
      /\ doc \in [version : Nat, live : BOOLEAN, fields : [Fields -> Nat],
                  erased : BOOLEAN, run : Runs \union {NoRun}]
  BY EventType, TypeParts DEF Parts, IndexType, Doc
<1>2. CASE r # log[e].record
  <2>1. Written(e)[r] = index[r]
    BY <1>1, <1>2 DEF Written
  <2>2. QED
    BY <1>1, <1>2, <2>1
<1>3. CASE r = log[e].record /\ log[e].kind = "deleted"
  <2>1. Written(e)[r] = Tombstoned(doc, e)
    BY <1>1, <1>3 DEF Written
  <2> HIDE DEF doc
  <2>2. QED
    BY <1>1, <1>3, <2>1 DEF Tombstoned, doc
<1>4. CASE r = log[e].record /\ log[e].kind = "purged"
  <2>1. Written(e)[r] = Erased(doc, e)
    BY <1>1, <1>4 DEF Written
  <2> HIDE DEF doc
  <2>2. /\ Erased(doc, e).version = IF doc.version < e THEN e ELSE doc.version
        /\ Erased(doc, e).live = FALSE
        /\ Erased(doc, e).run = doc.run
        /\ Erased(doc, e).fields =
             [f \in Fields |-> IF f \in Flat THEN doc.fields[f] ELSE 0]
    BY <1>1 DEF Erased
  <2>3. QED
    BY <1>1, <1>4, <2>1, <2>2 DEF doc
<1>5. CASE r = log[e].record /\ log[e].kind \notin {"deleted", "purged"}
  <2>1. Written(e)[r] = Upserted(doc, e)
    BY <1>1, <1>5 DEF Written
  <2> HIDE DEF doc
  <2>2. QED
    BY <1>1, <1>5, <2>1 DEF Upserted, doc
<1>6. QED
  BY <1>2, <1>3, <1>4, <1>5

(* What a step does to the index: nothing, an event's write, a row of a    *)
(* rebuild, or a sweep.                                                    *)
LEMMA IndexSteps ==
  ASSUME Next
  PROVE  \/ UNCHANGED index
         \/ \E e \in Events : index' = Written(e)
         \/ \E x \in Runs, r \in Records :
              index' = [index EXCEPT ![r] = Rebuilt(@, x, r)]
         \/ \E x \in Runs : index' = [r \in Records |->
              IF index[r].run # x THEN [index[r] EXCEPT !.live = FALSE]
                                  ELSE index[r]]
<1>1. CASE Domain
  BY <1>1, DomainFrame
<1>2. CASE \E e \in Events : Handle(e)
  BY <1>2 DEF Handle, Claim, Duplicate, ClaimFails, ReadFields, CheckExists,
              Orphan, Write, HandlerFails, DeadLetter, HandlerDies
<1>3. CASE (\E x \in Runs : Reindex(x)) \/ LockExpires
  BY <1>3 DEF Reindex, Acquire, Refused, ReadRow, FlushRow, Renew, Sweep, Abort,
              Release, RunDies, LockExpires
<1>4. QED
  BY <1>1, <1>2, <1>3 DEF Next

LEMMA RebuiltProperties ==
  ASSUME TypeOK, NEW x \in Runs, NEW r \in Records
  PROVE  /\ index[r].version <= Rebuilt(index[r], x, r).version
         /\ Rebuilt(index[r], x, r).run = x
         /\ Rebuilt(index[r], x, r).erased = index[r].erased
<1>1. /\ now[x] \in Nat
      /\ index[r] \in [version : Nat, live : BOOLEAN, fields : [Fields -> Nat],
                       erased : BOOLEAN, run : Runs \union {NoRun}]
  BY TypeParts DEF Parts, RunType, IndexType, Doc
<1>2. QED
  BY <1>1 DEF Rebuilt

(* A step never lowers the version of a document.                          *)
LEMMA NextVersionsGrow ==
  ASSUME TypeOK, Next, NEW r \in Records
  PROVE  index[r].version <= index'[r].version
<1>1. index \in [Records -> Doc] /\ index[r].version \in Nat
  BY TypeParts DEF Parts, IndexType, Doc
<1>2. CASE UNCHANGED index
  BY <1>1, <1>2
<1>3. ASSUME NEW e \in Events, index' = Written(e)
      PROVE  index[r].version <= index'[r].version
  BY <1>3, WrittenProperties
<1>4. ASSUME NEW x \in Runs, NEW q \in Records,
             index' = [index EXCEPT ![q] = Rebuilt(@, x, q)]
      PROVE  index[r].version <= index'[r].version
  <2>1. CASE q = r
    BY <1>1, <1>4, <2>1, RebuiltProperties
  <2>2. CASE q # r
    BY <1>1, <1>4, <2>2
  <2>3. QED
    BY <2>1, <2>2
<1>5. ASSUME NEW x \in Runs,
             index' = [q \in Records |->
               IF index[q].run # x THEN [index[q] EXCEPT !.live = FALSE]
                                   ELSE index[q]]
      PROVE  index[r].version <= index'[r].version
  BY <1>1, <1>5 DEF Doc
<1>6. QED
  BY <1>2, <1>3, <1>4, <1>5, IndexSteps

(* The version of a document never decreases, whatever order the events    *)
(* are handled in and however old a rebuild is.                            *)
THEOREM VersionsNeverDecrease == Spec => VersionsGrow
<1>1. TypeOK /\ [Next]_vars =>
        [\A r \in Records : index[r].version <= index'[r].version]_vars
  BY NextVersionsGrow
<1>2. QED
  BY <1>1, TypeCorrect, PTL DEF Spec, VersionsGrow

-----------------------------------------------------------------------------
(* A pass that is about to sweep holds the lock, freshly renewed: nobody   *)
(* can take it before the sweep.                                           *)
SweeperInv == \A x \in Runs : rpc[x] = "sweep" => lock = x /\ ~stale

LEMMA NextSweeperInv == TypeOK /\ SweeperInv /\ [Next]_vars => SweeperInv'
<1> SUFFICES ASSUME TypeOK, SweeperInv, [Next]_vars PROVE SweeperInv'
  OBVIOUS
<1>1. rpc \in [Runs -> {"idle", "scan", "sweep", "swept", "skipped", "end"}]
  BY TypeParts DEF Parts, RunType
<1>2. CASE UNCHANGED <<rpc, lock, stale>>
  BY <1>2 DEF SweeperInv
<1>3. CASE LockExpires
  BY <1>3 DEF LockExpires, SweeperInv
<1>4. ASSUME NEW x \in Runs, Reindex(x)
      PROVE  SweeperInv'
  <2> USE DEF SweeperInv, RunAt, Ends
  <2>1. CASE Acquire(x)
    BY <1>1, <2>1, SearchAssumption DEF Acquire
  <2>2. CASE Refused(x)
    BY <1>1, <2>2 DEF Refused
  <2>3. CASE \E r \in Records : ReadRow(x, r) \/ FlushRow(x, r)
    BY <2>3 DEF ReadRow, FlushRow
  <2>4. CASE Renew(x)
    BY <1>1, <2>4 DEF Renew
  <2>5. CASE Sweep(x)
    BY <1>1, <2>5 DEF Sweep
  <2>6. CASE Abort(x) \/ RunDies(x)
    BY <1>1, <2>6 DEF Abort, RunDies
  <2>7. CASE Release(x)
    BY <1>1, <2>7 DEF Release
  <2>8. QED
    BY <1>4, <2>1, <2>2, <2>3, <2>4, <2>5, <2>6, <2>7 DEF Reindex
<1>5. CASE Domain
  BY <1>2, <1>5, DomainFrame DEF rebuild
<1>6. CASE \E e \in Events : Handle(e)
  BY <1>2, <1>6 DEF Handle, Claim, Duplicate, ClaimFails, ReadFields, CheckExists,
                    Orphan, Write, HandlerFails, DeadLetter, HandlerDies, rebuild
<1>7. CASE UNCHANGED vars
  BY <1>2, <1>7 DEF vars, rebuild
<1>8. QED
  BY <1>3, <1>4, <1>5, <1>6, <1>7 DEF Next

(* Only the holder of the lock sweeps (TODO-491): two rebuilds never       *)
(* tombstone what the other one has written.                               *)
THEOREM OneSweeperAtATime == Spec => []OneSweeper
<1>1. Init => SweeperInv
  BY DEF Init, SweeperInv
<1>2. SweeperInv => OneSweeper
  BY DEF SweeperInv, OneSweeper
<1>3. QED
  BY <1>1, <1>2, NextSweeperInv, TypeCorrect, PTL DEF Spec

-----------------------------------------------------------------------------
(* What a mutation leaves of the events of the records.                    *)
LEMMA MutatesFrame ==
  ASSUME TypeOK, NEW r \in Records, NEW kind \in Kinds, Mutates(r, kind)
  PROVE  \E n \in Nat, changed \in SUBSET Fields :
           /\ n = Len(log) + 1 /\ Len(log') = n /\ n # 0
           /\ Events' = Events \union {n} /\ n \notin Events
           /\ \A e \in Events : e \in Nat /\ e < n
           /\ \A e \in Events : log'[e] = log[e] /\ phase'[e] = phase[e]
                                /\ fate'[e] = fate[e]
           /\ log'[n].record = r /\ log'[n].kind = kind
           /\ phase'[n] = "queued" /\ fate'[n] = "none"
           /\ \A q \in Records : EventsOf(q)' = IF q = r THEN EventsOf(q) \union {n}
                                                       ELSE EventsOf(q)
           /\ source' = [source EXCEPT ![r] =
                [state |-> Left(r, kind),
                 fields |-> IF Left(r, kind) = "gone" THEN Blank
                            ELSE [f \in Fields |-> IF f \in changed THEN n
                                                   ELSE @.fields[f]]]]
           /\ \A q \in Records : source'[q].state =
                IF q = r THEN Left(r, kind) ELSE source[q].state
           /\ UNCHANGED <<index, rpc, clean>>
           /\ kind = "created" => changed = Fields
<1>0. PICK n \in Nat : n = Len(log) + 1 /\ n # 0
  BY TypeParts DEF Parts, LogType
<1>1. PICK changed \in SUBSET Fields :
        /\ Mutate(r, kind, Left(r, kind), changed)
        /\ kind = "created" => changed = Fields
  BY DEF Mutates
<1>2. /\ Len(log) \in Nat /\ Len(log') = n /\ Events' = Events \union {n}
      /\ \A e \in Events : log'[e] = log[e] /\ phase'[e] = phase[e]
                           /\ fate'[e] = fate[e]
      /\ log'[n] = [kind |-> kind, record |-> r, changed |-> changed]
      /\ phase'[n] = "queued" /\ fate'[n] = "none"
  BY <1>0, <1>1, MutateFrame
<1>3. n \notin Events /\ \A e \in Events : e \in Nat /\ e < n
  BY <1>0, <1>2 DEF Events
<1>4. log'[n].record = r /\ log'[n].kind = kind
  BY <1>2
<1>5. \A q \in Records : EventsOf(q)' = IF q = r THEN EventsOf(q) \union {n}
                                               ELSE EventsOf(q)
  BY <1>2, <1>4 DEF EventsOf
<1>6. source' = [source EXCEPT ![r] =
        [state |-> Left(r, kind),
         fields |-> IF Left(r, kind) = "gone" THEN Blank
                    ELSE [f \in Fields |-> IF f \in changed THEN n
                                           ELSE @.fields[f]]]]
  BY <1>0, <1>1 DEF Mutate, Clock
<1>7. \A q \in Records : source'[q].state =
        IF q = r THEN Left(r, kind) ELSE source[q].state
  BY <1>6, TypeParts DEF Parts, SourceType
<1>8. UNCHANGED <<index, rpc, clean>>
  BY <1>1 DEF Mutate, rebuild
<1> QED
  BY <1>0, <1>1, <1>2, <1>3, <1>4, <1>5, <1>6, <1>7, <1>8

(* A step that emits no event leaves the log alone, and changes a record   *)
(* at most from the trash to gone.                                         *)
LEMMA OthersKeepLog ==
  ASSUME TypeOK, [Next]_vars,
         \A r \in Records, kind \in Kinds : ~Mutates(r, kind)
  PROVE  /\ UNCHANGED log /\ Events' = Events
         /\ \A r \in Records : EventsOf(r)' = EventsOf(r)
         /\ \A r \in Records :
              \/ source'[r] = source[r]
              \/ /\ source[r].state = "trash" /\ source'[r].state = "gone"
                 /\ UNCHANGED requests
         /\ \A q \in requests' \ requests :
              /\ source'[q.record].state = q.state
              /\ requests = {} \/ \E p \in requests : p.user # q.user
<1>1. CASE \E e \in Events : Handle(e)
  BY <1>1 DEF Handle, Claim, Duplicate, ClaimFails, ReadFields, CheckExists,
              Orphan, Write, HandlerFails, DeadLetter, HandlerDies, Events,
              EventsOf
<1>2. CASE (\E x \in Runs : Reindex(x)) \/ LockExpires
  BY <1>2 DEF Reindex, Acquire, Refused, ReadRow, FlushRow, Renew, Sweep, Abort,
              Release, RunDies, LockExpires, Events, EventsOf
<1>3. CASE UNCHANGED vars
  BY <1>3 DEF vars, Events, EventsOf
<1>4. ASSUME NEW r \in Records, Expire(r)
      PROVE  /\ UNCHANGED <<requests, log>> /\ source[r].state = "trash"
             /\ source' = [source EXCEPT ![r] = [state |-> "gone", fields |-> Blank]]
  BY <1>4 DEF Expire
<1>5. ASSUME NEW r \in Records, Expire(r), NEW q \in Records
      PROVE  source'[q] = source[q] \/ (q = r /\ source'[q].state = "gone")
  BY <1>4, <1>5, TypeParts DEF Parts, SourceType
<1>6. CASE \E r \in Records : Expire(r)
  BY <1>4, <1>5, <1>6 DEF Events, EventsOf
<1>7. CASE \E u \in Users, r \in Records : Read(u, r)
  BY <1>7 DEF Read, Events, EventsOf
<1> QED
  BY <1>1, <1>2, <1>3, <1>6, <1>7, DomainSteps DEF Next

-----------------------------------------------------------------------------
(* A record that was purged is gone.                                       *)
PurgesAreFinal ==
  \A p \in Events :
    log[p].kind = "purged" => source[log[p].record].state = "gone"

(* An erased document has the version of a purge, or a newer one: no event *)
(* before the purge can pass the version guard.                            *)
MarkerIsNewest ==
  \A r \in Records :
    index[r].erased =>
      \E p \in EventsOf(r) : log[p].kind = "purged" /\ p <= index[r].version

EraseInv == PurgesAreFinal /\ MarkerIsNewest /\ PurgedStaysErased

LEMMA MutatesEraseInv ==
  ASSUME TypeOK, EraseInv, NEW r \in Records, NEW kind \in Kinds, Mutates(r, kind)
  PROVE  EraseInv'
<1>1. PICK n \in Nat :
        /\ Events' = Events \union {n}
        /\ \A e \in Events : log'[e] = log[e]
        /\ log'[n].record = r /\ log'[n].kind = kind
        /\ \A q \in Records : EventsOf(q) \subseteq EventsOf(q)'
        /\ \A q \in Records : source'[q].state =
             IF q = r THEN Left(r, kind) ELSE source[q].state
        /\ UNCHANGED index
  BY MutatesFrame
<1>2. \A e \in Events : log[e].record \in Records
  BY EventType
<1>3. /\ kind = "purged" => Left(r, kind) = "gone"
      /\ source[r].state = "gone" => Left(r, kind) = "gone"
  BY DEF Left, After
<1>4. PurgesAreFinal'
  BY <1>1, <1>2, <1>3 DEF EraseInv, PurgesAreFinal
<1>5. \A q \in Records : \A p \in EventsOf(q) : log'[p] = log[p]
  BY <1>1 DEF EventsOf
<1>6. MarkerIsNewest' /\ PurgedStaysErased'
  BY <1>1, <1>5 DEF EraseInv, MarkerIsNewest, PurgedStaysErased
<1> QED
  BY <1>4, <1>6 DEF EraseInv

(* A step that emits nothing and leaves the index alone.                   *)
LEMMA QuietEraseInv ==
  ASSUME TypeOK, EraseInv, [Next]_vars,
         \A r \in Records, kind \in Kinds : ~Mutates(r, kind)
  PROVE  PurgesAreFinal' /\ (UNCHANGED index => EraseInv')
<1>1. /\ log' = log /\ Events' = Events
      /\ \A r \in Records : EventsOf(r)' = EventsOf(r)
      /\ \A r \in Records : source[r].state = "gone" => source'[r].state = "gone"
  BY OthersKeepLog
<1>2. \A e \in Events : log[e].record \in Records
  BY EventType
<1>3. PurgesAreFinal'
  BY <1>1, <1>2 DEF EraseInv, PurgesAreFinal
<1>4. UNCHANGED index => MarkerIsNewest' /\ PurgedStaysErased'
  BY <1>1 DEF EraseInv, MarkerIsNewest, PurgedStaysErased
<1> QED
  BY <1>3, <1>4 DEF EraseInv

(* The write of an event keeps the marker, and passes it only if newer.    *)
LEMMA WriteEraseInv ==
  ASSUME TypeOK, EraseInv, UNCHANGED log, NEW e \in Events, index' = Written(e)
  PROVE  MarkerIsNewest' /\ PurgedStaysErased'
<1>1. Events' = Events /\ log' = log /\ \A r : EventsOf(r)' = EventsOf(r)
  BY DEF Events, EventsOf
<1>2. /\ e \in Nat /\ log[e].record \in Records
      /\ \A r \in Records : index[r].version \in Nat /\ index'[r].version \in Nat
      /\ \A r \in Records : \A p \in EventsOf(r) : p \in Nat
  BY EventType, WrittenType, TypeParts DEF Parts, IndexType, Doc, EventsOf
<1>3. MarkerIsNewest'
  <2> SUFFICES ASSUME NEW r \in Records, index'[r].erased
               PROVE  \E p \in EventsOf(r) :
                        log[p].kind = "purged" /\ p <= index'[r].version
    BY <1>1 DEF MarkerIsNewest
  <2>1. CASE r = log[e].record /\ log[e].kind = "purged"
    <3>1. e \in EventsOf(r)
      BY <2>1 DEF EventsOf
    <3> QED
      BY <2>1, <3>1, WrittenProperties
  <2>2. CASE ~(r = log[e].record /\ log[e].kind = "purged")
    <3>1. index[r].erased /\ index[r].version <= index'[r].version
      BY <2>2, WrittenProperties
    <3>2. PICK p \in EventsOf(r) :
            log[p].kind = "purged" /\ p <= index[r].version
      BY <3>1 DEF EraseInv, MarkerIsNewest
    <3>3. p <= index'[r].version
      BY <1>2, <3>1, <3>2
    <3> QED
      BY <3>2, <3>3
  <2> QED
    BY <2>1, <2>2
<1>4. PurgedStaysErased'
  <2> SUFFICES ASSUME NEW r \in Records, index'[r].erased, index'[r].run = NoRun,
                      ~(/\ ~index'[r].live
                        /\ \A f \in Fields \ Flat : index'[r].fields[f] = 0)
               PROVE  \E p \in EventsOf(r) :
                        log[p].kind = "purged" /\ p < index'[r].version
    BY <1>1 DEF PurgedStaysErased
  <2>1. ~(r = log[e].record /\ log[e].kind = "purged")
    BY WrittenProperties
  <2>2. index[r].erased /\ index[r].run = NoRun
    BY <2>1, WrittenProperties
  <2>3. CASE index'[r] = index[r]
    BY <2>2, <2>3 DEF EraseInv, PurgedStaysErased
  <2>4. CASE index'[r] # index[r]
    <3>1. r = log[e].record /\ log[e].kind # "purged" /\ ~(e <= index[r].version)
      BY <2>1, <2>4, WrittenProperties
    <3>2. index'[r].version = e
      <4>1. index[r].version < e
        BY <1>2, <3>1
      <4> QED
        BY <3>1, <4>1, TypeParts
           DEF Parts, IndexType, Doc, Written, Upserted, Tombstoned
    <3>3. PICK p \in EventsOf(r) :
            log[p].kind = "purged" /\ p <= index[r].version
      BY <2>2 DEF EraseInv, MarkerIsNewest
    <3>4. p < index'[r].version
      BY <1>2, <3>1, <3>2, <3>3
    <3> QED
      BY <3>3, <3>4
  <2> QED
    BY <2>3, <2>4
<1> QED
  BY <1>3, <1>4

LEMMA NextEraseInv == TypeOK /\ EraseInv /\ [Next]_vars => EraseInv'
<1> SUFFICES ASSUME TypeOK, EraseInv, [Next]_vars PROVE EraseInv'
  OBVIOUS
<1>1. index \in [Records -> Doc]
  BY TypeParts DEF Parts, IndexType
<1>2. CASE \E r \in Records, kind \in Kinds : Mutates(r, kind)
  BY <1>2, MutatesEraseInv
<1>3. CASE \A r \in Records, kind \in Kinds : ~Mutates(r, kind)
  <2>1. /\ log' = log /\ \A r \in Records : EventsOf(r)' = EventsOf(r)
        /\ PurgesAreFinal' /\ (UNCHANGED index => EraseInv')
    BY <1>3, OthersKeepLog, QuietEraseInv
  <2>2. ASSUME NEW e \in Events, index' = Written(e)
        PROVE  EraseInv'
    BY <2>1, <2>2, WriteEraseInv DEF EraseInv
  <2>3. ASSUME NEW x \in Runs, NEW q \in Records,
               index' = [index EXCEPT ![q] = Rebuilt(@, x, q)]
        PROVE  EraseInv'
    <3>1. \A r \in Records : r # q => index'[r] = index[r]
      BY <1>1, <2>3
    <3>2. /\ index'[q].run # NoRun /\ index'[q].erased = index[q].erased
          /\ index[q].version <= index'[q].version
          /\ index[q].version \in Nat /\ index'[q].version \in Nat
      <4>1. index'[q] = Rebuilt(index[q], x, q)
        BY <1>1, <2>3
      <4>2. now[x] \in Nat /\ index[q].version \in Nat
        BY <1>1, TypeParts DEF Parts, RunType, Doc
      <4>3. Rebuilt(index[q], x, q).version \in Nat
        BY <1>1, <4>2 DEF Rebuilt, Doc
      <4> QED
        BY <4>1, <4>2, <4>3, RebuiltProperties, SearchAssumption
    <3>3. MarkerIsNewest'
      <4> SUFFICES ASSUME NEW r \in Records, index'[r].erased
                   PROVE  \E p \in EventsOf(r) :
                            log[p].kind = "purged" /\ p <= index'[r].version
        BY <2>1 DEF MarkerIsNewest
      <4>1. PICK p \in EventsOf(r) :
              log[p].kind = "purged" /\ p <= index[r].version
        BY <3>1, <3>2 DEF EraseInv, MarkerIsNewest
      <4>2. p \in Nat
        BY EventType DEF EventsOf
      <4>3. p <= index'[r].version
        BY <3>1, <3>2, <4>1, <4>2
      <4> QED
        BY <4>1, <4>3
    <3>4. PurgedStaysErased'
      BY <2>1, <3>1, <3>2 DEF EraseInv, PurgedStaysErased
    <3> QED
      BY <2>1, <3>3, <3>4 DEF EraseInv
  <2>4. ASSUME NEW x \in Runs,
               index' = [q \in Records |->
                 IF index[q].run # x THEN [index[q] EXCEPT !.live = FALSE]
                                     ELSE index[q]]
        PROVE  EraseInv'
    <3>1. \A r \in Records :
            /\ index'[r].version = index[r].version
            /\ index'[r].erased = index[r].erased
            /\ index'[r].run = index[r].run
            /\ index'[r].fields = index[r].fields
            /\ index'[r].live => index[r].live
      BY <1>1, <2>4 DEF Doc
    <3>2. MarkerIsNewest' /\ PurgedStaysErased'
      BY <2>1, <3>1 DEF EraseInv, MarkerIsNewest, PurgedStaysErased
    <3> QED
      BY <2>1, <3>2 DEF EraseInv
  <2>5. CASE UNCHANGED vars
    BY <2>1, <2>5 DEF vars
  <2> QED
    BY <2>1, <2>2, <2>3, <2>4, <2>5, IndexSteps
<1> QED
  BY <1>2, <1>3

LEMMA EraseAlways == Spec => []EraseInv
<1>1. Init => EraseInv
  <2> SUFFICES ASSUME Init PROVE EraseInv
    OBVIOUS
  <2>1. Events = {} /\ \A r \in Records : index[r].erased = FALSE
    BY DEF Init, Events, NoDoc
  <2>2. QED
    BY <2>1 DEF EraseInv, PurgesAreFinal, MarkerIsNewest, PurgedStaysErased
<1>2. QED
  BY <1>1, NextEraseInv, TypeCorrect, PTL DEF Spec

(* Erased data stays erased: whatever events from before a purge are still *)
(* on their way, retried or redelivered, and however often, none brings    *)
(* the record back into the index; an event emitted after the purge can,   *)
(* and a rebuild.                                                          *)
THEOREM ErasedStaysErased == Spec => []PurgedStaysErased
<1>1. EraseInv => PurgedStaysErased
  BY DEF EraseInv
<1>2. QED
  BY <1>1, EraseAlways, PTL

-----------------------------------------------------------------------------
(* A record without events was never created, and one that a request has   *)
(* read was.                                                               *)
RecordsHaveEvents ==
  \A r \in Records : EventsOf(r) = {} => source[r].state = "none"

RequestsKnowRecords ==
  \A q \in requests : source[q.record].state # "none"

(* A created record has all of its fields, and keeps them until it is      *)
(* purged.                                                                 *)
FieldsAreSet ==
  \A r \in Records :
    source[r].state \in {"live", "trash"} =>
      \A f \in Fields : source[r].fields[f] # 0

SourceInv == RecordsHaveEvents /\ RequestsKnowRecords /\ FieldsAreSet

LEMMA MutatesSourceInv ==
  ASSUME TypeOK, SourceInv, NEW r \in Records, NEW kind \in Kinds, Mutates(r, kind)
  PROVE  SourceInv'
<1>1. PICK n \in Nat, changed \in SUBSET Fields :
        /\ n # 0
        /\ \A q \in Records : EventsOf(q)' = IF q = r THEN EventsOf(q) \union {n}
                                                    ELSE EventsOf(q)
        /\ source' = [source EXCEPT ![r] =
             [state |-> Left(r, kind),
              fields |-> IF Left(r, kind) = "gone" THEN Blank
                         ELSE [f \in Fields |-> IF f \in changed THEN n
                                                ELSE @.fields[f]]]]
        /\ \A q \in Records : source'[q].state =
             IF q = r THEN Left(r, kind) ELSE source[q].state
        /\ kind = "created" => changed = Fields
  BY MutatesFrame
<1>2. /\ requests' \subseteq requests
      /\ \/ kind = "created" /\ source[r].state = "none"
         \/ kind # "created" /\ source[r].state # "none"
      /\ \A q \in requests : q.record \in Records
  BY TypeParts DEF Parts, RequestType, Requests, Mutates, SourceInv,
                   RequestsKnowRecords
<1>3. Left(r, kind) # "none"
  BY <1>2 DEF Left, After
<1>4. RecordsHaveEvents'
  BY <1>1 DEF SourceInv, RecordsHaveEvents
<1>5. RequestsKnowRecords'
  BY <1>1, <1>2, <1>3 DEF SourceInv, RequestsKnowRecords
<1>6. source \in [Records -> [state : {"none", "live", "trash", "gone"},
                              fields : [Fields -> Nat]]]
  BY TypeParts DEF Parts, SourceType
<1>7. FieldsAreSet'
  <2>1. ASSUME NEW q \in Records, source'[q].state \in {"live", "trash"},
               NEW f \in Fields
        PROVE  source'[q].fields[f] # 0
    <3>1. CASE q # r
      <4>1. source'[q] = source[q]
        BY <1>1, <1>6, <3>1
      <4> QED
        BY <2>1, <4>1 DEF SourceInv, FieldsAreSet
    <3>2. CASE q = r
      <4>1. Left(r, kind) # "gone"
        BY <1>1, <2>1, <3>2
      <4>2. source'[r].fields[f] = IF f \in changed THEN n ELSE source[r].fields[f]
        BY <1>1, <1>6, <4>1
      <4>3. kind # "created" => source[r].state \in {"live", "trash"}
        BY <1>2, <1>6, <4>1 DEF Left
      <4> QED
        BY <1>1, <3>2, <4>2, <4>3 DEF SourceInv, FieldsAreSet
    <3> QED
      BY <3>1, <3>2
  <2> QED
    BY <2>1 DEF FieldsAreSet
<1> QED
  BY <1>4, <1>5, <1>7 DEF SourceInv

LEMMA NextSourceInv == TypeOK /\ SourceInv /\ [Next]_vars => SourceInv'
<1> SUFFICES ASSUME TypeOK, SourceInv, [Next]_vars PROVE SourceInv'
  OBVIOUS
<1>1. CASE \E r \in Records, kind \in Kinds : Mutates(r, kind)
  BY <1>1, MutatesSourceInv
<1>2. CASE \A r \in Records, kind \in Kinds : ~Mutates(r, kind)
  <2>1. /\ \A r \in Records : EventsOf(r)' = EventsOf(r)
        /\ \A r \in Records :
             \/ source'[r] = source[r]
             \/ /\ source[r].state = "trash" /\ source'[r].state = "gone"
                /\ UNCHANGED requests
        /\ \A q \in requests' \ requests : source'[q.record].state = q.state
    BY <1>2, OthersKeepLog
  <2>2. \A q \in requests' : q.record \in Records /\ q.state # "none"
    BY NextTypeOK, TypeParts DEF Parts, RequestType, Requests
  <2>3. RequestsKnowRecords'
    BY <2>1, <2>2 DEF SourceInv, RequestsKnowRecords
  <2>4. RecordsHaveEvents' /\ FieldsAreSet'
    BY <2>1 DEF SourceInv, RecordsHaveEvents, FieldsAreSet
  <2> QED
    BY <2>3, <2>4 DEF SourceInv
<1> QED
  BY <1>1, <1>2

LEMMA InitSourceInv == Init => SourceInv
<1> SUFFICES ASSUME Init PROVE SourceInv
  OBVIOUS
<1>1. Events = {}
  BY DEF Init, Events
<1> QED
  BY <1>1 DEF Init, SourceInv, RecordsHaveEvents, RequestsKnowRecords,
              FieldsAreSet, EventsOf

(* Before the first rebuild, the version of a document is an event of its  *)
(* record that is as new as any applied one; the document is findable only *)
(* if that event leaves a record alive, and then unless it was erased; and *)
(* an applied purge has erased it.                                         *)
NoneStarted == \A x \in Runs : rpc[x] = "idle"

FollowsVersion(r) ==
  LET v == index[r].version
  IN  /\ v = 0 \/ v \in EventsOf(r)
      /\ \A e \in EventsOf(r) :
           fate[e] = "applied" => e <= v /\ (log[e].kind = "purged" => index[r].erased)
      /\ index[r].live => v # 0 /\ After(log[v].kind) = "live"
      /\ v # 0 /\ After(log[v].kind) = "live" => index[r].live \/ index[r].erased

VersionRules == NoneStarted => \A r \in Records : FollowsVersion(r)

(* The write of an event makes the document follow it, or leaves one that  *)
(* follows a newer event; an erasure is kept.                              *)
LEMMA WrittenFollows ==
  ASSUME TypeOK, NEW e \in Events
  PROVE  LET doc == index[log[e].record]
             new == Written(e)[log[e].record]
         IN  /\ e <= doc.version => new.version = doc.version
             /\ doc.version < e => new.version = e
             /\ doc.erased \/ log[e].kind = "purged" => new.erased
             /\ log[e].kind = "purged" => ~new.live
             /\ log[e].kind # "purged" /\ e <= doc.version => new = doc
             /\ log[e].kind # "purged" /\ doc.version < e =>
                  (new.live <=> After(log[e].kind) = "live")
<1> DEFINE doc == index[log[e].record]
           new == Written(e)[log[e].record]
<1> SUFFICES /\ e <= doc.version => new.version = doc.version
             /\ doc.version < e => new.version = e
             /\ doc.erased \/ log[e].kind = "purged" => new.erased
             /\ log[e].kind = "purged" => ~new.live
             /\ log[e].kind # "purged" /\ e <= doc.version => new = doc
             /\ log[e].kind # "purged" /\ doc.version < e =>
                  (new.live <=> After(log[e].kind) = "live")
  OBVIOUS
<1>1. /\ e \in Nat /\ index \in [Records -> Doc]
      /\ log[e].record \in Records
      /\ doc \in [version : Nat, live : BOOLEAN, fields : [Fields -> Nat],
                  erased : BOOLEAN, run : Runs \union {NoRun}]
  BY EventType, TypeParts DEF Parts, IndexType, Doc
<1>2. new = CASE log[e].kind = "deleted" -> Tombstoned(doc, e)
              [] log[e].kind = "purged"  -> Erased(doc, e)
              [] OTHER                   -> Upserted(doc, e)
  BY <1>1 DEF Written
<1>3. CASE log[e].kind = "purged"
  <2>1. new = Erased(doc, e)
    BY <1>2, <1>3
  <2>2. /\ new.version = IF doc.version < e THEN e ELSE doc.version
        /\ new.live = FALSE /\ new.erased = TRUE
    BY <1>1, <2>1 DEF Erased
  <2> HIDE DEF doc, new
  <2> QED
    BY <1>1, <1>3, <2>2
<1>4. CASE log[e].kind = "deleted"
  <2>1. new = Tombstoned(doc, e) /\ After(log[e].kind) = "trash"
    BY <1>2, <1>4 DEF After
  <2> HIDE DEF doc, new
  <2> QED
    BY <1>1, <1>4, <2>1 DEF Tombstoned
<1>5. CASE log[e].kind \notin {"deleted", "purged"}
  <2>1. new = Upserted(doc, e) /\ After(log[e].kind) = "live"
    BY <1>2, <1>5 DEF After
  <2> HIDE DEF doc, new
  <2> QED
    BY <1>1, <1>5, <2>1 DEF Upserted
<1> QED
  BY <1>3, <1>4, <1>5

LEMMA VersionRulesStep == TypeOK /\ VersionRules /\ [Next]_vars => VersionRules'
<1> SUFFICES ASSUME TypeOK, VersionRules, [Next]_vars, NoneStarted',
                    NEW r \in Records
             PROVE  FollowsVersion(r)'
  BY DEF VersionRules
<1>1. rpc \in [Runs -> {"idle", "scan", "sweep", "swept", "skipped", "end"}]
  BY TypeParts DEF Parts, RunType
(* No rebuild takes a step.                                                *)
<1>2. \A x \in Runs : ~Reindex(x)
  BY <1>1 DEF NoneStarted, Reindex, Acquire, Refused, ReadRow, FlushRow, Renew,
              Sweep, Abort, Release, RunDies, RunAt, Ends, Active
<1>3. NoneStarted
  <2>1. UNCHANGED rpc
    BY <1>2, DomainFrame
       DEF Next, Handle, Claim, Duplicate, ClaimFails, ReadFields, CheckExists,
           Orphan, Write, HandlerFails, DeadLetter, HandlerDies, LockExpires,
           rebuild, vars
  <2> QED
    BY <2>1 DEF NoneStarted
<1>4. FollowsVersion(r)
  BY <1>3 DEF VersionRules
<1>5. /\ index \in [Records -> Doc] /\ index[r].version \in Nat
      /\ \A e \in Events : e \in Nat /\ e # 0
  BY TypeParts, EventType DEF Parts, IndexType, Doc, Events
<1>6. ASSUME NEW q \in Records, NEW kind \in Kinds, Mutates(q, kind)
      PROVE  FollowsVersion(r)'
  <2>1. PICK n \in Nat :
          /\ \A e \in Events : log'[e] = log[e] /\ fate'[e] = fate[e]
          /\ fate'[n] = "none"
          /\ EventsOf(r)' = IF r = q THEN EventsOf(r) \union {n} ELSE EventsOf(r)
          /\ UNCHANGED index
    BY <1>6, MutatesFrame
  <2>2. \A e \in EventsOf(r) : log'[e] = log[e] /\ fate'[e] = fate[e]
    BY <2>1 DEF EventsOf
  <2>3. index[r].version # 0 => log'[index[r].version] = log[index[r].version]
    BY <1>4, <2>2 DEF FollowsVersion
  <2> QED
    BY <1>4, <2>1, <2>2, <2>3 DEF FollowsVersion
<1>7. ASSUME NEW e \in Events, Handle(e)
      PROVE  FollowsVersion(r)'
  <2>1. log' = log /\ EventsOf(r)' = EventsOf(r)
    BY <1>7 DEF Handle, Claim, Duplicate, ClaimFails, ReadFields, CheckExists,
                Orphan, Write, HandlerFails, DeadLetter, HandlerDies, Events,
                EventsOf
  <2>2. index' = Written(e) \/ index' = index
    BY <1>7 DEF Handle, Claim, Duplicate, ClaimFails, ReadFields, CheckExists,
                Orphan, Write, HandlerFails, DeadLetter, HandlerDies
  <2>3. \A d \in Events : fate'[d] = "applied" =>
                            fate[d] = "applied" \/ (d = e /\ index' = Written(e))
    BY <1>7, TypeParts
       DEF Handle, Claim, Duplicate, ClaimFails, ReadFields, CheckExists, Orphan,
           Write, HandlerFails, DeadLetter, HandlerDies, Done, Requeue, Parts,
           HandlerType
  <2>4. EventsOf(r) \subseteq Events
    BY DEF EventsOf
  <2>5. CASE index'[r] = index[r] /\ (log[e].record = r => index' # Written(e))
    <3>1. \A d \in EventsOf(r) : fate'[d] = "applied" => fate[d] = "applied"
      BY <2>3, <2>4, <2>5 DEF EventsOf
    <3> QED
      BY <1>4, <2>1, <2>5, <3>1 DEF FollowsVersion
  <2>6. CASE log[e].record = r /\ index' = Written(e)
    <3>1. e \in EventsOf(r) /\ e \in Nat /\ e # 0
      BY <1>5, <2>6 DEF EventsOf
    <3>2. /\ e <= index[r].version => index'[r].version = index[r].version
          /\ index[r].version < e => index'[r].version = e
          /\ index[r].erased \/ log[e].kind = "purged" => index'[r].erased
          /\ log[e].kind = "purged" => ~index'[r].live
          /\ log[e].kind # "purged" /\ e <= index[r].version =>
               index'[r] = index[r]
          /\ log[e].kind # "purged" /\ index[r].version < e =>
               (index'[r].live <=> After(log[e].kind) = "live")
      BY <2>6, WrittenFollows
    <3>3. e <= index[r].version \/ index[r].version < e
      BY <1>5, <3>1
    <3>4. e <= index'[r].version /\ index[r].version <= index'[r].version
          /\ index'[r].version \in Nat
      BY <1>5, <3>1, <3>2, <3>3
    <3>5. \A d \in EventsOf(r) :
            fate'[d] = "applied" =>
              d <= index'[r].version /\ (log[d].kind = "purged" => index'[r].erased)
      <4> SUFFICES ASSUME NEW d \in EventsOf(r), fate'[d] = "applied"
                   PROVE  /\ d <= index'[r].version
                          /\ log[d].kind = "purged" => index'[r].erased
        OBVIOUS
      <4>1. d \in Nat /\ (d = e \/ fate[d] = "applied")
        BY <1>5, <2>3, <2>4
      <4>2. fate[d] = "applied" =>
              d <= index[r].version /\ (log[d].kind = "purged" => index[r].erased)
        BY <1>4 DEF FollowsVersion
      <4> QED
        BY <1>5, <3>2, <3>4, <4>1, <4>2
    <3>6. index'[r].version = 0 \/ index'[r].version \in EventsOf(r)
      BY <1>4, <3>1, <3>2, <3>3 DEF FollowsVersion
    <3>7. index'[r].live =>
            index'[r].version # 0 /\ After(log[index'[r].version].kind) = "live"
      BY <1>4, <3>1, <3>2, <3>3 DEF FollowsVersion
    <3>8. index'[r].version # 0 /\ After(log[index'[r].version].kind) = "live" =>
            index'[r].live \/ index'[r].erased
      BY <1>4, <3>1, <3>2, <3>3 DEF FollowsVersion
    <3> QED
      BY <2>1, <3>5, <3>6, <3>7, <3>8 DEF FollowsVersion
  <2>7. CASE log[e].record # r /\ index' = Written(e)
    BY <2>5, <2>7, WrittenProperties
  <2> QED
    BY <2>2, <2>5, <2>6, <2>7
<1>8. CASE /\ \A q \in Records, kind \in Kinds : ~Mutates(q, kind)
           /\ LockExpires \/ UNCHANGED vars \/ Domain
  <2>1. log' = log /\ EventsOf(r)' = EventsOf(r)
    BY <1>8, OthersKeepLog
  <2>2. UNCHANGED index
    BY <1>8, DomainFrame DEF LockExpires, vars
  <2>3. UNCHANGED fate
    <3>1. CASE Domain
      BY <1>8, <3>1, DomainSteps DEF Expire, Read, delivery
    <3> QED
      BY <1>8, <3>1 DEF LockExpires, vars, delivery
  <2> QED
    BY <1>4, <2>1, <2>2, <2>3 DEF FollowsVersion
<1> QED
  BY <1>2, <1>6, <1>7, <1>8 DEF Next

(* Before the first rebuild, a record whose last event tells where it is   *)
(* and whose events were all applied, in any order, concurrently and after *)
(* whatever failures, has the document that its state asks for: the        *)
(* version guards of projectUpsert, indexDelete and indexPurge are enough. *)
THEOREM AppliedEventsAgree == Spec => []AgreesAtRest
<1>1. Init => VersionRules
  <2> SUFFICES ASSUME Init PROVE VersionRules
    OBVIOUS
  <2>1. Events = {} /\ \A r \in Records : index[r] = NoDoc
    BY DEF Init, Events
  <2> QED
    BY <2>1 DEF VersionRules, FollowsVersion, EventsOf, NoDoc
<1>2. TypeOK /\ SourceInv /\ EraseInv /\ VersionRules => AgreesAtRest
  <2> SUFFICES ASSUME TypeOK, SourceInv, EraseInv, VersionRules, NoneStarted,
                      NEW r \in Records, LastEventTells(r),
                      \A e \in EventsOf(r) : fate[e] = "applied"
               PROVE  /\ index[r].live <=> source[r].state = "live"
                      /\ index[r].erased <=> source[r].state = "gone"
                      /\ \A e \in EventsOf(r) : e <= index[r].version
    BY DEF AgreesAtRest, NoneStarted
  <2> DEFINE v == index[r].version
  <2>1. FollowsVersion(r)
    BY DEF VersionRules
  <2>2. \A e \in EventsOf(r) : e <= v
    BY <2>1 DEF FollowsVersion
  <2>3. index[r].erased => source[r].state = "gone"
    BY DEF EraseInv, MarkerIsNewest, PurgesAreFinal, EventsOf
  <2>4. CASE v = 0
    <3>1. EventsOf(r) = {}
      BY <2>2, <2>4, EventType DEF EventsOf, Events
    <3> QED
      BY <2>1, <2>2, <2>3, <2>4, <3>1 DEF FollowsVersion, SourceInv,
                                          RecordsHaveEvents
  <2>5. CASE v # 0
    <3>1. v \in EventsOf(r) /\ log[v].kind \in Kinds
      BY <2>1, <2>5, EventType DEF FollowsVersion, EventsOf
    <3>2. source[r].state = After(log[v].kind)
      BY <2>2, <3>1 DEF LastEventTells
    <3>3. source[r].state = "gone" => index[r].erased
      BY <2>1, <3>1, <3>2 DEF After, FollowsVersion
    <3> QED
      BY <2>1, <2>2, <2>3, <2>5, <3>2, <3>3 DEF FollowsVersion
  <2> QED
    BY <2>4, <2>5
<1> QED
  BY <1>1, <1>2, InitSourceInv, NextSourceInv, VersionRulesStep, EraseAlways,
     TypeCorrect, PTL DEF Spec

-----------------------------------------------------------------------------
(* A document bears the stamp of a run that was started, and a run that is *)
(* not scanning has no row in hand.                                        *)
StampsAreKnown ==
  \A r \in Records, x \in Runs : index[r].run = x => rpc[x] # "idle"

NoRowsLeft ==
  \A x \in Runs, r \in Records : rpc[x] # "scan" => rows[x][r] = Blank

RunsInOrder == StampsAreKnown /\ NoRowsLeft

(* What a rebuild does not do leaves the runs and their stamps alone.      *)
LEMMA OthersKeepRuns ==
  ASSUME TypeOK, [Next]_vars, \A x \in Runs : ~Reindex(x)
  PROVE  /\ UNCHANGED <<rpc, todo, rows>>
         /\ \A r \in Records : index'[r].run = index[r].run
<1>1. CASE Domain
  BY <1>1, DomainFrame DEF rebuild
<1>2. ASSUME NEW e \in Events, Handle(e)
      PROVE  /\ UNCHANGED <<rpc, todo, rows>>
             /\ \A r \in Records : index'[r].run = index[r].run
  <2>1. UNCHANGED <<rpc, todo, rows>> /\ (UNCHANGED index \/ index' = Written(e))
    BY <1>2 DEF Handle, Claim, Duplicate, ClaimFails, ReadFields, CheckExists,
                Orphan, Write, HandlerFails, DeadLetter, HandlerDies, rebuild
  <2> QED
    BY <2>1, WrittenProperties
<1>3. CASE LockExpires \/ UNCHANGED vars
  BY <1>3 DEF LockExpires, vars, rebuild
<1> QED
  BY <1>1, <1>2, <1>3 DEF Next

LEMMA NextRunsInOrder == TypeOK /\ RunsInOrder /\ [Next]_vars => RunsInOrder'
<1> SUFFICES ASSUME TypeOK, RunsInOrder, [Next]_vars PROVE RunsInOrder'
  OBVIOUS
<1>1. /\ rpc \in [Runs -> {"idle", "scan", "sweep", "swept", "skipped", "end"}]
      /\ rows \in [Runs -> [Records -> [Fields -> Nat]]]
      /\ index \in [Records -> Doc] /\ NoRun \notin Runs
  BY TypeParts, SearchAssumption DEF Parts, RunType, IndexType
<1>2. CASE \A x \in Runs : ~Reindex(x)
  BY <1>2, OthersKeepRuns DEF RunsInOrder, StampsAreKnown, NoRowsLeft
<1>3. ASSUME NEW x \in Runs, Reindex(x)
      PROVE  RunsInOrder'
  <2> USE DEF RunsInOrder, StampsAreKnown, NoRowsLeft, RunAt, Ends
  <2>1. CASE Acquire(x)
    BY <1>1, <2>1 DEF Acquire
  <2>2. CASE Refused(x)
    BY <1>1, <2>2 DEF Refused
  <2>3. ASSUME NEW r \in Records, ReadRow(x, r)
        PROVE  RunsInOrder'
    <3>1. \A y \in Runs : y # x => rows'[y] = rows[y]
      BY <1>1, <2>3 DEF ReadRow
    <3> QED
      BY <1>1, <2>3, <3>1 DEF ReadRow
  <2>4. ASSUME NEW r \in Records, FlushRow(x, r)
        PROVE  RunsInOrder'
    <3>1. \A y \in Runs : y # x => rows'[y] = rows[y]
      BY <1>1, <2>4 DEF FlushRow
    <3>2. \A q \in Records : index'[q].run = IF q = r THEN x ELSE index[q].run
      <4>1. index' = [index EXCEPT ![r] = Rebuilt(@, x, r)]
        BY <2>4 DEF FlushRow
      <4> QED
        BY <1>1, <4>1, RebuiltProperties
    <3>3. rpc' = rpc /\ rpc[x] = "scan"
      BY <2>4 DEF FlushRow
    <3> QED
      BY <3>1, <3>2, <3>3
  <2>5. CASE Renew(x)
    BY <1>1, <2>5 DEF Renew
  <2>6. CASE Sweep(x)
    <3>1. \A q \in Records : index'[q].run = index[q].run
      BY <1>1, <2>6 DEF Sweep, Doc
    <3> QED
      BY <1>1, <2>6, <3>1 DEF Sweep
  <2>7. CASE Abort(x) \/ RunDies(x)
    <3>1. /\ UNCHANGED index /\ rpc[x] # "idle"
          /\ rows' = [rows EXCEPT ![x] = [r \in Records |-> Blank]]
          /\ \E p \in {"skipped", "end"} : rpc' = [rpc EXCEPT ![x] = p]
      BY <1>1, <2>7 DEF Abort, RunDies, Active
    <3>2. /\ \A r \in Records : rows'[x][r] = Blank
          /\ \A y \in Runs : y # x => rows'[y] = rows[y] /\ rpc'[y] = rpc[y]
          /\ rpc'[x] \in {"skipped", "end"}
      BY <1>1, <3>1
    <3> QED
      BY <3>1, <3>2
  <2>8. CASE Release(x)
    BY <1>1, <2>8 DEF Release
  <2> QED
    BY <1>3, <2>1, <2>2, <2>3, <2>4, <2>5, <2>6, <2>7, <2>8 DEF Reindex
<1> QED
  BY <1>2, <1>3

-----------------------------------------------------------------------------
(* A pass that has the system to itself: every event is done, no other     *)
(* pass is active, and each row is where the pass has got to: not reached, *)
(* read, written and stamped, or swept.                                    *)
Fits(r) ==
  /\ source[r].state = "live"
  /\ index[r].live
  /\ index[r].fields = source[r].fields

RowInPlace(x, r) ==
  /\ rows[x][r] # Blank =>
       source[r].state = "live" /\ rows[x][r] = source[r].fields
  /\ index[r].run = x => Fits(r)
  /\ source[r].state = "live" =>
       /\ rpc[x] = "scan" =>
            r \in todo[x] \/ rows[x][r] # Blank \/ index[r].run = x
       /\ rpc[x] = "sweep" => index[r].run = x
  /\ rpc[x] = "swept" =>
       /\ index[r].live <=> source[r].state = "live"
       /\ index[r].live => Fits(r)

Undisturbed(x) ==
  /\ \A y \in Runs \ {x} : ~Active(y)
  /\ \A r \in Records : RowInPlace(x, r)

CalmInv ==
  \A x \in calm :
    /\ rpc[x] # "idle"
    /\ \A e \in Events : phase[e] = "done"
    /\ Active(x) => Undisturbed(x)

(* Nothing but a calm pass moves while it is active.                       *)
LEMMA CalmSteps ==
  ASSUME TypeOK, CalmInv, [Next]_vars, NEW x \in calm, x \in calm'
  PROVE  /\ UNCHANGED <<source, log, phase>> /\ Events' = Events
         /\ \/ UNCHANGED <<index, rpc, todo, rows>>
            \/ \E y \in Runs : Reindex(y) /\ ~Acquire(y)
            \/ Acquire(x)
<1>1. CASE Domain
  <2>1. UNCHANGED <<source, log, delivery, index, rebuild>>
    BY <1>1, DomainFrame
  <2> QED
    BY <2>1 DEF Events, delivery, rebuild
<1>2. ASSUME NEW e \in Events PROVE ~Handle(e)
  BY DEF CalmInv, Handle, Claim, Duplicate, ClaimFails, ReadFields, CheckExists,
         Orphan, Write, HandlerFails, DeadLetter, HandlerDies, InHand
<1>3. ASSUME NEW y \in Runs, Acquire(y) PROVE y = x
  BY <1>3 DEF Acquire
<1>4. CASE ~Domain
  <2>1. UNCHANGED <<source, log, phase>> /\ Events' = Events
    BY <1>2, <1>4 DEF Next, Reindex, Acquire, Refused, ReadRow, FlushRow, Renew,
         Sweep, Abort, Release, RunDies, LockExpires, vars, delivery, Events
  <2> QED
    BY <1>2, <1>3, <1>4, <2>1 DEF Next, LockExpires, vars, rebuild
<1> QED
  BY <1>1, <1>4

LEMMA AcquireIsCalm ==
  ASSUME TypeOK, RunsInOrder, NEW x \in Runs, Acquire(x), x \in calm'
  PROVE  CalmInv'
<1>1. /\ rpc \in [Runs -> {"idle", "scan", "sweep", "swept", "skipped", "end"}]
      /\ todo \in [Runs -> SUBSET Records]
  BY TypeParts DEF Parts, RunType
<1>2. /\ calm' = {x} /\ rpc[x] = "idle" /\ rpc' = [rpc EXCEPT ![x] = "scan"]
      /\ todo' = [todo EXCEPT ![x] = Records]
      /\ UNCHANGED <<source, log, phase, index, rows>>
      /\ \A e \in Events : phase[e] = "done"
      /\ \A y \in Runs : ~Active(y)
  BY DEF Acquire, RunAt, delivery
<1>3. Events' = Events
  BY <1>2 DEF Events
<1>4. rpc'[x] = "scan" /\ todo'[x] = Records /\ \A y \in Runs : y # x => rpc'[y] = rpc[y]
  BY <1>1, <1>2
<1>5. \A y \in Runs \ {x} : ~Active(y)'
  BY <1>2, <1>4 DEF Active
<1>6. ASSUME NEW r \in Records PROVE RowInPlace(x, r)'
  <2>1. rows'[x][r] = Blank /\ index'[r].run # x
    BY <1>2 DEF RunsInOrder, StampsAreKnown, NoRowsLeft
  <2> QED
    BY <1>4, <2>1 DEF RowInPlace
<1> QED
  BY <1>2, <1>3, <1>4, <1>5, <1>6 DEF CalmInv, Undisturbed

(* A step of the pass itself.                                              *)
LEMMA CalmPassStep ==
  ASSUME TypeOK, SourceInv, RunsInOrder, UNCHANGED source, NEW x \in Runs,
         Reindex(x), ~Acquire(x), Active(x), Active(x)',
         NEW r \in Records, RowInPlace(x, r)
  PROVE  RowInPlace(x, r)'
<1>1. /\ rpc \in [Runs -> {"idle", "scan", "sweep", "swept", "skipped", "end"}]
      /\ rows \in [Runs -> [Records -> [Fields -> Nat]]]
      /\ todo \in [Runs -> SUBSET Records]
      /\ index \in [Records -> Doc] /\ NoRun \notin Runs
  BY TypeParts, SearchAssumption DEF Parts, RunType, IndexType
<1>2. source[r].state = "live" => source[r].fields # Blank
  <2>1. PICK f \in Fields : TRUE
    BY SearchAssumption
  <2>2. source[r].state = "live" => source[r].fields[f] # 0
    BY DEF SourceInv, FieldsAreSet
  <2> QED
    BY <2>1, <2>2 DEF Blank
<1>3. rpc[x] # "scan" => rows[x][r] = Blank
  BY DEF RunsInOrder, NoRowsLeft
<1>4. CASE Refused(x)
  BY <1>4 DEF Refused, Active
<1>5. ASSUME NEW q \in Records, ReadRow(x, q)
      PROVE  RowInPlace(x, r)'
  <2>1. /\ UNCHANGED <<index, rpc>> /\ rpc[x] = "scan"
        /\ todo'[x] = todo[x] \ {q}
    BY <1>1, <1>5 DEF ReadRow
  <2>2. CASE q # r
    <3>1. rows'[x][r] = rows[x][r]
      BY <1>1, <1>5, <2>2 DEF ReadRow
    <3> QED
      BY <2>1, <2>2, <3>1 DEF RowInPlace, Fits
  <2>3. CASE q = r
    <3>1. rows'[x][r] = IF source[r].state = "live" THEN source[r].fields
                                                    ELSE rows[x][r]
      BY <1>1, <1>5, <2>3 DEF ReadRow
    <3> QED
      BY <1>2, <2>1, <2>3, <3>1 DEF RowInPlace, Fits
  <2> QED
    BY <2>2, <2>3
<1>6. ASSUME NEW q \in Records, FlushRow(x, q)
      PROVE  RowInPlace(x, r)'
  <2>1. /\ UNCHANGED <<rpc, todo>> /\ rpc[x] = "scan"
        /\ rows[x][q] # Blank
        /\ index' = [index EXCEPT ![q] = Rebuilt(@, x, q)]
    BY <1>6 DEF FlushRow
  <2>2. CASE q # r
    <3>1. rows'[x][r] = rows[x][r] /\ index'[r] = index[r]
      BY <1>1, <1>6, <2>2 DEF FlushRow
    <3> QED
      BY <2>1, <3>1 DEF RowInPlace, Fits
  <2>3. CASE q = r
    <3>1. rows'[x][r] = Blank
      BY <1>1, <1>6, <2>3 DEF FlushRow
    <3>2. index'[r] = Rebuilt(index[r], x, r)
      BY <1>1, <2>1, <2>3
    <3>3. /\ index'[r].live = TRUE /\ index'[r].fields = rows[x][r]
          /\ index'[r].run = x
      BY <1>1, <3>2 DEF Rebuilt, Doc
    <3> QED
      BY <2>1, <2>3, <3>1, <3>3 DEF RowInPlace, Fits
  <2> QED
    BY <2>2, <2>3
<1>7. CASE Renew(x)
  <2>1. /\ UNCHANGED <<index, todo, rows>>
        /\ rpc[x] = "scan" /\ rpc'[x] \in {"sweep", "skipped"}
        /\ todo[x] = {} /\ rows[x][r] = Blank
    BY <1>1, <1>7 DEF Renew, RunAt
  <2> QED
    BY <2>1 DEF RowInPlace, Fits
<1>8. CASE Sweep(x)
  <2>1. /\ UNCHANGED rows /\ rpc[x] = "sweep" /\ rpc'[x] = "swept"
    BY <1>1, <1>8 DEF Sweep, RunAt
  <2>2. /\ index'[r].run = index[r].run
        /\ index'[r].fields = index[r].fields
        /\ index'[r].live = IF index[r].run # x THEN FALSE ELSE index[r].live
    BY <1>1, <1>8 DEF Sweep, Doc
  <2>3. CASE index[r].run = x
    BY <1>3, <2>1, <2>2, <2>3 DEF RowInPlace, Fits
  <2>4. CASE index[r].run # x
    BY <1>3, <2>1, <2>2, <2>4 DEF RowInPlace, Fits
  <2> QED
    BY <2>3, <2>4
<1>9. CASE Abort(x)
  <2>1. /\ UNCHANGED index /\ rpc'[x] = "skipped" /\ rows'[x][r] = Blank
    BY <1>1, <1>9 DEF Abort, RunAt
  <2> QED
    BY <2>1 DEF RowInPlace, Fits
<1>10. CASE Release(x) \/ RunDies(x)
  BY <1>1, <1>10 DEF Release, RunDies, RunAt, Ends, Active
<1> QED
  BY <1>4, <1>5, <1>6, <1>7, <1>8, <1>9, <1>10 DEF Reindex

(* A pass that is not active and is not started is refused, or over.       *)
LEMMA IdlePassStep ==
  ASSUME TypeOK, NEW y \in Runs, Reindex(y), ~Acquire(y), ~Active(y)
  PROVE  /\ UNCHANGED <<index, todo, rows>>
         /\ rpc' = [rpc EXCEPT ![y] = "end"]
         /\ rpc[y] = "idle"
  BY DEF Reindex, Refused, ReadRow, FlushRow, Renew, Sweep, Abort, Release,
         RunDies, Active, RunAt

LEMMA NextCalmInv ==
  TypeOK /\ SourceInv /\ RunsInOrder /\ CalmInv /\ [Next]_vars => CalmInv'
<1> SUFFICES ASSUME TypeOK, SourceInv, RunsInOrder, CalmInv, [Next]_vars,
                    NEW x \in calm'
             PROVE  /\ rpc'[x] # "idle"
                    /\ \A e \in Events' : phase'[e] = "done"
                    /\ Active(x)' => Undisturbed(x)'
  BY DEF CalmInv
<1>1. /\ rpc \in [Runs -> {"idle", "scan", "sweep", "swept", "skipped", "end"}]
      /\ calm \subseteq Runs
  BY TypeParts DEF Parts, RunType, RestType
<1>2. CASE \E y \in Runs : Acquire(y)
  <2>1. PICK y \in Runs : Acquire(y)
    BY <1>2
  <2>2. y = x
    BY <2>1 DEF Acquire
  <2> QED
    BY <2>1, <2>2, AcquireIsCalm DEF CalmInv
<1>3. CASE \A y \in Runs : ~Acquire(y)
  <2>1. x \in calm
    BY <1>3, DomainFrame DEF Next, Handle, Claim, Duplicate, ClaimFails,
       ReadFields, CheckExists, Orphan, Write, HandlerFails, DeadLetter,
       HandlerDies, Reindex, Refused, ReadRow, FlushRow, Renew, Sweep, Abort,
       Release, RunDies, LockExpires, vars
  <2>2. x \in Runs /\ rpc[x] # "idle" /\ \A e \in Events : phase[e] = "done"
    BY <1>1, <2>1 DEF CalmInv
  <2>3. /\ UNCHANGED <<source, log, phase>> /\ Events' = Events
        /\ \/ UNCHANGED <<index, rpc, todo, rows>>
           \/ \E y \in Runs : Reindex(y)
    BY <1>3, <2>1, <2>2, CalmSteps
  <2>4. CASE UNCHANGED <<index, rpc, todo, rows>>
    <3>1. \A r \in Records : RowInPlace(x, r) => RowInPlace(x, r)'
      BY <2>3, <2>4 DEF RowInPlace, Fits
    <3> QED
      BY <2>1, <2>2, <2>3, <2>4, <3>1 DEF CalmInv, Undisturbed, Active
  <2>5. ASSUME NEW y \in Runs, Reindex(y)
        PROVE  rpc'[x] # "idle" /\ (Active(x)' => Undisturbed(x)')
    <3>1. rpc' = [rpc EXCEPT ![y] = rpc'[y]] /\ rpc'[y] # "idle"
      BY <1>1, <1>3, <2>5 DEF Reindex, Refused, ReadRow, FlushRow, Renew, Sweep,
         Abort, Release, RunDies, RunAt, Ends
    <3>2. CASE ~Active(y)
      <4>1. /\ UNCHANGED <<index, todo, rows>> /\ rpc[y] = "idle"
            /\ rpc' = [rpc EXCEPT ![y] = "end"]
        BY <1>3, <2>5, <3>2, IdlePassStep
      <4>2. y # x /\ rpc'[x] = rpc[x]
        BY <1>1, <2>2, <4>1
      <4>3. \A z \in Runs : Active(z)' => Active(z)
        BY <1>1, <4>1 DEF Active
      <4>4. \A r \in Records : RowInPlace(x, r) => RowInPlace(x, r)'
        BY <2>3, <4>1, <4>2 DEF RowInPlace, Fits
      <4> QED
        BY <2>1, <2>2, <4>2, <4>3, <4>4 DEF CalmInv, Undisturbed
    <3>3. CASE Active(y) /\ y # x
      <4>1. ~Active(x)
        BY <2>1, <2>5, <3>3 DEF CalmInv, Undisturbed
      <4>2. rpc'[x] = rpc[x]
        BY <1>1, <3>1, <3>3, <2>2
      <4> QED
        BY <2>2, <4>1, <4>2 DEF Active
    <3>4. CASE Active(y) /\ y = x
      <4>1. Undisturbed(x)
        BY <2>1, <3>4 DEF CalmInv
      <4>2. \A z \in Runs \ {x} : ~Active(z)'
        BY <1>1, <3>1, <3>4, <4>1 DEF Undisturbed, Active
      <4>3. Active(x)' => \A r \in Records : RowInPlace(x, r)'
        BY <1>3, <2>3, <2>5, <3>4, <4>1, CalmPassStep DEF Undisturbed
      <4> QED
        BY <3>1, <3>4, <4>2, <4>3 DEF Undisturbed
    <3> QED
      BY <3>2, <3>3, <3>4
  <2> QED
    BY <2>2, <2>3, <2>4, <2>5
<1> QED
  BY <1>2, <1>3

(* A pass that has the system to itself repairs whatever was lost: when it *)
(* has swept, the findable documents are those of the living records, with *)
(* their fields.                                                           *)
THEOREM RebuildRepairs == Spec => []ReindexRepairs
<1>1. Init => RunsInOrder /\ CalmInv
  BY SearchAssumption DEF Init, RunsInOrder, StampsAreKnown, NoRowsLeft, CalmInv,
                          NoDoc
<1>2. TypeOK /\ CalmInv => ReindexRepairs
  BY TypeParts DEF Parts, RestType, CalmInv, Undisturbed, RowInPlace, Fits,
                   Active, ReindexRepairs
<1> QED
  BY <1>1, <1>2, InitSourceInv, NextSourceInv, NextRunsInOrder, NextCalmInv,
     TypeCorrect, PTL DEF Spec

-----------------------------------------------------------------------------
(* Where no fault happens, an event of kind "deleted" whose key is its own *)
(* ends as applied: it has a tombstone to write and nothing to read first, *)
(* and when it is not being handled its key is free.                       *)
DeletionRules(e) ==
  /\ phase[e] \notin {"read", "check"}
  /\ fate[e] # "orphan"
  /\ clean => fate[e] \in {"none", "applied"}
  /\ clean /\ Key(e) \in dedup => phase[e] # "queued"

DeletionInv ==
  /\ \A k \in dedup : k.at <= Len(log)
  /\ \A e \in Events : log[e].kind = "deleted" => DeletionRules(e)

LEMMA OwnKey ==
  ASSUME "deleted" \in Stamped, NEW d \in Events, NEW e \in Events,
         log[e].kind = "deleted", Key(d) = Key(e)
  PROVE  d = e
BY DEF Key

LEMMA MutateDeletionInv ==
  ASSUME "deleted" \in Stamped, TypeOK, DeletionInv, NEW r \in Records,
         NEW kind \in Kinds, NEW to,
         NEW changed \in SUBSET Fields, Mutate(r, kind, to, changed)
  PROVE  DeletionInv'
<1>0. PICK n \in Nat : n = Len(log) + 1
  BY TypeParts DEF Parts, LogType
<1>1. /\ Len(log) \in Nat /\ Len(log') = n
      /\ Events' = Events \union {n}
      /\ \A e \in Events : /\ log'[e] = log[e]
                           /\ phase'[e] = phase[e] /\ fate'[e] = fate[e]
      /\ phase'[n] = "queued" /\ fate'[n] = "none"
  BY <1>0, MutateFrame
<1>2. UNCHANGED <<dedup, clean>> /\ dedup \subseteq [kind : Kinds, record : Records, at : Nat]
  BY TypeParts DEF Parts, DedupType, Mutate
<1>3. \A k \in dedup : k.at \in Nat /\ k.at <= Len(log)
  BY <1>2 DEF DeletionInv
<1>4. \A k \in dedup' : k.at <= Len(log')
  BY <1>0, <1>1, <1>2, <1>3
<1>5. ASSUME NEW e \in Events, log'[e].kind = "deleted"
      PROVE  DeletionRules(e)'
  <2>1. Key(e)' = Key(e)
    BY <1>1 DEF Key
  <2> QED
    BY <1>1, <1>2, <1>5, <2>1 DEF DeletionInv, DeletionRules
<1>6. ASSUME log'[n].kind = "deleted"
      PROVE  DeletionRules(n)'
  <2>1. Key(n)'.at = n
    BY <1>6 DEF Key
  <2>2. Key(n)' \notin dedup'
    BY <1>0, <1>1, <1>2, <1>3, <2>1
  <2> QED
    BY <1>1, <2>2 DEF DeletionRules
<1> QED
  BY <1>1, <1>4, <1>5, <1>6 DEF DeletionInv

LEMMA HandleDeletionInv ==
  ASSUME "deleted" \in Stamped, TypeOK, DeletionInv, NEW d \in Events, Handle(d)
  PROVE  DeletionInv'
<1>1. /\ log' = log /\ Events' = Events /\ \A e \in Events : Key(e)' = Key(e)
      /\ dedup' \subseteq dedup \union {Key(d)}
      /\ clean' => clean
  BY DEF Handle, Claim, Duplicate, ClaimFails, ReadFields, CheckExists, Orphan,
         Write, HandlerFails, DeadLetter, HandlerDies, GoesWrong, Events, Key
<1>2. /\ phase \in [Events -> Phases] /\ fate \in [Events -> Fates]
      /\ Len(log) \in Nat
  BY TypeParts DEF Parts, HandlerType, LogType
<1>3. Key(d).at <= Len(log)
  BY <1>2 DEF Key, Events
<1>4. \A k \in dedup' : k.at <= Len(log')
  BY <1>1, <1>3 DEF DeletionInv
<1>5. ASSUME NEW e \in Events, log[e].kind = "deleted"
      PROVE  DeletionRules(e)'
  <2>1. DeletionRules(e)
    BY <1>5 DEF DeletionInv
  <2>2. CASE d # e
    <3>1. phase'[e] = phase[e] /\ fate'[e] = fate[e]
      BY <1>2, <2>2
         DEF Handle, Claim, Duplicate, ClaimFails, ReadFields, CheckExists, Orphan,
             Write, HandlerFails, DeadLetter, HandlerDies, Done, Requeue, Proceed
    <3>2. Key(e) # Key(d)
      BY <1>5, <2>2, OwnKey
    <3>3. Key(e) \in dedup' => Key(e) \in dedup
      BY <1>1, <3>2
    <3> QED
      BY <1>1, <2>1, <3>1, <3>3 DEF DeletionRules
  <2>3. CASE d = e
    <3> USE <1>1, <1>2, <1>5, <2>1, <2>3 DEF DeletionRules, Proceed
    <3>1. CASE Claim(e)
      BY <3>1 DEF Claim, FirstPhase
    <3>2. CASE Duplicate(e)
      <4>1. ~clean'
        BY <3>2 DEF Duplicate
      <4> QED
        BY <3>2, <4>1 DEF Duplicate, Done
    <3>3. CASE ClaimFails(e)
      BY <3>3 DEF ClaimFails, GoesWrong
    <3>4. CASE ReadFields(e) \/ CheckExists(e) \/ Orphan(e)
      BY <3>4 DEF ReadFields, CheckExists, Orphan
    <3>5. CASE Write(e)
      BY <3>5 DEF Write, Done
    <3>6. CASE HandlerFails(e)
      BY <3>6 DEF HandlerFails, Requeue, GoesWrong
    <3>7. CASE DeadLetter(e)
      BY <3>7 DEF DeadLetter, Done, GoesWrong
    <3>8. CASE HandlerDies(e)
      BY <3>8 DEF HandlerDies, Requeue, GoesWrong
    <3> QED
      BY <3>1, <3>2, <3>3, <3>4, <3>5, <3>6, <3>7, <3>8 DEF Handle
  <2> QED
    BY <2>2, <2>3
<1> QED
  BY <1>1, <1>4, <1>5 DEF DeletionInv

LEMMA NextDeletionInv ==
  ASSUME "deleted" \in Stamped
  PROVE  TypeOK /\ DeletionInv /\ [Next]_vars => DeletionInv'
<1> SUFFICES ASSUME TypeOK, DeletionInv, [Next]_vars PROVE DeletionInv'
  OBVIOUS
<1>1. ASSUME NEW r \in Records, NEW kind \in Kinds, Mutates(r, kind)
      PROVE  DeletionInv'
  BY <1>1, MutateDeletionInv DEF Mutates
<1>2. CASE \E e \in Events : Handle(e)
  BY <1>2, HandleDeletionInv
<1>3. CASE \/ \E r \in Records : Expire(r) \/ \E u \in Users : Read(u, r)
           \/ (\E x \in Runs : Reindex(x)) \/ LockExpires \/ UNCHANGED vars
  <2>1. UNCHANGED <<log, delivery, clean>>
    BY <1>3 DEF Expire, Read, Reindex, Acquire, Refused, ReadRow, FlushRow, Renew,
                Sweep, Abort, Release, RunDies, LockExpires, vars
  <2> QED
    BY <2>1 DEF delivery, DeletionInv, DeletionRules, Events, Key
<1> QED
  BY <1>1, <1>2, <1>3, DomainSteps DEF Next

(* The events of a record have a last one.                                 *)
LastEvents ==
  \A r \in Records :
    EventsOf(r) # {} => \E e \in EventsOf(r) : \A d \in EventsOf(r) : d <= e

LEMMA NextLastEvents == TypeOK /\ LastEvents /\ [Next]_vars => LastEvents'
<1> SUFFICES ASSUME TypeOK, LastEvents, [Next]_vars PROVE LastEvents'
  OBVIOUS
<1>1. ASSUME NEW q \in Records, NEW kind \in Kinds, Mutates(q, kind),
             NEW r \in Records, EventsOf(r)' # {}
      PROVE  \E e \in EventsOf(r)' : \A d \in EventsOf(r)' : d <= e
  <2>1. PICK n \in Nat :
          /\ Events' = Events \union {n}
          /\ \A e \in Events : e \in Nat /\ e < n
          /\ EventsOf(r)' = IF r = q THEN EventsOf(r) \union {n} ELSE EventsOf(r)
    BY <1>1, MutatesFrame
  <2>2. \A d \in EventsOf(r) : d <= n
    BY <2>1 DEF EventsOf
  <2>3. CASE r = q
    BY <2>1, <2>2, <2>3
  <2>4. CASE r # q
    BY <1>1, <2>1, <2>4 DEF LastEvents
  <2> QED
    BY <2>3, <2>4
<1>2. CASE \A q \in Records, kind \in Kinds : ~Mutates(q, kind)
  BY <1>2, OthersKeepLog DEF LastEvents
<1> QED
  BY <1>1, <1>2 DEF LastEvents

-----------------------------------------------------------------------------
(* One request at a time: nobody writes a record between the moment it is  *)
(* read for a request and the moment the request writes it, but the TTL.   *)
Serial == \A u, v \in Users : u = v

(* What holds then: a record is where its request has read it, and where   *)
(* its last event says, or gone; and nothing follows a purge.              *)
RequestsAreFresh ==
  \A q \in requests : source[q.record].state \in {q.state, "gone"}

LastEventsTell ==
  \A r \in Records : \A e \in EventsOf(r) :
    (\A d \in EventsOf(r) : d <= e) =>
      source[r].state \in {After(log[e].kind), "gone"}

PurgeIsLast ==
  \A r \in Records : \A p \in EventsOf(r) :
    log[p].kind = "purged" =>
      /\ \A d \in EventsOf(r) : d <= p
      /\ \A q \in requests : q.record # r

SerialInv == RequestsAreFresh /\ LastEventsTell /\ PurgeIsLast

LEMMA MutatesSerialInv ==
  ASSUME Serial, TypeOK, EraseInv, SourceInv, SerialInv,
         NEW r \in Records, NEW kind \in Kinds, Mutates(r, kind)
  PROVE  SerialInv'
<1>1. PICK n \in Nat :
        /\ Events' = Events \union {n} /\ n \notin Events
        /\ \A e \in Events : e \in Nat /\ e < n
        /\ \A e \in Events : log'[e] = log[e]
        /\ log'[n].record = r /\ log'[n].kind = kind
        /\ \A q \in Records : EventsOf(q)' = IF q = r THEN EventsOf(q) \union {n}
                                                    ELSE EventsOf(q)
        /\ \A q \in Records : source'[q].state =
             IF q = r THEN Left(r, kind) ELSE source[q].state
  BY MutatesFrame
<1>2. /\ \A q \in requests : q.user \in Users /\ q.record \in Records
                             /\ q.state \in {"live", "trash"}
      /\ \A p, q \in requests : p = q
  BY TypeParts DEF Parts, RequestType, Requests, Serial
<1>3. \/ kind = "created" /\ source[r].state = "none" /\ UNCHANGED requests
      \/ /\ requests' = {} /\ kind # "created"
         /\ \E q \in requests :
              q.record = r /\ (kind = "updated" => q.state = "live")
  BY <1>2 DEF Mutates
<1>4. \A e \in Events : log[e].record \in Records
  BY EventType
<1>5. \A q \in Records : \A e \in EventsOf(q) : e \in Events /\ log[e].record = q
  BY DEF EventsOf
<1>6. \A q \in requests' : q \in requests /\ q.record # r
  BY <1>2, <1>3 DEF SerialInv, RequestsAreFresh
<1>7. RequestsAreFresh'
  BY <1>1, <1>2, <1>6 DEF SerialInv, RequestsAreFresh
<1>8. Left(r, kind) \in {After(kind), "gone"}
  BY <1>3 DEF Left, After, SerialInv, RequestsAreFresh
<1>9. LastEventsTell'
  <2> SUFFICES ASSUME NEW q \in Records, NEW e \in EventsOf(q)',
                      \A d \in EventsOf(q)' : d <= e
               PROVE  source'[q].state \in {After(log'[e].kind), "gone"}
    BY DEF LastEventsTell
  <2>1. CASE q = r
    <3>1. e = n
      BY <1>1, <1>5, <2>1
    <3> QED
      BY <1>1, <1>8, <2>1, <3>1
  <2>2. CASE q # r
    <3>1. e \in EventsOf(q) /\ log'[e] = log[e] /\ \A d \in EventsOf(q) : d <= e
      BY <1>1, <1>5, <2>2
    <3> QED
      BY <1>1, <2>2, <3>1 DEF SerialInv, LastEventsTell
  <2> QED
    BY <2>1, <2>2
<1>10. ASSUME NEW p \in EventsOf(r) PROVE log[p].kind # "purged"
  <2>1. SUFFICES ASSUME log[p].kind = "purged" PROVE FALSE
    OBVIOUS
  <2>2. source[r].state = "gone"
    BY <1>5, <2>1 DEF EraseInv, PurgesAreFinal
  <2>3. \A q \in requests : q.record # r
    BY <2>1 DEF SerialInv, PurgeIsLast
  <2> QED
    BY <1>3, <2>2, <2>3
<1>11. PurgeIsLast'
  <2> SUFFICES ASSUME NEW q \in Records, NEW p \in EventsOf(q)',
                      log'[p].kind = "purged"
               PROVE  /\ \A d \in EventsOf(q)' : d <= p
                      /\ \A t \in requests' : t.record # q
    BY DEF PurgeIsLast
  <2>1. CASE q = r
    <3>1. p = n
      BY <1>1, <1>5, <1>10, <2>1
    <3>2. \A d \in EventsOf(r) : d <= n
      BY <1>1, <1>5
    <3> QED
      BY <1>1, <1>6, <2>1, <3>1, <3>2
  <2>2. CASE q # r
    <3>1. EventsOf(q)' = EventsOf(q) /\ log'[p] = log[p]
      BY <1>1, <1>5, <2>2
    <3> QED
      BY <1>6, <3>1 DEF SerialInv, PurgeIsLast
  <2> QED
    BY <2>1, <2>2
<1> QED
  BY <1>7, <1>9, <1>11 DEF SerialInv

LEMMA NextSerialInv ==
  ASSUME Serial
  PROVE  TypeOK /\ EraseInv /\ SourceInv /\ SerialInv /\ [Next]_vars => SerialInv'
<1> SUFFICES ASSUME TypeOK, EraseInv, SourceInv, SerialInv, [Next]_vars
             PROVE  SerialInv'
  OBVIOUS
<1>1. CASE \E r \in Records, kind \in Kinds : Mutates(r, kind)
  BY <1>1, MutatesSerialInv
<1>2. CASE \A r \in Records, kind \in Kinds : ~Mutates(r, kind)
  <2>1. /\ log' = log /\ Events' = Events
        /\ \A r \in Records : EventsOf(r)' = EventsOf(r)
        /\ \A r \in Records : source'[r].state \in {source[r].state, "gone"}
        /\ \A q \in requests' \ requests :
             /\ source'[q.record].state = q.state
             /\ requests = {} \/ \E p \in requests : p.user # q.user
    BY <1>2, OthersKeepLog
  <2>2. /\ \A e \in Events : log[e].record \in Records
        /\ \A q \in requests : q.record \in Records
    BY EventType, TypeParts DEF Parts, RequestType, Requests
  <2>3. \A p \in Events : log[p].kind = "purged" =>
          source'[log[p].record].state = "gone"
    BY <2>1, <2>2 DEF EraseInv, PurgesAreFinal
  <2>4. RequestsAreFresh'
    BY <2>1, <2>2 DEF SerialInv, RequestsAreFresh
  <2>5. LastEventsTell'
    BY <2>1 DEF SerialInv, LastEventsTell
  <2>6. PurgeIsLast'
    <3> SUFFICES ASSUME NEW r \in Records, NEW p \in EventsOf(r),
                        log[p].kind = "purged", NEW q \in requests', q.record = r
                 PROVE  FALSE
      BY <2>1 DEF SerialInv, PurgeIsLast
    <3>1. q \notin requests
      BY DEF SerialInv, PurgeIsLast
    <3>2. q.state = "gone"
      BY <2>1, <2>3, <3>1 DEF EventsOf
    <3>3. q.state \in {"live", "trash"}
      BY NextTypeOK, TypeParts DEF Parts, RequestType, Requests
    <3> QED
      BY <3>2, <3>3
  <2> QED
    BY <2>4, <2>5, <2>6 DEF SerialInv
<1> QED
  BY <1>1, <1>2

LEMMA InitSerialInv == Init => SerialInv
<1> SUFFICES ASSUME Init PROVE SerialInv
  OBVIOUS
<1>1. Events = {} /\ requests = {} /\ \A r : EventsOf(r) = {}
  BY DEF Init, Events, EventsOf
<1> QED
  BY <1>1 DEF SerialInv, RequestsAreFresh, LastEventsTell, PurgeIsLast

LEMMA SerialAlways ==
  ASSUME Serial
  PROVE  Spec => []SerialInv
BY InitSerialInv, NextSerialInv, EraseAlways, InitSourceInv, NextSourceInv,
   TypeCorrect, PTL DEF Spec

(* Where requests do not race, a record that is not gone has the document  *)
(* it asks for as soon as its events are applied, without asking what the  *)
(* last one tells: AgreesAtRest needs that premise for racing requests and *)
(* for records the TTL has deleted, and for nothing else.                  *)
THEOREM SerialRequestsAgree ==
  ASSUME Serial
  PROVE  Spec => [](NoneStarted =>
           \A r \in Records :
             /\ source[r].state # "gone"
             /\ \A e \in EventsOf(r) : fate[e] = "applied"
             => (index[r].live <=> source[r].state = "live"))
<1>1. SerialInv /\ AgreesAtRest =>
        (NoneStarted =>
           \A r \in Records :
             /\ source[r].state # "gone"
             /\ \A e \in EventsOf(r) : fate[e] = "applied"
             => (index[r].live <=> source[r].state = "live"))
  <2> SUFFICES ASSUME SerialInv, AgreesAtRest, NoneStarted, NEW r \in Records,
                      source[r].state # "gone",
                      \A e \in EventsOf(r) : fate[e] = "applied"
               PROVE  index[r].live <=> source[r].state = "live"
    OBVIOUS
  <2>1. LastEventTells(r)
    BY DEF LastEventTells, SerialInv, LastEventsTell
  <2> QED
    BY <2>1 DEF AgreesAtRest, NoneStarted
<1> QED
  BY <1>1, SerialAlways, AppliedEventsAgree, PTL

(* A document that no rebuild has written has the version of an event.     *)
VersionIsOfEvent ==
  \A r \in Records :
    index[r].run = NoRun => index[r].version = 0 \/ index[r].version \in EventsOf(r)

LEMMA NextVersionIsOfEvent ==
  TypeOK /\ VersionIsOfEvent /\ [Next]_vars => VersionIsOfEvent'
<1> SUFFICES ASSUME TypeOK, VersionIsOfEvent, [Next]_vars, NEW r \in Records,
                    index'[r].run = NoRun
             PROVE  index'[r].version = 0 \/ index'[r].version \in EventsOf(r)'
  BY DEF VersionIsOfEvent
<1>1. EventsOf(r) \subseteq EventsOf(r)'
  <2>1. CASE \E q \in Records, kind \in Kinds : Mutates(q, kind)
    BY <2>1, MutatesFrame
  <2>2. CASE \A q \in Records, kind \in Kinds : ~Mutates(q, kind)
    BY <2>2, OthersKeepLog
  <2> QED
    BY <2>1, <2>2
<1>2. index \in [Records -> Doc] /\ NoRun \notin Runs
  BY TypeParts, SearchAssumption DEF Parts, IndexType
<1>3. CASE UNCHANGED index
  BY <1>1, <1>3 DEF VersionIsOfEvent
<1>4. ASSUME NEW e \in Events, index' = Written(e)
      PROVE  index'[r].version = 0 \/ index'[r].version \in EventsOf(r)'
  <2>1. index[r].run = NoRun
    BY <1>4, WrittenProperties
  <2>2. CASE r # log[e].record
    BY <1>1, <1>4, <2>1, <2>2, WrittenProperties DEF VersionIsOfEvent
  <2>3. CASE r = log[e].record
    <3>1. e \in EventsOf(r) /\ e \in Nat /\ index[r].version \in Nat
      BY <1>2, <2>3, EventType DEF EventsOf, Doc
    <3>2. index'[r].version \in {e, index[r].version}
      BY <1>4, <2>3, <3>1, WrittenFollows
    <3> QED
      BY <1>1, <2>1, <3>1, <3>2 DEF VersionIsOfEvent
  <2> QED
    BY <2>2, <2>3
<1>5. ASSUME NEW x \in Runs, NEW q \in Records,
             index' = [index EXCEPT ![q] = Rebuilt(@, x, q)]
      PROVE  index'[r] = index[r]
  BY <1>2, <1>5, RebuiltProperties
<1>6. ASSUME NEW x \in Runs,
             index' = [q \in Records |->
               IF index[q].run # x THEN [index[q] EXCEPT !.live = FALSE]
                                   ELSE index[q]]
      PROVE  index'[r].run = index[r].run /\ index'[r].version = index[r].version
  BY <1>2, <1>6 DEF Doc
<1>7. CASE UNCHANGED vars
  BY <1>3, <1>7 DEF vars
<1> QED
  BY <1>1, <1>3, <1>4, <1>5, <1>6, <1>7, IndexSteps DEF VersionIsOfEvent

(* Where requests do not race, what was erased stays erased, whatever the  *)
(* order of its events, until a rebuild writes it.                         *)
THEOREM SerialErasureIsFinal ==
  ASSUME Serial
  PROVE  Spec => [](\A r \in Records :
           index[r].erased /\ index[r].run = NoRun =>
             /\ ~index[r].live
             /\ \A f \in Fields \ Flat : index[r].fields[f] = 0)
<1> DEFINE Strictly ==
      \A r \in Records :
        index[r].erased /\ index[r].run = NoRun =>
          /\ ~index[r].live
          /\ \A f \in Fields \ Flat : index[r].fields[f] = 0
<1>1. TypeOK /\ SerialInv /\ EraseInv /\ VersionIsOfEvent => Strictly
  <2> SUFFICES ASSUME TypeOK, SerialInv, EraseInv, VersionIsOfEvent,
                      NEW r \in Records, index[r].erased, index[r].run = NoRun,
                      NEW p \in EventsOf(r), log[p].kind = "purged",
                      p < index[r].version
               PROVE  FALSE
    BY DEF EraseInv, PurgedStaysErased
  <2>1. p \in Nat /\ index[r].version \in Nat
    BY EventType, TypeParts DEF Parts, IndexType, Doc, EventsOf
  <2>2. index[r].version \in EventsOf(r)
    BY <2>1 DEF VersionIsOfEvent
  <2>3. index[r].version <= p
    BY <2>2 DEF SerialInv, PurgeIsLast
  <2> QED
    BY <2>1, <2>3
<1>2. Init => VersionIsOfEvent
  BY DEF Init, VersionIsOfEvent, NoDoc
<1> HIDE DEF Strictly
<1>3. Spec => []Strictly
  BY <1>1, <1>2, NextVersionIsOfEvent, SerialAlways, EraseAlways, TypeCorrect,
     PTL DEF Spec
<1> QED
  BY <1>3 DEF Strictly

(* Two things make a deleted record findable again while nothing fails:    *)
(* the key of its deletion, and a request that read it before.  Where      *)
(* requests do not race, and if the idempotencyKey of crm.<entity>.deleted *)
(* carried a time as those of the updates do, every deletion reaches the   *)
(* index, whatever the other keys and the order of the events.             *)
THEOREM StampedDeletionsAreApplied ==
  ASSUME "deleted" \in Stamped, Serial
  PROVE  Spec => []DeletedIsNotFindable
<1>1. Init => DeletionInv /\ LastEvents /\ VersionRules
  <2> SUFFICES ASSUME Init PROVE DeletionInv /\ LastEvents /\ VersionRules
    OBVIOUS
  <2>1. Events = {} /\ dedup = {} /\ \A r \in Records : index[r] = NoDoc
    BY DEF Init, Events
  <2> QED
    BY <2>1 DEF DeletionInv, LastEvents, VersionRules, FollowsVersion, EventsOf,
                NoDoc
<1>2. TypeOK /\ SourceInv /\ VersionRules /\ DeletionInv /\ LastEvents
        /\ SerialInv => DeletedIsNotFindable
  <2> SUFFICES ASSUME TypeOK, SourceInv, VersionRules, DeletionInv, LastEvents,
                      SerialInv, AtRest,
                      NEW r \in Records, source[r].state = "trash", index[r].live
               PROVE  FALSE
    BY DEF DeletedIsNotFindable
  <2>1. FollowsVersion(r) /\ clean /\ \A e \in Events : phase[e] = "done"
    BY DEF AtRest, VersionRules, NoneStarted
  <2>2. PICK e \in EventsOf(r) : \A d \in EventsOf(r) : d <= e
    BY <2>1 DEF LastEvents, FollowsVersion
  <2>3. e \in Events /\ log[e].record = r /\ e \in Nat /\ log[e].kind \in Kinds
    BY EventType DEF EventsOf
  <2>4. After(log[e].kind) = "trash"
    BY <2>2 DEF SerialInv, LastEventsTell
  <2>5. log[e].kind = "deleted"
    BY <2>3, <2>4 DEF After
  <2>6. fate[e] # "none"
    BY <2>1, <2>3, TypeParts DEF Parts, FateType
  <2>7. fate[e] = "applied"
    BY <2>1, <2>3, <2>5, <2>6 DEF DeletionInv, DeletionRules
  <2>8. index[r].version \in EventsOf(r) /\ e <= index[r].version
    BY <2>1, <2>7 DEF FollowsVersion
  <2>9. index[r].version = e
    <3>1. index[r].version \in Nat /\ index[r].version <= e
      BY <2>2, <2>8, TypeParts DEF Parts, IndexType, Doc
    <3> QED
      BY <2>3, <2>8, <3>1
  <2> QED
    BY <2>1, <2>4, <2>9 DEF FollowsVersion
<1> QED
  BY <1>1, <1>2, InitSourceInv, NextSourceInv, VersionRulesStep, NextDeletionInv,
     NextLastEvents, SerialAlways, TypeCorrect, PTL DEF Spec
=============================================================================
