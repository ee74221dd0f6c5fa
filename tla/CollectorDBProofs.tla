------------------------- MODULE CollectorDBProofs -------------------------
(***************************************************************************)
(* Theorems about the collector's store: its type invariant, the safety of *)
(* retention, that no event is accepted twice, that the keys of its rows   *)
(* never collide, that alerts alternate, and the bounds on an agent's      *)
(* backlog and on its rate of reports.  The last part is about the         *)
(* dispatchers that drain the store: they use it as its specification      *)
(* says, skip no chunk, keep the order of the chat, and repeat a chunk     *)
(* only after a fault.                                                     *)
(***************************************************************************)
EXTENDS OutboxDispatch, FiniteSetTheorems, WellFoundedInduction, TLAPS

Assumptions == AgentsAssumption /\ NoneAssumption /\ LimitsAssumption

-----------------------------------------------------------------------------
(* What the statements of _prune_history keep.                             *)

\* m and n are the same notification, wherever it stands.
SameNote(m, n) ==
  /\ m.kind = n.kind /\ m.agent = n.agent /\ m.event = n.event
  /\ m.created = n.created /\ m.source = n.source /\ m.count = n.count

\* rest are rows of ns, changed in nothing but the reference to a clone, and
\* only completed rows are missing.
KeepsUnfinished(rest, ns) ==
  /\ DOMAIN rest \subseteq DOMAIN ns
  /\ rest \in [DOMAIN rest -> Note]
  /\ \A i \in DOMAIN rest :
       /\ SameNote(rest[i], ns[i])
       /\ rest[i].state = ns[i].state
       /\ rest[i].event = ns[i].event
       /\ rest[i].next = ns[i].next
       /\ rest[i].count = ns[i].count
       /\ rest[i].owner = ns[i].owner
  /\ \A i \in DOMAIN ns \ DOMAIN rest : ns[i].state = "completed"

\* Deleting completed rows keeps every other row: ON DELETE SET NULL touches
\* only the reference to the clone.
LEMMA DeleteCompleted ==
  ASSUME NEW ns, ns \in [DOMAIN ns -> Note],
         NEW gone, \A i \in gone : i \in DOMAIN ns /\ ns[i].state = "completed"
  PROVE  KeepsUnfinished(DeleteNotes(ns, gone), ns)
<1> DEFINE rest == DeleteNotes(ns, gone)
<1>1. DOMAIN rest = DOMAIN ns \ gone
  BY DEF DeleteNotes
<1>2. \A i \in DOMAIN rest :
        rest[i] = [ns[i] EXCEPT !.clone = IF @ \in gone THEN None ELSE @]
  BY DEF DeleteNotes
<1>3. \A i \in DOMAIN rest : ns[i] \in Note
  BY <1>1
<1>4. rest \in [DOMAIN rest -> Note]
  <2>1. \A i \in DOMAIN rest : rest[i] \in Note
    BY <1>2, <1>3 DEF Note, Option
  <2> QED BY <2>1 DEF DeleteNotes
<1>5. \A i \in DOMAIN rest : /\ SameNote(rest[i], ns[i])
                             /\ rest[i].state = ns[i].state
                             /\ rest[i].event = ns[i].event
                             /\ rest[i].next = ns[i].next
                             /\ rest[i].count = ns[i].count
                             /\ rest[i].owner = ns[i].owner
  BY <1>2, <1>3 DEF Note, SameNote
<1> QED BY <1>1, <1>4, <1>5 DEF KeepsUnfinished

LEMMA KeepsUnfinishedTransitive ==
  ASSUME NEW ms, NEW ns, NEW ks, KeepsUnfinished(ms, ns), KeepsUnfinished(ns, ks)
  PROVE  KeepsUnfinished(ms, ks)
BY DEF KeepsUnfinished, SameNote

\* Both DELETEs on notifications remove completed rows only.
LEMMA PruneKeepsUnfinished ==
  ASSUME NEW ns, ns \in [DOMAIN ns -> Note], NEW at
  PROVE  KeepsUnfinished(PruneNotes(ns, at), ns)
<1> DEFINE kept == DeleteNotes(ns, AgedNotes(ns, at))
<1>1. KeepsUnfinished(kept, ns)
  BY DeleteCompleted DEF AgedNotes
<1>2. kept \in [DOMAIN kept -> Note]
  BY <1>1 DEF KeepsUnfinished
<1> HIDE DEF kept
<1>3. \A i \in SurplusNotes(kept) : i \in DOMAIN kept /\ kept[i].state = "completed"
  BY DEF SurplusNotes
<1>4. KeepsUnfinished(DeleteNotes(kept, SurplusNotes(kept)), kept)
  BY <1>2, <1>3, DeleteCompleted
<1>5. PruneNotes(ns, at) = DeleteNotes(kept, SurplusNotes(kept))
  BY DEF PruneNotes, kept
<1> QED BY <1>1, <1>4, <1>5, KeepsUnfinishedTransitive

\* The DELETEs on events keep the stored rows of protected events.
LEMMA PruneEventsKeepsProtected ==
  ASSUME NEW evs, evs \in [DOMAIN evs -> Event], NEW ns, NEW a, NEW limit, NEW at
  PROVE  /\ DOMAIN PruneEvents(evs, ns, a, limit, at) \subseteq DOMAIN evs
         /\ PruneEvents(evs, ns, a, limit, at)
              \in [DOMAIN PruneEvents(evs, ns, a, limit, at) -> Event]
         /\ ProtectedEvents(ns) \cap DOMAIN evs
              \subseteq DOMAIN PruneEvents(evs, ns, a, limit, at)
<1> DEFINE free == {e \in DOMAIN evs : e[1] = a /\ e \notin ProtectedEvents(ns)}
           aged == {e \in free : evs[e].at < at - EventRetention}
           rest == free \ aged
           surplus == {e \in rest :
                         Cardinality({f \in rest : NewerEvent(evs, f, e)}) >= limit}
<1>1. PruneEvents(evs, ns, a, limit, at) = Restrict(evs, DOMAIN evs \ (aged \cup surplus))
  BY DEF PruneEvents
<1>2. (aged \cup surplus) \cap ProtectedEvents(ns) = {}
  OBVIOUS
<1> HIDE DEF aged, surplus
<1> QED BY <1>1, <1>2 DEF Restrict

LEMMA PutType ==
  ASSUME NEW S, NEW f, f \in [DOMAIN f -> S], NEW x, NEW v \in S
  PROVE  /\ Put(f, x, v) \in [DOMAIN f \cup {x} -> S]
         /\ DOMAIN Put(f, x, v) = DOMAIN f \cup {x}
         /\ Put(f, x, v)[x] = v
         /\ \A y \in DOMAIN f \ {x} : Put(f, x, v)[y] = f[y]
BY DEF Put

LEMMA NewNoteType ==
  ASSUME NEW kind \in Kinds, NEW a \in Agents, NEW event \in Option(EventIds),
         NEW count \in Nat \ {0}, NEW at \in Time
  PROVE  NewNote(kind, a, event, count, at) \in Note
BY DEF NewNote, Note, Option, States, Time

-----------------------------------------------------------------------------
(* The inductive invariant.                                                *)

\* agents.max_sequence bounds every sequence the agent was ever accepted with:
\* registry changes keep it, and retention does not recompute it from events.
HighWater ==
  \A e \in DOMAIN accepted :
    /\ agents[e[1]].maxSequence # None
    /\ e[3] <= agents[e[1]].maxSequence

IInv == TypeOK /\ UnfinishedHasChunk /\ UnresolvedKeepsEvent /\ HighWater

LEMMA InitIInv ==
  ASSUME Assumptions, Init
  PROVE  IInv
<1>1. TypeOK
  BY DEF Assumptions, Init, TypeOK, Time, Agent, Option, Kinds
<1>2. UnfinishedHasChunk /\ UnresolvedKeepsEvent /\ HighWater
  BY DEF Init, UnfinishedHasChunk, UnresolvedKeepsEvent, HighWater
<1> QED BY <1>1, <1>2 DEF IInv

LEMMA StutterIInv ==
  ASSUME IInv, UNCHANGED vars
  PROVE  IInv'
BY DEF IInv, TypeOK, UnfinishedHasChunk, UnresolvedKeepsEvent, HighWater, vars, tables,
       history, Unresolved

LEMMA TickIInv ==
  ASSUME IInv, Tick
  PROVE  IInv'
<1>1. TypeOK'
  <2>1. /\ UNCHANGED <<agents, events, notes, lastId, accepted, alerts, reactivated, reopened>>
        /\ now' \in Nat /\ checked' = FALSE
    BY DEF Tick, IInv, TypeOK, Time, tables
  <2> QED BY <2>1 DEF IInv, TypeOK, Time
<1>2. UnfinishedHasChunk' /\ UnresolvedKeepsEvent' /\ HighWater'
  BY DEF Tick, IInv, UnfinishedHasChunk, UnresolvedKeepsEvent, HighWater, tables
<1> QED BY <1>1, <1>2 DEF IInv

LEMMA ConstantTypes ==
  ASSUME Assumptions
  PROVE  LeaseTime \in Nat /\ RetryDelay \in Nat /\ MaxAttempts \in Nat
BY DEF Assumptions, LimitsAssumption

\* A row that differs from another one neither in what it says nor in how far
\* it has been sent.
SameText(m, n) ==
  SameNote(m, n) /\ m.event = n.event /\ m.next = n.next /\ m.count = n.count

\* What the UPDATEs of the outbox do to a row.
LEMMA RowUpdates ==
  ASSUME Assumptions, now \in Time, NEW n \in Note
  PROVE  /\ \A o \in Owners : /\ Leased(n, o) \in Note /\ SameText(Leased(n, o), n)
                               /\ Leased(n, o).state = n.state
         /\ Unleased(n) \in Note /\ SameText(Unleased(n), n)
         /\ Unleased(n).state = n.state
         /\ Died(n) \in Note /\ SameText(Died(n), n) /\ Died(n).state = "dead"
         /\ Delayed(n) \in Note /\ SameText(Delayed(n), n) /\ Delayed(n).state = n.state
         /\ Rearmed(n) \in Note /\ SameText(Rearmed(n), n) /\ Rearmed(n).state = "pending"
<1>1. now + LeaseTime \in Nat /\ now + RetryDelay \in Nat
  BY ConstantTypes DEF Time
<1>2. ASSUME NEW o \in Owners
      PROVE  /\ Leased(n, o) \in Note /\ SameText(Leased(n, o), n)
             /\ Leased(n, o).state = n.state
  BY <1>1 DEF Leased, Note, Option, Time, SameText, SameNote
<1>3. /\ Unleased(n) \in Note /\ SameText(Unleased(n), n)
      /\ Unleased(n).state = n.state
  BY DEF Unleased, Note, Option, SameText, SameNote
<1>4. Unleased(n).attempts + 1 \in Nat
  BY <1>3 DEF Note
<1>5. Died(n) \in Note /\ SameText(Died(n), n) /\ Died(n).state = "dead"
  BY <1>3, <1>4 DEF Died, Note, Option, States, SameText, SameNote
<1>6. Delayed(n) \in Note /\ SameText(Delayed(n), n) /\ Delayed(n).state = n.state
  BY <1>1, <1>3, <1>4 DEF Delayed, Note, Option, Time, SameText, SameNote
<1>7. Rearmed(n) \in Note /\ SameText(Rearmed(n), n) /\ Rearmed(n).state = "pending"
  BY <1>3 DEF Rearmed, Note, Option, States, Time, SameText, SameNote
<1> QED BY <1>2, <1>3, <1>5, <1>6, <1>7

\* A step that updates one unfinished row, or several, in one of those ways.
LEMMA UpdateIInv ==
  ASSUME IInv, UNCHANGED <<now, agents, events, lastId, history>>,
         DOMAIN notes' = DOMAIN notes,
         notes' = [i \in DOMAIN notes |-> notes'[i]],
         \A i \in DOMAIN notes :
           \/ notes'[i] = notes[i]
           \/ /\ notes'[i] \in Note /\ SameText(notes'[i], notes[i])
              /\ Unresolved(notes[i]) /\ Unresolved(notes'[i])
  PROVE  IInv'
<1>1. \A i \in DOMAIN notes : notes[i] \in Note
  BY DEF IInv, TypeOK
<1>2. \A i \in DOMAIN notes : notes'[i] \in Note
  BY <1>1
<1>3. TypeOK'
  <2>1. notes' \in [DOMAIN notes' -> Note]
    BY <1>2
  <2>2. \A i \in DOMAIN notes' : notes'[i].next <= notes'[i].count
    BY DEF IInv, TypeOK, SameText
  <2> QED BY <2>1, <2>2 DEF IInv, TypeOK, history
<1>4. UnfinishedHasChunk'
  BY DEF IInv, UnfinishedHasChunk, SameText, Unresolved
<1>5. UnresolvedKeepsEvent'
  BY DEF IInv, UnresolvedKeepsEvent, SameText
<1>6. HighWater'
  BY DEF IInv, HighWater, history
<1> QED BY <1>3, <1>4, <1>5, <1>6 DEF IInv

LEMMA ClaimIInv ==
  ASSUME Assumptions, IInv, NEW o \in Owners, NEW i, ClaimNotification(o, i)
  PROVE  IInv'
<1>1. /\ i \in DOMAIN notes /\ notes[i] \in Note /\ Unresolved(notes[i])
      /\ now \in Time
  BY DEF IInv, TypeOK, ClaimNotification, Claimable, IsHead, PendingIds, Pending, Unresolved
<1>2. notes' = [notes EXCEPT ![i] = Leased(notes[i], o)]
  BY DEF ClaimNotification
<1>3. /\ Leased(notes[i], o) \in Note /\ SameText(Leased(notes[i], o), notes[i])
      /\ Unresolved(Leased(notes[i], o))
  BY <1>1, RowUpdates DEF Unresolved
<1> QED BY <1>1, <1>2, <1>3, UpdateIInv DEF ClaimNotification, IInv, TypeOK

LEMMA RecordFailureIInv ==
  ASSUME Assumptions, IInv, NEW o \in Owners, NEW i, NEW c, NEW permanent \in BOOLEAN,
         RecordFailure(o, i, c, permanent)
  PROVE  IInv'
<1>1. /\ i \in DOMAIN notes /\ notes[i] \in Note /\ notes[i].state = "pending"
      /\ now \in Time
  BY DEF IInv, TypeOK, RecordFailure, HoldsClaim, PendingIds, Pending
<1>2. PICK row \in {Died(notes[i]), Delayed(notes[i])} : notes' = [notes EXCEPT ![i] = row]
  BY DEF RecordFailure
<1>3. row \in Note /\ SameText(row, notes[i]) /\ Unresolved(row)
  BY <1>1, RowUpdates DEF Unresolved
<1>4. Unresolved(notes[i])
  BY <1>1 DEF Unresolved
<1> QED BY <1>1, <1>2, <1>3, <1>4, UpdateIInv DEF RecordFailure, IInv, TypeOK

LEMMA ReleaseIInv ==
  ASSUME Assumptions, IInv, NEW o \in Owners, NEW i, ReleaseNotification(o, i)
  PROVE  IInv'
<1>1. /\ i \in DOMAIN notes /\ notes[i] \in Note /\ Unresolved(notes[i])
      /\ now \in Time
  BY DEF IInv, TypeOK, ReleaseNotification, PendingIds, Pending, Unresolved
<1>2. notes' = [notes EXCEPT ![i] = Unleased(notes[i])]
  BY DEF ReleaseNotification
<1>3. /\ Unleased(notes[i]) \in Note /\ SameText(Unleased(notes[i]), notes[i])
      /\ Unresolved(Unleased(notes[i]))
  BY <1>1, RowUpdates DEF Unresolved
<1> QED BY <1>1, <1>2, <1>3, UpdateIInv DEF ReleaseNotification, IInv, TypeOK

LEMMA ResetLeasesIInv ==
  ASSUME Assumptions, IInv, ResetLeases
  PROVE  IInv'
<1>1. now \in Time /\ \A j \in DOMAIN notes : notes[j] \in Note
  BY DEF IInv, TypeOK
<1>2. ASSUME NEW j \in DOMAIN notes, Pending(notes[j])
      PROVE  /\ Unleased(notes[j]) \in Note /\ SameText(Unleased(notes[j]), notes[j])
             /\ Unresolved(notes[j]) /\ Unresolved(Unleased(notes[j]))
  BY <1>1, <1>2, RowUpdates DEF Unresolved, Pending
<1>3. notes' = [i \in DOMAIN notes |->
                  IF Pending(notes[i]) THEN Unleased(notes[i]) ELSE notes[i]]
  BY DEF ResetLeases
<1> QED BY <1>2, <1>3, UpdateIInv DEF ResetLeases

LEMMA RetryDeadLettersIInv ==
  ASSUME Assumptions, IInv, RetryDeadLetters
  PROVE  IInv'
<1>1. now \in Time /\ \A j \in DOMAIN notes : notes[j] \in Note
  BY DEF IInv, TypeOK
<1>2. ASSUME NEW j \in DOMAIN notes, notes[j].state = "dead"
      PROVE  /\ Rearmed(notes[j]) \in Note /\ SameText(Rearmed(notes[j]), notes[j])
             /\ Unresolved(notes[j]) /\ Unresolved(Rearmed(notes[j]))
  BY <1>1, <1>2, RowUpdates DEF Unresolved
<1>3. notes' = [i \in DOMAIN notes |->
                  IF notes[i].state = "dead" THEN Rearmed(notes[i]) ELSE notes[i]]
  BY DEF RetryDeadLetters
<1> QED BY <1>2, <1>3, UpdateIInv DEF RetryDeadLetters

\* Requeueing keeps the event of the source for its clone, which is unresolved.
LEMMA RequeueIInv ==
  ASSUME Assumptions, IInv, NEW i, RequeueDeadLetter(i)
  PROVE  IInv'
<1> DEFINE old == [notes EXCEPT ![i] = Requeued(notes[i], lastId + 1)]
           id == lastId + 1
<1>1. /\ i \in DOMAIN notes /\ notes[i] \in Note /\ notes[i].state = "dead"
      /\ now \in Time /\ lastId \in Nat /\ i \in Nat
      /\ DOMAIN notes \subseteq 1 .. lastId /\ notes \in [DOMAIN notes -> Note]
  BY DEF IInv, TypeOK, RequeueDeadLetter, Requeueable
<1>2. Remainder(i) \in Nat \ {0}
  BY <1>1 DEF RequeueDeadLetter, Remainder, Note
<1>3. NewNote(notes[i].kind, notes[i].agent, notes[i].event, Remainder(i), now) \in Note
  <2>1. notes[i].kind \in Kinds /\ notes[i].agent \in Agents
        /\ notes[i].event \in Option(EventIds)
    BY <1>1 DEF Note
  <2> QED BY <1>1, <1>2, <2>1, NewNoteType
<1>4. /\ CloneOf(i) \in Note /\ CloneOf(i).state = "pending" /\ CloneOf(i).next = 0
      /\ CloneOf(i).count \in Nat \ {0} /\ CloneOf(i).event = notes[i].event
  <2>1. CloneOf(i) \in Note
    BY <1>1, <1>3 DEF CloneOf, Note, Option, Time
  <2>2. /\ CloneOf(i).state = "pending" /\ CloneOf(i).next = 0
        /\ CloneOf(i).event = notes[i].event
    BY DEF CloneOf, NewNote
  <2> QED BY <2>1, <2>2 DEF Note
<1>5. /\ Requeued(notes[i], id) \in Note /\ SameText(Requeued(notes[i], id), notes[i])
      /\ Requeued(notes[i], id).state = "requeued"
  <2>1. lastId + 1 \in Nat
    BY <1>1
  <2> QED BY <1>1, <2>1 DEF Requeued, Note, Option, States, SameText, SameNote
<1>6. old \in [DOMAIN old -> Note] /\ DOMAIN old = DOMAIN notes
  BY <1>1, <1>5
<1>7. /\ notes' \in [DOMAIN notes \cup {id} -> Note]
      /\ DOMAIN notes' = DOMAIN notes \cup {id}
      /\ notes'[id] = CloneOf(i)
      /\ \A j \in DOMAIN notes :
           notes'[j] = IF j = i THEN Requeued(notes[i], id) ELSE notes[j]
  <2>1. notes' = Put(old, id, CloneOf(i))
    BY DEF RequeueDeadLetter
  <2>2. id \notin DOMAIN notes
    BY <1>1
  <2> HIDE DEF old, id
  <2>3. /\ notes' \in [DOMAIN old \cup {id} -> Note]
        /\ DOMAIN notes' = DOMAIN old \cup {id}
        /\ notes'[id] = CloneOf(i)
        /\ \A j \in DOMAIN old \ {id} : notes'[j] = old[j]
    BY <1>4, <1>6, <2>1 DEF Put
  <2>4. \A j \in DOMAIN notes : old[j] = IF j = i THEN Requeued(notes[i], id) ELSE notes[j]
    BY <1>1 DEF old, id
  <2> QED BY <1>6, <2>2, <2>3, <2>4
<1>8. TypeOK'
  <2>1. lastId' \in Nat /\ DOMAIN notes' \subseteq 1 .. lastId'
    BY <1>1, <1>7 DEF RequeueDeadLetter
  <2>2. \A j \in DOMAIN notes' : notes'[j].next <= notes'[j].count
    BY <1>4, <1>5, <1>7 DEF IInv, TypeOK, SameText
  <2> QED BY <1>7, <2>1, <2>2 DEF RequeueDeadLetter, IInv, TypeOK, history
<1>9. UnfinishedHasChunk'
  BY <1>1, <1>4, <1>5, <1>7 DEF IInv, UnfinishedHasChunk, SameText
<1>10. UnresolvedKeepsEvent'
  <2>1. events' = events
    BY DEF RequeueDeadLetter
  <2>2. Unresolved(notes[i]) /\ ~Unresolved(Requeued(notes[i], id))
    BY <1>1, <1>5 DEF Unresolved
  <2> QED BY <1>1, <1>4, <1>7, <2>1, <2>2 DEF IInv, UnresolvedKeepsEvent
<1>11. HighWater'
  BY DEF RequeueDeadLetter, IInv, HighWater, history
<1> QED BY <1>8, <1>9, <1>10, <1>11 DEF IInv

\* Completing a notification prunes history, but not the events of others.
LEMMA AcknowledgeIInv ==
  ASSUME Assumptions, IInv, NEW o \in Owners, NEW i, NEW c, AcknowledgeChunk(o, i, c)
  PROVE  IInv'
<1> DEFINE done == CompletesNote(i)
           row == Acked(notes[i], done)
           acked == [notes EXCEPT ![i] = row]
<1>1. /\ i \in DOMAIN notes /\ notes[i] \in Note /\ notes[i].state = "pending"
      /\ now \in Time /\ notes \in [DOMAIN notes -> Note]
      /\ events \in [DOMAIN events -> Event]
  BY DEF IInv, TypeOK, AcknowledgeChunk, HoldsClaim, PendingIds, Pending
<1>2. notes[i].next < notes[i].count /\ notes[i].next \in Nat /\ notes[i].count \in Nat
  BY <1>1 DEF IInv, UnfinishedHasChunk, Note
<1>3. /\ row \in Note /\ row.event = notes[i].event
      /\ row.next = notes[i].next + 1 /\ row.count = notes[i].count
      /\ row.state = IF done THEN "completed" ELSE "pending"
  <2>1. PICK u \in Note : /\ u = Unleased(notes[i]) /\ SameText(u, notes[i])
                          /\ u.state = "pending"
    BY <1>1, RowUpdates
  <2>2. u.next + 1 \in Nat
    BY <2>1 DEF Note
  <2>3. CASE done
    <3>1. row = [u EXCEPT !.next = u.next + 1, !.state = "completed",
                          !.attempts = 0, !.retryAt = None]
      BY <2>1, <2>3 DEF Acked
    <3> HIDE DEF row, done
    <3> QED BY <2>1, <2>2, <2>3, <3>1 DEF Note, Option, States, SameText, SameNote
  <2>4. CASE ~done
    <3>1. row = [u EXCEPT !.next = u.next + 1, !.state = "pending",
                          !.attempts = 0, !.retryAt = None]
      BY <2>1, <2>4 DEF Acked
    <3> HIDE DEF row, done
    <3> QED BY <2>1, <2>2, <2>4, <3>1 DEF Note, Option, States, SameText, SameNote
  <2> QED BY <2>3, <2>4
<1>4. done <=> row.next = row.count
  BY <1>2, <1>3 DEF CompletesNote
<1> HIDE DEF row, done
<1>5. /\ acked \in [DOMAIN acked -> Note] /\ DOMAIN acked = DOMAIN notes
      /\ \A j \in DOMAIN notes : acked[j] = IF j = i THEN row ELSE notes[j]
  BY <1>1, <1>3
<1>6. \/ done /\ notes' = PruneNotes(acked, now)
         /\ events' = PruneEvents(events, PruneNotes(acked, now), notes[i].agent,
                                  MaxEventsPerAgent, now)
      \/ ~done /\ notes' = acked /\ events' = events
  BY DEF AcknowledgeChunk, row, done
<1> HIDE DEF acked
<1>7. KeepsUnfinished(notes', acked)
  <2>1. CASE done
    BY <1>5, <1>6, <2>1, PruneKeepsUnfinished
  <2>2. CASE ~done
    BY <1>5, <1>6, <2>2 DEF KeepsUnfinished, SameNote
  <2> QED BY <2>1, <2>2
<1>8. /\ DOMAIN events' \subseteq DOMAIN events
      /\ events' \in [DOMAIN events' -> Event]
      /\ ProtectedEvents(notes') \cap DOMAIN events \subseteq DOMAIN events'
  BY <1>1, <1>6, PruneEventsKeepsProtected
<1>9. TypeOK'
  <2>1. /\ DOMAIN notes' \subseteq DOMAIN notes /\ notes' \in [DOMAIN notes' -> Note]
    BY <1>5, <1>7 DEF KeepsUnfinished
  <2>2. \A j \in DOMAIN notes' : notes'[j].next <= notes'[j].count
    BY <1>2, <1>3, <1>5, <1>7 DEF KeepsUnfinished, IInv, TypeOK
  <2> QED BY <1>8, <2>1, <2>2 DEF AcknowledgeChunk, IInv, TypeOK, history
<1>10. UnfinishedHasChunk'
  <2>1. \A j \in DOMAIN notes :
          /\ acked[j].next <= acked[j].count
          /\ acked[j].state = "completed" <=> acked[j].next = acked[j].count
    BY <1>2, <1>3, <1>4, <1>5 DEF IInv, UnfinishedHasChunk
  <2> QED BY <1>5, <1>7, <2>1 DEF UnfinishedHasChunk, KeepsUnfinished
<1>11. UnresolvedKeepsEvent'
  <2> SUFFICES ASSUME NEW j \in DOMAIN notes', Unresolved(notes'[j]), notes'[j].event # None
               PROVE  notes'[j].event \in DOMAIN events'
    BY DEF UnresolvedKeepsEvent
  <2>1. j \in DOMAIN notes /\ notes'[j].event = notes[j].event
    BY <1>3, <1>5, <1>7 DEF KeepsUnfinished
  <2>2. Unresolved(notes[j])
    BY <1>1, <1>5, <1>7, <2>1 DEF KeepsUnfinished, Unresolved
  <2>3. notes'[j].event \in DOMAIN events
    BY <2>1, <2>2 DEF IInv, UnresolvedKeepsEvent
  <2>4. notes'[j].event \in ProtectedEvents(notes')
    BY DEF ProtectedEvents
  <2> QED BY <1>8, <2>3, <2>4
<1>12. HighWater'
  BY DEF AcknowledgeChunk, IInv, HighWater, history
<1> QED BY <1>9, <1>10, <1>11, <1>12 DEF IInv

\* The agent's row after an accepted report is well formed and carries the
\* sequence of the report.
LEMMA AcceptedAgents ==
  ASSUME Assumptions, IInv,
         NEW a \in Agents, NEW b \in Boots, NEW s \in Sequences, NEW d \in Digests,
         NEW k \in ReportChunks, NEW at \in ReceptionTimes(a),
         AcceptReport(a, b, s, d, k, at)
  PROVE  /\ agents' \in [Agents -> Agent]
         /\ agents'[a].maxSequence = s
         /\ \A x \in Agents \ {a} : agents'[x] = agents[x]
<1> DEFINE start == IF WindowOver(a, at) THEN at ELSE agents[a].windowStart
           seen == LaterOf(agents[a].lastSeen, at)
           count == RateCount(a, at) + 1
           row == [agents[a] EXCEPT !.lastSeen = seen, !.offline = FALSE, !.maxSequence = s,
                                    !.windowStart = start, !.rateCount = count]
<1>1. agents \in [Agents -> Agent] /\ agents[a] \in Agent /\ at \in Nat /\ s \in Nat
  BY DEF IInv, TypeOK, ReceptionTimes, Assumptions, LimitsAssumption
<1>2. start \in Option(Time) /\ seen \in Option(Time) /\ count \in Nat
  BY <1>1 DEF Agent, Option, Time, LaterOf, RateCount
<1>3. agents' = [agents EXCEPT ![a] = row]
  <2>1. row = Heard(a, s, at)
    BY DEF Heard
  <2> QED BY <2>1 DEF AcceptReport
<1> HIDE DEF start, seen, count
<1>4. row \in Agent /\ row.maxSequence = s
  BY <1>1, <1>2 DEF Agent, Option
<1> HIDE DEF row
<1> QED BY <1>1, <1>3, <1>4

LEMMA AcceptReportIInv ==
  ASSUME Assumptions, IInv,
         NEW a \in Agents, NEW b \in Boots, NEW s \in Sequences, NEW d \in Digests,
         NEW k \in ReportChunks, NEW at \in ReceptionTimes(a),
         AcceptReport(a, b, s, d, k, at)
  PROVE  IInv'
<1> DEFINE id == <<a, b, s>>
           report == NewNote("REPORT", a, id, k, at)
           recovery == NewNote("RECOVERY", a, id, 1, at)
           pruned == PruneNotes(notes, at)
           queued == IF agents[a].offline
                     THEN Put(Put(pruned, lastId + 1, recovery), lastId + 2, report)
                     ELSE Put(pruned, lastId + 1, report)
           slots == IF MaxEventsPerAgent > 1 THEN MaxEventsPerAgent - 1 ELSE 1
           room == PruneEvents(events, pruned, a, slots, at)
           stored == Put(room, id, [digest |-> d, at |-> at])
<1>1. /\ at \in Time /\ notes \in [DOMAIN notes -> Note] /\ lastId \in Nat
      /\ DOMAIN notes \subseteq 1 .. lastId /\ events \in [DOMAIN events -> Event]
      /\ id \in EventIds /\ k \in Nat \ {0}
      /\ DOMAIN events \subseteq EventIds
  BY DEF IInv, TypeOK, EventIds, ReceptionTimes, Time, Assumptions, LimitsAssumption
<1>2. /\ report \in Note /\ recovery \in Note
      /\ \A n \in {report, recovery} : /\ n.event = id /\ n.state = "pending"
                                       /\ n.next = 0 /\ n.count \in Nat \ {0}
  <2>1. report \in Note /\ recovery \in Note
    <3>1. "REPORT" \in Kinds /\ "RECOVERY" \in Kinds
      BY DEF Kinds
    <3>2. id \in Option(EventIds)
      BY <1>1 DEF Option
    <3>3. 1 \in Nat \ {0}
      OBVIOUS
    <3> HIDE DEF id
    <3> QED BY <1>1, <3>1, <3>2, <3>3, NewNoteType
  <2> QED BY <1>1, <2>1 DEF NewNote
<1>3. KeepsUnfinished(pruned, notes)
  BY <1>1, PruneKeepsUnfinished
<1>4. lastId' \in Nat /\ lastId' >= lastId
      /\ (agents[a].offline => lastId' = lastId + 2)
      /\ (~agents[a].offline => lastId' = lastId + 1)
  BY <1>1 DEF AcceptReport, Additions
<1>5. /\ DOMAIN queued \subseteq 1 .. lastId'
      /\ queued \in [DOMAIN queued -> Note]
      /\ \A j \in DOMAIN queued :
           \/ j \in DOMAIN pruned /\ queued[j] = pruned[j]
           \/ queued[j] \in {report, recovery}
  <2>1. /\ DOMAIN pruned \subseteq 1 .. lastId /\ pruned \in [DOMAIN pruned -> Note]
    BY <1>1, <1>3 DEF KeepsUnfinished
  <2> HIDE DEF pruned, report, recovery
  <2>2. CASE agents[a].offline
    BY <1>1, <1>2, <1>4, <2>1, <2>2 DEF Put
  <2>3. CASE ~agents[a].offline
    BY <1>1, <1>2, <1>4, <2>1, <2>3 DEF Put
  <2> QED BY <2>2, <2>3
<1>6. notes' = PruneNotes(queued, at)
  BY DEF AcceptReport
<1>7. KeepsUnfinished(notes', queued)
  BY <1>5, <1>6, PruneKeepsUnfinished
<1>8. /\ DOMAIN room \subseteq DOMAIN events /\ room \in [DOMAIN room -> Event]
      /\ ProtectedEvents(pruned) \cap DOMAIN events \subseteq DOMAIN room
  BY <1>1, PruneEventsKeepsProtected
<1>9. /\ DOMAIN stored = DOMAIN room \cup {id} /\ stored \in [DOMAIN stored -> Event]
  <2>1. [digest |-> d, at |-> at] \in Event
    BY <1>1 DEF Event
  <2> HIDE DEF room, id
  <2> QED BY <1>8, <2>1 DEF Put
<1>10. /\ DOMAIN events' \subseteq DOMAIN stored
       /\ events' \in [DOMAIN events' -> Event]
       /\ ProtectedEvents(notes') \cap DOMAIN stored \subseteq DOMAIN events'
  <2>1. events' = PruneEvents(stored, notes', a, MaxEventsPerAgent, at)
    BY <1>6 DEF AcceptReport
  <2> HIDE DEF stored
  <2> QED BY <1>9, <2>1, PruneEventsKeepsProtected
<1> HIDE DEF queued, pruned, report, recovery, room, stored, slots
<1>11. ASSUME NEW j \in DOMAIN notes'
       PROVE  /\ j \in DOMAIN queued
              /\ \/ /\ j \in DOMAIN notes
                    /\ notes'[j].state = notes[j].state
                    /\ notes'[j].event = notes[j].event
                    /\ notes'[j].next = notes[j].next
                    /\ notes'[j].count = notes[j].count
                    /\ j \in DOMAIN pruned
                    /\ pruned[j].state = notes[j].state
                    /\ pruned[j].event = notes[j].event
                 \/ /\ notes'[j].event = id /\ notes'[j].state = "pending"
                    /\ notes'[j].next = 0 /\ notes'[j].count \in Nat \ {0}
  <2>1. /\ j \in DOMAIN queued
        /\ notes'[j].state = queued[j].state /\ notes'[j].event = queued[j].event
        /\ notes'[j].next = queued[j].next /\ notes'[j].count = queued[j].count
    BY <1>7 DEF KeepsUnfinished
  <2>2. CASE j \in DOMAIN pruned /\ queued[j] = pruned[j]
    BY <1>3, <2>1, <2>2 DEF KeepsUnfinished
  <2>3. CASE queued[j] \in {report, recovery}
    BY <1>2, <2>1, <2>3
  <2> QED BY <1>5, <2>1, <2>2, <2>3
<1>12. TypeOK'
  <2>1. DOMAIN notes' \subseteq 1 .. lastId' /\ notes' \in [DOMAIN notes' -> Note]
    BY <1>5, <1>7 DEF KeepsUnfinished
  <2>2. \A j \in DOMAIN notes' : notes'[j].next <= notes'[j].count
    BY <1>11 DEF IInv, TypeOK
  <2>3. DOMAIN events' \subseteq EventIds /\ events' \in [DOMAIN events' -> Event]
    BY <1>1, <1>8, <1>9, <1>10
  <2>4. agents' \in [Agents -> Agent]
    BY AcceptedAgents
  <2>5. DOMAIN accepted' \subseteq EventIds /\ accepted' \in [DOMAIN accepted' -> Time]
    BY <1>1 DEF AcceptReport, Put, IInv, TypeOK
  <2>6. alerts' \in [Agents -> Option(Kinds)]
    BY DEF AcceptReport, IInv, TypeOK, Option, Kinds
  <2>7. UNCHANGED <<now, reactivated, checked>> /\ reopened' \in [Agents -> Nat]
    BY DEF AcceptReport, IInv, TypeOK
  <2> QED BY <1>4, <2>1, <2>2, <2>3, <2>4, <2>5, <2>6, <2>7 DEF IInv, TypeOK
<1>13. UnfinishedHasChunk'
  <2> SUFFICES ASSUME NEW j \in DOMAIN notes'
               PROVE  /\ notes'[j].next <= notes'[j].count
                      /\ notes'[j].state = "completed" <=> notes'[j].next = notes'[j].count
    BY DEF UnfinishedHasChunk
  <2> QED BY <1>11 DEF IInv, UnfinishedHasChunk
<1>14. UnresolvedKeepsEvent'
  <2> SUFFICES ASSUME NEW j \in DOMAIN notes', Unresolved(notes'[j]), notes'[j].event # None
               PROVE  notes'[j].event \in DOMAIN events'
    BY DEF UnresolvedKeepsEvent
  <2>1. notes'[j].event \in ProtectedEvents(notes')
    BY DEF ProtectedEvents
  <2>2. CASE notes'[j].event = id
    BY <1>9, <1>10, <2>1, <2>2
  <2>3. CASE /\ j \in DOMAIN notes /\ j \in DOMAIN pruned
             /\ notes'[j].state = notes[j].state /\ notes'[j].event = notes[j].event
             /\ pruned[j].state = notes[j].state /\ pruned[j].event = notes[j].event
    <3>1. notes'[j].event \in DOMAIN events
      BY <2>3 DEF IInv, UnresolvedKeepsEvent, Unresolved
    <3>2. notes'[j].event \in ProtectedEvents(pruned)
      BY <2>3 DEF ProtectedEvents, Unresolved
    <3> QED BY <1>8, <1>9, <1>10, <2>1, <3>1, <3>2
  <2> QED BY <1>11, <2>2, <2>3
<1>15. HighWater'
  <2> SUFFICES ASSUME NEW e \in DOMAIN accepted'
               PROVE  agents'[e[1]].maxSequence # None /\ e[3] <= agents'[e[1]].maxSequence
    BY DEF HighWater
  <2>1. /\ agents'[a].maxSequence = s /\ s \in Nat
        /\ \A x \in Agents \ {a} : agents'[x] = agents[x]
    BY AcceptedAgents DEF Assumptions, LimitsAssumption
  <2>2. CASE e = id
    BY <2>1, <2>2 DEF Assumptions, NoneAssumption
  <2>3. CASE e \in DOMAIN accepted
    <3>1. /\ e[1] \in Agents /\ e[3] \in Nat
          /\ agents[e[1]].maxSequence # None /\ e[3] <= agents[e[1]].maxSequence
      BY <2>3 DEF IInv, HighWater, TypeOK, EventIds, Assumptions, LimitsAssumption
    <3>2. CASE e[1] = a
      <4>1. agents[a].maxSequence \in Nat /\ s > agents[a].maxSequence
        BY <3>1, <3>2 DEF AcceptReport, Admissible, FreshSequence, IInv, TypeOK, Agent, Option
      <4> QED BY <2>1, <3>1, <3>2, <4>1 DEF Assumptions, NoneAssumption
    <3>3. CASE e[1] # a
      BY <2>1, <3>1, <3>3
    <3> QED BY <3>2, <3>3
  <2>4. DOMAIN accepted' = DOMAIN accepted \cup {id}
    BY DEF AcceptReport, Put
  <2> QED BY <2>2, <2>3, <2>4
<1> QED BY <1>12, <1>13, <1>14, <1>15 DEF IInv

LEMMA OfflineTransitionsIInv ==
  ASSUME Assumptions, IInv, OfflineTransitions
  PROVE  IInv'
<1> DEFINE late == Overdue
           added == lastId + 1 .. lastId + Cardinality(late)
<1>1. /\ now \in Time /\ lastId \in Nat /\ DOMAIN notes \subseteq 1 .. lastId
      /\ notes \in [DOMAIN notes -> Note] /\ agents \in [Agents -> Agent]
  BY DEF IInv, TypeOK
<1>2. late \subseteq Agents /\ Cardinality(late) \in Nat
  <2>1. late \subseteq Agents
    BY DEF Overdue
  <2> HIDE DEF late
  <2> QED BY <2>1, FS_Subset, FS_CardinalityType DEF Assumptions, AgentsAssumption
<1> HIDE DEF late
<1>3. PICK turn \in [added -> late] :
        notes' = [i \in DOMAIN notes \cup added |->
                    IF i \in added THEN NewNote("OFFLINE", turn[i], None, 1, now) ELSE notes[i]]
  BY DEF OfflineTransitions, late
<1>4. \A i \in added :
        LET n == NewNote("OFFLINE", turn[i], None, 1, now)
        IN  n \in Note /\ n.event = None /\ n.next = 0 /\ n.count = 1 /\ n.state = "pending"
  <2> SUFFICES ASSUME NEW i \in added
               PROVE  LET n == NewNote("OFFLINE", turn[i], None, 1, now)
                      IN  /\ n \in Note /\ n.event = None /\ n.next = 0 /\ n.count = 1
                          /\ n.state = "pending"
    OBVIOUS
  <2>1. turn[i] \in Agents
    BY <1>2
  <2>2. NewNote("OFFLINE", turn[i], None, 1, now) \in Note
    <3>1. "OFFLINE" \in Kinds
      BY DEF Kinds
    <3>2. None \in Option(EventIds)
      BY DEF Option
    <3>3. 1 \in Nat \ {0}
      OBVIOUS
    <3> QED BY <1>1, <2>1, <3>1, <3>2, <3>3, NewNoteType
  <2> QED BY <2>2 DEF NewNote
<1>5. lastId' = lastId + Cardinality(late)
  BY DEF OfflineTransitions, late
<1>6. /\ agents' \in [Agents -> Agent]
      /\ \A a \in Agents : agents'[a].maxSequence = agents[a].maxSequence
  <2>1. agents' = [a \in Agents |->
                     IF a \in late THEN [agents[a] EXCEPT !.offline = TRUE] ELSE agents[a]]
    BY DEF OfflineTransitions, late
  <2>2. \A a \in Agents : /\ [agents[a] EXCEPT !.offline = TRUE] \in Agent
                          /\ [agents[a] EXCEPT !.offline = TRUE].maxSequence
                               = agents[a].maxSequence
    BY <1>1 DEF Agent
  <2> QED BY <1>1, <2>1, <2>2
<1>7. TypeOK'
  <2>1. DOMAIN notes' \subseteq 1 .. lastId' /\ lastId' \in Nat
    BY <1>1, <1>2, <1>3, <1>5
  <2>2. notes' \in [DOMAIN notes' -> Note]
    BY <1>1, <1>3, <1>4
  <2>3. \A i \in DOMAIN notes' : notes'[i].next <= notes'[i].count
    BY <1>3, <1>4 DEF IInv, TypeOK
  <2>4. alerts' \in [Agents -> Option(Kinds)]
    BY DEF OfflineTransitions, IInv, TypeOK, Option, Kinds
  <2>5. UNCHANGED <<now, events, accepted, reactivated, reopened>> /\ checked' \in BOOLEAN
    BY DEF OfflineTransitions
  <2> QED BY <1>6, <2>1, <2>2, <2>3, <2>4, <2>5 DEF IInv, TypeOK
<1>8. UnfinishedHasChunk'
  BY <1>3, <1>4 DEF IInv, UnfinishedHasChunk
<1>9. UnresolvedKeepsEvent'
  <2>1. events' = events
    BY DEF OfflineTransitions
  <2> QED BY <1>3, <1>4, <2>1 DEF IInv, UnresolvedKeepsEvent
<1>10. HighWater'
  <2>1. accepted' = accepted /\ \A e \in DOMAIN accepted : e[1] \in Agents
    BY DEF OfflineTransitions, IInv, TypeOK, EventIds
  <2> QED BY <1>6, <2>1 DEF IInv, HighWater
<1> QED BY <1>7, <1>8, <1>9, <1>10 DEF IInv

\* The registry resets an agent's evidence and rate window, never its high water.
LEMMA SyncRegistryIInv ==
  ASSUME Assumptions, IInv, NEW registry \in SUBSET Agents, SyncRegistry(registry)
  PROVE  IInv'
<1> DEFINE back == {a \in registry : ~agents[a].active}
<1>1. now \in Time /\ agents \in [Agents -> Agent]
  BY DEF IInv, TypeOK
<1>2. \A a \in Agents :
        /\ Reactivated(agents[a]) \in Agent
        /\ Reactivated(agents[a]).maxSequence = agents[a].maxSequence
        /\ [agents[a] EXCEPT !.active = (a \in registry)] \in Agent
        /\ [agents[a] EXCEPT !.active = (a \in registry)].maxSequence
             = agents[a].maxSequence
  <2> SUFFICES ASSUME NEW a \in Agents
               PROVE  /\ Reactivated(agents[a]) \in Agent
                      /\ Reactivated(agents[a]).maxSequence = agents[a].maxSequence
                      /\ [agents[a] EXCEPT !.active = (a \in registry)] \in Agent
                      /\ [agents[a] EXCEPT !.active = (a \in registry)].maxSequence
                           = agents[a].maxSequence
    OBVIOUS
  <2>1. agents[a] \in Agent
    BY <1>1
  <2>2. /\ Reactivated(agents[a]) \in Agent
        /\ Reactivated(agents[a]).maxSequence = agents[a].maxSequence
    BY <1>1, <2>1 DEF Reactivated, Agent, Option, Time
  <2>3. \A value \in BOOLEAN :
          /\ [agents[a] EXCEPT !.active = value] \in Agent
          /\ [agents[a] EXCEPT !.active = value].maxSequence = agents[a].maxSequence
    BY <2>1 DEF Agent
  <2>4. (a \in registry) \in BOOLEAN
    OBVIOUS
  <2> QED BY <2>2, <2>3, <2>4
<1>3. /\ agents' \in [Agents -> Agent]
      /\ \A a \in Agents : agents'[a].maxSequence = agents[a].maxSequence
  <2>1. agents' = [a \in Agents |->
                     IF a \in back THEN Reactivated(agents[a])
                     ELSE [agents[a] EXCEPT !.active = (a \in registry)]]
    BY DEF SyncRegistry
  <2> HIDE DEF back
  <2>2. \A a \in Agents :
          agents'[a] \in {Reactivated(agents[a]),
                          [agents[a] EXCEPT !.active = (a \in registry)]}
    BY <2>1
  <2>3. \A a \in Agents : /\ agents'[a] \in Agent
                          /\ agents'[a].maxSequence = agents[a].maxSequence
    BY <1>2, <2>2
  <2> QED BY <2>1, <2>3
<1>4. TypeOK'
  <2>1. alerts' \in [Agents -> Option(Kinds)] /\ reactivated' \in [Agents -> Nat]
    BY DEF SyncRegistry, IInv, TypeOK, Option
  <2>2. UNCHANGED <<now, events, notes, lastId, accepted, reopened, checked>>
    BY DEF SyncRegistry
  <2> QED BY <1>3, <2>1, <2>2 DEF IInv, TypeOK
<1>5. UnfinishedHasChunk' /\ UnresolvedKeepsEvent'
  BY DEF SyncRegistry, IInv, UnfinishedHasChunk, UnresolvedKeepsEvent
<1>6. HighWater'
  <2>1. accepted' = accepted /\ \A e \in DOMAIN accepted : e[1] \in Agents
    BY DEF SyncRegistry, IInv, TypeOK, EventIds
  <2> QED BY <1>3, <2>1 DEF IInv, HighWater
<1> QED BY <1>4, <1>5, <1>6 DEF IInv

LEMMA NextIInv ==
  ASSUME Assumptions, IInv, [Next]_vars
  PROVE  IInv'
<1>1. CASE UNCHANGED vars
  BY <1>1, StutterIInv
<1>2. CASE Reporting
  BY <1>2, AcceptReportIInv DEF Reporting
<1>3. CASE OfflineTransitions
  BY <1>3, OfflineTransitionsIInv
<1>4. CASE Dispatching
  BY <1>4, ClaimIInv, AcknowledgeIInv, RecordFailureIInv, ReleaseIInv DEF Dispatching
<1>5. CASE Repairing
  BY <1>5, ResetLeasesIInv, RetryDeadLettersIInv, RequeueIInv DEF Repairing
<1>6. CASE \E registry \in SUBSET Agents : SyncRegistry(registry)
  BY <1>6, SyncRegistryIInv
<1>7. CASE Tick
  BY <1>7, TickIInv
<1> QED BY <1>1, <1>2, <1>3, <1>4, <1>5, <1>6, <1>7 DEF Next

-----------------------------------------------------------------------------
(* Theorems.                                                               *)

LEMMA Invariance == Spec => []IInv
<1>1. Assumptions
  BY AgentsAssumption, NoneAssumption, LimitsAssumption DEF Assumptions
<1>2. Init => IInv
  BY <1>1, InitIInv
<1>3. IInv /\ [Next]_vars => IInv'
  BY <1>1, NextIInv
<1> QED BY <1>2, <1>3, PTL DEF Spec

\* Every reachable store satisfies the types and CHECKs of the schema.
THEOREM TypeCorrect == Spec => []TypeOK
<1>1. IInv => TypeOK
  BY DEF IInv
<1> QED BY <1>1, Invariance, PTL

\* A claim always has a chunk to send and a requeue a remainder, whatever the
\* interleaving of dispatchers, operators and retention.
THEOREM UnfinishedAlwaysHasChunk == Spec => []UnfinishedHasChunk
<1>1. IInv => UnfinishedHasChunk
  BY DEF IInv
<1> QED BY <1>1, Invariance, PTL

\* Retention never deletes the event behind a notification that still has to be
\* delivered or can still be requeued.
THEOREM RetentionIsSafe == Spec => []UnresolvedKeepsEvent
<1>1. IInv => UnresolvedKeepsEvent
  BY DEF IInv
<1> QED BY <1>1, Invariance, PTL

\* The rows a step can add to the table events.
LEMMA OnlyReportsAddEvents ==
  ASSUME Assumptions, IInv, Next, ~Reporting
  PROVE  DOMAIN events' \subseteq DOMAIN events
<1> events \in [DOMAIN events -> Event]
  BY DEF IInv, TypeOK
<1>1. ASSUME NEW o \in Owners, NEW i, NEW c, AcknowledgeChunk(o, i, c)
      PROVE  DOMAIN events' \subseteq DOMAIN events
  <2>1. \/ events' = PruneEvents(events, PruneNotes([notes EXCEPT ![i] =
                                   Acked(@, CompletesNote(i))], now), notes[i].agent,
                                 MaxEventsPerAgent, now)
        \/ events' = events
    BY <1>1 DEF AcknowledgeChunk
  <2> QED BY <2>1, PruneEventsKeepsProtected
<1>2. CASE Dispatching
  BY <1>1, <1>2 DEF Dispatching, ClaimNotification, RecordFailure, ReleaseNotification
<1>3. CASE Repairing
  BY <1>3 DEF Repairing, ResetLeases, RetryDeadLetters, RequeueDeadLetter
<1> QED BY <1>2, <1>3 DEF Next, OfflineTransitions, SyncRegistry, Tick, tables

\* An admitted report is newer than every event ever accepted from its agent.
LEMMA NewerThanAccepted ==
  ASSUME Assumptions, IInv, NEW a \in Agents, NEW b \in Boots, NEW s \in Sequences,
         NEW d \in Digests, NEW k \in ReportChunks, NEW at \in ReceptionTimes(a),
         AcceptReport(a, b, s, d, k, at),
         NEW f \in DOMAIN accepted, f[1] = a
  PROVE  f[3] < s
<1>1. f[3] \in Nat /\ agents[a].maxSequence # None /\ f[3] <= agents[a].maxSequence
  BY DEF IInv, HighWater, TypeOK, EventIds, Assumptions, LimitsAssumption
<1>2. agents[a].maxSequence \in Nat /\ s > agents[a].maxSequence /\ s \in Nat
  BY <1>1 DEF AcceptReport, Admissible, FreshSequence, IInv, TypeOK, Agent,
     Option, Assumptions, LimitsAssumption
<1> QED BY <1>1, <1>2

\* No event is ever accepted twice, and an agent's accepted sequences increase:
\* pruning, new boots and registry changes included.
THEOREM NoEventAcceptedTwice == Spec => AcceptedOnce
<1>1. Assumptions
  BY AgentsAssumption, NoneAssumption, LimitsAssumption DEF Assumptions
<1>2. IInv /\ [Next]_vars => [AcceptedOnceStep]_vars
  <2> SUFFICES ASSUME IInv, Next
               PROVE  AcceptedOnceStep
    OBVIOUS
  <2>1. CASE ~Reporting
    BY <1>1, <2>1, OnlyReportsAddEvents DEF AcceptedOnceStep
  <2>2. CASE Reporting
    <3>1. PICK a \in Agents, b \in Boots, s \in Sequences, d \in Digests,
               k \in ReportChunks, at \in Time :
                 at \in ReceptionTimes(a) /\ AcceptReport(a, b, s, d, k, at)
      BY <2>2 DEF Reporting, ReceptionTimes, Time
    <3> DEFINE id == <<a, b, s>>
               slots == IF MaxEventsPerAgent > 1 THEN MaxEventsPerAgent - 1 ELSE 1
               room == PruneEvents(events, PruneNotes(notes, at), a, slots, at)
               stored == Put(room, id, [digest |-> d, at |-> at])
    <3>2. DOMAIN events' \subseteq DOMAIN events \cup {id}
      <4>1. /\ DOMAIN room \subseteq DOMAIN events /\ room \in [DOMAIN room -> Event]
        BY PruneEventsKeepsProtected DEF IInv, TypeOK
      <4>2. [digest |-> d, at |-> at] \in Event
        BY DEF IInv, TypeOK, Event
      <4> HIDE DEF room
      <4>3. DOMAIN stored = DOMAIN room \cup {id} /\ stored \in [DOMAIN stored -> Event]
        BY <4>1, <4>2 DEF Put
      <4>4. \E ns : events' = PruneEvents(stored, ns, a, MaxEventsPerAgent, at)
        BY <3>1 DEF AcceptReport, room
      <4> HIDE DEF stored
      <4>5. DOMAIN events' \subseteq DOMAIN stored
        BY <4>3, <4>4, PruneEventsKeepsProtected
      <4> QED BY <4>1, <4>3, <4>5
    <3>3. ASSUME NEW f \in DOMAIN accepted, f[1] = a
          PROVE  f[3] < s
      BY <1>1, <3>1, <3>3, NewerThanAccepted
    <3> QED BY <3>2, <3>3 DEF AcceptedOnceStep
  <2> QED BY <2>1, <2>2
<1> QED BY <1>2, Invariance, PTL DEF Spec, AcceptedOnce

\* The store implements the promise agents rely on: seen through the numbers of
\* the events accept_report took, every step is a step of ReportAdmission or
\* leaves them alone.
THEOREM ImplementsAdmission == Spec => AdmitsInOrder
<1> DEFINE taken == {<<e[1], e[3]>> : e \in DOMAIN accepted}
<1>1. Assumptions
  BY AgentsAssumption, NoneAssumption, LimitsAssumption DEF Assumptions
<1>2. Init => Admission!Init
  BY DEF Init, Admission!Init
<1>3. IInv /\ [Next]_vars => [Admission!Next]_taken
  <2> SUFFICES ASSUME IInv, [Next]_vars
               PROVE  [Admission!Next]_taken
    OBVIOUS
  <2>1. ASSUME UNCHANGED accepted
        PROVE  UNCHANGED taken
    BY <2>1
  <2>2. ASSUME NEW a \in Agents, NEW b \in Boots, NEW s \in Sequences, NEW d \in Digests,
               NEW k \in ReportChunks, NEW at \in ReceptionTimes(a),
         AcceptReport(a, b, s, d, k, at)
        PROVE  Admission!Take(a, s)
    <3>1. taken' = taken \cup {<<a, s>>}
      BY <2>2 DEF AcceptReport, Put
    <3>2. ASSUME NEW f \in DOMAIN accepted, f[1] = a
          PROVE  f[3] < s
      BY <1>1, <2>2, <3>2, NewerThanAccepted
    <3> QED BY <3>1, <3>2 DEF Admission!Take, Admission!Fresh
  <2>3. Next => Reporting \/ UNCHANGED accepted
    BY DEF Next, OfflineTransitions, Dispatching, ClaimNotification, AcknowledgeChunk,
       RecordFailure, ReleaseNotification, Repairing, ResetLeases, RetryDeadLetters,
       RequeueDeadLetter, SyncRegistry, Tick, tables, history
  <2>4. UNCHANGED vars => UNCHANGED accepted
    BY DEF vars, history
  <2> QED BY <2>1, <2>2, <2>3, <2>4 DEF Reporting, Admission!Next
<1> QED BY <1>2, <1>3, Invariance, PTL DEF Spec, AdmitsInOrder, Admission!Spec

-----------------------------------------------------------------------------
(* What a step does to the notifications.                                  *)

\* The rows with ids in new are inserted; the others are what they were, or gone.
\* Nothing that was done with comes back, and what was requeued stays as it is.
StepOfNotes(new) ==
  /\ DOMAIN notes' \subseteq DOMAIN notes \cup new
  /\ \A i \in new : i \in Nat /\ i > lastId
  /\ \A i \in DOMAIN notes' \cap DOMAIN notes :
       /\ SameNote(notes'[i], notes[i])
       /\ Unresolved(notes'[i]) => Unresolved(notes[i])
  /\ \A i \in DOMAIN notes : notes[i].state = "requeued" =>
       i \in DOMAIN notes' /\ notes'[i].state = "requeued" /\ notes'[i].next = notes[i].next

LEMMA UpdatedRows ==
  ASSUME Assumptions, IInv, NEW o \in Owners, NEW i, NEW c,
         \/ ClaimNotification(o, i)
         \/ \E permanent \in BOOLEAN : RecordFailure(o, i, c, permanent)
         \/ ReleaseNotification(o, i)
  PROVE  StepOfNotes({})
<1>1. now \in Time /\ \A j \in DOMAIN notes : notes[j] \in Note
  BY DEF IInv, TypeOK
<1>2. i \in DOMAIN notes /\ notes[i].state = "pending"
  BY DEF ClaimNotification, Claimable, IsHead, RecordFailure, HoldsClaim, ReleaseNotification,
         PendingIds, Pending
<1>3. PICK row \in {Leased(notes[i], o), Died(notes[i]), Delayed(notes[i]), Unleased(notes[i])} :
        notes' = [notes EXCEPT ![i] = row]
  BY DEF ClaimNotification, RecordFailure, ReleaseNotification
<1>4. SameNote(row, notes[i])
  BY <1>1, <1>2, RowUpdates DEF SameText
<1>5. \A j \in DOMAIN notes : SameNote(notes[j], notes[j])
  BY DEF SameNote
<1>6. /\ DOMAIN notes' = DOMAIN notes
      /\ \A j \in DOMAIN notes : notes'[j] = IF j = i THEN row ELSE notes[j]
  BY <1>2, <1>3 DEF IInv, TypeOK
<1> QED BY <1>2, <1>4, <1>5, <1>6 DEF StepOfNotes, Unresolved

LEMMA RearmedRows ==
  ASSUME Assumptions, IInv, ResetLeases \/ RetryDeadLetters
  PROVE  StepOfNotes({})
<1>1. now \in Time /\ \A j \in DOMAIN notes : notes[j] \in Note
  BY DEF IInv, TypeOK
<1>2. DOMAIN notes' = DOMAIN notes
  BY DEF ResetLeases, RetryDeadLetters
<1>3. ASSUME NEW j \in DOMAIN notes
      PROVE  /\ SameNote(notes'[j], notes[j])
             /\ Unresolved(notes'[j]) => Unresolved(notes[j])
             /\ notes[j].state = "requeued" =>
                  notes'[j].state = "requeued" /\ notes'[j].next = notes[j].next
  <2>1. notes'[j] \in {notes[j], Unleased(notes[j]), Rearmed(notes[j])}
        /\ (notes'[j] = Rearmed(notes[j]) /\ notes'[j] # notes[j]
              /\ notes'[j] # Unleased(notes[j]) => notes[j].state = "dead")
    BY DEF ResetLeases, RetryDeadLetters
  <2>2. CASE notes'[j] = notes[j]
    BY <2>2 DEF SameNote
  <2>3. CASE notes'[j] = Unleased(notes[j])
    BY <1>1, <2>3, RowUpdates DEF SameText, Unresolved
  <2>4. CASE notes'[j] = Rearmed(notes[j]) /\ notes[j].state = "dead"
    BY <1>1, <2>4, RowUpdates DEF SameText, Unresolved
  <2> QED BY <2>1, <2>2, <2>3, <2>4
<1> QED BY <1>2, <1>3 DEF StepOfNotes

LEMMA AcknowledgedRows ==
  ASSUME Assumptions, IInv, NEW o \in Owners, NEW i, NEW c, AcknowledgeChunk(o, i, c)
  PROVE  StepOfNotes({})
<1> DEFINE done == CompletesNote(i)
           row == Acked(notes[i], done)
           acked == [notes EXCEPT ![i] = row]
<1>1. /\ i \in DOMAIN notes /\ notes[i] \in Note /\ notes[i].state = "pending"
      /\ notes \in [DOMAIN notes -> Note] /\ now \in Time
  BY DEF IInv, TypeOK, AcknowledgeChunk, HoldsClaim, PendingIds, Pending
<1>2. row \in Note /\ SameNote(row, notes[i]) /\ row.state \in {"pending", "completed"}
  <2>1. PICK u \in Note : /\ u = Unleased(notes[i]) /\ SameNote(u, notes[i])
                          /\ u.state = "pending" /\ u.next + 1 \in Nat
    BY <1>1, RowUpdates DEF SameText, Note
  <2>2. PICK state \in {"pending", "completed"} :
          row = [u EXCEPT !.next = u.next + 1, !.state = state, !.attempts = 0, !.retryAt = None]
    BY <2>1 DEF Acked
  <2> HIDE DEF row, done
  <2> QED BY <2>1, <2>2 DEF Note, Option, States, SameNote
<1> HIDE DEF row, done
<1>3. /\ acked \in [DOMAIN acked -> Note] /\ DOMAIN acked = DOMAIN notes
      /\ \A j \in DOMAIN notes : acked[j] = IF j = i THEN row ELSE notes[j]
  BY <1>1, <1>2
<1>4. notes' = PruneNotes(acked, now) \/ notes' = acked
  BY DEF AcknowledgeChunk, row, done
<1> HIDE DEF acked
<1>5. KeepsUnfinished(notes', acked)
  BY <1>3, <1>4, PruneKeepsUnfinished DEF KeepsUnfinished, SameNote
<1>6. ASSUME NEW j \in DOMAIN notes'
      PROVE  j \in DOMAIN notes /\ SameNote(notes'[j], acked[j]) /\ notes'[j].state = acked[j].state
  BY <1>3, <1>5 DEF KeepsUnfinished
<1>7. ASSUME NEW j \in DOMAIN notes, notes[j].state = "requeued"
      PROVE  j \in DOMAIN notes' /\ notes'[j].state = "requeued" /\ notes'[j].next = notes[j].next
  <2>1. j \in DOMAIN acked /\ acked[j] = notes[j]
    BY <1>1, <1>3, <1>7
  <2> QED BY <1>5, <1>7, <2>1 DEF KeepsUnfinished
<1> QED BY <1>1, <1>2, <1>3, <1>6, <1>7 DEF StepOfNotes, Unresolved, SameNote

LEMMA RequeuedRows ==
  ASSUME Assumptions, IInv, NEW i, RequeueDeadLetter(i)
  PROVE  /\ StepOfNotes({lastId + 1}) /\ i \in DOMAIN notes /\ notes[i].state = "dead"
         /\ lastId + 1 \in DOMAIN notes'
         /\ notes'[lastId + 1].kind = notes[i].kind /\ notes'[lastId + 1].source = i
         /\ notes'[lastId + 1].event = notes[i].event
         /\ notes'[lastId + 1].agent = notes[i].agent
         /\ i \in Nat /\ i < lastId + 1 /\ i \in DOMAIN notes'
         /\ notes'[i].state = "requeued" /\ notes'[i].next = notes[i].next
         /\ notes'[lastId + 1].count = notes[i].count - notes[i].next
<1> DEFINE id == lastId + 1
<1>1. /\ i \in DOMAIN notes /\ notes[i] \in Note /\ notes[i].state = "dead"
      /\ lastId \in Nat /\ i \in Nat /\ i <= lastId
      /\ DOMAIN notes \subseteq 1 .. lastId /\ notes \in [DOMAIN notes -> Note]
  BY DEF IInv, TypeOK, RequeueDeadLetter, Requeueable
<1>2. /\ CloneOf(i).kind = notes[i].kind /\ CloneOf(i).source = i
      /\ CloneOf(i).event = notes[i].event /\ CloneOf(i).agent = notes[i].agent
      /\ CloneOf(i).count = notes[i].count - notes[i].next
  BY DEF CloneOf, NewNote, Remainder
<1>3. /\ SameNote(Requeued(notes[i], id), notes[i]) /\ Requeued(notes[i], id).state = "requeued"
      /\ Requeued(notes[i], id).next = notes[i].next
  BY <1>1 DEF Requeued, Note, SameNote
<1>4. id \notin DOMAIN notes /\ id \in Nat /\ id > lastId
  BY <1>1
<1>5. /\ DOMAIN notes' = DOMAIN notes \cup {id}
      /\ notes'[id] = CloneOf(i)
      /\ \A j \in DOMAIN notes :
           notes'[j] = IF j = i THEN Requeued(notes[i], id) ELSE notes[j]
  <2>1. notes' = Put([notes EXCEPT ![i] = Requeued(notes[i], id)], id, CloneOf(i))
    BY DEF RequeueDeadLetter
  <2> HIDE DEF id
  <2> QED BY <1>1, <1>4, <2>1 DEF Put
<1>6. StepOfNotes({id})
  <2>1. \A j \in DOMAIN notes' \cap DOMAIN notes :
          /\ SameNote(notes'[j], notes[j])
          /\ Unresolved(notes'[j]) => Unresolved(notes[j])
          /\ notes[j].state = "requeued" =>
               notes'[j].state = "requeued" /\ notes'[j].next = notes[j].next
    BY <1>1, <1>3, <1>5 DEF SameNote, Unresolved
  <2> QED BY <1>4, <1>5, <2>1 DEF StepOfNotes
<1> QED BY <1>1, <1>2, <1>3, <1>4, <1>5, <1>6

\* What a report inserts: itself, after the end of an offline period.
LEMMA AcceptedRows ==
  ASSUME Assumptions, IInv,
         NEW a \in Agents, NEW b \in Boots, NEW s \in Sequences, NEW d \in Digests,
         NEW k \in ReportChunks, NEW at \in ReceptionTimes(a),
         AcceptReport(a, b, s, d, k, at)
  PROVE  LET new == lastId + 1 .. lastId + Additions(a)
         IN  /\ StepOfNotes(new)
             /\ \A j \in DOMAIN notes' \cap new :
                  /\ notes'[j].agent = a /\ notes'[j].event = <<a, b, s>>
                  /\ notes'[j].source = None
                  /\ IF agents[a].offline /\ j = lastId + 1
                     THEN notes'[j].kind = "RECOVERY"
                     ELSE notes'[j].kind = "REPORT" /\ j = lastId + Additions(a)
<1> DEFINE id == <<a, b, s>>
           report == NewNote("REPORT", a, id, k, at)
           recovery == NewNote("RECOVERY", a, id, 1, at)
           pruned == PruneNotes(notes, at)
           queued == IF agents[a].offline
                     THEN Put(Put(pruned, lastId + 1, recovery), lastId + 2, report)
                     ELSE Put(pruned, lastId + 1, report)
           new == lastId + 1 .. lastId + Additions(a)
<1>1. /\ at \in Time /\ notes \in [DOMAIN notes -> Note] /\ lastId \in Nat
      /\ DOMAIN notes \subseteq 1 .. lastId
      /\ id \in EventIds /\ k \in Nat \ {0}
  BY DEF IInv, TypeOK, EventIds, ReceptionTimes, Time, Assumptions, LimitsAssumption
<1>2. /\ report \in Note /\ recovery \in Note
      /\ \A n \in {report, recovery} : n.agent = a /\ n.event = id /\ n.source = None
      /\ report.kind = "REPORT" /\ recovery.kind = "RECOVERY"
  <2>1. report \in Note /\ recovery \in Note
    <3>1. "REPORT" \in Kinds /\ "RECOVERY" \in Kinds
      BY DEF Kinds
    <3>2. id \in Option(EventIds)
      BY <1>1 DEF Option
    <3>3. 1 \in Nat \ {0}
      OBVIOUS
    <3> HIDE DEF id
    <3> QED BY <1>1, <3>1, <3>2, <3>3, NewNoteType
  <2> QED BY <2>1 DEF NewNote
<1>3. KeepsUnfinished(pruned, notes)
  BY <1>1, PruneKeepsUnfinished
<1>4. /\ DOMAIN pruned \subseteq 1 .. lastId /\ pruned \in [DOMAIN pruned -> Note]
      /\ DOMAIN pruned \subseteq DOMAIN notes
  BY <1>1, <1>3 DEF KeepsUnfinished
<1>5. notes' = PruneNotes(queued, at)
  BY DEF AcceptReport
<1> HIDE DEF pruned, report, recovery, id
<1>6. /\ queued \in [DOMAIN queued -> Note]
      /\ \A j \in DOMAIN queued :
           \/ j \in DOMAIN pruned /\ queued[j] = pruned[j]
           \/ /\ j \in new /\ j > lastId /\ j \in Nat
              /\ IF agents[a].offline /\ j = lastId + 1 THEN queued[j] = recovery
                 ELSE queued[j] = report /\ j = lastId + Additions(a)
      /\ \A j \in DOMAIN pruned : j \in DOMAIN queued /\ queued[j] = pruned[j]
  <2>1. CASE agents[a].offline
    <3>1. Additions(a) = 2
      BY <2>1 DEF Additions
    <3> QED BY <1>1, <1>2, <1>4, <2>1, <3>1 DEF Put
  <2>2. CASE ~agents[a].offline
    <3>1. Additions(a) = 1
      BY <2>2 DEF Additions
    <3> QED BY <1>1, <1>2, <1>4, <2>2, <3>1 DEF Put
  <2> QED BY <2>1, <2>2
<1> HIDE DEF queued
<1>7. KeepsUnfinished(notes', queued)
  BY <1>5, <1>6, PruneKeepsUnfinished
<1>8. Additions(a) \in {1, 2}
  BY DEF Additions
<1>9. \A j \in new : j \in Nat /\ j > lastId /\ j \notin DOMAIN notes
  BY <1>1, <1>8
<1> HIDE DEF new
<1>10. ASSUME NEW j \in DOMAIN notes'
       PROVE  \/ /\ j \in DOMAIN notes /\ j \notin new /\ SameNote(notes'[j], notes[j])
                 /\ notes'[j].state = notes[j].state
              \/ /\ j \in new
                 /\ notes'[j].agent = a /\ notes'[j].event = id
                 /\ notes'[j].source = None
                 /\ IF agents[a].offline /\ j = lastId + 1 THEN notes'[j].kind = "RECOVERY"
                    ELSE notes'[j].kind = "REPORT" /\ j = lastId + Additions(a)
  <2>1. /\ j \in DOMAIN queued
        /\ SameNote(notes'[j], queued[j]) /\ notes'[j].state = queued[j].state
    BY <1>7 DEF KeepsUnfinished
  <2>2. CASE j \in DOMAIN pruned /\ queued[j] = pruned[j]
    BY <1>3, <1>4, <1>9, <2>1, <2>2 DEF KeepsUnfinished, SameNote
  <2>3. CASE /\ j \in new
             /\ IF agents[a].offline /\ j = lastId + 1 THEN queued[j] = recovery
                ELSE queued[j] = report /\ j = lastId + Additions(a)
    BY <1>2, <2>1, <2>3 DEF SameNote
  <2> QED BY <1>6, <2>1, <2>2, <2>3
<1>11. ASSUME NEW j \in DOMAIN notes, notes[j].state = "requeued"
       PROVE  /\ j \in DOMAIN notes' /\ notes'[j].state = "requeued"
              /\ notes'[j].next = notes[j].next
  <2>1. /\ j \in DOMAIN pruned /\ pruned[j].state = "requeued"
        /\ pruned[j].next = notes[j].next
    BY <1>3, <1>11 DEF KeepsUnfinished
  <2>2. j \in DOMAIN queued /\ queued[j] = pruned[j]
    BY <1>6, <2>1
  <2> QED BY <1>7, <2>1, <2>2 DEF KeepsUnfinished
<1>12. StepOfNotes(new)
  BY <1>9, <1>10, <1>11 DEF StepOfNotes, Unresolved
<1> QED BY <1>9, <1>10, <1>12 DEF new, id

\* Every overdue agent is reported once.
LEMMA OfflineRows ==
  ASSUME Assumptions, IInv, OfflineTransitions
  PROVE  LET new == lastId + 1 .. lastId + Cardinality(Overdue)
         IN  /\ StepOfNotes(new)
             /\ DOMAIN notes' = DOMAIN notes \cup new
             /\ \A j \in new : /\ notes'[j].agent \in Overdue /\ notes'[j].kind = "OFFLINE"
                               /\ notes'[j].event = None /\ notes'[j].source = None
                               /\ notes'[j].created = now
             /\ \A i, j \in new : i # j => notes'[i].agent # notes'[j].agent
<1> DEFINE late == Overdue
           new == lastId + 1 .. lastId + Cardinality(late)
<1>1. /\ now \in Time /\ lastId \in Nat /\ DOMAIN notes \subseteq 1 .. lastId
      /\ notes \in [DOMAIN notes -> Note]
  BY DEF IInv, TypeOK
<1>2. late \subseteq Agents /\ Cardinality(late) \in Nat /\ Agents \subseteq Nat
  <2>1. late \subseteq Agents
    BY DEF Overdue
  <2> HIDE DEF late
  <2> QED BY <2>1, FS_Subset, FS_CardinalityType DEF Assumptions, AgentsAssumption
<1> HIDE DEF late
<1>3. PICK turn \in [new -> late] :
        /\ \A i, j \in new : i < j => turn[i] < turn[j]
        /\ notes' = [i \in DOMAIN notes \cup new |->
                       IF i \in new THEN NewNote("OFFLINE", turn[i], None, 1, now) ELSE notes[i]]
  BY DEF OfflineTransitions, late
<1>4. \A i \in new : i \in Nat /\ i > lastId /\ i \notin DOMAIN notes
  BY <1>1, <1>2
<1>5. \A i, j \in new : i # j => turn[i] # turn[j]
  <2> SUFFICES ASSUME NEW i \in new, NEW j \in new, i < j
               PROVE  turn[i] # turn[j]
    BY <1>4
  <2>1. turn[i] < turn[j] /\ turn[i] \in Nat /\ turn[j] \in Nat
    BY <1>2, <1>3
  <2> QED BY <2>1
<1> HIDE DEF new
<1>6. \A j \in new :
        /\ notes'[j].agent = turn[j] /\ turn[j] \in late /\ notes'[j].kind = "OFFLINE"
        /\ notes'[j].event = None /\ notes'[j].source = None /\ notes'[j].created = now
  BY <1>3 DEF NewNote
<1>7. DOMAIN notes' = DOMAIN notes \cup new /\ \A j \in DOMAIN notes : notes'[j] = notes[j]
  BY <1>3, <1>4
<1>8. StepOfNotes(new)
  BY <1>4, <1>7 DEF StepOfNotes, SameNote
<1> QED BY <1>5, <1>6, <1>7, <1>8 DEF late, new

-----------------------------------------------------------------------------
(* The keys of the notifications.                                          *)

\* Only a requeued dead letter has a clone.
ClonesOnce ==
  \A i \in DOMAIN notes :
    notes[i].source # None =>
      /\ notes[i].source < i
      /\ notes[i].source \in DOMAIN notes => notes[notes[i].source].state = "requeued"

\* Reports and recoveries are about an event that was accepted.
ReportsAccepted ==
  \A i \in DOMAIN notes :
    notes[i].kind # "OFFLINE" => notes[i].event \in DOMAIN accepted

\* A notice of this very instant was raised by the watchdog's check of this instant.
NoticesRaised ==
  \A i \in DOMAIN notes :
    notes[i].kind = "OFFLINE" /\ notes[i].source = None =>
      /\ notes[i].created <= now
      /\ notes[i].created = now => checked

KeyInv == ClonesOnce /\ ReportsAccepted /\ NoticesRaised /\ DedupeKeysUnique

LEMMA SameNoteSameKey ==
  ASSUME NEW m, NEW n, SameNote(m, n)
  PROVE  DedupeKey(m) = DedupeKey(n)
BY DEF SameNote, DedupeKey

\* What two rows with one key have in common.
LEMMA KeysTell ==
  ASSUME NEW m \in Note, NEW n \in Note, DedupeKey(m) = DedupeKey(n)
  PROVE  /\ m.source = n.source
         /\ m.source = None => m.kind = n.kind
         /\ m.source = None /\ m.kind = "OFFLINE" => m.agent = n.agent /\ m.created = n.created
         /\ m.source = None /\ m.kind # "OFFLINE" =>
              m.event[1] = n.event[1] /\ m.event[2] = n.event[2] /\ m.event[3] = n.event[3]
<1>1. m.kind \in Kinds /\ n.kind \in Kinds
  BY DEF Note
<1>2. /\ DedupeKey(m)[1] = DedupeKey(n)[1] /\ DedupeKey(m)[2] = DedupeKey(n)[2]
      /\ DedupeKey(m)[3] = DedupeKey(n)[3] /\ DedupeKey(m)[4] = DedupeKey(n)[4]
  OBVIOUS
<1>3. \A k \in {m, n} :
        DedupeKey(k)[1] = IF k.source # None THEN "REQUEUE" ELSE k.kind
  BY DEF DedupeKey
<1>4. (m.source = None <=> n.source = None) /\ (m.source = None => m.kind = n.kind)
  BY <1>1, <1>2, <1>3 DEF Kinds
<1>5. CASE m.source # None
  BY <1>2, <1>4, <1>5 DEF DedupeKey
<1>6. CASE m.source = None /\ m.kind = "OFFLINE"
  BY <1>2, <1>4, <1>6 DEF DedupeKey
<1>7. CASE m.source = None /\ m.kind # "OFFLINE"
  BY <1>2, <1>4, <1>7 DEF DedupeKey
<1> QED BY <1>5, <1>6, <1>7, <1>4

\* The keys stay distinct if each new row's key is new.
LEMMA KeysKept ==
  ASSUME Assumptions, IInv, TypeOK', KeyInv, NEW new, StepOfNotes(new),
         DOMAIN accepted \subseteq DOMAIN accepted', now' >= now,
         now' = now /\ checked => checked',
         \A j \in DOMAIN notes' \cap new :
           /\ notes'[j].kind # "OFFLINE" => notes'[j].event \in DOMAIN accepted'
           /\ notes'[j].source # None =>
                /\ notes'[j].source < j /\ notes'[j].source \in DOMAIN notes'
                /\ notes'[notes'[j].source].state = "requeued"
           /\ notes'[j].kind = "OFFLINE" /\ notes'[j].source = None =>
                notes'[j].created = now' /\ checked'
           /\ \A i \in DOMAIN notes' : DedupeKey(notes'[i]) = DedupeKey(notes'[j]) => i = j
  PROVE  KeyInv'
<1>1. /\ now \in Nat /\ now' \in Nat /\ lastId \in Nat /\ DOMAIN notes \subseteq 1 .. lastId
      /\ \A i \in DOMAIN notes : notes[i] \in Note
      /\ \A i \in DOMAIN notes' : notes'[i] \in Note
  BY DEF IInv, TypeOK, Time
<1>2. \A i \in DOMAIN notes' : i \in new \/ i \in DOMAIN notes
  BY DEF StepOfNotes
<1>3. \A i \in DOMAIN notes' \cap DOMAIN notes :
        /\ SameNote(notes'[i], notes[i])
        /\ notes[i].state = "requeued" => notes'[i].state = "requeued"
  BY DEF StepOfNotes
<1>4. \A i \in new : i \in Nat /\ i > lastId
  BY DEF StepOfNotes
<1>5. ClonesOnce'
  <2> SUFFICES ASSUME NEW i \in DOMAIN notes', notes'[i].source # None
               PROVE  /\ notes'[i].source < i
                      /\ notes'[i].source \in DOMAIN notes' =>
                           notes'[notes'[i].source].state = "requeued"
    BY DEF ClonesOnce
  <2>1. CASE i \in new
    BY <2>1
  <2>2. CASE i \in DOMAIN notes
    <3>1. notes'[i].source = notes[i].source
      BY <1>3, <2>2 DEF SameNote
    <3>2. /\ notes[i].source < i
          /\ notes[i].source \in DOMAIN notes => notes[notes[i].source].state = "requeued"
      BY <2>2, <3>1 DEF KeyInv, ClonesOnce
    <3>3. notes[i].source \in Nat /\ i \in Nat /\ i <= lastId
      BY <1>1, <2>2, <3>1 DEF Note, Option
    <3>4. notes[i].source \in DOMAIN notes' => notes[i].source \in DOMAIN notes
      BY <1>1, <1>2, <1>4, <3>2, <3>3
    <3> QED BY <1>3, <3>1, <3>2, <3>4
  <2> QED BY <1>2, <2>1, <2>2
<1>6. ReportsAccepted'
  BY <1>2, <1>3 DEF KeyInv, ReportsAccepted, SameNote
<1>7. NoticesRaised'
  <2> SUFFICES ASSUME NEW i \in DOMAIN notes',
                      notes'[i].kind = "OFFLINE" /\ notes'[i].source = None
               PROVE  /\ notes'[i].created <= now'
                      /\ notes'[i].created = now' => checked'
    BY DEF NoticesRaised
  <2>1. CASE i \in new
    BY <1>1, <2>1
  <2>2. CASE i \in DOMAIN notes
    <3>1. /\ notes[i].kind = "OFFLINE" /\ notes[i].source = None
          /\ notes'[i].created = notes[i].created
      BY <1>3, <2>2 DEF SameNote
    <3>2. /\ notes[i].created <= now
          /\ notes[i].created = now => checked
      BY <2>2, <3>1 DEF KeyInv, NoticesRaised
    <3>3. notes[i].created \in Nat
      BY <1>1, <2>2 DEF Note, Time
    <3> QED BY <1>1, <3>1, <3>2, <3>3
  <2> QED BY <1>2, <2>1, <2>2
<1>8. DedupeKeysUnique'
  <2> SUFFICES ASSUME NEW i \in DOMAIN notes', NEW j \in DOMAIN notes',
                      DedupeKey(notes'[i]) = DedupeKey(notes'[j])
               PROVE  i = j
    BY DEF DedupeKeysUnique, DedupeKey
  <2>1. CASE i \in new \/ j \in new
    BY <2>1
  <2>2. CASE i \in DOMAIN notes /\ j \in DOMAIN notes
    <3>1. DedupeKey(notes'[i]) = DedupeKey(notes[i]) /\ DedupeKey(notes'[j]) = DedupeKey(notes[j])
      BY <1>3, <2>2, SameNoteSameKey
    <3> QED BY <2>2, <3>1 DEF KeyInv, DedupeKeysUnique
  <2> QED BY <1>2, <2>1, <2>2
<1> QED BY <1>5, <1>6, <1>7, <1>8 DEF KeyInv

LEMMA InitKeyInv ==
  ASSUME Init
  PROVE  KeyInv
BY DEF Init, KeyInv, ClonesOnce, ReportsAccepted, NoticesRaised, DedupeKeysUnique

\* A new report is newer than every accepted one, and so are its keys.
LEMMA AcceptedKeys ==
  ASSUME Assumptions, IInv, TypeOK', KeyInv, Next,
         NEW a \in Agents, NEW b \in Boots, NEW s \in Sequences, NEW d \in Digests,
         NEW k \in ReportChunks, NEW at \in ReceptionTimes(a),
         AcceptReport(a, b, s, d, k, at)
  PROVE  KeyInv'
<1> DEFINE new == lastId + 1 .. lastId + Additions(a)
           id == <<a, b, s>>
<1>1. /\ StepOfNotes(new)
      /\ \A j \in DOMAIN notes' \cap new :
           /\ notes'[j].agent = a /\ notes'[j].event = id /\ notes'[j].source = None
           /\ IF agents[a].offline /\ j = lastId + 1 THEN notes'[j].kind = "RECOVERY"
              ELSE notes'[j].kind = "REPORT" /\ j = lastId + Additions(a)
  BY AcceptedRows
<1> HIDE DEF new
<1>2. /\ now \in Nat /\ now' = now /\ checked' = checked
      /\ \A i \in DOMAIN notes : notes[i] \in Note
      /\ \A i \in DOMAIN notes' : notes'[i] \in Note
  BY DEF IInv, TypeOK, Time, AcceptReport
<1>3. DOMAIN accepted' = DOMAIN accepted \cup {id} /\ s \in Nat
  BY DEF AcceptReport, Put, Assumptions, LimitsAssumption
<1>4. ASSUME NEW i \in DOMAIN notes', NEW j \in DOMAIN notes' \cap new,
             DedupeKey(notes'[i]) = DedupeKey(notes'[j])
      PROVE  i = j
  <2>1. /\ notes'[i].source = None /\ notes'[i].kind = notes'[j].kind
        /\ notes'[i].kind # "OFFLINE"
        /\ notes'[i].event[1] = a /\ notes'[i].event[3] = s
    BY <1>1, <1>2, <1>4, KeysTell
  <2>2. CASE i \in new
    BY <1>1, <2>1, <2>2
  <2>3. CASE i \in DOMAIN notes
    <3>1. /\ notes[i].source = None /\ notes[i].kind = notes'[i].kind
          /\ notes[i].event = notes'[i].event
      BY <1>1, <2>1, <2>3 DEF StepOfNotes, SameNote
    <3>2. notes[i].event \in DOMAIN accepted
      BY <2>1, <2>3, <3>1 DEF KeyInv, ReportsAccepted
    <3>3. notes[i].event[3] < s
      BY <2>1, <3>1, <3>2, NewerThanAccepted
    <3> QED BY <1>3, <2>1, <3>1, <3>3
  <2> QED BY <1>1, <2>2, <2>3 DEF StepOfNotes
<1> HIDE DEF id
<1> QED BY <1>1, <1>2, <1>3, <1>4, KeysKept

LEMMA OfflineKeys ==
  ASSUME Assumptions, IInv, TypeOK', KeyInv, Next, OfflineTransitions
  PROVE  KeyInv'
<1> DEFINE new == lastId + 1 .. lastId + Cardinality(Overdue)
<1>1. /\ StepOfNotes(new)
      /\ \A j \in new : /\ notes'[j].agent \in Overdue /\ notes'[j].kind = "OFFLINE"
                        /\ notes'[j].event = None /\ notes'[j].source = None
                        /\ notes'[j].created = now
      /\ \A i, j \in new : i # j => notes'[i].agent # notes'[j].agent
  BY OfflineRows
<1> HIDE DEF new
<1>2. /\ now \in Nat /\ now' = now /\ accepted' = accepted /\ ~checked /\ checked'
      /\ \A i \in DOMAIN notes : notes[i] \in Note
      /\ \A i \in DOMAIN notes' : notes'[i] \in Note
  BY DEF IInv, TypeOK, Time, OfflineTransitions
<1>3. ASSUME NEW i \in DOMAIN notes', NEW j \in DOMAIN notes' \cap new,
             DedupeKey(notes'[i]) = DedupeKey(notes'[j])
      PROVE  i = j
  <2>1. /\ notes'[i].source = None /\ notes'[i].kind = "OFFLINE"
        /\ notes'[i].agent = notes'[j].agent /\ notes'[i].created = now
    BY <1>1, <1>2, <1>3, KeysTell
  <2>2. CASE i \in new
    BY <1>1, <2>1, <2>2
  <2>3. CASE i \in DOMAIN notes
    <3>1. notes[i].source = None /\ notes[i].kind = "OFFLINE" /\ notes[i].created = now
      BY <1>1, <2>1, <2>3 DEF StepOfNotes, SameNote
    <3> QED BY <1>2, <2>3, <3>1 DEF KeyInv, NoticesRaised
  <2> QED BY <1>1, <2>2, <2>3 DEF StepOfNotes
<1> QED BY <1>1, <1>2, <1>3, KeysKept

LEMMA RequeuedKeys ==
  ASSUME Assumptions, IInv, TypeOK', KeyInv, Next, NEW i, RequeueDeadLetter(i)
  PROVE  KeyInv'
<1> DEFINE id == lastId + 1
<1>1. /\ StepOfNotes({id}) /\ i \in DOMAIN notes /\ notes[i].state = "dead"
      /\ id \in DOMAIN notes'
      /\ notes'[id].kind = notes[i].kind /\ notes'[id].source = i
      /\ notes'[id].event = notes[i].event
      /\ i \in Nat /\ i < id /\ i \in DOMAIN notes' /\ notes'[i].state = "requeued"
  BY RequeuedRows
<1> HIDE DEF id
<1>2. /\ now \in Nat /\ now' = now /\ UNCHANGED <<accepted, checked>>
      /\ \A j \in DOMAIN notes : notes[j] \in Note
      /\ \A j \in DOMAIN notes' : notes'[j] \in Note
      /\ i # None
  BY <1>1 DEF IInv, TypeOK, Time, RequeueDeadLetter, history, Assumptions, NoneAssumption
<1>3. ASSUME NEW j \in DOMAIN notes', DedupeKey(notes'[j]) = DedupeKey(notes'[id])
      PROVE  j = id
  <2>1. notes'[j].source = i
    BY <1>1, <1>2, <1>3, KeysTell
  <2>2. CASE j \in DOMAIN notes
    <3>1. notes[j].source = i
      BY <1>1, <2>1, <2>2 DEF StepOfNotes, SameNote
    <3> QED BY <1>1, <1>2, <2>2, <3>1 DEF KeyInv, ClonesOnce
  <2> QED BY <1>1, <2>2 DEF StepOfNotes
<1>4. notes[i].kind # "OFFLINE" => notes[i].event \in DOMAIN accepted
  BY <1>1 DEF KeyInv, ReportsAccepted
<1> QED BY <1>1, <1>2, <1>3, <1>4, KeysKept

\* The steps that insert no notification.
LEMMA NoNewRows ==
  ASSUME Assumptions, IInv, [Next]_vars
  PROVE  \/ Reporting
         \/ OfflineTransitions
         \/ \E i \in DOMAIN notes : RequeueDeadLetter(i)
         \/ StepOfNotes({}) /\ UNCHANGED accepted
<1>1. CASE Dispatching
  BY <1>1, UpdatedRows, AcknowledgedRows
     DEF Dispatching, ClaimNotification, AcknowledgeChunk, RecordFailure, ReleaseNotification,
         history
<1>2. CASE Repairing
  BY <1>2, RearmedRows DEF Repairing, ResetLeases, RetryDeadLetters, history
<1>3. CASE UNCHANGED <<notes, accepted>>
  BY <1>3 DEF StepOfNotes, SameNote
<1>4. CASE Tick \/ UNCHANGED vars \/ \E registry \in SUBSET Agents : SyncRegistry(registry)
  BY <1>3, <1>4 DEF Tick, SyncRegistry, vars, tables, history
<1> QED BY <1>1, <1>2, <1>4 DEF Next

LEMMA OnlyTickMovesTime ==
  ASSUME [Next]_vars
  PROVE  now' = now \/ (Tick /\ now' = now + 1)
<1>1. CASE Dispatching
  BY <1>1 DEF Dispatching, ClaimNotification, AcknowledgeChunk, RecordFailure,
              ReleaseNotification
<1>2. CASE Repairing
  BY <1>2 DEF Repairing, ResetLeases, RetryDeadLetters, RequeueDeadLetter
<1>3. CASE Reporting
  <2>1. PICK a \in Agents, b \in Boots, s \in Sequences, d \in Digests,
             k \in ReportChunks, at \in Time :
               at \in ReceptionTimes(a) /\ AcceptReport(a, b, s, d, k, at)
    BY <1>3 DEF Reporting, ReceptionTimes, Time
  <2> QED BY <2>1 DEF AcceptReport
<1>4. CASE OfflineTransitions
  BY <1>4 DEF OfflineTransitions
<1> QED BY <1>1, <1>2, <1>3, <1>4 DEF Next, SyncRegistry, Tick, vars

\* The watchdog has checked this instant, until the next one comes.
LEMMA CheckedStays ==
  ASSUME now \in Nat, [Next]_vars, now' = now
  PROVE  checked => checked'
<1>1. CASE Dispatching
  BY <1>1 DEF Dispatching, ClaimNotification, AcknowledgeChunk, RecordFailure,
              ReleaseNotification, history
<1>2. CASE Repairing
  BY <1>2 DEF Repairing, ResetLeases, RetryDeadLetters, RequeueDeadLetter, history
<1>3. CASE Reporting
  BY <1>3 DEF Reporting, AcceptReport
<1>4. CASE OfflineTransitions
  BY <1>4 DEF OfflineTransitions
<1>5. ~Tick
  <2>1. now + 1 # now
    OBVIOUS
  <2> QED BY <2>1 DEF Tick
<1> QED BY <1>1, <1>2, <1>3, <1>4, <1>5 DEF Next, SyncRegistry, vars, history

LEMMA NextKeyInv ==
  ASSUME Assumptions, IInv, IInv', KeyInv, [Next]_vars
  PROVE  KeyInv'
<1>1. now \in Nat /\ now' \in Nat /\ now' >= now /\ TypeOK'
  BY OnlyTickMovesTime DEF IInv, TypeOK, Time
<1>2. CASE Reporting
  BY <1>1, <1>2, AcceptedKeys DEF Reporting, Next
<1>3. CASE OfflineTransitions
  BY <1>1, <1>3, OfflineKeys DEF Next
<1>4. CASE \E i \in DOMAIN notes : RequeueDeadLetter(i)
  BY <1>1, <1>4, RequeuedKeys DEF Next, Repairing
<1>5. CASE StepOfNotes({}) /\ UNCHANGED accepted
  <2>1. now' = now /\ checked => checked'
    BY <1>1, CheckedStays
  <2> QED BY <1>1, <1>5, <2>1, KeysKept
<1> QED BY <1>2, <1>3, <1>4, <1>5, NoNewRows

\* No two retained notifications have one key: no INSERT of a report, of a
\* notice or of a clone fails on the UNIQUE constraint.
THEOREM KeysNeverCollide == Spec => []DedupeKeysUnique
<1>1. Assumptions
  BY AgentsAssumption, NoneAssumption, LimitsAssumption DEF Assumptions
<1>2. Init => KeyInv
  BY InitKeyInv
<1>3. IInv /\ IInv' /\ KeyInv /\ [Next]_vars => KeyInv'
  BY <1>1, NextKeyInv
<1>4. KeyInv => DedupeKeysUnique
  BY DEF KeyInv
<1> QED BY <1>2, <1>3, <1>4, Invariance, PTL DEF Spec

-----------------------------------------------------------------------------
(* The rests of a message.                                                 *)

\* A nonempty set of numbers has a least element: the proofs below look for the
\* smallest counterexample.
LEMMA LeastElement ==
  ASSUME NEW T \in SUBSET Nat, T # {}
  PROVE  \E k \in T : \A m \in T : k <= m
<1>1. \E k \in T : \A m \in T : ~(<<m, k>> \in OpToRel(<, Nat))
  BY NatLessThanWellFounded, WFMin
<1>2. \A m, k \in Nat : m < k => <<m, k>> \in OpToRel(<, Nat)
  BY DEF OpToRel
<1>3. \A m, k \in Nat : ~(m < k) => k <= m
  OBVIOUS
<1> QED BY <1>1, <1>2, <1>3

\* Every clone has its source in the table, and is newer.
SourcesAmong(ns) ==
  \A i \in DOMAIN ns :
    ns[i].source # None => ns[i].source \in DOMAIN ns /\ ns[i].source < i

\* f leads the rows of ns up to the id k to their first notifications.
RootsUpTo(ns, k, f) ==
  f = [i \in DOMAIN ns \cap (0 .. k) |->
         IF ns[i].source = None THEN i ELSE f[ns[i].source]]

\* f leads every row of ns to its first notification.
RootsIn(ns, f) ==
  f = [i \in DOMAIN ns |-> IF ns[i].source = None THEN i ELSE f[ns[i].source]]

\* Following the sources ends.
LEMMA RootsExist ==
  ASSUME NEW ns, NEW n \in Nat, DOMAIN ns \subseteq 1 .. n, SourcesAmong(ns)
  PROVE  \E f : RootsIn(ns, f)
<1> DEFINE T == {k \in Nat : ~ \E f : RootsUpTo(ns, k, f)}
<1>1. T = {}
  <2> SUFFICES ASSUME T # {}
               PROVE  FALSE
    OBVIOUS
  <2>1. PICK k \in T : \A m \in T : k <= m
    BY LeastElement
  <2>2. k \in Nat /\ ~ \E f : RootsUpTo(ns, k, f)
    OBVIOUS
  <2>3. CASE k = 0
    <3>1. DOMAIN ns \cap (0 .. k) = {}
      BY <2>3
    <3>2. RootsUpTo(ns, k, [i \in {} |-> 0])
      BY <3>1 DEF RootsUpTo
    <3> QED BY <2>2, <3>2
  <2>4. CASE k # 0
    <3>1. k - 1 \in Nat /\ k - 1 < k
      BY <2>2, <2>4
    <3>2. PICK f : RootsUpTo(ns, k - 1, f)
      BY <2>1, <2>2, <3>1
    <3> DEFINE old == DOMAIN ns \cap (0 .. k - 1)
               new == DOMAIN ns \cap (0 .. k)
               g == [i \in new |-> IF i \in old THEN f[i]
                                   ELSE IF ns[i].source = None THEN i ELSE f[ns[i].source]]
    <3>3. \A i \in new : ns[i].source # None => ns[i].source \in old
      BY <2>2 DEF SourcesAmong
    <3>4. \A i \in old : i \in new /\ g[i] = f[i]
      BY <2>2
    <3>5. \A i \in new : g[i] = IF ns[i].source = None THEN i ELSE g[ns[i].source]
      <4> SUFFICES ASSUME NEW i \in new
                   PROVE  g[i] = IF ns[i].source = None THEN i ELSE g[ns[i].source]
        OBVIOUS
      <4>1. i \in old => f[i] = IF ns[i].source = None THEN i ELSE f[ns[i].source]
        BY <3>2 DEF RootsUpTo
      <4>2. g[i] = IF i \in old THEN f[i]
                   ELSE IF ns[i].source = None THEN i ELSE f[ns[i].source]
        OBVIOUS
      <4> HIDE DEF g, old, new
      <4> QED BY <3>3, <3>4, <4>1, <4>2
    <3>6. g = [i \in new |-> IF ns[i].source = None THEN i ELSE g[ns[i].source]]
      <4>1. g = [i \in new |-> g[i]]
        OBVIOUS
      <4> HIDE DEF g
      <4> QED BY <3>5, <4>1
    <3>7. RootsUpTo(ns, k, g)
      BY <3>6 DEF RootsUpTo
    <3> QED BY <2>2, <3>7
  <2> QED BY <2>3, <2>4
<1>2. PICK f : RootsUpTo(ns, n, f)
  BY <1>1
<1>3. DOMAIN ns \cap (0 .. n) = DOMAIN ns
  OBVIOUS
<1> QED BY <1>2, <1>3 DEF RootsUpTo, RootsIn

\* Root is what its recursive definition says, before a step and after it.
LEMMA RootFollows ==
  ASSUME NEW n \in Nat, DOMAIN notes \subseteq 1 .. n, SourcesAmong(notes)
  PROVE  RootsIn(notes, Root)
BY RootsExist DEF Root, RootsIn

LEMMA RootFollowsNext ==
  ASSUME NEW n \in Nat, DOMAIN notes' \subseteq 1 .. n, SourcesAmong(notes')
  PROVE  RootsIn(notes', Root')
BY RootsExist DEF Root, RootsIn

\* A first notification is a row of the table, no newer than its clones.
LEMMA RootsOlder ==
  ASSUME NEW ns, NEW n \in Nat, DOMAIN ns \subseteq 1 .. n, SourcesAmong(ns),
         NEW f, RootsIn(ns, f), NEW i \in DOMAIN ns
  PROVE  f[i] \in DOMAIN ns /\ f[i] <= i
<1> DEFINE T == {k \in DOMAIN ns : ~(f[k] \in DOMAIN ns /\ f[k] <= k)}
<1>1. T = {}
  <2> SUFFICES ASSUME T # {}
               PROVE  FALSE
    OBVIOUS
  <2>1. T \in SUBSET Nat
    OBVIOUS
  <2>2. PICK k \in T : \A m \in T : k <= m
    BY <2>1, LeastElement
  <2>3. f[k] = IF ns[k].source = None THEN k ELSE f[ns[k].source]
    BY DEF RootsIn
  <2>4. ns[k].source # None
    BY <2>3
  <2>5. ns[k].source \in DOMAIN ns /\ ns[k].source < k
    BY <2>4 DEF SourcesAmong
  <2>6. ns[k].source \notin T
    BY <2>2, <2>5
  <2>7. f[k] \in DOMAIN ns /\ f[k] <= ns[k].source
    BY <2>3, <2>4, <2>5, <2>6
  <2> QED BY <2>5, <2>7
<1> QED BY <1>1

\* Tables that agree on the sources of their common rows agree on their roots.
LEMMA RootsAgree ==
  ASSUME NEW ns, NEW ms, NEW n \in Nat, DOMAIN ns \subseteq 1 .. n,
         SourcesAmong(ns), SourcesAmong(ms), NEW f, NEW g, RootsIn(ns, f), RootsIn(ms, g),
         \A k \in DOMAIN ns \cap DOMAIN ms : ns[k].source = ms[k].source,
         NEW i \in DOMAIN ns \cap DOMAIN ms
  PROVE  f[i] = g[i]
<1> DEFINE T == {k \in DOMAIN ns \cap DOMAIN ms : f[k] # g[k]}
<1>1. T = {}
  <2> SUFFICES ASSUME T # {}
               PROVE  FALSE
    OBVIOUS
  <2>1. T \in SUBSET Nat
    OBVIOUS
  <2>2. PICK k \in T : \A m \in T : k <= m
    BY <2>1, LeastElement
  <2>3. /\ f[k] = IF ns[k].source = None THEN k ELSE f[ns[k].source]
        /\ g[k] = IF ns[k].source = None THEN k ELSE g[ns[k].source]
    BY DEF RootsIn
  <2>4. ns[k].source # None
    BY <2>3
  <2>5. ns[k].source \in DOMAIN ns \cap DOMAIN ms /\ ns[k].source < k
    BY <2>4 DEF SourcesAmong
  <2>6. ns[k].source \notin T
    BY <2>2, <2>5
  <2> QED BY <2>3, <2>4, <2>5, <2>6
<1> QED BY <1>1

\* Of two retained notifications of one message, the older one has been
\* requeued, and the newer one holds nothing the older one has sent.
RestsNest ==
  \A i, j \in DOMAIN notes : i < j /\ Root[i] = Root[j] =>
    notes[i].state = "requeued" /\ notes[j].count <= notes[i].count - notes[i].next

ChainInv == SourcesAmong(notes) /\ RestsNest

\* The rows of a step: each new one is a message of its own, or alone and the rest
\* of a dead letter.
RowsFollow(new) ==
  /\ StepOfNotes(new)
  /\ \A j \in DOMAIN notes' \cap new :
       \/ notes'[j].source = None
       \/ \E k \in DOMAIN notes :
            /\ notes'[j].source = k /\ notes[k].state = "dead" /\ new = {j}
            /\ k \in DOMAIN notes' /\ notes'[k].state = "requeued"
            /\ notes'[k].next = notes[k].next
            /\ notes'[j].count = notes[k].count - notes[k].next

LEMMA ChainsKept ==
  ASSUME IInv, IInv', KeyInv, ChainInv, NEW new, RowsFollow(new)
  PROVE  ChainInv'
<1>1. /\ lastId \in Nat /\ lastId' \in Nat
      /\ DOMAIN notes \subseteq 1 .. lastId /\ DOMAIN notes' \subseteq 1 .. lastId'
      /\ \A i \in DOMAIN notes : notes[i].next \in Nat /\ notes[i].count \in Nat
  BY DEF IInv, TypeOK, Note
<1>2. /\ \A i \in DOMAIN notes' : i \in new \/ i \in DOMAIN notes
      /\ \A i \in new : i \in Nat /\ i > lastId
      /\ \A i \in DOMAIN notes' \cap DOMAIN notes :
           notes'[i].source = notes[i].source /\ notes'[i].count = notes[i].count
      /\ \A i \in DOMAIN notes : notes[i].state = "requeued" =>
           i \in DOMAIN notes' /\ notes'[i].state = "requeued" /\ notes'[i].next = notes[i].next
  BY DEF RowsFollow, StepOfNotes, SameNote
<1>3. \A i \in DOMAIN notes : i \notin new
  BY <1>1, <1>2
<1>4. SourcesAmong(notes)
  BY DEF ChainInv
<1>5. SourcesAmong(notes')
  <2> SUFFICES ASSUME NEW i \in DOMAIN notes', notes'[i].source # None
               PROVE  notes'[i].source \in DOMAIN notes' /\ notes'[i].source < i
    BY DEF SourcesAmong
  <2>1. CASE i \in new
    BY <1>1, <1>2, <2>1 DEF RowsFollow
  <2>2. CASE i \in DOMAIN notes
    <3>1. /\ notes'[i].source = notes[i].source
          /\ notes[i].source \in DOMAIN notes /\ notes[i].source < i
      BY <1>2, <1>4, <2>2 DEF SourcesAmong
    <3>2. notes[notes[i].source].state = "requeued"
      BY <2>2, <3>1 DEF KeyInv, ClonesOnce
    <3> QED BY <1>2, <3>1, <3>2
  <2> QED BY <1>2, <2>1, <2>2
<1>6. RootsIn(notes, Root) /\ RootsIn(notes', Root')
  BY <1>1, <1>4, <1>5, RootFollows, RootFollowsNext
<1>7. \A i \in DOMAIN notes' \cap DOMAIN notes : Root'[i] = Root[i]
  BY <1>1, <1>2, <1>4, <1>5, <1>6, RootsAgree
<1>8. \A i \in DOMAIN notes' : Root'[i] \in DOMAIN notes' /\ Root'[i] <= i
  BY <1>1, <1>5, <1>6, RootsOlder
<1>9. ASSUME NEW i \in DOMAIN notes', NEW j \in DOMAIN notes', i < j, Root'[i] = Root'[j]
      PROVE  notes'[i].state = "requeued" /\ notes'[j].count <= notes'[i].count - notes'[i].next
  <2>1. CASE j \in DOMAIN notes
    <3>1. i \in DOMAIN notes
      BY <1>1, <1>2, <1>9, <2>1
    <3>2. notes[i].state = "requeued" /\ notes[j].count <= notes[i].count - notes[i].next
      BY <1>7, <1>9, <2>1, <3>1 DEF ChainInv, RestsNest
    <3> QED BY <1>2, <2>1, <3>1, <3>2
  <2>2. CASE j \in new /\ notes'[j].source = None
    <3>1. Root'[j] = j
      BY <1>6, <2>2 DEF RootsIn
    <3> QED BY <1>1, <1>8, <1>9, <3>1
  <2>3. CASE j \in new /\ notes'[j].source # None
    <3>1. PICK k \in DOMAIN notes :
                /\ notes'[j].source = k /\ notes[k].state = "dead" /\ new = {j}
                /\ k \in DOMAIN notes' /\ notes'[k].state = "requeued"
                /\ notes'[k].next = notes[k].next
                /\ notes'[j].count = notes[k].count - notes[k].next
      BY <2>3 DEF RowsFollow
    <3>2. i \in DOMAIN notes /\ i \in Nat /\ k \in Nat
      BY <1>1, <1>2, <1>9, <3>1
    <3>3. Root[i] = Root[k]
      <4>1. Root'[j] = Root'[k]
        BY <1>6, <2>3, <3>1 DEF RootsIn
      <4> QED BY <1>7, <1>9, <3>1, <3>2, <4>1
    <3>4. CASE i = k
      <4>1. notes'[i].count = notes[i].count /\ notes'[i].next = notes[i].next
        BY <1>2, <3>1, <3>4
      <4> QED BY <1>1, <3>1, <3>4, <4>1
    <3>5. CASE i < k
      <4>1. notes[i].state = "requeued" /\ notes[k].count <= notes[i].count - notes[i].next
        BY <3>2, <3>3, <3>5 DEF ChainInv, RestsNest
      <4>2. notes'[i].count = notes[i].count /\ notes'[i].next = notes[i].next
            /\ notes'[i].state = "requeued"
        BY <1>2, <3>2, <4>1
      <4>3. notes[k].count - notes[k].next <= notes[i].count - notes[i].next
        BY <1>1, <3>2, <4>1
      <4> QED BY <3>1, <4>2, <4>3
    <3>6. CASE k < i
      BY <3>1, <3>2, <3>3, <3>6 DEF ChainInv, RestsNest
    <3> QED BY <3>2, <3>4, <3>5, <3>6
  <2> QED BY <1>2, <2>1, <2>2, <2>3
<1>10. RestsNest'
  BY <1>9 DEF RestsNest
<1> QED BY <1>5, <1>10 DEF ChainInv

LEMMA NextRows ==
  ASSUME Assumptions, IInv, [Next]_vars
  PROVE  \E new : RowsFollow(new)
<1>1. CASE Reporting
  <2>1. PICK a \in Agents, b \in Boots, s \in Sequences, d \in Digests,
             k \in ReportChunks, at \in Time :
               at \in ReceptionTimes(a) /\ AcceptReport(a, b, s, d, k, at)
    BY <1>1 DEF Reporting, ReceptionTimes, Time
  <2> DEFINE new == lastId + 1 .. lastId + Additions(a)
  <2>2. StepOfNotes(new) /\ \A j \in DOMAIN notes' \cap new : notes'[j].source = None
    BY <2>1, AcceptedRows
  <2> HIDE DEF new
  <2> QED BY <2>2 DEF RowsFollow
<1>2. CASE OfflineTransitions
  <2> DEFINE new == lastId + 1 .. lastId + Cardinality(Overdue)
  <2>1. StepOfNotes(new) /\ \A j \in new : notes'[j].source = None
    BY <1>2, OfflineRows
  <2> HIDE DEF new
  <2> QED BY <2>1 DEF RowsFollow
<1>3. CASE \E i \in DOMAIN notes : RequeueDeadLetter(i)
  <2>1. PICK i \in DOMAIN notes : RequeueDeadLetter(i)
    BY <1>3
  <2> DEFINE id == lastId + 1
  <2>2. /\ StepOfNotes({id}) /\ notes[i].state = "dead"
        /\ notes'[id].source = i /\ notes'[id].count = notes[i].count - notes[i].next
        /\ i \in DOMAIN notes' /\ notes'[i].state = "requeued"
        /\ notes'[i].next = notes[i].next
    BY <2>1, RequeuedRows
  <2> HIDE DEF id
  <2>3. RowsFollow({id})
    BY <2>2 DEF RowsFollow
  <2> QED BY <2>3
<1>4. CASE StepOfNotes({})
  <2>1. RowsFollow({})
    BY <1>4 DEF RowsFollow
  <2> QED BY <2>1
<1> QED BY <1>1, <1>2, <1>3, <1>4, NoNewRows

LEMMA NextChainInv ==
  ASSUME Assumptions, IInv, IInv', KeyInv, ChainInv, [Next]_vars
  PROVE  ChainInv'
BY NextRows, ChainsKept

\* A row keeps its message and its length.
RootsKept ==
  \A i \in DOMAIN notes \cap DOMAIN notes' :
    Root'[i] = Root[i] /\ notes'[i].count = notes[i].count

LEMMA RowsKeepRoots ==
  ASSUME IInv, IInv', ChainInv, ChainInv', NEW new, RowsFollow(new)
  PROVE  RootsKept
<1>1. /\ lastId \in Nat /\ lastId' \in Nat
      /\ DOMAIN notes \subseteq 1 .. lastId /\ DOMAIN notes' \subseteq 1 .. lastId'
      /\ SourcesAmong(notes) /\ SourcesAmong(notes')
  BY DEF IInv, TypeOK, ChainInv
<1>2. \A i \in DOMAIN notes' \cap DOMAIN notes :
        notes'[i].source = notes[i].source /\ notes'[i].count = notes[i].count
  BY DEF RowsFollow, StepOfNotes, SameNote
<1>3. RootsIn(notes, Root) /\ RootsIn(notes', Root')
  BY <1>1, RootFollows, RootFollowsNext
<1>4. \A i \in DOMAIN notes' \cap DOMAIN notes : Root'[i] = Root[i]
  BY <1>1, <1>2, <1>3, RootsAgree
<1> QED BY <1>2, <1>4 DEF RootsKept

-----------------------------------------------------------------------------
(* Alerts.                                                                 *)

ReportFrom(a) ==
  \E b \in Boots, s \in Sequences, d \in Digests, k \in ReportChunks :
    \E at \in ReceptionTimes(a) : AcceptReport(a, b, s, d, k, at)

\* What a step does to the offline flag of an agent, its last alert and the
\* number of its returns.
LEMMA FlagSteps ==
  ASSUME Assumptions, IInv, [Next]_vars, NEW a \in Agents
  PROVE  \/ /\ agents'[a].offline = agents[a].offline /\ alerts'[a] = alerts[a]
            /\ reactivated'[a] = reactivated[a]
            /\ ~(OfflineTransitions /\ a \in Overdue)
         \/ /\ ReportFrom(a)
            /\ agents'[a].offline = FALSE
            /\ alerts'[a] = IF agents[a].offline THEN "RECOVERY" ELSE alerts[a]
            /\ reactivated'[a] = reactivated[a]
         \/ /\ OfflineTransitions /\ a \in Overdue
            /\ agents'[a].offline = TRUE /\ alerts'[a] = "OFFLINE"
            /\ reactivated'[a] = reactivated[a]
         \/ /\ UNCHANGED notes
            /\ agents'[a].offline = FALSE /\ alerts'[a] = None
            /\ reactivated'[a] = reactivated[a] + 1
<1>1. /\ agents \in [Agents -> Agent] /\ agents[a] \in Agent
      /\ alerts \in [Agents -> Option(Kinds)] /\ reactivated \in [Agents -> Nat]
  BY DEF IInv, TypeOK
<1>2. CASE UNCHANGED <<agents, alerts, reactivated>> /\ ~OfflineTransitions
  BY <1>2
<1>3. CASE Reporting
  <2>1. PICK x \in Agents, b \in Boots, s \in Sequences, d \in Digests,
             k \in ReportChunks, at \in Time :
               at \in ReceptionTimes(x) /\ AcceptReport(x, b, s, d, k, at)
    BY <1>3 DEF Reporting, ReceptionTimes, Time
  <2>2. /\ agents' = [agents EXCEPT ![x] = Heard(x, s, at)] /\ reactivated' = reactivated
        /\ alerts' = IF agents[x].offline THEN [alerts EXCEPT ![x] = "RECOVERY"] ELSE alerts
        /\ now' = now /\ lastId' = lastId + Additions(x)
    BY <2>1 DEF AcceptReport
  <2>3. CASE x # a
    <3>1. /\ agents'[a] = agents[a] /\ alerts'[a] = alerts[a]
          /\ reactivated'[a] = reactivated[a]
      BY <1>1, <2>2, <2>3
    <3>2. ~(OfflineTransitions /\ a \in Overdue)
      <4>1. OfflineTransitions /\ a \in Overdue => agents'[a].offline = TRUE /\ ~agents[a].offline
        BY <1>1 DEF OfflineTransitions, Overdue, Agent
      <4> QED BY <3>1, <4>1
    <3> QED BY <3>1, <3>2
  <2>4. CASE x = a
    <3>1. agents'[a].offline = FALSE
      BY <1>1, <2>2, <2>4 DEF Heard, Agent
    <3>2. alerts'[a] = IF agents[a].offline THEN "RECOVERY" ELSE alerts[a]
      BY <1>1, <2>2, <2>4
    <3>3. ReportFrom(a)
      BY <2>1, <2>4 DEF ReportFrom
    <3> QED BY <2>2, <2>4, <3>1, <3>2, <3>3
  <2> QED BY <2>3, <2>4
<1>4. CASE OfflineTransitions
  <2>1. /\ agents'[a] = IF a \in Overdue THEN [agents[a] EXCEPT !.offline = TRUE] ELSE agents[a]
        /\ alerts'[a] = IF a \in Overdue THEN "OFFLINE" ELSE alerts[a]
        /\ reactivated' = reactivated
    BY <1>4 DEF OfflineTransitions
  <2>2. a \in Overdue => agents'[a].offline = TRUE
    BY <1>1, <2>1 DEF Agent
  <2> QED BY <1>4, <2>1, <2>2
<1>5. CASE \E registry \in SUBSET Agents : SyncRegistry(registry)
  <2>1. PICK registry \in SUBSET Agents : SyncRegistry(registry)
    BY <1>5
  <2>2. /\ agents'[a] = IF a \in registry /\ ~agents[a].active THEN Reactivated(agents[a])
                        ELSE [agents[a] EXCEPT !.active = (a \in registry)]
        /\ alerts'[a] = IF a \in registry /\ ~agents[a].active THEN None ELSE alerts[a]
        /\ reactivated'[a] = reactivated[a] + IF a \in registry /\ ~agents[a].active THEN 1 ELSE 0
        /\ notes' = notes
    BY <2>1 DEF SyncRegistry
  <2>3. CASE a \in registry /\ ~agents[a].active
    <3>1. agents'[a].offline = FALSE
      BY <1>1, <2>2, <2>3 DEF Reactivated, Agent
    <3> QED BY <2>2, <2>3, <3>1
  <2>4. CASE ~(a \in registry /\ ~agents[a].active)
    <3>1. agents'[a].offline = agents[a].offline
      BY <1>1, <2>2, <2>4 DEF Agent
    <3>2. reactivated'[a] = reactivated[a]
      BY <1>1, <2>2, <2>4
    <3>3. ~(OfflineTransitions /\ a \in Overdue)
      <4>1. OfflineTransitions /\ a \in Overdue => agents'[a].offline = TRUE /\ ~agents[a].offline
        BY <1>1 DEF OfflineTransitions, Overdue, Agent
      <4> QED BY <3>1, <4>1
    <3> QED BY <2>2, <2>4, <3>1, <3>2, <3>3
  <2> QED BY <2>3, <2>4
<1>6. CASE Dispatching \/ Repairing \/ Tick \/ UNCHANGED vars
  <2>1. UNCHANGED <<agents, alerts, reactivated>>
    BY <1>6 DEF Dispatching, ClaimNotification, AcknowledgeChunk, RecordFailure,
         ReleaseNotification, Repairing, ResetLeases, RetryDeadLetters, RequeueDeadLetter,
         Tick, vars, tables, history
  <2>2. OfflineTransitions /\ a \in Overdue => agents'[a].offline = TRUE /\ ~agents[a].offline
    BY <1>1 DEF OfflineTransitions, Overdue, Agent
  <2> QED BY <2>1, <2>2
<1> QED BY <1>3, <1>4, <1>5, <1>6 DEF Next

\* The offline flag says what the last alert said.
FlagIsAlert == \A a \in Agents : agents[a].offline <=> alerts[a] = "OFFLINE"

LEMMA NextFlagIsAlert ==
  ASSUME Assumptions, IInv, FlagIsAlert, [Next]_vars
  PROVE  FlagIsAlert'
<1> SUFFICES ASSUME NEW a \in Agents
             PROVE  agents'[a].offline <=> alerts'[a] = "OFFLINE"
  BY DEF FlagIsAlert
<1>1. CASE agents'[a].offline = FALSE /\ alerts'[a] = None
  <2>1. None # "OFFLINE"
    BY DEF Assumptions, NoneAssumption
  <2> QED BY <1>1, <2>1
<1> QED BY <1>1, FlagSteps DEF FlagIsAlert

LEMMA FreshAlertsFollow ==
  ASSUME Assumptions, IInv, FlagIsAlert, Next
  PROVE  AlertsAlternateStep
<1>1. \A i \in DOMAIN notes : notes[i] \in Note
  BY DEF IInv, TypeOK
<1>2. CASE Reporting
  <2>1. PICK x \in Agents, b \in Boots, s \in Sequences, d \in Digests,
             k \in ReportChunks, at \in Time :
               at \in ReceptionTimes(x) /\ AcceptReport(x, b, s, d, k, at)
    BY <1>2 DEF Reporting, ReceptionTimes, Time
  <2> DEFINE new == lastId + 1 .. lastId + Additions(x)
  <2>2. /\ StepOfNotes(new)
        /\ \A j \in DOMAIN notes' \cap new :
             /\ notes'[j].agent = x
             /\ notes'[j].kind # "OFFLINE"
             /\ notes'[j].kind = "RECOVERY" => agents[x].offline
    BY <2>1, AcceptedRows
  <2> QED BY <2>2 DEF StepOfNotes, AlertsAlternateStep, FreshAlerts, FlagIsAlert
<1>3. CASE OfflineTransitions
  <2> DEFINE new == lastId + 1 .. lastId + Cardinality(Overdue)
  <2>1. /\ StepOfNotes(new)
        /\ \A j \in new : notes'[j].agent \in Overdue /\ notes'[j].kind = "OFFLINE"
    BY <1>3, OfflineRows
  <2>2. \A a \in Overdue : a \in Agents /\ ~agents[a].offline
    BY DEF Overdue
  <2> QED BY <2>1, <2>2 DEF StepOfNotes, AlertsAlternateStep, FreshAlerts, FlagIsAlert
<1>4. CASE \E i \in DOMAIN notes : RequeueDeadLetter(i)
  <2>1. PICK i \in DOMAIN notes : RequeueDeadLetter(i)
    BY <1>4
  <2>2. StepOfNotes({lastId + 1}) /\ notes'[lastId + 1].source = i /\ i \in Nat
    BY <2>1, RequeuedRows
  <2>3. i # None
    BY <2>2 DEF Assumptions, NoneAssumption
  <2> QED BY <2>2, <2>3 DEF StepOfNotes, AlertsAlternateStep, FreshAlerts
<1>5. CASE StepOfNotes({})
  BY <1>5 DEF StepOfNotes, AlertsAlternateStep, FreshAlerts
<1> QED BY <1>2, <1>3, <1>4, <1>5, NoNewRows

\* An agent's alerts alternate: no OFFLINE follows an OFFLINE, and a RECOVERY
\* follows only an OFFLINE.
THEOREM AlertsTakeTurns == Spec => AlertsAlternate
<1>1. Assumptions
  BY AgentsAssumption, NoneAssumption, LimitsAssumption DEF Assumptions
<1>2. Init => FlagIsAlert
  <2>1. None # "OFFLINE"
    BY NoneAssumption DEF NoneAssumption
  <2> QED BY <2>1 DEF Init, FlagIsAlert
<1>3. IInv /\ FlagIsAlert /\ [Next]_vars => FlagIsAlert'
  BY <1>1, NextFlagIsAlert
<1>4. IInv /\ FlagIsAlert /\ [Next]_vars => [AlertsAlternateStep]_vars
  BY <1>1, FreshAlertsFollow
<1> QED BY <1>2, <1>3, <1>4, Invariance, PTL DEF Spec, AlertsAlternate

-----------------------------------------------------------------------------
(* The backlog.                                                            *)

LEMMA OneMore ==
  ASSUME NEW S, IsFiniteSet(S), NEW x, NEW T, T \subseteq S \cup {x}
  PROVE  /\ IsFiniteSet(T)
         /\ Cardinality(T) \in Nat /\ Cardinality(S) \in Nat
         /\ Cardinality(T) <= Cardinality(S) + 1
<1>1. /\ IsFiniteSet(S \cup {x}) /\ Cardinality(S) \in Nat
      /\ Cardinality(S \cup {x}) = IF x \in S THEN Cardinality(S) ELSE Cardinality(S) + 1
  BY FS_AddElement, FS_CardinalityType
<1>2. IsFiniteSet(T) /\ Cardinality(T) <= Cardinality(S \cup {x})
  BY <1>1, FS_Subset
<1>3. Cardinality(T) \in Nat
  BY <1>2, FS_CardinalityType
<1> QED BY <1>1, <1>2, <1>3

LEMMA IdsFinite ==
  ASSUME NEW last \in Nat, NEW S, S \subseteq 1 .. last
  PROVE  IsFiniteSet(S) /\ Cardinality(S) \in Nat
<1>1. IsFiniteSet(1 .. last)
  BY FS_Interval
<1>2. IsFiniteSet(S)
  BY <1>1, FS_Subset
<1> QED BY <1>2, FS_CardinalityType

LEMMA UnresolvedFinite ==
  ASSUME TypeOK, NEW a
  PROVE  IsFiniteSet(UnresolvedOf(a)) /\ Cardinality(UnresolvedOf(a)) \in Nat
<1>1. UnresolvedOf(a) \subseteq 1 .. lastId /\ lastId \in Nat
  BY DEF TypeOK, UnresolvedOf, IdsOf
<1> QED BY <1>1, IdsFinite

LEMMA UnresolvedFiniteNext ==
  ASSUME TypeOK', NEW a
  PROVE  Cardinality(UnresolvedOf(a)') \in Nat
<1>1. UnresolvedOf(a)' \subseteq 1 .. lastId' /\ lastId' \in Nat
  BY DEF TypeOK, UnresolvedOf, IdsOf
<1> QED BY <1>1, IdsFinite

\* What a step adds to an agent's backlog are the agent's new rows.
LEMMA UnresolvedGrows ==
  ASSUME IInv, NEW new, StepOfNotes(new), NEW a
  PROVE  UnresolvedOf(a)' \subseteq
           UnresolvedOf(a) \cup {j \in DOMAIN notes' \cap new : notes'[j].agent = a}
BY DEF StepOfNotes, UnresolvedOf, IdsOf, SameNote

\* Admission leaves room for the report below both caps.
LEMMA AcceptedBacklog ==
  ASSUME Assumptions, IInv, NEW a \in Agents, NEW b \in Boots, NEW s \in Sequences,
         NEW d \in Digests, NEW k \in ReportChunks, NEW at \in ReceptionTimes(a),
         AcceptReport(a, b, s, d, k, at)
  PROVE  Cardinality(UnresolvedOf(a)') <= MaxPendingPerAgent + MaxDeadLetters - 1
<1> DEFINE new == lastId + 1 .. lastId + Additions(a)
           U == UnresolvedOf(a)
<1>1. /\ MaxPendingPerAgent \in Nat /\ MaxDeadLetters \in Nat /\ lastId \in Nat
      /\ Additions(a) \in {1, 2}
  BY DEF Assumptions, LimitsAssumption, IInv, TypeOK, Additions
<1>2. /\ Cardinality(PendingOf(a)) + Additions(a) <= MaxPendingPerAgent
      /\ Cardinality(DeadOf(a)) < MaxDeadLetters
  BY DEF AcceptReport, Admissible, HasRoom, DeadLetterRoom
<1>3. IsFiniteSet(U) /\ Cardinality(U) \in Nat
  BY UnresolvedFinite DEF IInv
<1>4. U = PendingOf(a) \cup DeadOf(a)
  BY DEF UnresolvedOf, PendingOf, PendingIds, DeadOf, IdsOf, Unresolved, Pending
<1>5. /\ IsFiniteSet(PendingOf(a)) /\ IsFiniteSet(DeadOf(a))
      /\ PendingOf(a) \cap DeadOf(a) \subseteq U
  BY <1>3, <1>4, FS_Subset
<1>6. /\ Cardinality(PendingOf(a)) \in Nat /\ Cardinality(DeadOf(a)) \in Nat
      /\ Cardinality(PendingOf(a) \cap DeadOf(a)) \in Nat
  BY <1>3, <1>5, FS_Subset, FS_CardinalityType
<1>7. Cardinality(U) <= Cardinality(PendingOf(a)) + Cardinality(DeadOf(a))
  <2>1. Cardinality(PendingOf(a) \cup DeadOf(a))
          = Cardinality(PendingOf(a)) + Cardinality(DeadOf(a))
              - Cardinality(PendingOf(a) \cap DeadOf(a))
    BY <1>5, FS_Union
  <2> HIDE DEF U
  <2> QED BY <1>4, <1>6, <2>1
<1>8. UnresolvedOf(a)' \subseteq U \cup new
  BY AcceptedRows, UnresolvedGrows
<1> HIDE DEF U
<1>9. Cardinality(UnresolvedOf(a)') <= Cardinality(U) + Additions(a)
  <2>1. CASE Additions(a) = 1
    <3>1. new \subseteq {lastId + 1}
      BY <1>1, <2>1
    <3> QED BY <1>3, <1>8, <2>1, <3>1, OneMore
  <2>2. CASE Additions(a) = 2
    <3>1. new \subseteq {lastId + 1, lastId + 2}
      BY <1>1, <2>2
    <3> DEFINE V == U \cup {lastId + 1}
    <3>2. /\ IsFiniteSet(V) /\ Cardinality(V) \in Nat
          /\ Cardinality(V) <= Cardinality(U) + 1
      BY <1>3, OneMore
    <3>3. UnresolvedOf(a)' \subseteq V \cup {lastId + 2}
      BY <1>8, <3>1
    <3> HIDE DEF V
    <3>4. Cardinality(UnresolvedOf(a)') \in Nat /\ Cardinality(UnresolvedOf(a)') <= Cardinality(V) + 1
      BY <3>2, <3>3, OneMore
    <3> QED BY <1>3, <2>2, <3>2, <3>4
  <2> QED BY <1>1, <2>1, <2>2
<1>10. Cardinality(UnresolvedOf(a)') \in Nat
  <2>1. TypeOK'
    BY AcceptReportIInv DEF IInv
  <2> QED BY <2>1, UnresolvedFiniteNext
<1> QED BY <1>1, <1>2, <1>3, <1>6, <1>7, <1>9, <1>10

LEMMA NextBacklog ==
  ASSUME Assumptions, IInv, IInv', BacklogBound, [Next]_vars
  PROVE  BacklogBound'
<1> DEFINE cap == MaxPendingPerAgent + MaxDeadLetters
<1>1. cap \in Nat /\ MaxPendingPerAgent \in Nat /\ MaxDeadLetters \in Nat
  BY DEF Assumptions, LimitsAssumption
<1>2. \A a \in Agents :
        /\ IsFiniteSet(UnresolvedOf(a)) /\ Cardinality(UnresolvedOf(a)) \in Nat
        /\ reactivated[a] \in Nat /\ agents[a].offline \in BOOLEAN
  BY UnresolvedFinite DEF IInv, TypeOK, Agent
<1>3. TypeOK'
  BY DEF IInv
<1> SUFFICES ASSUME NEW a \in Agents
             PROVE  Cardinality(UnresolvedOf(a)') + (IF agents'[a].offline THEN 0 ELSE 1)
                      <= cap + reactivated'[a]
  BY DEF BacklogBound
<1>4. /\ Cardinality(UnresolvedOf(a)) + (IF agents[a].offline THEN 0 ELSE 1)
           <= cap + reactivated[a]
  BY DEF BacklogBound
<1> HIDE DEF cap
<1>5. Cardinality(UnresolvedOf(a)') \in Nat
  BY <1>3, UnresolvedFiniteNext
<1>6. CASE Cardinality(UnresolvedOf(a)') <= Cardinality(UnresolvedOf(a))
           /\ ~(OfflineTransitions /\ a \in Overdue)
           /\ ~ReportFrom(a)
  <2>1. \/ agents'[a].offline = agents[a].offline /\ reactivated'[a] = reactivated[a]
        \/ agents'[a].offline = FALSE /\ reactivated'[a] = reactivated[a] + 1
    BY <1>6, FlagSteps
  <2> QED BY <1>1, <1>2, <1>4, <1>5, <1>6, <2>1
<1>7. CASE ReportFrom(a)
  <2>1. Cardinality(UnresolvedOf(a)') <= cap - 1
    <3>1. PICK b \in Boots, s \in Sequences, d \in Digests, k \in ReportChunks :
                 \E at \in ReceptionTimes(a) : AcceptReport(a, b, s, d, k, at)
      BY <1>7 DEF ReportFrom
    <3>2. Cardinality(UnresolvedOf(a)') <= MaxPendingPerAgent + MaxDeadLetters - 1
      BY <3>1, AcceptedBacklog
    <3> QED BY <1>1, <1>5, <3>2 DEF cap
  <2>2. reactivated'[a] \in Nat
    BY <1>3 DEF TypeOK
  <2> QED BY <1>1, <1>5, <2>1, <2>2
<1>8. CASE OfflineTransitions /\ a \in Overdue
  <2> DEFINE new == lastId + 1 .. lastId + Cardinality(Overdue)
             mine == {j \in DOMAIN notes' \cap new : notes'[j].agent = a}
  <2>1. /\ StepOfNotes(new) /\ \A i, j \in new : i # j => notes'[i].agent # notes'[j].agent
    BY <1>8, OfflineRows
  <2> HIDE DEF new
  <2>2. \A i, j \in mine : i = j
    BY <2>1
  <2>3. UnresolvedOf(a)' \subseteq UnresolvedOf(a) \cup mine
    BY <2>1, UnresolvedGrows
  <2>4. \E x : mine \subseteq {x}
    BY <2>2
  <2> HIDE DEF mine
  <2>5. PICK x : UnresolvedOf(a)' \subseteq UnresolvedOf(a) \cup {x}
    BY <2>3, <2>4
  <2>6. Cardinality(UnresolvedOf(a)') <= Cardinality(UnresolvedOf(a)) + 1
    BY <1>2, <2>5, OneMore
  <2>7. agents'[a].offline = TRUE /\ reactivated'[a] = reactivated[a] /\ ~agents[a].offline
    <3>1. /\ agents'[a] = [agents[a] EXCEPT !.offline = TRUE] /\ reactivated' = reactivated
          /\ agents[a] \in Agent
      BY <1>8 DEF OfflineTransitions, IInv, TypeOK
    <3>2. agents'[a].offline = TRUE
      BY <3>1 DEF Agent
    <3> QED BY <1>8, <3>1, <3>2 DEF Overdue
  <2> QED BY <1>1, <1>2, <1>4, <1>5, <2>6, <2>7
<1>9. ASSUME UnresolvedOf(a)' \subseteq UnresolvedOf(a)
      PROVE  Cardinality(UnresolvedOf(a)') <= Cardinality(UnresolvedOf(a))
  BY <1>2, <1>9, FS_Subset
<1>10. CASE Reporting
  <2>1. PICK x \in Agents, b \in Boots, s \in Sequences, d \in Digests,
             k \in ReportChunks, at \in Time :
               at \in ReceptionTimes(x) /\ AcceptReport(x, b, s, d, k, at)
    BY <1>10 DEF Reporting, ReceptionTimes, Time
  <2>2. CASE x # a
    <3> DEFINE new == lastId + 1 .. lastId + Additions(x)
    <3>1. /\ StepOfNotes(new) /\ \A j \in DOMAIN notes' \cap new : notes'[j].agent = x
      BY <2>1, AcceptedRows
    <3> HIDE DEF new
    <3>2. UnresolvedOf(a)' \subseteq UnresolvedOf(a)
      BY <2>2, <3>1, UnresolvedGrows
    <3> QED BY <1>6, <1>7, <1>8, <1>9, <3>2
  <2>3. CASE x = a
    BY <1>7, <2>1, <2>3 DEF ReportFrom
  <2> QED BY <2>2, <2>3
<1>11. CASE OfflineTransitions /\ a \notin Overdue
  <2> DEFINE new == lastId + 1 .. lastId + Cardinality(Overdue)
  <2>1. /\ StepOfNotes(new) /\ \A j \in new : notes'[j].agent \in Overdue
    BY <1>11, OfflineRows
  <2> HIDE DEF new
  <2>2. UnresolvedOf(a)' \subseteq UnresolvedOf(a)
    BY <1>11, <2>1, UnresolvedGrows
  <2> QED BY <1>6, <1>7, <1>8, <1>9, <2>2
<1>12. CASE \E i \in DOMAIN notes : RequeueDeadLetter(i)
  <2>1. PICK i \in DOMAIN notes : RequeueDeadLetter(i)
    BY <1>12
  <2>2. /\ StepOfNotes({lastId + 1}) /\ notes[i].state = "dead"
        /\ notes'[lastId + 1].agent = notes[i].agent
        /\ i \in DOMAIN notes' /\ notes'[i].state = "requeued"
    BY <2>1, RequeuedRows
  <2>3. i \notin UnresolvedOf(a)'
    BY <2>2 DEF UnresolvedOf, Unresolved
  <2>4. CASE notes[i].agent = a
    <3>1. i \in UnresolvedOf(a)
      BY <2>2, <2>4 DEF UnresolvedOf, IdsOf, Unresolved
    <3>2. UnresolvedOf(a)' \subseteq (UnresolvedOf(a) \ {i}) \cup {lastId + 1}
      BY <2>2, <2>3, UnresolvedGrows
    <3>3. /\ IsFiniteSet(UnresolvedOf(a) \ {i})
          /\ Cardinality(UnresolvedOf(a) \ {i}) = Cardinality(UnresolvedOf(a)) - 1
      BY <1>2, <3>1, FS_RemoveElement
    <3>4. Cardinality(UnresolvedOf(a)') <= Cardinality(UnresolvedOf(a))
      <4> DEFINE rest == UnresolvedOf(a) \ {i}
      <4>1. Cardinality(UnresolvedOf(a)') <= Cardinality(rest) + 1
        <5> HIDE DEF rest
        <5> QED BY <3>2, <3>3, OneMore DEF rest
      <4> QED BY <1>2, <1>5, <3>3, <4>1
    <3> QED BY <1>6, <1>7, <1>8, <3>4
  <2>5. CASE notes[i].agent # a
    <3>1. UnresolvedOf(a)' \subseteq UnresolvedOf(a)
      BY <2>2, <2>5, UnresolvedGrows
    <3> QED BY <1>6, <1>7, <1>8, <1>9, <3>1
  <2> QED BY <2>4, <2>5
<1>13. CASE StepOfNotes({})
  <2>1. UnresolvedOf(a)' \subseteq UnresolvedOf(a)
    BY <1>13, UnresolvedGrows
  <2> QED BY <1>6, <1>7, <1>8, <1>9, <2>1
<1> QED BY <1>8, <1>10, <1>11, <1>12, <1>13, NoNewRows

\* What an agent has waiting or dead stays below the sum of the two caps, the
\* flag and the returns to the registry counted, whatever dispatchers, operators
\* and retention do in between.
THEOREM BacklogStaysBounded == Spec => []BacklogBound
<1>1. Assumptions
  BY AgentsAssumption, NoneAssumption, LimitsAssumption DEF Assumptions
<1>2. Init => BacklogBound
  <2> SUFFICES ASSUME Init, NEW a \in Agents
               PROVE  Cardinality(UnresolvedOf(a)) + (IF agents[a].offline THEN 0 ELSE 1)
                        <= MaxPendingPerAgent + MaxDeadLetters + reactivated[a]
    BY DEF BacklogBound
  <2>1. UnresolvedOf(a) = {} /\ agents[a].offline = FALSE /\ reactivated[a] = 0
    BY DEF Init, UnresolvedOf, IdsOf
  <2>2. MaxPendingPerAgent \in Nat \ {0} /\ MaxDeadLetters \in Nat
    BY <1>1 DEF Assumptions, LimitsAssumption
  <2> QED BY <2>1, <2>2, FS_EmptySet
<1>3. IInv /\ IInv' /\ BacklogBound /\ [Next]_vars => BacklogBound'
  BY <1>1, NextBacklog
<1> QED BY <1>2, <1>3, Invariance, PTL DEF Spec

-----------------------------------------------------------------------------
(* The rate of reports.                                                    *)

\* The events of an agent accepted in the span of one window from t on.
Span(a, t) ==
  {e \in DOMAIN accepted : e[1] = a /\ accepted[e] >= t /\ accepted[e] < t + ReportWindow}

\* What the windows let through before the row of windows was last broken, by a
\* return of the agent to the registry or by a report that was overtaken.
Past(a) == (2 * ReportBurst - 1) * (reactivated[a] + reopened[a])

\* What the unbroken row of windows let through in the span from t on, if the
\* last one began at start and has counted that many: the first of them at start,
\* a burst at most in the window before, two less one in every earlier span.
Reach(start, count, t) ==
  IF t >= start + ReportWindow THEN 0
  ELSE IF t > start THEN count - 1
  ELSE IF t = start THEN count
  ELSE IF t > start - ReportWindow THEN count + ReportBurst - 1
  ELSE 2 * ReportBurst - 1

WindowInv(a) ==
  /\ agents[a].windowStart = None =>
       \A t \in Nat : Cardinality(Span(a, t)) <= Past(a)
  /\ agents[a].windowStart # None =>
       /\ agents[a].rateCount >= 1 /\ agents[a].rateCount <= ReportBurst
       /\ \A t \in Nat : Cardinality(Span(a, t))
            <= Past(a) + Reach(agents[a].windowStart, agents[a].rateCount, t)

RateInv == IsFiniteSet(DOMAIN accepted) /\ (\A a \in Agents : WindowInv(a))

\* The span from t on holds the instant at.
Holds(t, at) == IF t <= at /\ at < t + ReportWindow THEN 1 ELSE 0

\* How the reach changes with a report received at that time: it counts in the
\* window, or begins the next one.
LEMMA ReachGrows ==
  ASSUME ReportBurst \in Nat, ReportBurst >= 1, ReportWindow \in Nat, ReportWindow >= 1,
         NEW start \in Nat, NEW count \in Nat, count >= 1, count <= ReportBurst,
         NEW at \in Nat, NEW t \in Nat
  PROVE  /\ Reach(start, count, t) \in Nat /\ Reach(start, count, t) <= 2 * ReportBurst - 1
         /\ Holds(t, at) \in {0, 1} /\ Holds(t, at) <= Reach(at, 1, t)
         /\ start <= at /\ at < start + ReportWindow =>
              Reach(start, count, t) + Holds(t, at) <= Reach(start, count + 1, t)
         /\ at >= start + ReportWindow =>
              Reach(start, count, t) + Holds(t, at) <= Reach(at, 1, t)
<1>1. Reach(start, count, t) \in Nat /\ Reach(start, count, t) <= 2 * ReportBurst - 1
  BY DEF Reach
<1>2. Holds(t, at) \in {0, 1} /\ Holds(t, at) <= Reach(at, 1, t)
  BY DEF Reach, Holds
<1>3. start <= at /\ at < start + ReportWindow =>
        Reach(start, count, t) + Holds(t, at) <= Reach(start, count + 1, t)
  BY DEF Reach, Holds
<1>4. at >= start + ReportWindow => Reach(start, count, t) + Holds(t, at) <= Reach(at, 1, t)
  BY DEF Reach, Holds
<1> QED BY <1>1, <1>2, <1>3, <1>4

LEMMA RateConstants ==
  ASSUME Assumptions, TypeOK, NEW a \in Agents
  PROVE  /\ ReportBurst \in Nat /\ ReportBurst >= 1 /\ ReportWindow \in Nat /\ ReportWindow >= 1
         /\ None \notin Nat /\ reactivated[a] \in Nat /\ reopened[a] \in Nat
         /\ agents[a].rateCount \in Nat
         /\ agents[a].windowStart = None \/ agents[a].windowStart \in Nat
BY DEF Assumptions, LimitsAssumption, NoneAssumption, TypeOK, Agent, Option, Time

LEMMA PastProduct ==
  ASSUME NEW b \in Nat, b >= 1, NEW n \in Nat
  PROVE  /\ (2 * b - 1) * n \in Nat
         /\ (2 * b - 1) * (n + 1) = (2 * b - 1) * n + (2 * b - 1)
<1>1. 2 * b - 1 \in Nat
  OBVIOUS
<1>2. ASSUME NEW k \in Nat
      PROVE  k * n \in Nat /\ k * (n + 1) = k * n + k
  OBVIOUS
<1> QED BY <1>1, <1>2

\* A break of the row of windows is worth what a whole row reaches.
LEMMA PastGrows ==
  ASSUME Assumptions, TypeOK, NEW a \in Agents
  PROVE  /\ Past(a) \in Nat
         /\ (2 * ReportBurst - 1) * (1 + reactivated[a] + reopened[a])
              = Past(a) + (2 * ReportBurst - 1)
         /\ \/ reactivated'[a] = reactivated[a] + 1 /\ reopened'[a] = reopened[a]
            \/ reactivated'[a] = reactivated[a] /\ reopened'[a] = reopened[a] + 1
            => Past(a)' = Past(a) + (2 * ReportBurst - 1)
         /\ reactivated'[a] = reactivated[a] /\ reopened'[a] = reopened[a] => Past(a)' = Past(a)
<1> DEFINE n == reactivated[a] + reopened[a]
<1>1. /\ ReportBurst \in Nat /\ ReportBurst >= 1
      /\ reactivated[a] \in Nat /\ reopened[a] \in Nat /\ n \in Nat
  BY RateConstants
<1>2. /\ (2 * ReportBurst - 1) * n \in Nat
      /\ (2 * ReportBurst - 1) * (n + 1) = (2 * ReportBurst - 1) * n + (2 * ReportBurst - 1)
  BY <1>1, PastProduct
<1>3. Past(a) = (2 * ReportBurst - 1) * n
  BY DEF Past
<1>4. 1 + reactivated[a] + reopened[a] = n + 1
  BY <1>1
<1>5. \/ reactivated'[a] = reactivated[a] + 1 /\ reopened'[a] = reopened[a]
      \/ reactivated'[a] = reactivated[a] /\ reopened'[a] = reopened[a] + 1
      => Past(a)' = (2 * ReportBurst - 1) * (n + 1)
  <2>1. \/ reactivated'[a] = reactivated[a] + 1 /\ reopened'[a] = reopened[a]
        \/ reactivated'[a] = reactivated[a] /\ reopened'[a] = reopened[a] + 1
        => reactivated'[a] + reopened'[a] = n + 1
    BY <1>1
  <2> QED BY <2>1 DEF Past
<1>6. reactivated'[a] = reactivated[a] /\ reopened'[a] = reopened[a] => Past(a)' = Past(a)
  BY DEF Past
<1> QED BY <1>2, <1>3, <1>4, <1>5, <1>6

\* What a step does to the window of an agent.
LEMMA WindowSteps ==
  ASSUME Assumptions, IInv, [Next]_vars, NEW a \in Agents
  PROVE  \/ /\ agents'[a].windowStart = agents[a].windowStart
            /\ agents'[a].rateCount = agents[a].rateCount
            /\ reactivated'[a] = reactivated[a] /\ reopened'[a] = reopened[a]
            /\ \/ accepted' = accepted
               \/ \E x \in Agents \ {a} : \E b, s, at :
                    accepted' = Put(accepted, <<x, b, s>>, at)
         \/ \E at \in Nat :
              /\ agents'[a].windowStart = IF WindowOver(a, at) THEN at ELSE agents[a].windowStart
              /\ agents'[a].rateCount = RateCount(a, at) + 1 /\ RateCount(a, at) < ReportBurst
              /\ reactivated'[a] = reactivated[a]
              /\ reopened'[a] = reopened[a] + IF Overtaken(a, at) THEN 1 ELSE 0
              /\ \E b, s : accepted' = Put(accepted, <<a, b, s>>, at)
         \/ /\ agents'[a].windowStart = None
            /\ reactivated'[a] = reactivated[a] + 1 /\ reopened'[a] = reopened[a]
            /\ accepted' = accepted
<1>1. /\ agents \in [Agents -> Agent] /\ agents[a] \in Agent
      /\ reactivated \in [Agents -> Nat] /\ reopened \in [Agents -> Nat]
  BY DEF IInv, TypeOK
<1>2. CASE Reporting
  <2>1. PICK x \in Agents, b \in Boots, s \in Sequences, d \in Digests,
             k \in ReportChunks, at \in Time :
               at \in ReceptionTimes(x) /\ AcceptReport(x, b, s, d, k, at)
    BY <1>2 DEF Reporting, ReceptionTimes, Time
  <2>2. /\ agents' = [agents EXCEPT ![x] = Heard(x, s, at)] /\ reactivated' = reactivated
        /\ accepted' = Put(accepted, <<x, b, s>>, at)
        /\ reopened' = IF Overtaken(x, at) THEN [reopened EXCEPT ![x] = @ + 1] ELSE reopened
        /\ RateCount(x, at) < ReportBurst /\ at \in Nat
    BY <2>1 DEF AcceptReport, Admissible, Time
  <2>3. CASE x # a
    <3>1. agents'[a] = agents[a] /\ reopened'[a] = reopened[a]
      BY <1>1, <2>2, <2>3
    <3> QED BY <2>2, <2>3, <3>1
  <2>4. CASE x = a
    <3>1. /\ agents'[a].windowStart = IF WindowOver(a, at) THEN at ELSE agents[a].windowStart
          /\ agents'[a].rateCount = RateCount(a, at) + 1
      BY <1>1, <2>2, <2>4 DEF Heard, Agent
    <3>2. reopened'[a] = reopened[a] + IF Overtaken(a, at) THEN 1 ELSE 0
      BY <1>1, <2>2, <2>4
    <3> QED BY <2>2, <2>4, <3>1, <3>2
  <2> QED BY <2>3, <2>4
<1>3. CASE OfflineTransitions
  <2>1. /\ agents'[a] = IF a \in Overdue THEN [agents[a] EXCEPT !.offline = TRUE] ELSE agents[a]
        /\ UNCHANGED <<reactivated, reopened, accepted>>
    BY <1>3 DEF OfflineTransitions
  <2>2. /\ agents'[a].windowStart = agents[a].windowStart
        /\ agents'[a].rateCount = agents[a].rateCount
    BY <1>1, <2>1 DEF Agent
  <2> QED BY <2>1, <2>2
<1>4. CASE \E registry \in SUBSET Agents : SyncRegistry(registry)
  <2>1. PICK registry \in SUBSET Agents : SyncRegistry(registry)
    BY <1>4
  <2>2. /\ agents'[a] = IF a \in registry /\ ~agents[a].active THEN Reactivated(agents[a])
                        ELSE [agents[a] EXCEPT !.active = (a \in registry)]
        /\ reactivated'[a] = reactivated[a] + IF a \in registry /\ ~agents[a].active THEN 1 ELSE 0
        /\ accepted' = accepted /\ reopened' = reopened
    BY <2>1 DEF SyncRegistry
  <2>3. CASE a \in registry /\ ~agents[a].active
    <3>1. agents'[a].windowStart = None
      BY <1>1, <2>2, <2>3 DEF Reactivated, Agent
    <3> QED BY <2>2, <2>3, <3>1
  <2>4. CASE ~(a \in registry /\ ~agents[a].active)
    <3>1. /\ agents'[a].windowStart = agents[a].windowStart
          /\ agents'[a].rateCount = agents[a].rateCount
      BY <1>1, <2>2, <2>4 DEF Agent
    <3>2. reactivated'[a] = reactivated[a]
      BY <1>1, <2>2, <2>4
    <3> QED BY <2>2, <3>1, <3>2
  <2> QED BY <2>3, <2>4
<1>5. CASE Dispatching \/ Repairing \/ Tick \/ UNCHANGED vars
  <2>1. UNCHANGED <<agents, accepted, reactivated, reopened>>
    BY <1>5 DEF Dispatching, ClaimNotification, AcknowledgeChunk, RecordFailure,
         ReleaseNotification, Repairing, ResetLeases, RetryDeadLetters, RequeueDeadLetter,
         Tick, vars, tables, history
  <2> QED BY <2>1
<1> QED BY <1>2, <1>3, <1>4, <1>5 DEF Next

LEMMA SpanFinite ==
  ASSUME IsFiniteSet(DOMAIN accepted), NEW a, NEW t
  PROVE  IsFiniteSet(Span(a, t)) /\ Cardinality(Span(a, t)) \in Nat
<1>1. Span(a, t) \subseteq DOMAIN accepted
  BY DEF Span
<1> QED BY <1>1, FS_Subset, FS_CardinalityType

\* One more accepted event, received at that time by agent x.
LEMMA SpanGrows ==
  ASSUME IsFiniteSet(DOMAIN accepted), NEW x, NEW b, NEW s, NEW at,
         accepted' = Put(accepted, <<x, b, s>>, at), NEW a, NEW t \in Nat
  PROVE  /\ Cardinality(Span(a, t)') \in Nat
         /\ Cardinality(Span(a, t)') <= Cardinality(Span(a, t)) + Holds(t, at)
         /\ x # a => Cardinality(Span(a, t)') <= Cardinality(Span(a, t))
<1> DEFINE id == <<x, b, s>>
<1>1. /\ DOMAIN accepted' = DOMAIN accepted \cup {id} /\ accepted'[id] = at
      /\ \A e \in DOMAIN accepted : e # id => accepted'[e] = accepted[e]
  BY DEF Put
<1>2. id[1] = x
  OBVIOUS
<1> HIDE DEF id
<1>3. Span(a, t)' \subseteq Span(a, t) \cup {id}
  BY <1>1 DEF Span
<1>4. /\ Cardinality(Span(a, t)') \in Nat /\ Cardinality(Span(a, t)) \in Nat
      /\ Cardinality(Span(a, t)') <= Cardinality(Span(a, t)) + 1
  BY <1>3, SpanFinite, OneMore
<1>5. ASSUME x # a \/ ~(t <= at /\ at < t + ReportWindow)
      PROVE  Cardinality(Span(a, t)') <= Cardinality(Span(a, t))
  <2>1. Span(a, t)' \subseteq Span(a, t)
    BY <1>1, <1>2, <1>5 DEF Span
  <2> QED BY <2>1, SpanFinite, FS_Subset
<1> QED BY <1>4, <1>5 DEF Holds

\* The window stays as it is.
LEMMA SameWindow ==
  ASSUME Assumptions, TypeOK, NEW a \in Agents, WindowInv(a), IsFiniteSet(DOMAIN accepted),
         \A t \in Nat : /\ Cardinality(Span(a, t)') \in Nat
                        /\ Cardinality(Span(a, t)') <= Cardinality(Span(a, t)),
         agents'[a].windowStart = agents[a].windowStart,
         agents'[a].rateCount = agents[a].rateCount,
         reactivated'[a] = reactivated[a], reopened'[a] = reopened[a]
  PROVE  WindowInv(a)'
<1> DEFINE C(t) == Cardinality(Span(a, t))
           D(t) == Cardinality(Span(a, t)')
           start == agents[a].windowStart
           count == agents[a].rateCount
<1>1. Past(a) \in Nat /\ Past(a)' = Past(a)
  BY PastGrows
<1>2. \A t \in Nat : C(t) \in Nat /\ D(t) \in Nat /\ D(t) <= C(t)
  BY SpanFinite
<1>3. /\ start = None => \A t \in Nat : C(t) <= Past(a)
      /\ start # None =>
           /\ count >= 1 /\ count <= ReportBurst
           /\ \A t \in Nat : C(t) <= Past(a) + Reach(start, count, t)
  BY DEF WindowInv
<1>4. /\ ReportBurst \in Nat /\ ReportBurst >= 1 /\ ReportWindow \in Nat /\ ReportWindow >= 1
      /\ count \in Nat /\ (start = None \/ start \in Nat)
  BY RateConstants
<1> HIDE DEF C, D, start, count
<1>5. start = None => \A t \in Nat : D(t) <= Past(a)
  BY <1>1, <1>2, <1>3
<1>6. start # None => \A t \in Nat : D(t) <= Past(a) + Reach(start, count, t)
  <2> SUFFICES ASSUME start # None, NEW t \in Nat
               PROVE  D(t) <= Past(a) + Reach(start, count, t)
    OBVIOUS
  <2>1. Reach(start, count, t) \in Nat
    BY <1>3, <1>4, ReachGrows
  <2>2. C(t) <= Past(a) + Reach(start, count, t) /\ C(t) \in Nat /\ D(t) \in Nat /\ D(t) <= C(t)
    BY <1>2, <1>3
  <2> QED BY <1>1, <2>1, <2>2
<1> QED BY <1>1, <1>3, <1>5, <1>6 DEF WindowInv, D, start, count

\* A report counts in the open window or begins one; if it is older than the
\* window, the row of windows begins again.
LEMMA CountedWindow ==
  ASSUME Assumptions, TypeOK, NEW a \in Agents, WindowInv(a), IsFiniteSet(DOMAIN accepted),
         NEW at \in Nat, NEW b, NEW s, accepted' = Put(accepted, <<a, b, s>>, at),
         agents'[a].windowStart = (IF WindowOver(a, at) THEN at ELSE agents[a].windowStart),
         agents'[a].rateCount = RateCount(a, at) + 1, RateCount(a, at) < ReportBurst,
         reactivated'[a] = reactivated[a],
         reopened'[a] = reopened[a] + IF Overtaken(a, at) THEN 1 ELSE 0
  PROVE  WindowInv(a)'
<1> DEFINE C(t) == Cardinality(Span(a, t))
           D(t) == Cardinality(Span(a, t)')
           B == ReportBurst
           W == ReportWindow
           start == agents[a].windowStart
           count == agents[a].rateCount
           past == Past(a)
<1>1. /\ B \in Nat /\ B >= 1 /\ W \in Nat /\ W >= 1 /\ None \notin Nat
      /\ count \in Nat /\ (start = None \/ start \in Nat)
      /\ reactivated[a] \in Nat /\ reopened[a] \in Nat
  BY RateConstants
<1>2. /\ past \in Nat
      /\ Past(a)' = past + IF Overtaken(a, at) THEN 2 * B - 1 ELSE 0
  <2>1. CASE Overtaken(a, at)
    BY <1>1, <2>1, PastGrows
  <2>2. CASE ~Overtaken(a, at)
    BY <1>1, <2>2, PastGrows
  <2> QED BY <2>1, <2>2
<1>3. \A t \in Nat :
        /\ C(t) \in Nat /\ D(t) \in Nat
        /\ D(t) <= C(t) + Holds(t, at)
  BY SpanFinite, SpanGrows
<1>4. /\ start = None => \A t \in Nat : C(t) <= past
      /\ start # None =>
           /\ count >= 1 /\ count <= B
           /\ \A t \in Nat : C(t) <= past + Reach(start, count, t)
  BY DEF WindowInv
<1>5. /\ Overtaken(a, at) <=> start # None /\ at < start
      /\ WindowOver(a, at) <=> start = None \/ Overtaken(a, at) \/ at - start >= W
      /\ RateCount(a, at) = IF WindowOver(a, at) THEN 0 ELSE count
  BY DEF WindowOver, Overtaken, RateCount
<1>6. \A t \in Nat :
        /\ Holds(t, at) \in {0, 1} /\ Holds(t, at) <= Reach(at, 1, t) /\ Reach(at, 1, t) \in Nat
        /\ start # None => Reach(start, count, t) \in Nat /\ Reach(start, count, t) <= 2 * B - 1
        /\ start # None /\ start <= at /\ at < start + W =>
             Reach(start, count, t) + Holds(t, at) <= Reach(start, count + 1, t)
        /\ start # None /\ at >= start + W =>
             Reach(start, count, t) + Holds(t, at) <= Reach(at, 1, t)
  <2> SUFFICES ASSUME NEW t \in Nat
               PROVE  /\ Holds(t, at) \in {0, 1} /\ Holds(t, at) <= Reach(at, 1, t)
                      /\ Reach(at, 1, t) \in Nat
                      /\ start # None => /\ Reach(start, count, t) \in Nat
                                         /\ Reach(start, count, t) <= 2 * B - 1
                      /\ start # None /\ start <= at /\ at < start + W =>
                           Reach(start, count, t) + Holds(t, at) <= Reach(start, count + 1, t)
                      /\ start # None /\ at >= start + W =>
                           Reach(start, count, t) + Holds(t, at) <= Reach(at, 1, t)
    OBVIOUS
  <2>1. Reach(at, 1, t) \in Nat
    BY <1>1 DEF Reach
  <2>2. Holds(t, at) \in {0, 1} /\ Holds(t, at) <= Reach(at, 1, t) /\ Reach(at, 1, t) \in Nat
    BY <1>1, <2>1 DEF Reach, Holds
  <2>3. CASE start # None
    <3>1. start \in Nat /\ count >= 1 /\ count <= B
      BY <1>1, <1>4, <2>3
    <3> QED BY <1>1, <2>2, <3>1, ReachGrows
  <2> QED BY <2>2, <2>3
<1> HIDE DEF C, D, B, W, start, count, past
<1>7. CASE WindowOver(a, at)
  <2>1. agents'[a].windowStart = at /\ agents'[a].rateCount = 1
    BY <1>5, <1>7
  <2>2. ASSUME NEW t \in Nat
        PROVE  D(t) <= Past(a)' + Reach(at, 1, t)
    <3>1. /\ C(t) \in Nat /\ D(t) \in Nat /\ D(t) <= C(t) + Holds(t, at)
          /\ Holds(t, at) \in {0, 1} /\ Holds(t, at) <= Reach(at, 1, t) /\ Reach(at, 1, t) \in Nat
      BY <1>3, <1>6
    <3>2. CASE start = None
      <4>1. C(t) <= past /\ Past(a)' = past
        BY <1>2, <1>4, <1>5, <3>2
      <4> QED BY <1>2, <3>1, <4>1
    <3>3. CASE Overtaken(a, at)
      <4>1. /\ Past(a)' = past + (2 * B - 1) /\ C(t) <= past + Reach(start, count, t)
            /\ Reach(start, count, t) \in Nat /\ Reach(start, count, t) <= 2 * B - 1
        BY <1>2, <1>4, <1>5, <1>6, <3>3
      <4> QED BY <1>1, <1>2, <3>1, <4>1
    <3>4. CASE start # None /\ ~Overtaken(a, at)
      <4>1. start \in Nat /\ at >= start + W
        BY <1>1, <1>5, <1>7, <3>4
      <4>2. /\ Past(a)' = past /\ C(t) <= past + Reach(start, count, t)
            /\ Reach(start, count, t) \in Nat
            /\ Reach(start, count, t) + Holds(t, at) <= Reach(at, 1, t)
        BY <1>2, <1>4, <1>6, <3>4, <4>1
      <4> QED BY <1>2, <3>1, <4>2
    <3> QED BY <3>2, <3>3, <3>4
  <2>3. at # None
    BY <1>1
  <2> QED BY <1>1, <2>1, <2>2, <2>3 DEF WindowInv, D, B
<1>8. CASE ~WindowOver(a, at)
  <2>1. /\ agents'[a].windowStart = start /\ agents'[a].rateCount = count + 1
        /\ start \in Nat /\ start # None /\ start <= at /\ at < start + W
        /\ count + 1 >= 1 /\ count + 1 <= B /\ ~Overtaken(a, at)
    BY <1>1, <1>5, <1>8 DEF start, count, B
  <2>2. ASSUME NEW t \in Nat
        PROVE  D(t) <= Past(a)' + Reach(start, count + 1, t)
    <3>1. /\ C(t) \in Nat /\ D(t) \in Nat /\ D(t) <= C(t) + Holds(t, at)
          /\ Holds(t, at) \in {0, 1} /\ Past(a)' = past
          /\ C(t) <= past + Reach(start, count, t) /\ Reach(start, count, t) \in Nat
          /\ Reach(start, count, t) + Holds(t, at) <= Reach(start, count + 1, t)
      BY <1>2, <1>3, <1>4, <1>6, <2>1
    <3>2. Reach(start, count + 1, t) \in Nat
      <4>1. count + 1 \in Nat
        BY <1>1
      <4> QED BY <1>1, <2>1, <4>1, ReachGrows DEF B, W
    <3> QED BY <1>2, <3>1, <3>2
  <2> QED BY <2>1, <2>2 DEF WindowInv, D, B
<1> QED BY <1>7, <1>8

\* A return to the registry forgets the window.
LEMMA ForgottenWindow ==
  ASSUME Assumptions, TypeOK, NEW a \in Agents, WindowInv(a), IsFiniteSet(DOMAIN accepted),
         accepted' = accepted, agents'[a].windowStart = None,
         reactivated'[a] = reactivated[a] + 1, reopened'[a] = reopened[a]
  PROVE  WindowInv(a)'
<1> DEFINE C(t) == Cardinality(Span(a, t))
           start == agents[a].windowStart
           count == agents[a].rateCount
<1>1. /\ ReportBurst \in Nat /\ ReportBurst >= 1 /\ ReportWindow \in Nat /\ ReportWindow >= 1
      /\ count \in Nat /\ (start = None \/ start \in Nat)
  BY RateConstants
<1>2. Past(a) \in Nat /\ Past(a)' = Past(a) + (2 * ReportBurst - 1)
  BY PastGrows
<1>3. \A t \in Nat : C(t) \in Nat /\ Span(a, t)' = Span(a, t)
  BY SpanFinite DEF Span
<1>4. ASSUME NEW t \in Nat
      PROVE  C(t) <= Past(a) + (2 * ReportBurst - 1)
  <2>1. CASE start = None
    <3>1. C(t) <= Past(a) /\ C(t) \in Nat
      BY <1>3, <2>1 DEF WindowInv
    <3> HIDE DEF C
    <3> QED BY <1>1, <1>2, <3>1
  <2>2. CASE start # None
    <3>1. /\ C(t) <= Past(a) + Reach(start, count, t) /\ C(t) \in Nat
          /\ count >= 1 /\ count <= ReportBurst
      BY <1>3, <2>2 DEF WindowInv
    <3>2. Reach(start, count, t) \in Nat /\ Reach(start, count, t) <= 2 * ReportBurst - 1
      BY <1>1, <2>2, <3>1, ReachGrows
    <3> HIDE DEF C, start, count
    <3> QED BY <1>1, <1>2, <3>1, <3>2
  <2> QED BY <2>1, <2>2
<1> QED BY <1>2, <1>3, <1>4 DEF WindowInv

LEMMA NextRateInv ==
  ASSUME Assumptions, IInv, RateInv, [Next]_vars
  PROVE  RateInv'
<1>1. TypeOK /\ IsFiniteSet(DOMAIN accepted)
  BY DEF IInv, RateInv
<1>2. IsFiniteSet(DOMAIN accepted')
  <2>1. ASSUME NEW id, NEW at, accepted' = Put(accepted, id, at)
        PROVE  IsFiniteSet(DOMAIN accepted')
    BY <1>1, <2>1, FS_AddElement DEF Put
  <2>2. CASE Reporting
    <3>1. PICK x \in Agents, b \in Boots, s \in Sequences, d \in Digests,
               k \in ReportChunks, at \in Time :
                 at \in ReceptionTimes(x) /\ AcceptReport(x, b, s, d, k, at)
      BY <2>2 DEF Reporting, ReceptionTimes, Time
    <3> QED BY <2>1, <3>1 DEF AcceptReport
  <2>3. CASE accepted' = accepted
    BY <1>1, <2>3
  <2>4. Next => Reporting \/ accepted' = accepted
    BY DEF Next, OfflineTransitions, Dispatching, ClaimNotification, AcknowledgeChunk,
       RecordFailure, ReleaseNotification, Repairing, ResetLeases, RetryDeadLetters,
       RequeueDeadLetter, SyncRegistry, Tick, tables, history
  <2> QED BY <2>2, <2>3, <2>4 DEF vars, history
<1> SUFFICES ASSUME NEW a \in Agents
             PROVE  WindowInv(a)'
  BY <1>2 DEF RateInv
<1>3. WindowInv(a)
  BY DEF RateInv
<1>4. ASSUME agents'[a].windowStart = agents[a].windowStart,
             agents'[a].rateCount = agents[a].rateCount,
             reactivated'[a] = reactivated[a], reopened'[a] = reopened[a],
             accepted' = accepted
      PROVE  WindowInv(a)'
  <2>1. \A t \in Nat : Span(a, t)' = Span(a, t)
    BY <1>4 DEF Span
  <2>2. \A t \in Nat : Cardinality(Span(a, t)) \in Nat
    BY <1>1, SpanFinite
  <2>3. \A t \in Nat : /\ Cardinality(Span(a, t)') \in Nat
                       /\ Cardinality(Span(a, t)') <= Cardinality(Span(a, t))
    BY <2>1, <2>2
  <2> QED BY <1>1, <1>3, <1>4, <2>3, SameWindow
<1>5. ASSUME agents'[a].windowStart = agents[a].windowStart,
             agents'[a].rateCount = agents[a].rateCount,
             reactivated'[a] = reactivated[a], reopened'[a] = reopened[a],
             NEW x \in Agents \ {a}, NEW b, NEW s, NEW at,
             accepted' = Put(accepted, <<x, b, s>>, at)
      PROVE  WindowInv(a)'
  <2>1. \A t \in Nat : /\ Cardinality(Span(a, t)') \in Nat
                       /\ Cardinality(Span(a, t)') <= Cardinality(Span(a, t))
    BY <1>1, <1>5, SpanGrows
  <2> QED BY <1>1, <1>3, <1>5, <2>1, SameWindow
<1>6. ASSUME NEW at \in Nat, NEW b, NEW s,
             agents'[a].windowStart = (IF WindowOver(a, at) THEN at ELSE agents[a].windowStart),
             agents'[a].rateCount = RateCount(a, at) + 1, RateCount(a, at) < ReportBurst,
             reactivated'[a] = reactivated[a],
             reopened'[a] = reopened[a] + IF Overtaken(a, at) THEN 1 ELSE 0,
             accepted' = Put(accepted, <<a, b, s>>, at)
      PROVE  WindowInv(a)'
  BY <1>1, <1>3, <1>6, CountedWindow
<1>7. ASSUME agents'[a].windowStart = None, accepted' = accepted,
             reactivated'[a] = reactivated[a] + 1, reopened'[a] = reopened[a]
      PROVE  WindowInv(a)'
  BY <1>1, <1>3, <1>7, ForgottenWindow
<1> QED BY <1>4, <1>5, <1>6, <1>7, WindowSteps

\* However long reports wait for their transactions: in any span of a window's
\* length two bursts of one agent, less one report, are received at most, and as
\* many again for every return to the registry and every report that begins its
\* window anew because a later one has overtaken it.
THEOREM RateStaysBounded == Spec => []RateBound
<1>1. Assumptions
  BY AgentsAssumption, NoneAssumption, LimitsAssumption DEF Assumptions
<1>2. Init => RateInv
  <2> SUFFICES ASSUME Init
               PROVE  RateInv
    OBVIOUS
  <2>1. DOMAIN accepted = {} /\ IsFiniteSet(DOMAIN accepted)
    BY FS_EmptySet DEF Init
  <2>2. ASSUME NEW a \in Agents
        PROVE  WindowInv(a)
    <3>1. agents[a].windowStart = None /\ IInv
      BY <1>1, InitIInv DEF Init
    <3>2. Past(a) \in Nat
      BY <1>1, <3>1, PastGrows DEF IInv
    <3>3. \A t \in Nat : Span(a, t) = {}
      BY <2>1 DEF Span
    <3> QED BY <3>1, <3>2, <3>3, FS_EmptySet DEF WindowInv
  <2> QED BY <2>1, <2>2 DEF RateInv
<1>3. IInv /\ RateInv /\ [Next]_vars => RateInv'
  BY <1>1, NextRateInv
<1>4. IInv /\ RateInv => RateBound
  <2> SUFFICES ASSUME IInv, RateInv, NEW a \in Agents, NEW t \in 0 .. now
               PROVE  Cardinality(Span(a, t))
                        <= (2 * ReportBurst - 1) * (1 + reactivated[a] + reopened[a])
    BY DEF RateBound, Span
  <2> DEFINE C == Cardinality(Span(a, t))
             start == agents[a].windowStart
             count == agents[a].rateCount
  <2>1. /\ ReportBurst \in Nat /\ ReportBurst >= 1 /\ ReportWindow \in Nat /\ ReportWindow >= 1
        /\ count \in Nat /\ (start = None \/ start \in Nat)
    BY <1>1, RateConstants DEF IInv
  <2>2. /\ Past(a) \in Nat
        /\ (2 * ReportBurst - 1) * (1 + reactivated[a] + reopened[a])
             = Past(a) + (2 * ReportBurst - 1)
    BY <1>1, PastGrows DEF IInv
  <2>3. C \in Nat /\ t \in Nat
    BY SpanFinite DEF RateInv, IInv, TypeOK, Time
  <2>4. C <= Past(a) + (2 * ReportBurst - 1)
    <3>1. CASE start = None
      <4>1. C <= Past(a)
        BY <2>3, <3>1 DEF RateInv, WindowInv
      <4> HIDE DEF C
      <4> QED BY <2>1, <2>2, <2>3, <4>1
    <3>2. CASE start # None
      <4>1. /\ C <= Past(a) + Reach(start, count, t)
            /\ count >= 1 /\ count <= ReportBurst
        BY <2>3, <3>2 DEF RateInv, WindowInv
      <4>2. Reach(start, count, t) \in Nat /\ Reach(start, count, t) <= 2 * ReportBurst - 1
        BY <2>1, <2>3, <3>2, <4>1, ReachGrows
      <4> HIDE DEF C, start, count
      <4> QED BY <2>1, <2>2, <2>3, <4>1, <4>2
    <3> QED BY <3>1, <3>2
  <2> QED BY <2>2, <2>4
<1> QED BY <1>2, <1>3, <1>4, Invariance, PTL DEF Spec

-----------------------------------------------------------------------------
(* The dispatchers over the store.                                         *)

Worker == [pc : {"idle", "locked", "claiming", "sending", "acking", "failing"},
           note : Nat, chunk : Nat, tries : Nat, permanent : BOOLEAN]

DispatchType ==
  /\ lock \in Owners \cup {None}
  /\ worker \in [Owners -> Worker]
  /\ posted \in Seq(Nat \X Nat)
  /\ repeats \in Nat /\ faults \in Nat

\* A dispatcher that drains holds the lock.
Exclusive == \A o \in Owners : worker[o].pc # "idle" <=> lock = o

\* What a dispatcher sends, it has claimed, and the claim is not lost: only the
\* holder of the lock touches leases and progress.
Claims ==
  \A o \in Owners : worker[o].pc \in {"sending", "acking", "failing"} =>
    HoldsClaim(worker[o].note, o, worker[o].chunk)

AcksFollow == \A o \in Owners : worker[o].pc = "acking" => Chunk(o) \in Shown

\* No chunk beyond the one to be sent next has been shown.
ShownInTurn ==
  \A q \in Shown :
    q[1] <= lastId /\ (q[1] \in DOMAIN notes => q[2] <= notes[q[1]].next)

DeadWere == \A i \in DOMAIN notes : notes[i].state = "dead" => i \in wereDead

\* A pending notification that was overtaken has been a dead letter.
LateWereDead ==
  \A i \in PendingIds :
    /\ \A q \in Shown : q[1] > i => i \in wereDead
    /\ \A o \in Owners : worker[o].pc = "sending" /\ worker[o].note > i => i \in wereDead

\* The chat has read what the next chunk of i says.
NextWasRead(i) ==
  \E q \in Shown :
    /\ q[1] \in DOMAIN notes /\ Root[q[1]] = Root[i]
    /\ notes[q[1]].count - q[2] = notes[i].count - notes[i].next

\* The notifications that have not come to an end, whose next chunk the chat has read
\* and nobody is about to acknowledge: each of them will repeat it.
Debt == {i \in DOMAIN notes :
           /\ Unresolved(notes[i]) /\ NextWasRead(i)
           /\ \A o \in Owners : worker[o].pc = "acking" => worker[o].note # i}

\* Every repetition, past or to come, has a fault of its own.
DebtBound == repeats + Cardinality(Debt) <= faults

StoreInv == KeyInv /\ ChainInv

DispatchInv ==
  /\ DispatchType /\ Exclusive /\ Claims /\ AcksFollow /\ AcknowledgedWasShown
  /\ ShownInTurn /\ DeadWere /\ LateWereDead /\ ChatInOrder /\ DebtBound

LEMMA InitDispatchInv ==
  ASSUME Assumptions, DispatchInit
  PROVE  DispatchInv
<1>1. /\ worker \in [Owners -> Worker] /\ \A o \in Owners : worker[o].pc = "idle"
      /\ lock = None /\ posted = <<>> /\ repeats = 0 /\ faults = 0
      /\ DOMAIN notes = {}
  BY DEF DispatchInit, Idle, Worker, Init
<1>2. Shown = {} /\ posted \in Seq(Nat \X Nat) /\ DOMAIN posted = {}
  BY <1>1 DEF Shown, Range
<1>3. Debt = {}
  BY <1>1 DEF Debt
<1>4. DebtBound
  <2>1. Cardinality(Debt) = 0
    BY <1>3, FS_EmptySet
  <2> QED BY <1>1, <2>1 DEF DebtBound
<1>5. Exclusive
  BY <1>1 DEF Exclusive, Assumptions, NoneAssumption
<1> QED BY <1>1, <1>2, <1>4, <1>5 DEF DispatchInv, DispatchType, Claims, AcksFollow,
       AcknowledgedWasShown, ShownInTurn, DeadWere, LateWereDead, PendingIds, ChatInOrder

\* At most one dispatcher is at work.
LEMMA Alone ==
  ASSUME DispatchInv, NEW o \in Owners, worker[o].pc # "idle" \/ lock = None, Assumptions
  PROVE  \A p \in Owners \ {o} : worker[p].pc = "idle"
BY DEF DispatchInv, Exclusive, Assumptions, NoneAssumption

LEMMA DebtFinite ==
  ASSUME TypeOK
  PROVE  IsFiniteSet(Debt) /\ Cardinality(Debt) \in Nat
<1>1. Debt \subseteq 1 .. lastId /\ lastId \in Nat
  BY DEF TypeOK, Debt
<1> QED BY <1>1, IdsFinite

LEMMA DebtFiniteNext ==
  ASSUME TypeOK'
  PROVE  IsFiniteSet(Debt') /\ Cardinality(Debt') \in Nat
<1>1. Debt' \subseteq 1 .. lastId' /\ lastId' \in Nat
  BY DEF TypeOK, Debt
<1> QED BY <1>1, IdsFinite

\* A set of debts that grows by at most one, or loses one.
LEMMA DebtSteps ==
  ASSUME NEW S, IsFiniteSet(S), NEW T
  PROVE  /\ T \subseteq S => Cardinality(T) \in Nat /\ Cardinality(T) <= Cardinality(S)
         /\ \A x : T \subseteq S \cup {x} =>
              Cardinality(T) \in Nat /\ Cardinality(T) <= Cardinality(S) + 1
         /\ \A x \in S : T \subseteq S \ {x} =>
              Cardinality(T) \in Nat /\ Cardinality(T) + 1 <= Cardinality(S)
         /\ \A x \in S : \A y : T \subseteq (S \ {x}) \cup {y} =>
              Cardinality(T) \in Nat /\ Cardinality(T) <= Cardinality(S)
<1>1. ASSUME T \subseteq S
      PROVE  Cardinality(T) \in Nat /\ Cardinality(T) <= Cardinality(S)
  BY <1>1, FS_Subset, FS_CardinalityType
<1>2. ASSUME NEW x, T \subseteq S \cup {x}
      PROVE  Cardinality(T) \in Nat /\ Cardinality(T) <= Cardinality(S) + 1
  BY <1>2, OneMore
<1>3. ASSUME NEW x \in S, T \subseteq S \ {x}
      PROVE  Cardinality(T) \in Nat /\ Cardinality(T) + 1 <= Cardinality(S)
  <2>1. /\ IsFiniteSet(S \ {x}) /\ Cardinality(S) \in Nat
        /\ Cardinality(S \ {x}) = Cardinality(S) - 1
    BY FS_RemoveElement, FS_CardinalityType
  <2>2. IsFiniteSet(T) /\ Cardinality(T) <= Cardinality(S \ {x})
    BY <1>3, <2>1, FS_Subset
  <2>3. Cardinality(T) \in Nat
    BY <2>2, FS_CardinalityType
  <2> QED BY <2>1, <2>2, <2>3
<1>4. ASSUME NEW x \in S, NEW y, T \subseteq (S \ {x}) \cup {y}
      PROVE  Cardinality(T) \in Nat /\ Cardinality(T) <= Cardinality(S)
  <2>1. /\ IsFiniteSet(S \ {x}) /\ Cardinality(S) \in Nat
        /\ Cardinality(S \ {x}) = Cardinality(S) - 1
    BY FS_RemoveElement, FS_CardinalityType
  <2>2. Cardinality(T) \in Nat /\ Cardinality(T) <= Cardinality(S \ {x}) + 1
    BY <1>4, <2>1, OneMore
  <2> QED BY <2>1, <2>2
<1> QED BY <1>1, <1>2, <1>3, <1>4

\* The columns that count, and the rows' messages.
LEMMA RowFacts ==
  ASSUME IInv, StoreInv
  PROVE  /\ lastId \in Nat /\ DOMAIN notes \subseteq 1 .. lastId
         /\ \A i \in DOMAIN notes : /\ i \in Nat /\ i <= lastId
                                    /\ notes[i].next \in Nat /\ notes[i].count \in Nat
                                    /\ Root[i] \in DOMAIN notes /\ Root[i] <= i
<1>1. /\ lastId \in Nat /\ DOMAIN notes \subseteq 1 .. lastId
      /\ \A i \in DOMAIN notes : notes[i].next \in Nat /\ notes[i].count \in Nat
  BY DEF IInv, TypeOK, Note
<1>2. SourcesAmong(notes)
  BY DEF StoreInv, ChainInv
<1>3. \A i \in DOMAIN notes : Root[i] \in DOMAIN notes /\ Root[i] <= i
  BY <1>1, <1>2, RootFollows, RootsOlder
<1> QED BY <1>1, <1>3

\* Chunks say the same if they are as far from the end of one message.
LEMMA TextsTell ==
  ASSUME IInv, StoreInv, NEW p, NEW q, p[1] \in DOMAIN notes, q[1] \in DOMAIN notes
  PROVE  Text(p) = Text(q) <=>
           /\ Root[p[1]] = Root[q[1]]
           /\ notes[p[1]].count - p[2] = notes[q[1]].count - q[2]
<1>1. Root[p[1]] \in DOMAIN notes /\ Root[q[1]] \in DOMAIN notes
  BY RowFacts
<1>2. Text(p) = Text(q) <=>
        /\ DedupeKey(notes[Root[p[1]]]) = DedupeKey(notes[Root[q[1]]])
        /\ notes[p[1]].count - p[2] = notes[q[1]].count - q[2]
  BY DEF Text
<1> QED BY <1>1, <1>2 DEF StoreInv, KeyInv, DedupeKeysUnique

\* The chat has read nothing of a message beyond its next chunk.
LEMMA NothingReadAhead ==
  ASSUME IInv, StoreInv, DispatchInv, NEW i \in DOMAIN notes, Unresolved(notes[i]),
         NEW q \in Shown, q[1] \in DOMAIN notes, Root[q[1]] = Root[i]
  PROVE  notes[q[1]].count - q[2] >= notes[i].count - notes[i].next
<1> DEFINE k == q[1]
<1>1. q[2] \in Nat /\ q[2] <= notes[k].next
  <2>1. q \in Nat \X Nat
    BY DEF DispatchInv, DispatchType, Shown, Range
  <2> QED BY <2>1 DEF DispatchInv, ShownInTurn
<1>2. /\ i \in Nat /\ k \in Nat /\ notes[i].next \in Nat /\ notes[i].count \in Nat
      /\ notes[k].next \in Nat /\ notes[k].count \in Nat
  BY RowFacts
<1>3. CASE k = i
  BY <1>1, <1>2, <1>3
<1>4. CASE k < i
  <2>1. notes[i].count <= notes[k].count - notes[k].next
    BY <1>4 DEF StoreInv, ChainInv, RestsNest
  <2> QED BY <1>1, <1>2, <2>1
<1>5. CASE i < k
  BY <1>5 DEF StoreInv, ChainInv, RestsNest, Unresolved
<1> QED BY <1>2, <1>3, <1>4, <1>5

-----------------------------------------------------------------------------
(* Steps of a dispatcher that post nothing.                                *)

\* The worker o moves, alone, without a new acknowledgement to make; it holds
\* the lock unless it is idle, and what it sends it has claimed.
Moves(o) ==
  /\ worker' \in [Owners -> Worker]
  /\ \A p \in Owners \ {o} : worker'[p] = worker[p]
  /\ lock' = IF worker'[o].pc = "idle" THEN None ELSE o
  /\ worker'[o].pc # "acking"
  /\ worker'[o].pc \in {"sending", "failing"} =>
       /\ worker'[o].note \in PendingIds'
       /\ notes'[worker'[o].note].owner = o
       /\ notes'[worker'[o].note].next = worker'[o].chunk
  /\ worker'[o].pc = "sending" =>
       \A i \in PendingIds' : worker'[o].note > i => i \in wereDead'

\* The rows stay, up to leases, retries and deaths, or are pruned; the one that o
\* was about to acknowledge advances, unless there is a fault.
Advances(o) ==
  /\ \A i \in DOMAIN notes' :
       /\ i \in DOMAIN notes
       /\ Pending(notes'[i]) => Pending(notes[i])
       /\ Unresolved(notes'[i]) => Unresolved(notes[i])
       /\ notes'[i].state = "dead" => i \in wereDead'
       /\ \/ notes'[i].next = notes[i].next
          \/ /\ worker[o].pc = "acking" /\ i = worker[o].note
             /\ notes'[i].next = notes[i].next + 1
  /\ wereDead \subseteq wereDead'
  /\ \/ /\ faults' = faults
        /\ worker[o].pc = "acking" /\ worker[o].note \in DOMAIN notes' =>
             notes'[worker[o].note].next = notes[worker[o].note].next + 1
     \/ faults' = faults + 1

LEMMA QuietStep ==
  ASSUME Assumptions, IInv, IInv', StoreInv, RootsKept, DispatchInv,
         NEW o \in Owners,
         worker[o].pc # "idle" \/ lock = None,
         Moves(o), Advances(o), UNCHANGED <<lastId, posted, repeats>>
  PROVE  DispatchInv'
<1>1. \A p \in Owners \ {o} : worker[p].pc = "idle" /\ worker'[p] = worker[p]
  BY Alone DEF Moves
<1>2. Shown' = Shown
  BY DEF Shown, Range
<1>3. /\ \A i \in DOMAIN notes : notes[i].next \in Nat
      /\ DOMAIN notes' \subseteq DOMAIN notes
      /\ \A i \in DOMAIN notes : i \in Nat
      /\ faults \in Nat /\ repeats \in Nat
  <2>1. \A i \in DOMAIN notes : notes[i] \in Note /\ i \in Nat
    BY DEF IInv, TypeOK
  <2> QED BY <2>1 DEF Note, Advances, DispatchInv, DispatchType
<1>4. DispatchType'
  BY <1>3 DEF Moves, Advances, DispatchInv, DispatchType
<1>5. Exclusive'
  BY <1>1 DEF Exclusive, Moves, Assumptions, NoneAssumption, DispatchInv
<1>6. Claims'
  BY <1>1 DEF Claims, Moves, HoldsClaim, DispatchType, Worker
<1>7. AcksFollow'
  BY <1>1 DEF AcksFollow, Moves
<1>8. AcknowledgedWasShown'
  <2> SUFFICES ASSUME NEW i \in DOMAIN notes', NEW c \in 0 .. notes'[i].next - 1
               PROVE  <<i, c>> \in Shown
    BY <1>2 DEF AcknowledgedWasShown
  <2>1. i \in DOMAIN notes /\ notes[i].next \in Nat
    BY <1>3
  <2>2. CASE c \in 0 .. notes[i].next - 1
    BY <2>1, <2>2 DEF DispatchInv, AcknowledgedWasShown
  <2>3. CASE c \notin 0 .. notes[i].next - 1
    <3>1. /\ worker[o].pc = "acking" /\ i = worker[o].note
          /\ notes'[i].next = notes[i].next + 1
      BY <2>1, <2>3 DEF Advances
    <3>2. c = notes[i].next
      BY <2>1, <2>3, <3>1
    <3>3. Chunk(o) = <<i, c>>
      BY <3>1, <3>2 DEF DispatchInv, Claims, HoldsClaim, Chunk
    <3> QED BY <3>1, <3>3 DEF DispatchInv, AcksFollow
  <2> QED BY <2>2, <2>3
<1>9. ShownInTurn'
  <2> SUFFICES ASSUME NEW q \in Shown
               PROVE  q[1] <= lastId /\ (q[1] \in DOMAIN notes' => q[2] <= notes'[q[1]].next)
    BY <1>2 DEF ShownInTurn
  <2>1. q[1] <= lastId /\ (q[1] \in DOMAIN notes => q[2] <= notes[q[1]].next)
    BY DEF DispatchInv, ShownInTurn
  <2>2. ASSUME q[1] \in DOMAIN notes'
        PROVE  q[2] <= notes'[q[1]].next
    <3>1. q[2] \in Nat
      BY DEF DispatchInv, DispatchType, Shown, Range
    <3>2. notes[q[1]].next \in Nat /\ q[2] <= notes[q[1]].next
      BY <1>3, <2>1, <2>2
    <3>3. notes'[q[1]].next \in {notes[q[1]].next, notes[q[1]].next + 1}
      BY <2>2 DEF Advances
    <3> QED BY <3>1, <3>2, <3>3
  <2> QED BY <2>1, <2>2
<1>10. DeadWere'
  BY DEF DeadWere, Advances
<1>11. LateWereDead'
  <2> SUFFICES ASSUME NEW i \in PendingIds'
               PROVE  /\ \A q \in Shown : q[1] > i => i \in wereDead'
                      /\ \A p \in Owners : worker'[p].pc = "sending" /\ worker'[p].note > i
                                             => i \in wereDead'
    BY <1>2 DEF LateWereDead
  <2>1. i \in PendingIds
    BY DEF PendingIds, Advances
  <2>2. \A q \in Shown : q[1] > i => i \in wereDead'
    BY <2>1 DEF DispatchInv, LateWereDead, Advances
  <2>3. \A p \in Owners : worker'[p].pc = "sending" /\ worker'[p].note > i => i \in wereDead'
    BY <1>1 DEF Moves
  <2> QED BY <2>2, <2>3
<1>12. ChatInOrder'
  BY DEF ChatInOrder, DispatchInv, Advances
<1>13. ASSUME NEW i \in Debt'
       PROVE  \E q \in Shown :
                /\ q[1] \in DOMAIN notes /\ Root[q[1]] = Root[i]
                /\ notes[q[1]].count - q[2] = notes[i].count - notes'[i].next
  <2>1. PICK q \in Shown :
          /\ q[1] \in DOMAIN notes' /\ Root'[q[1]] = Root'[i]
          /\ notes'[q[1]].count - q[2] = notes'[i].count - notes'[i].next
    BY <1>2, <1>13 DEF Debt, NextWasRead
  <2>2. q[1] \in DOMAIN notes /\ i \in DOMAIN notes' /\ i \in DOMAIN notes
    BY <1>3, <2>1 DEF Debt
  <2> QED BY <2>1, <2>2 DEF RootsKept
<1>14. DebtBound'
  <2>1. /\ IsFiniteSet(Debt) /\ Cardinality(Debt) \in Nat
        /\ repeats + Cardinality(Debt) <= faults
    BY DebtFinite DEF IInv, DispatchInv, DebtBound
  <2>2. Debt' \subseteq Debt \cup {worker[o].note}
    <3> SUFFICES ASSUME NEW i \in Debt', i # worker[o].note
                 PROVE  i \in Debt
      OBVIOUS
    <3>1. /\ i \in DOMAIN notes' /\ i \in DOMAIN notes /\ notes'[i].next = notes[i].next
          /\ Unresolved(notes[i])
      BY DEF Debt, Advances
    <3>2. NextWasRead(i)
      BY <1>13, <3>1 DEF NextWasRead
    <3> QED BY <1>1, <3>1, <3>2 DEF Debt
  <2>3. CASE faults' = faults + 1
    <3>1. Cardinality(Debt') \in Nat /\ Cardinality(Debt') <= Cardinality(Debt) + 1
      BY <2>1, <2>2, DebtSteps
    <3>2. repeats' = repeats /\ faults' = faults + 1
      BY <2>3
    <3> QED BY <1>3, <2>1, <3>1, <3>2 DEF DebtBound
  <2>4. CASE /\ faults' = faults
             /\ worker[o].pc = "acking" /\ worker[o].note \in DOMAIN notes' =>
                  notes'[worker[o].note].next = notes[worker[o].note].next + 1
    <3>1. Debt' \subseteq Debt
      <4> SUFFICES ASSUME NEW i \in Debt', i = worker[o].note
                   PROVE  i \in Debt
        BY <2>2
      <4>1. i \in DOMAIN notes' /\ i \in DOMAIN notes /\ Unresolved(notes[i])
        BY DEF Debt, Advances
      <4>2. worker[o].pc # "acking"
        <5> SUFFICES ASSUME worker[o].pc = "acking"
                     PROVE  FALSE
          OBVIOUS
        <5>1. notes'[i].next = notes[i].next + 1
          BY <2>4, <4>1
        <5>2. PICK q \in Shown :
                /\ q[1] \in DOMAIN notes /\ Root[q[1]] = Root[i]
                /\ notes[q[1]].count - q[2] = notes[i].count - notes'[i].next
          BY <1>13
        <5>3. notes[q[1]].count - q[2] >= notes[i].count - notes[i].next
          BY <4>1, <5>2, NothingReadAhead
        <5>4. notes[i].count \in Nat /\ notes[i].next \in Nat
          BY <4>1, RowFacts
        <5> QED BY <5>1, <5>2, <5>3, <5>4
      <4>3. notes'[i].next = notes[i].next
        BY <4>1, <4>2 DEF Advances
      <4>4. NextWasRead(i)
        BY <1>13, <4>3 DEF NextWasRead
      <4> QED BY <1>1, <4>1, <4>2, <4>4 DEF Debt
    <3>2. Cardinality(Debt') \in Nat /\ Cardinality(Debt') <= Cardinality(Debt)
      BY <2>1, <3>1, DebtSteps
    <3>3. repeats' = repeats /\ faults' = faults
      BY <2>4
    <3> QED BY <1>3, <2>1, <3>2, <3>3 DEF DebtBound
  <2> QED BY <2>3, <2>4 DEF Advances
<1> QED BY <1>4, <1>5, <1>6, <1>7, <1>8, <1>9, <1>10, <1>11, <1>12, <1>14 DEF DispatchInv

\* Steps that leave the store alone.
LEMMA RowsStand ==
  ASSUME DispatchInv, NEW o \in Owners, UNCHANGED <<notes, wereDead>>,
         (faults' = faults /\ worker[o].pc # "acking") \/ faults' = faults + 1
  PROVE  Advances(o)
BY DEF Advances, DispatchInv, DeadWere

\* Entering and leaving the lock, and moving on inside it.
LEMMA WorkerMoves ==
  ASSUME Assumptions, DispatchInv, NEW o \in Owners
  PROVE  /\ Leave(o) => Moves(o)
         /\ \A pc \in {"locked", "claiming"} : Goto(o, pc) /\ lock' = o => Moves(o)
<1>1. worker \in [Owners -> Worker] /\ worker[o] \in Worker
  BY DEF DispatchInv, DispatchType
<1>2. Idle \in Worker /\ Idle.pc = "idle"
  BY DEF Idle, Worker
<1>3. Leave(o) => Moves(o)
  BY <1>1, <1>2 DEF Leave, Moves
<1>4. ASSUME NEW pc \in {"locked", "claiming"}, Goto(o, pc), lock' = o
      PROVE  Moves(o)
  <2>1. /\ worker' \in [Owners -> Worker] /\ worker'[o].pc = pc
        /\ \A p \in Owners \ {o} : worker'[p] = worker[p]
    BY <1>1, <1>4 DEF Goto, Worker
  <2> QED BY <1>4, <2>1 DEF Moves
<1> QED BY <1>3, <1>4

\* A dispatcher that is sending goes on with the same claim.
LEMMA SenderMoves ==
  ASSUME Assumptions, DispatchInv, NEW o \in Owners, At(o, "sending"),
         UNCHANGED <<notes, lock>>, wereDead \subseteq wereDead',
         NEW w \in Worker, worker' = [worker EXCEPT ![o] = w],
         w.pc \in {"sending", "failing"},
         w.note = worker[o].note, w.chunk = worker[o].chunk
  PROVE  Moves(o)
<1>1. worker \in [Owners -> Worker] /\ worker[o].pc = "sending"
  BY DEF DispatchInv, DispatchType, At
<1>2. /\ worker' \in [Owners -> Worker] /\ worker'[o] = w
      /\ \A p \in Owners \ {o} : worker'[p] = worker[p]
  BY <1>1
<1>3. lock = o
  BY <1>1 DEF DispatchInv, Exclusive
<1>4. HoldsClaim(worker[o].note, o, worker[o].chunk)
  BY <1>1 DEF DispatchInv, Claims
<1>5. PendingIds' = PendingIds
  BY DEF PendingIds
<1>6. \A i \in PendingIds : worker[o].note > i => i \in wereDead
  BY <1>1 DEF DispatchInv, LateWereDead
<1> QED BY <1>1, <1>2, <1>3, <1>4, <1>5, <1>6 DEF Moves, HoldsClaim

LEMMA StartDrainKeeps ==
  ASSUME Assumptions, IInv, IInv', StoreInv, RootsKept, DispatchInv,
         NEW o \in Owners, StartDrain(o)
  PROVE  DispatchInv'
<1>1. /\ UNCHANGED <<notes, lastId, posted, repeats, faults, wereDead>>
      /\ lock = None /\ lock' = o /\ Goto(o, "locked") /\ worker[o].pc = "idle"
  BY DEF StartDrain, LockFree, At, vars, tables
<1>2. Advances(o)
  BY <1>1, RowsStand
<1>3. Moves(o)
  BY <1>1, WorkerMoves
<1> QED BY <1>1, <1>2, <1>3, QuietStep

LEMMA ResetStaleLeasesKeeps ==
  ASSUME Assumptions, IInv, IInv', StoreInv, RootsKept, DispatchInv,
         NEW o \in Owners, ResetStaleLeases(o)
  PROVE  DispatchInv'
<1>1. /\ UNCHANGED <<lock, lastId, posted, repeats, faults, wereDead>>
      /\ Goto(o, "claiming") /\ worker[o].pc = "locked"
  BY DEF ResetStaleLeases, ResetLeases, At, vars, tables
<1>2. lock = o
  BY <1>1 DEF DispatchInv, Exclusive
<1>3. Moves(o)
  BY <1>1, <1>2, WorkerMoves
<1>4. CASE UNCHANGED vars
  BY <1>1, <1>3, <1>4, RowsStand, QuietStep DEF vars, tables
<1>5. CASE ResetLeases
  <2>1. DOMAIN notes' = DOMAIN notes
    BY <1>5 DEF ResetLeases
  <2>2. ASSUME NEW i \in DOMAIN notes
        PROVE  notes'[i].state = notes[i].state /\ notes'[i].next = notes[i].next
    <3>1. /\ Unleased(notes[i]).state = notes[i].state
          /\ Unleased(notes[i]).next = notes[i].next
      BY RowUpdates DEF SameText, IInv, TypeOK
    <3>2. notes'[i] \in {notes[i], Unleased(notes[i])}
      BY <1>5 DEF ResetLeases
    <3> QED BY <3>1, <3>2
  <2>3. Advances(o)
    BY <1>1, <2>1, <2>2 DEF Advances, Pending, Unresolved, DispatchInv, DeadWere
  <2> QED BY <1>1, <1>3, <2>3, QuietStep
<1> QED BY <1>4, <1>5 DEF ResetStaleLeases

LEMMA ClaimKeeps ==
  ASSUME Assumptions, IInv, IInv', StoreInv, RootsKept, DispatchInv,
         NEW o \in Owners, Claim(o)
  PROVE  DispatchInv'
<1>1. PICK i \in DOMAIN notes :
        /\ ClaimNotification(o, i)
        /\ worker' = [worker EXCEPT ![o] =
             [pc |-> "sending", note |-> i, chunk |-> notes[i].next, tries |-> 1,
              permanent |-> FALSE]]
  BY DEF Claim
<1>2. /\ UNCHANGED <<lock, lastId, posted, repeats, faults, wereDead>>
      /\ worker[o].pc = "claiming" /\ lock = o
      /\ worker \in [Owners -> Worker]
  BY <1>1 DEF Claim, At, ClaimNotification, DispatchInv, DispatchType, Exclusive
<1>3. /\ notes[i] \in Note /\ i \in PendingIds /\ i \in Nat
      /\ \A j \in PendingIds : i <= j
      /\ \A j \in DOMAIN notes : j \in Nat
  BY <1>1 DEF ClaimNotification, Claimable, IsHead, IInv, TypeOK
<1>4. /\ Leased(notes[i], o).state = notes[i].state /\ Leased(notes[i], o).next = notes[i].next
      /\ Leased(notes[i], o).owner = o
  BY <1>3, RowUpdates DEF SameText, IInv, TypeOK, Leased, Note
<1>5. /\ DOMAIN notes' = DOMAIN notes
      /\ \A j \in DOMAIN notes : notes'[j] = IF j = i THEN Leased(notes[i], o) ELSE notes[j]
  BY <1>1 DEF ClaimNotification, IInv, TypeOK
<1>6. \A j \in DOMAIN notes : notes'[j].state = notes[j].state /\ notes'[j].next = notes[j].next
  BY <1>4, <1>5
<1>7. Advances(o)
  BY <1>2, <1>5, <1>6 DEF Advances, Pending, Unresolved, DispatchInv, DeadWere
<1>8. PendingIds' = PendingIds
  BY <1>5, <1>6 DEF PendingIds, Pending
<1>9. Moves(o)
  <2> DEFINE w == [pc |-> "sending", note |-> i, chunk |-> notes[i].next, tries |-> 1,
                   permanent |-> FALSE]
  <2>1. /\ w \in Worker /\ w.pc = "sending" /\ w.note = i /\ w.chunk = notes[i].next
    BY <1>3 DEF Worker, Note
  <2>2. worker' = [worker EXCEPT ![o] = w]
    BY <1>1
  <2> HIDE DEF w
  <2>3. /\ worker' \in [Owners -> Worker] /\ worker'[o] = w
        /\ \A p \in Owners \ {o} : worker'[p] = worker[p]
    BY <1>2, <2>1, <2>2
  <2>4. notes'[i].owner = o /\ notes'[i].next = notes[i].next
    BY <1>4, <1>5
  <2>5. \A j \in PendingIds : ~(i > j)
    BY <1>3 DEF PendingIds
  <2> QED BY <1>2, <1>3, <1>8, <2>1, <2>3, <2>4, <2>5 DEF Moves
<1> QED BY <1>2, <1>7, <1>9, QuietStep

LEMMA LeavingKeeps ==
  ASSUME Assumptions, IInv, IInv', StoreInv, RootsKept, DispatchInv,
         NEW o \in Owners,
         NothingDue(o) \/ AckRefused(o) \/ Crash(o)
  PROVE  DispatchInv'
<1>1. /\ UNCHANGED <<notes, lastId, posted, repeats, wereDead>>
      /\ Leave(o) /\ worker[o].pc # "idle"
      /\ (faults' = faults /\ worker[o].pc # "acking") \/ faults' = faults + 1
  BY DEF NothingDue, AckRefused, Crash, Fault, At, vars, tables
<1>2. Advances(o)
  BY <1>1, RowsStand
<1>3. Moves(o)
  BY <1>1, WorkerMoves
<1> QED BY <1>1, <1>2, <1>3, QuietStep

\* Trying again, or giving up after the last attempt.
LEMMA RetriedWorker ==
  ASSUME DispatchInv, NEW o \in Owners, At(o, "sending"), RetryOrGiveUp(o)
  PROVE  \E w \in Worker : /\ worker' = [worker EXCEPT ![o] = w]
                           /\ w.pc \in {"sending", "failing"}
                           /\ w.note = worker[o].note /\ w.chunk = worker[o].chunk
<1>1. worker \in [Owners -> Worker] /\ worker[o] \in Worker /\ worker[o].pc = "sending"
  BY DEF DispatchInv, DispatchType, At
<1>2. CASE worker' = [worker EXCEPT ![o].tries = @ + 1]
  <2> DEFINE w == [worker[o] EXCEPT !.tries = @ + 1]
  <2>1. /\ w \in Worker /\ w.pc = "sending"
        /\ w.note = worker[o].note /\ w.chunk = worker[o].chunk
    BY <1>1 DEF Worker
  <2>2. worker' = [worker EXCEPT ![o] = w]
    BY <1>2
  <2> QED BY <2>1, <2>2
<1>3. CASE worker' = [worker EXCEPT ![o].pc = "failing"]
  <2> DEFINE w == [worker[o] EXCEPT !.pc = "failing"]
  <2>1. /\ w \in Worker /\ w.pc = "failing"
        /\ w.note = worker[o].note /\ w.chunk = worker[o].chunk
    BY <1>1 DEF Worker
  <2>2. worker' = [worker EXCEPT ![o] = w]
    BY <1>3
  <2> QED BY <2>1, <2>2
<1> QED BY <1>2, <1>3 DEF RetryOrGiveUp, AfterLastTry, Goto

\* Failing for good.
LEMMA FailedWorker ==
  ASSUME DispatchInv, NEW o \in Owners, TerminalFailure(o)
  PROVE  \E w \in Worker : /\ worker' = [worker EXCEPT ![o] = w] /\ w.pc = "failing"
                           /\ w.note = worker[o].note /\ w.chunk = worker[o].chunk
<1> DEFINE w == [worker[o] EXCEPT !.pc = "failing", !.permanent = TRUE]
<1>1. worker[o] \in Worker
  BY DEF DispatchInv, DispatchType
<1>2. /\ w \in Worker /\ w.pc = "failing"
      /\ w.note = worker[o].note /\ w.chunk = worker[o].chunk
  BY <1>1 DEF Worker
<1>3. worker' = [worker EXCEPT ![o] = w]
  BY DEF TerminalFailure
<1> QED BY <1>2, <1>3

LEMMA FailingKeeps ==
  ASSUME Assumptions, IInv, IInv', StoreInv, RootsKept, DispatchInv,
         NEW o \in Owners,
         TryFails(o) \/ RefusedForGood(o)
  PROVE  DispatchInv'
<1>1. /\ UNCHANGED <<notes, lock, lastId, posted, repeats, faults, wereDead>>
      /\ At(o, "sending") /\ worker[o].pc = "sending"
  BY DEF TryFails, RefusedForGood, NothingShown, At, vars, tables
<1>2. Advances(o)
  BY <1>1, RowsStand
<1>3. \E w \in Worker : /\ worker' = [worker EXCEPT ![o] = w]
                        /\ w.pc \in {"sending", "failing"}
                        /\ w.note = worker[o].note /\ w.chunk = worker[o].chunk
  <2>1. CASE TryFails(o)
    BY <1>1, <2>1, RetriedWorker DEF TryFails
  <2>2. CASE RefusedForGood(o)
    BY <2>2, FailedWorker DEF RefusedForGood
  <2> QED BY <2>1, <2>2
<1>4. Moves(o)
  BY <1>1, <1>3, SenderMoves
<1> QED BY <1>1, <1>2, <1>4, QuietStep

LEMMA AcknowledgeKeeps ==
  ASSUME Assumptions, IInv, IInv', StoreInv, RootsKept, DispatchInv,
         NEW o \in Owners, Acknowledge(o)
  PROVE  DispatchInv'
<1> DEFINE i == worker[o].note
           done == CompletesNote(i)
           row == Acked(notes[i], done)
           acked == [notes EXCEPT ![i] = row]
<1>1. /\ AcknowledgeChunk(o, i, worker[o].chunk) /\ Goto(o, "claiming")
      /\ UNCHANGED <<lock, lastId, posted, repeats, faults, wereDead>>
      /\ worker[o].pc = "acking" /\ lock = o
  BY DEF Acknowledge, AcknowledgeChunk, At, DispatchInv, Exclusive
<1>2. /\ i \in DOMAIN notes /\ notes[i] \in Note /\ notes[i].state = "pending"
      /\ notes \in [DOMAIN notes -> Note] /\ now \in Time
  BY <1>1 DEF IInv, TypeOK, AcknowledgeChunk, HoldsClaim, PendingIds, Pending
<1>3. row \in Note /\ row.state \in {"pending", "completed"} /\ row.next = notes[i].next + 1
  <2>1. PICK u \in Note : /\ u = Unleased(notes[i]) /\ u.state = "pending"
                          /\ u.next = notes[i].next /\ u.next + 1 \in Nat
    BY <1>2, RowUpdates DEF SameText, Note
  <2>2. PICK state \in {"pending", "completed"} :
          row = [u EXCEPT !.next = u.next + 1, !.state = state, !.attempts = 0, !.retryAt = None]
    BY <2>1 DEF Acked
  <2> HIDE DEF row, done
  <2> QED BY <2>1, <2>2 DEF Note, Option, States
<1> HIDE DEF row, done
<1>4. /\ acked \in [DOMAIN acked -> Note] /\ DOMAIN acked = DOMAIN notes
      /\ \A j \in DOMAIN notes : acked[j] = IF j = i THEN row ELSE notes[j]
  BY <1>2, <1>3
<1>5. notes' = PruneNotes(acked, now) \/ notes' = acked
  BY <1>1 DEF AcknowledgeChunk, row, done
<1> HIDE DEF acked
<1>6. KeepsUnfinished(notes', acked)
  BY <1>4, <1>5, PruneKeepsUnfinished DEF KeepsUnfinished, SameNote
<1>7. ASSUME NEW j \in DOMAIN notes'
      PROVE  /\ j \in DOMAIN notes
             /\ notes'[j].state = acked[j].state /\ notes'[j].next = acked[j].next
  BY <1>4, <1>6 DEF KeepsUnfinished
<1> HIDE DEF i
<1>8. ASSUME NEW j \in DOMAIN notes'
      PROVE  /\ j \in DOMAIN notes
             /\ Pending(notes'[j]) => Pending(notes[j])
             /\ Unresolved(notes'[j]) => Unresolved(notes[j])
             /\ notes'[j].state = "dead" => notes[j].state = "dead"
             /\ notes'[j].next = IF j = i THEN notes[j].next + 1 ELSE notes[j].next
  BY <1>2, <1>3, <1>4, <1>7 DEF Pending, Unresolved
<1>9. Advances(o)
  <2>1. i = worker[o].note
    BY DEF i
  <2> QED BY <1>1, <1>8, <2>1 DEF Advances, DispatchInv, DeadWere
<1>10. Moves(o)
  BY <1>1, WorkerMoves
<1> QED BY <1>1, <1>9, <1>10, QuietStep

LEMMA RecordSendFailureKeeps ==
  ASSUME Assumptions, IInv, IInv', StoreInv, RootsKept, DispatchInv,
         NEW o \in Owners, RecordSendFailure(o)
  PROVE  DispatchInv'
<1> DEFINE i == worker[o].note
<1>1. /\ RecordFailure(o, i, worker[o].chunk, worker[o].permanent)
      /\ UNCHANGED <<lastId, posted, repeats, faults>>
      /\ worker[o].pc = "failing" /\ lock = o
      /\ wereDead' = wereDead \cup {j \in DOMAIN notes' : notes'[j].state = "dead"}
      /\ (Goto(o, "claiming") /\ lock' = lock) \/ Leave(o)
  BY DEF RecordSendFailure, RecordFailure, At, DispatchInv, Exclusive, NoteDead
<1>2. i \in DOMAIN notes /\ notes[i] \in Note /\ notes[i].state = "pending" /\ now \in Time
  BY <1>1 DEF IInv, TypeOK, RecordFailure, HoldsClaim, PendingIds, Pending
<1>3. PICK row \in {Died(notes[i]), Delayed(notes[i])} : notes' = [notes EXCEPT ![i] = row]
  BY <1>1 DEF RecordFailure
<1>4. row.next = notes[i].next
  BY <1>2, RowUpdates DEF SameText
<1>5. /\ DOMAIN notes' = DOMAIN notes
      /\ \A j \in DOMAIN notes : notes'[j] = IF j = i THEN row ELSE notes[j]
  BY <1>2, <1>3 DEF IInv, TypeOK
<1> HIDE DEF i
<1>6. Advances(o)
  BY <1>1, <1>2, <1>4, <1>5 DEF Advances, Pending, Unresolved
<1>7. Moves(o)
  BY <1>1, WorkerMoves
<1> QED BY <1>1, <1>6, <1>7, QuietStep

-----------------------------------------------------------------------------
(* Steps that post a chunk.                                                *)

LEMMA ShowPosts ==
  ASSUME posted \in Seq(Nat \X Nat), NEW o, Chunk(o) \in Nat \X Nat, Show(o)
  PROVE  /\ posted' \in Seq(Nat \X Nat) /\ Shown' = Shown \cup {Chunk(o)}
         /\ Chunk(o) \in Shown => posted' = posted
         /\ Chunk(o) \notin Shown =>
              /\ DOMAIN posted' = 1 .. Len(posted) + 1 /\ DOMAIN posted = 1 .. Len(posted)
              /\ posted'[Len(posted) + 1] = Chunk(o)
              /\ \A x \in DOMAIN posted : posted'[x] = posted[x]
<1>1. CASE Chunk(o) \in Shown
  BY <1>1 DEF Show, Shown, Range
<1>2. CASE Chunk(o) \notin Shown
  <2>1. posted' = Append(posted, Chunk(o))
    BY <1>2 DEF Show
  <2>2. Len(posted) \in Nat /\ DOMAIN posted = 1 .. Len(posted)
    OBVIOUS
  <2>3. /\ posted' \in Seq(Nat \X Nat) /\ DOMAIN posted' = 1 .. Len(posted) + 1
        /\ posted'[Len(posted) + 1] = Chunk(o)
        /\ \A x \in DOMAIN posted : posted'[x] = posted[x]
    BY <2>1, <2>2
  <2>4. DOMAIN posted' = DOMAIN posted \cup {Len(posted) + 1}
    BY <2>2, <2>3
  <2>5. Shown' = Shown \cup {Chunk(o)}
    <3>1. \A q \in Shown' : q \in Shown \/ q = Chunk(o)
      BY <2>3, <2>4 DEF Shown, Range
    <3>2. ASSUME NEW q \in Shown
          PROVE  q \in Shown'
      <4>1. PICK x \in DOMAIN posted : posted[x] = q
        BY DEF Shown, Range
      <4>2. x \in DOMAIN posted' /\ posted'[x] = q
        BY <2>3, <2>4, <4>1
      <4> QED BY <4>2 DEF Shown, Range
    <3>3. Chunk(o) \in Shown'
      <4>1. Len(posted) + 1 \in DOMAIN posted' /\ posted'[Len(posted) + 1] = Chunk(o)
        BY <2>3, <2>4
      <4> QED BY <4>1 DEF Shown, Range
    <3> QED BY <3>1, <3>2, <3>3
  <2> QED BY <1>2, <2>1, <2>2, <2>3, <2>5
<1> QED BY <1>1, <1>2

\* The worker o posts the chunk that is next in its notification; it goes on to
\* acknowledge it unless there is a fault.
LEMMA PostingStep ==
  ASSUME Assumptions, IInv, IInv', StoreInv, RootsKept, DispatchInv,
         NEW o \in Owners,
         At(o, "sending"), Show(o), UNCHANGED <<notes, lock, lastId, wereDead>>,
         NEW w \in Worker, worker' = [worker EXCEPT ![o] = w],
         w.note = worker[o].note, w.chunk = worker[o].chunk,
         \/ w.pc = "acking" /\ faults' = faults
         \/ w.pc \in {"sending", "failing"} /\ faults' = faults + 1
  PROVE  DispatchInv'
<1> DEFINE i == worker[o].note
           c == worker[o].chunk
<1>1. /\ worker[o].pc = "sending" /\ lock = o /\ worker \in [Owners -> Worker]
      /\ posted \in Seq(Nat \X Nat) /\ repeats \in Nat /\ faults \in Nat
  BY DEF At, DispatchInv, Exclusive, DispatchType
<1>2. /\ i \in PendingIds /\ notes[i].owner = o /\ notes[i].next = c
      /\ i \in DOMAIN notes /\ i \in Nat /\ c \in Nat /\ i <= lastId
  <2>1. i \in PendingIds /\ notes[i].owner = o /\ notes[i].next = c
    BY <1>1 DEF DispatchInv, Claims, HoldsClaim
  <2>2. i \in DOMAIN notes /\ i \in Nat /\ i <= lastId
    BY <2>1 DEF PendingIds, IInv, TypeOK
  <2>3. worker[o] \in Worker
    BY <1>1
  <2> QED BY <2>1, <2>2, <2>3 DEF Worker
<1>3. \A p \in Owners \ {o} : worker[p].pc = "idle" /\ worker'[p] = worker[p]
  BY <1>1, Alone
<1>4. worker' \in [Owners -> Worker] /\ worker'[o] = w
  BY <1>1
<1>5. /\ posted' \in Seq(Nat \X Nat) /\ Shown' = Shown \cup {<<i, c>>}
      /\ <<i, c>> \in Shown => posted' = posted
      /\ <<i, c>> \notin Shown =>
           /\ DOMAIN posted' = 1 .. Len(posted) + 1 /\ DOMAIN posted = 1 .. Len(posted)
           /\ posted'[Len(posted) + 1] = <<i, c>>
           /\ \A x \in DOMAIN posted : posted'[x] = posted[x]
  <2>1. Chunk(o) = <<i, c>> /\ Chunk(o) \in Nat \X Nat
    BY <1>2 DEF Chunk
  <2> HIDE DEF i, c
  <2> QED BY <1>1, <2>1, ShowPosts
<1>6. PendingIds' = PendingIds
  BY DEF PendingIds
<1>7. \A q \in Shown : q[1] \in Nat /\ q[2] \in Nat
  BY <1>1 DEF Shown, Range
<1>8. w.pc # "idle" /\ w.note = i /\ w.chunk = c
  OBVIOUS
<1>9. repeats' = IF NextWasRead(i) THEN repeats + 1 ELSE repeats
  <2>1. Chunk(o) = <<i, c>>
    BY DEF Chunk
  <2> HIDE DEF i, c
  <2>2. ASSUME NEW q \in Shown, q[1] \in DOMAIN notes
        PROVE  Text(q) = Text(Chunk(o)) <=>
                 /\ Root[q[1]] = Root[i]
                 /\ notes[q[1]].count - q[2] = notes[i].count - notes[i].next
    <3>1. Chunk(o)[1] = i /\ Chunk(o)[2] = notes[i].next
      BY <1>2, <2>1
    <3> QED BY <1>2, <2>2, <3>1, TextsTell
  <2>3. AlreadyShown(o) <=> NextWasRead(i)
    BY <2>2 DEF AlreadyShown, NextWasRead
  <2> QED BY <2>3 DEF Show
<1> HIDE DEF i, c
<1>10. DispatchType'
  <2>1. repeats' \in Nat /\ faults' \in Nat
    BY <1>1, <1>9
  <2> QED BY <1>1, <1>4, <1>5, <2>1 DEF DispatchType
<1>11. Exclusive'
  BY <1>1, <1>3, <1>4, <1>8 DEF DispatchInv, Exclusive
<1>12. Claims'
  BY <1>2, <1>3, <1>4, <1>6, <1>8 DEF Claims, HoldsClaim
<1>13. AcksFollow'
  <2>1. \A p \in Owners : worker'[p].pc = "acking" => p = o
    BY <1>3
  <2>2. <<worker'[o].note, worker'[o].chunk>> \in Shown'
    BY <1>4, <1>5, <1>8
  <2> QED BY <2>1, <2>2 DEF AcksFollow, Chunk
<1>14. AcknowledgedWasShown'
  BY <1>5 DEF DispatchInv, AcknowledgedWasShown
<1>15. ShownInTurn'
  <2>1. \A q \in Shown : q[1] <= lastId /\ (q[1] \in DOMAIN notes => q[2] <= notes[q[1]].next)
    BY DEF DispatchInv, ShownInTurn
  <2>2. <<i, c>>[1] <= lastId /\ <<i, c>>[2] <= notes[<<i, c>>[1]].next
    BY <1>2
  <2> QED BY <1>5, <2>1, <2>2 DEF ShownInTurn
<1>16. DeadWere'
  BY DEF DeadWere, DispatchInv
<1>17. LateWereDead'
  <2> SUFFICES ASSUME NEW j \in PendingIds
               PROVE  /\ \A q \in Shown' : q[1] > j => j \in wereDead
                      /\ \A p \in Owners : worker'[p].pc = "sending" /\ worker'[p].note > j
                                             => j \in wereDead
    BY <1>6 DEF LateWereDead
  <2>1. /\ \A q \in Shown : q[1] > j => j \in wereDead
        /\ worker[o].pc = "sending" /\ worker[o].note > j => j \in wereDead
    BY DEF DispatchInv, LateWereDead
  <2>2. i > j => j \in wereDead
    BY <1>1, <2>1 DEF i
  <2>3. \A q \in Shown' : q[1] > j => j \in wereDead
    BY <1>5, <2>1, <2>2
  <2>4. \A p \in Owners : worker'[p].pc = "sending" /\ worker'[p].note > j => j \in wereDead
    BY <1>3, <1>4, <1>8, <2>2
  <2> QED BY <2>3, <2>4
<1>18. ChatInOrder'
  <2>1. CASE <<i, c>> \in Shown
    BY <1>5, <2>1 DEF DispatchInv, ChatInOrder
  <2>2. CASE <<i, c>> \notin Shown
    <3> SUFFICES ASSUME NEW p \in DOMAIN posted', NEW q \in DOMAIN posted', p < q
                 PROVE  /\ posted'[p][1] = posted'[q][1] => posted'[p][2] < posted'[q][2]
                        /\ posted'[p][1] > posted'[q][1] => posted'[q][1] \in wereDead
      BY DEF ChatInOrder
    <3>1. Len(posted) \in Nat
      BY <1>1
    <3>2. CASE q \in DOMAIN posted
      <4>1. p \in DOMAIN posted
        BY <1>5, <2>2, <3>1, <3>2
      <4>2. posted'[p] = posted[p] /\ posted'[q] = posted[q]
        BY <1>5, <2>2, <3>2, <4>1
      <4> QED BY <3>2, <4>1, <4>2 DEF DispatchInv, ChatInOrder
    <3>3. CASE q = Len(posted) + 1
      <4>1. p \in DOMAIN posted /\ posted'[p] = posted[p] /\ posted'[q] = <<i, c>>
        BY <1>5, <2>2, <3>1, <3>3
      <4>2. posted[p] \in Shown /\ posted[p] \in Nat \X Nat
        BY <1>1, <4>1 DEF Shown, Range
      <4>3. posted[p][1] > i => i \in wereDead
        BY <1>2, <4>2 DEF DispatchInv, LateWereDead
      <4>4. ASSUME posted[p][1] = i
            PROVE  posted[p][2] < c
        <5>1. posted[p][2] <= c
          BY <1>2, <4>2, <4>4 DEF DispatchInv, ShownInTurn
        <5>2. posted[p][2] # c
          BY <2>2, <4>2, <4>4
        <5>3. posted[p][2] \in Nat
          BY <4>2
        <5> QED BY <1>2, <5>1, <5>2, <5>3
      <4> QED BY <4>1, <4>3, <4>4
    <3> QED BY <1>5, <2>2, <3>1, <3>2, <3>3
  <2> QED BY <2>1, <2>2
<1>19. DebtBound'
  <2>1. /\ IsFiniteSet(Debt) /\ Cardinality(Debt) \in Nat
        /\ repeats + Cardinality(Debt) <= faults
    BY DebtFinite DEF IInv, DispatchInv, DebtBound
  <2>2. Debt' \subseteq Debt \cup {i}
    <3> SUFFICES ASSUME NEW j \in Debt', j # i
                 PROVE  j \in Debt
      OBVIOUS
    <3>1. /\ j \in DOMAIN notes /\ Unresolved(notes[j]) /\ j \in Nat
          /\ i \in DOMAIN notes /\ notes[i].state = "pending"
      BY <1>2, RowFacts DEF Debt, PendingIds, Pending
    <3>2. PICK q \in Shown' :
            /\ q[1] \in DOMAIN notes' /\ Root'[q[1]] = Root'[j]
            /\ notes'[q[1]].count - q[2] = notes'[j].count - notes'[j].next
      BY DEF Debt, NextWasRead
    <3>3. q[1] \in DOMAIN notes /\ Root[q[1]] = Root[j]
      BY <3>1, <3>2 DEF RootsKept
    <3>4. (~(i < j) /\ ~(j < i)) \/ q # <<i, c>>
      BY <3>1, <3>3 DEF StoreInv, ChainInv, RestsNest, Unresolved
    <3>5. NextWasRead(j)
      BY <1>2, <1>5, <3>1, <3>2, <3>3, <3>4 DEF NextWasRead
    <3>6. \A p \in Owners : worker[p].pc # "acking"
      BY <1>1, <1>3
    <3> QED BY <3>1, <3>5, <3>6 DEF Debt
  <2>3. NextWasRead(i) => i \in Debt
    BY <1>1, <1>2, <1>3 DEF Debt, PendingIds, Pending, Unresolved
  <2>4. CASE w.pc = "acking" /\ faults' = faults
    <3>1. i \notin Debt'
      BY <1>4, <1>8, <2>4 DEF Debt
    <3>2. CASE NextWasRead(i)
      <4>1. Cardinality(Debt') \in Nat /\ Cardinality(Debt') + 1 <= Cardinality(Debt)
        BY <2>1, <2>2, <2>3, <3>1, <3>2, DebtSteps
      <4>2. repeats' = repeats + 1 /\ faults' = faults
        BY <1>9, <2>4, <3>2
      <4> QED BY <1>1, <2>1, <4>1, <4>2 DEF DebtBound
    <3>3. CASE ~NextWasRead(i)
      <4>1. Cardinality(Debt') \in Nat /\ Cardinality(Debt') <= Cardinality(Debt)
        BY <2>1, <2>2, <3>1, DebtSteps
      <4>2. repeats' = repeats /\ faults' = faults
        BY <1>9, <2>4, <3>3
      <4> QED BY <1>1, <2>1, <4>1, <4>2 DEF DebtBound
    <3> QED BY <3>2, <3>3
  <2>5. CASE faults' = faults + 1
    <3>1. CASE NextWasRead(i)
      <4>1. Debt' \subseteq Debt
        BY <2>2, <2>3, <3>1
      <4>2. Cardinality(Debt') \in Nat /\ Cardinality(Debt') <= Cardinality(Debt)
        BY <2>1, <4>1, DebtSteps
      <4>3. repeats' = repeats + 1
        BY <1>9, <3>1
      <4> QED BY <1>1, <2>1, <2>5, <4>2, <4>3 DEF DebtBound
    <3>2. CASE ~NextWasRead(i)
      <4>1. Cardinality(Debt') \in Nat /\ Cardinality(Debt') <= Cardinality(Debt) + 1
        BY <2>1, <2>2, DebtSteps
      <4>2. repeats' = repeats
        BY <1>9, <3>2
      <4> QED BY <1>1, <2>1, <2>5, <4>1, <4>2 DEF DebtBound
    <3> QED BY <3>1, <3>2
  <2> QED BY <2>4, <2>5
<1> QED BY <1>10, <1>11, <1>12, <1>13, <1>14, <1>15, <1>16, <1>17, <1>18, <1>19
        DEF DispatchInv

\* What the worker is after a send that ends.
LEMMA SentWorker ==
  ASSUME DispatchInv, NEW o \in Owners, NEW pc \in {"acking", "failing"}, Goto(o, pc)
  PROVE  \E w \in Worker : /\ worker' = [worker EXCEPT ![o] = w] /\ w.pc = pc
                           /\ w.note = worker[o].note /\ w.chunk = worker[o].chunk
<1> DEFINE w == [worker[o] EXCEPT !.pc = pc]
<1>1. worker[o] \in Worker
  BY DEF DispatchInv, DispatchType
<1>2. /\ w \in Worker /\ w.pc = pc
      /\ w.note = worker[o].note /\ w.chunk = worker[o].chunk
  BY <1>1 DEF Worker
<1>3. worker' = [worker EXCEPT ![o] = w]
  BY DEF Goto
<1> QED BY <1>2, <1>3

LEMMA SendingKeeps ==
  ASSUME Assumptions, IInv, IInv', StoreInv, RootsKept, DispatchInv,
         NEW o \in Owners, Sending(o)
  PROVE  DispatchInv'
<1>1. CASE SentAndConfirmed(o)
  <2>1. /\ At(o, "sending") /\ Show(o) /\ Goto(o, "acking")
        /\ UNCHANGED <<notes, lock, lastId, wereDead, faults>>
    BY <1>1 DEF SentAndConfirmed, vars, tables
  <2>2. PICK w \in Worker : /\ worker' = [worker EXCEPT ![o] = w] /\ w.pc = "acking"
                            /\ w.note = worker[o].note /\ w.chunk = worker[o].chunk
    BY <2>1, SentWorker
  <2> QED BY <2>1, <2>2, PostingStep
<1>2. CASE AnswerLost(o)
  <2>1. /\ At(o, "sending") /\ Show(o) /\ RetryOrGiveUp(o) /\ faults' = faults + 1
        /\ UNCHANGED <<notes, lock, lastId, wereDead>>
    BY <1>2 DEF AnswerLost, Fault, vars, tables
  <2>2. PICK w \in Worker : /\ worker' = [worker EXCEPT ![o] = w]
                            /\ w.pc \in {"sending", "failing"}
                            /\ w.note = worker[o].note /\ w.chunk = worker[o].chunk
    BY <2>1, RetriedWorker
  <2> QED BY <2>1, <2>2, PostingStep
<1>3. CASE SendDeadline(o)
  <2>1. /\ At(o, "sending") /\ Goto(o, "failing") /\ faults' = faults + 1
        /\ UNCHANGED <<notes, lock, lastId, wereDead>>
    BY <1>3 DEF SendDeadline, Fault, vars, tables
  <2>2. PICK w \in Worker : /\ worker' = [worker EXCEPT ![o] = w] /\ w.pc = "failing"
                            /\ w.note = worker[o].note /\ w.chunk = worker[o].chunk
    BY <2>1, SentWorker
  <2>3. CASE Show(o)
    BY <2>1, <2>2, <2>3, PostingStep
  <2>4. CASE NothingShown
    <3>1. Moves(o)
      BY <2>1, <2>2, SenderMoves
    <3>2. Advances(o)
      BY <2>1, RowsStand
    <3> QED BY <2>1, <2>4, <3>1, <3>2, QuietStep DEF NothingShown, At
  <2> QED BY <1>3, <2>3, <2>4 DEF SendDeadline
<1>4. CASE AnswerUnusable(o)
  <2>1. /\ At(o, "sending") /\ Show(o) /\ TerminalFailure(o) /\ faults' = faults + 1
        /\ UNCHANGED <<notes, lock, lastId, wereDead>>
    BY <1>4 DEF AnswerUnusable, Fault, vars, tables
  <2>2. PICK w \in Worker : /\ worker' = [worker EXCEPT ![o] = w] /\ w.pc = "failing"
                            /\ w.note = worker[o].note /\ w.chunk = worker[o].chunk
    BY <2>1, FailedWorker
  <2> QED BY <2>1, <2>2, PostingStep
<1> QED BY <1>1, <1>2, <1>3, <1>4, FailingKeeps DEF Sending

-----------------------------------------------------------------------------
(* What the store does for others.                                         *)

\* No pending notification is lost, nor are its progress and its lease touched;
\* only dead letters become pending again, by themselves, and new rows are new to
\* everybody and wait.
OutboxKept ==
  /\ \A i \in PendingIds :
       i \in DOMAIN notes' /\ Pending(notes'[i]) /\ notes'[i].owner = notes[i].owner
  /\ \A i \in DOMAIN notes' :
       \/ /\ i \in DOMAIN notes /\ notes'[i].next = notes[i].next
          /\ Pending(notes'[i]) => notes[i].state \in {"pending", "dead"}
          /\ notes'[i].state = "dead" => notes[i].state = "dead"
       \/ i > lastId /\ i \in Nat /\ notes'[i].next = 0 /\ Pending(notes'[i])
  /\ lastId' >= lastId
  /\ \A i \in lastId + 1 .. lastId' : i \in DOMAIN notes'
  /\ lastId' # lastId => \A i \in PendingIds' : i \in PendingIds \/ i > lastId

\* What others do adds no debt; the debt of a dead letter that is requeued goes to
\* its rest.
LEMMA MovedDebt ==
  ASSUME Assumptions, IInv, IInv', StoreInv, StoreInv', RootsKept, DispatchInv,
         OutboxKept, NEW new, RowsFollow(new), Shown' = Shown, UNCHANGED worker
  PROVE  \/ Debt' \subseteq Debt
         \/ \E k \in Debt : \E j : Debt' \subseteq (Debt \ {k}) \cup {j}
<1>1. /\ lastId \in Nat /\ DOMAIN notes \subseteq 1 .. lastId
      /\ lastId' \in Nat /\ DOMAIN notes' \subseteq 1 .. lastId'
      /\ SourcesAmong(notes')
      /\ \A i \in DOMAIN notes' \cup DOMAIN notes : i \in Nat
  BY DEF IInv, TypeOK, StoreInv, ChainInv
<1>2. \A q \in Shown : q[1] \in Nat /\ q[1] <= lastId
  <2>1. \A q \in Shown : q \in Nat \X Nat
    BY DEF DispatchInv, DispatchType, Shown, Range
  <2> QED BY <2>1 DEF DispatchInv, ShownInTurn
<1>3. /\ \A i \in DOMAIN notes' : i \in new \/ i \in DOMAIN notes
      /\ \A i \in new : i \in Nat /\ i > lastId
      /\ \A i \in DOMAIN notes' \cap DOMAIN notes :
           Unresolved(notes'[i]) => Unresolved(notes[i])
  BY DEF RowsFollow, StepOfNotes
<1>4. \A i \in DOMAIN notes' :
        \/ i \in DOMAIN notes /\ notes'[i].next = notes[i].next
        \/ i > lastId /\ notes'[i].next = 0
  BY DEF OutboxKept
<1>5. /\ RootsIn(notes', Root')
      /\ \A i \in DOMAIN notes' : Root'[i] \in DOMAIN notes' /\ Root'[i] <= i
  BY <1>1, RootFollowsNext, RootsOlder
<1>6. ASSUME NEW i \in Debt'
      PROVE  /\ i \in DOMAIN notes' /\ Unresolved(notes'[i])
             /\ \E q \in Shown :
                  /\ q[1] \in DOMAIN notes' /\ q[1] \in DOMAIN notes
                  /\ Root[q[1]] = Root'[i]
                  /\ notes[q[1]].count - q[2] = notes'[i].count - notes'[i].next
  <2>1. PICK q \in Shown :
          /\ q[1] \in DOMAIN notes' /\ Root'[q[1]] = Root'[i]
          /\ notes'[q[1]].count - q[2] = notes'[i].count - notes'[i].next
    BY <1>6 DEF Debt, NextWasRead
  <2>2. q[1] \in DOMAIN notes
    <3>1. q[1] \notin new
      BY <1>1, <1>2, <1>3
    <3> QED BY <1>3, <2>1, <3>1
  <2>3. i \in DOMAIN notes' /\ Unresolved(notes'[i])
    BY <1>6 DEF Debt
  <2>4. Root[q[1]] = Root'[i] /\ notes[q[1]].count - q[2] = notes'[i].count - notes'[i].next
    BY <2>1, <2>2 DEF RootsKept
  <2> QED BY <2>1, <2>2, <2>3, <2>4
<1>7. ASSUME NEW i \in Debt', i \in DOMAIN notes
      PROVE  i \in Debt
  <2>1. i \in DOMAIN notes' /\ Unresolved(notes[i])
    BY <1>3, <1>6, <1>7
  <2>2. /\ Root'[i] = Root[i] /\ notes'[i].count = notes[i].count
        /\ notes'[i].next = notes[i].next
    BY <1>1, <1>4, <1>7, <2>1 DEF RootsKept
  <2>3. NextWasRead(i)
    BY <1>6, <2>2 DEF NextWasRead
  <2>4. \A o \in Owners : worker[o].pc = "acking" => worker[o].note # i
    BY DEF Debt
  <2> QED BY <1>7, <2>1, <2>3, <2>4 DEF Debt
<1>8. CASE \A i \in Debt' : i \in DOMAIN notes
  BY <1>7, <1>8
<1>9. CASE \E j \in Debt' : j \notin DOMAIN notes
  <2>1. PICK j \in Debt' : j \in new /\ j \notin DOMAIN notes /\ j \in DOMAIN notes'
    BY <1>3, <1>6, <1>9
  <2>2. PICK q \in Shown :
          /\ q[1] \in DOMAIN notes' /\ q[1] \in DOMAIN notes /\ Root[q[1]] = Root'[j]
          /\ notes[q[1]].count - q[2] = notes'[j].count - notes'[j].next
    BY <1>6
  <2>3. notes'[j].source # None
    <3> SUFFICES ASSUME notes'[j].source = None
                 PROVE  FALSE
      OBVIOUS
    <3>1. Root'[j] = j
      BY <1>5, <2>1 DEF RootsIn
    <3>2. Root'[q[1]] <= q[1] /\ Root'[q[1]] = Root[q[1]]
      BY <1>5, <2>2 DEF RootsKept
    <3> QED BY <1>1, <1>2, <1>3, <2>1, <2>2, <3>1, <3>2
  <2>4. PICK k \in DOMAIN notes :
          /\ notes'[j].source = k /\ notes[k].state = "dead" /\ new = {j}
          /\ k \in DOMAIN notes' /\ notes'[k].state = "requeued"
          /\ notes'[j].count = notes[k].count - notes[k].next
    BY <2>1, <2>3 DEF RowsFollow
  <2>5. Root'[j] = Root[k]
    <3>1. Root'[j] = Root'[k]
      BY <1>5, <2>1, <2>3, <2>4 DEF RootsIn
    <3> QED BY <2>4, <3>1 DEF RootsKept
  <2>6. notes'[j].next = 0
    BY <1>4, <2>1
  <2>7. k \in Debt
    <3>1. notes[k].count \in Nat /\ notes[k].next \in Nat
      BY RowFacts
    <3>2. NextWasRead(k)
      BY <2>2, <2>4, <2>5, <2>6, <3>1 DEF NextWasRead
    <3>3. \A o \in Owners : worker[o].pc = "acking" => worker[o].note # k
      BY <2>4 DEF DispatchInv, Claims, HoldsClaim, PendingIds, Pending
    <3> QED BY <2>4, <3>2, <3>3 DEF Debt, Unresolved
  <2>8. k \notin Debt'
    BY <1>6, <2>4 DEF Unresolved
  <2>9. Debt' \subseteq (Debt \ {k}) \cup {j}
    BY <1>3, <1>6, <1>7, <2>4, <2>8
  <2> QED BY <2>7, <2>9
<1> QED BY <1>8, <1>9

LEMMA OthersKeep ==
  ASSUME Assumptions, IInv, IInv', StoreInv, StoreInv', RootsKept, DispatchInv,
         OutboxKept, NEW new, RowsFollow(new),
         UNCHANGED <<lock, worker, posted, repeats, faults, wereDead>>
  PROVE  DispatchInv'
<1>1. /\ DispatchType' /\ Exclusive' /\ AcksFollow' /\ ChatInOrder' /\ Shown' = Shown
  BY DEF DispatchInv, DispatchType, Exclusive, AcksFollow, Chunk, Shown, Range, ChatInOrder
<1>2. /\ lastId \in Nat /\ lastId' \in Nat /\ DOMAIN notes \subseteq 1 .. lastId
      /\ \A i \in DOMAIN notes' : i \in Nat
      /\ \A q \in Shown : q[1] \in Nat /\ q[1] <= lastId
  <2>1. \A q \in Shown : q \in Nat \X Nat
    BY DEF DispatchInv, DispatchType, Shown, Range
  <2> QED BY <2>1 DEF IInv, TypeOK, DispatchInv, ShownInTurn
<1>3. \A i \in DOMAIN notes' :
        \/ i \in DOMAIN notes /\ notes'[i].next = notes[i].next
        \/ i > lastId /\ notes'[i].next = 0
  BY DEF OutboxKept
<1>4. Claims'
  <2> SUFFICES ASSUME NEW o \in Owners, worker[o].pc \in {"sending", "acking", "failing"}
               PROVE  /\ worker[o].note \in PendingIds' /\ notes'[worker[o].note].owner = o
                      /\ notes'[worker[o].note].next = worker[o].chunk
    BY DEF Claims, HoldsClaim
  <2>1. HoldsClaim(worker[o].note, o, worker[o].chunk)
    BY DEF DispatchInv, Claims
  <2>2. worker[o].note \in DOMAIN notes /\ worker[o].note <= lastId /\ worker[o].note \in Nat
    BY <1>2, <2>1 DEF HoldsClaim, PendingIds
  <2>3. /\ worker[o].note \in DOMAIN notes' /\ Pending(notes'[worker[o].note])
        /\ notes'[worker[o].note].owner = o
    BY <2>1 DEF OutboxKept, HoldsClaim
  <2>4. notes'[worker[o].note].next = worker[o].chunk
    <3>1. ~(worker[o].note > lastId)
      BY <1>2, <2>2
    <3>2. notes[worker[o].note].next = worker[o].chunk
      BY <2>1 DEF HoldsClaim
    <3> QED BY <1>3, <2>3, <3>1, <3>2
  <2> QED BY <2>3, <2>4 DEF PendingIds
<1>5. AcknowledgedWasShown'
  <2> SUFFICES ASSUME NEW i \in DOMAIN notes', NEW c \in 0 .. notes'[i].next - 1
               PROVE  <<i, c>> \in Shown
    BY <1>1 DEF AcknowledgedWasShown
  <2>1. i \in DOMAIN notes /\ notes'[i].next = notes[i].next
    BY <1>3
  <2> QED BY <2>1 DEF DispatchInv, AcknowledgedWasShown
<1>6. ShownInTurn'
  <2> SUFFICES ASSUME NEW q \in Shown
               PROVE  q[1] <= lastId' /\ (q[1] \in DOMAIN notes' => q[2] <= notes'[q[1]].next)
    BY <1>1 DEF ShownInTurn
  <2>1. q[1] <= lastId'
    BY <1>2 DEF OutboxKept
  <2>2. q[1] \in DOMAIN notes' => q[1] \in DOMAIN notes /\ notes'[q[1]].next = notes[q[1]].next
    BY <1>2, <1>3
  <2> QED BY <2>1, <2>2 DEF DispatchInv, ShownInTurn
<1>7. DeadWere'
  BY DEF DeadWere, DispatchInv, OutboxKept, Pending
<1>8. LateWereDead'
  <2> SUFFICES ASSUME NEW i \in PendingIds'
               PROVE  /\ \A q \in Shown : q[1] > i => i \in wereDead
                      /\ \A o \in Owners : worker[o].pc = "sending" /\ worker[o].note > i
                                             => i \in wereDead
    BY <1>1 DEF LateWereDead
  <2>1. i \in DOMAIN notes' /\ Pending(notes'[i])
    BY DEF PendingIds
  <2>2. CASE i \in PendingIds
    BY <2>2 DEF DispatchInv, LateWereDead
  <2>3. CASE i \in DOMAIN notes /\ notes[i].state = "dead"
    BY <2>3 DEF DispatchInv, DeadWere
  <2>4. CASE i > lastId /\ i \in Nat
    <3>1. \A q \in Shown : ~(q[1] > i)
      BY <1>2, <2>4
    <3>2. ASSUME NEW o \in Owners, worker[o].pc = "sending"
          PROVE  ~(worker[o].note > i)
      <4>1. worker[o].note \in DOMAIN notes
        BY <3>2 DEF DispatchInv, Claims, HoldsClaim, PendingIds
      <4> QED BY <1>2, <2>4, <4>1
    <3> QED BY <3>1, <3>2
  <2> QED BY <2>1, <2>2, <2>3, <2>4 DEF OutboxKept, PendingIds, Pending
<1>9. DebtBound'
  <2>1. /\ IsFiniteSet(Debt) /\ Cardinality(Debt) \in Nat
        /\ repeats + Cardinality(Debt) <= faults /\ repeats \in Nat /\ faults \in Nat
    BY DebtFinite DEF IInv, DispatchInv, DebtBound, DispatchType
  <2>2. \/ Debt' \subseteq Debt
        \/ \E k \in Debt : \E j : Debt' \subseteq (Debt \ {k}) \cup {j}
    BY <1>1, MovedDebt
  <2>3. Cardinality(Debt') \in Nat /\ Cardinality(Debt') <= Cardinality(Debt)
    BY <2>1, <2>2, DebtSteps
  <2>4. repeats' = repeats /\ faults' = faults
    OBVIOUS
  <2> QED BY <2>1, <2>3, <2>4 DEF DebtBound
<1> QED BY <1>1, <1>4, <1>5, <1>6, <1>7, <1>8, <1>9 DEF DispatchInv

LEMMA AcceptedOutbox ==
  ASSUME Assumptions, IInv,
         NEW a \in Agents, NEW b \in Boots, NEW s \in Sequences, NEW d \in Digests,
         NEW k \in ReportChunks, NEW at \in ReceptionTimes(a),
         AcceptReport(a, b, s, d, k, at)
  PROVE  OutboxKept
<1> DEFINE report == NewNote("REPORT", a, <<a, b, s>>, k, at)
           recovery == NewNote("RECOVERY", a, <<a, b, s>>, 1, at)
           pruned == PruneNotes(notes, at)
           queued == IF agents[a].offline
                     THEN Put(Put(pruned, lastId + 1, recovery), lastId + 2, report)
                     ELSE Put(pruned, lastId + 1, report)
<1>1. /\ now \in Time /\ notes \in [DOMAIN notes -> Note] /\ lastId \in Nat
      /\ DOMAIN notes \subseteq 1 .. lastId
      /\ <<a, b, s>> \in EventIds /\ k \in Nat \ {0} /\ at \in Time
  BY DEF IInv, TypeOK, EventIds, Assumptions, LimitsAssumption, ReceptionTimes, Time
<1>2. /\ report \in Note /\ recovery \in Note
      /\ \A n \in {report, recovery} : n.next = 0 /\ n.state = "pending"
  <2>1. "REPORT" \in Kinds /\ "RECOVERY" \in Kinds
    BY DEF Kinds
  <2>2. <<a, b, s>> \in Option(EventIds)
    BY <1>1 DEF Option
  <2>3. 1 \in Nat \ {0}
    OBVIOUS
  <2>4. report \in Note /\ recovery \in Note
    BY <1>1, <2>1, <2>2, <2>3, NewNoteType
  <2> QED BY <2>4 DEF NewNote
<1>3. KeepsUnfinished(pruned, notes)
  BY <1>1, PruneKeepsUnfinished
<1>4. notes' = PruneNotes(queued, at)
  BY DEF AcceptReport
<1>5. lastId' = lastId + 1 \/ lastId' = lastId + 2
  BY DEF AcceptReport, Additions
<1>6. DOMAIN pruned \subseteq 1 .. lastId /\ pruned \in [DOMAIN pruned -> Note]
  BY <1>1, <1>3 DEF KeepsUnfinished
<1> HIDE DEF pruned, report, recovery
<1>7. /\ queued \in [DOMAIN queued -> Note]
      /\ \A i \in DOMAIN pruned : i \in DOMAIN queued /\ queued[i] = pruned[i]
      /\ \A i \in DOMAIN queued \ DOMAIN pruned :
           i > lastId /\ i \in Nat /\ queued[i].next = 0 /\ queued[i].state = "pending"
  <2>1. CASE agents[a].offline
    BY <1>1, <1>2, <1>6, <2>1 DEF Put
  <2>2. CASE ~agents[a].offline
    BY <1>1, <1>2, <1>6, <2>2 DEF Put
  <2> QED BY <2>1, <2>2
<1>8. lastId + 1 .. lastId' \subseteq DOMAIN queued
  <2>1. CASE agents[a].offline
    <3>1. lastId' = lastId + 2
      BY <2>1 DEF AcceptReport, Additions
    <3>2. lastId + 1 \in DOMAIN queued /\ lastId + 2 \in DOMAIN queued
      BY <2>1 DEF Put
    <3> QED BY <1>1, <3>1, <3>2
  <2>2. CASE ~agents[a].offline
    <3>1. lastId' = lastId + 1
      BY <2>2 DEF AcceptReport, Additions
    <3>2. lastId + 1 \in DOMAIN queued
      BY <2>2 DEF Put
    <3> QED BY <1>1, <3>1, <3>2
  <2> QED BY <2>1, <2>2
<1> HIDE DEF queued
<1>9. KeepsUnfinished(notes', queued)
  BY <1>4, <1>7, PruneKeepsUnfinished
<1>10. ASSUME NEW i \in PendingIds
      PROVE  i \in DOMAIN notes' /\ Pending(notes'[i]) /\ notes'[i].owner = notes[i].owner
  <2>1. i \in DOMAIN notes /\ notes[i].state = "pending"
    BY DEF PendingIds, Pending
  <2>2. /\ i \in DOMAIN pruned /\ pruned[i].state = "pending"
        /\ pruned[i].owner = notes[i].owner
    BY <1>3, <2>1 DEF KeepsUnfinished
  <2>3. i \in DOMAIN queued /\ queued[i] = pruned[i]
    BY <1>7, <2>2
  <2> QED BY <1>9, <2>2, <2>3 DEF KeepsUnfinished, Pending
<1>11. ASSUME NEW i \in DOMAIN notes'
       PROVE  \/ /\ i \in DOMAIN notes /\ notes'[i].next = notes[i].next
                 /\ notes'[i].state = notes[i].state
              \/ i > lastId /\ i \in Nat /\ notes'[i].next = 0 /\ Pending(notes'[i])
  <2>1. i \in DOMAIN queued /\ notes'[i].next = queued[i].next /\ notes'[i].state = queued[i].state
    BY <1>9 DEF KeepsUnfinished
  <2>2. CASE i \in DOMAIN pruned
    BY <1>3, <1>7, <2>1, <2>2 DEF KeepsUnfinished
  <2>3. CASE i \notin DOMAIN pruned
    BY <1>7, <2>1, <2>3 DEF Pending
  <2> QED BY <2>2, <2>3
<1>12. ASSUME NEW i \in lastId + 1 .. lastId'
       PROVE  i \in DOMAIN notes'
  <2>1. i \in DOMAIN queued \ DOMAIN pruned
    BY <1>1, <1>6, <1>8
  <2>2. queued[i].state = "pending"
    BY <1>7, <2>1
  <2> QED BY <1>9, <2>1, <2>2 DEF KeepsUnfinished
<1>13. \A i \in PendingIds' : i \in PendingIds \/ i > lastId
  BY <1>11 DEF PendingIds, Pending
<1> QED BY <1>1, <1>5, <1>10, <1>11, <1>12, <1>13 DEF OutboxKept, Pending

LEMMA OtherOutbox ==
  ASSUME Assumptions, IInv,
         \/ OfflineTransitions
         \/ RetryDeadLetters
         \/ \E i \in DOMAIN notes : RequeueDeadLetter(i)
         \/ \E registry \in SUBSET Agents : SyncRegistry(registry)
         \/ Tick
  PROVE  OutboxKept
<1>1. /\ now \in Time /\ notes \in [DOMAIN notes -> Note] /\ lastId \in Nat
      /\ DOMAIN notes \subseteq 1 .. lastId
  BY DEF IInv, TypeOK
<1>2. CASE UNCHANGED <<notes, lastId>>
  BY <1>1, <1>2 DEF OutboxKept, PendingIds, Pending
<1>3. CASE OfflineTransitions
  <2> DEFINE new == lastId + 1 .. lastId + Cardinality(Overdue)
  <2>1. PICK turn : notes' = [i \in DOMAIN notes \cup new |->
                       IF i \in new THEN NewNote("OFFLINE", turn[i], None, 1, now) ELSE notes[i]]
    BY <1>3 DEF OfflineTransitions
  <2>2. Cardinality(Overdue) \in Nat /\ lastId' = lastId + Cardinality(Overdue)
    <3>1. Overdue \subseteq Agents
      BY DEF Overdue
    <3>2. Cardinality(Overdue) \in Nat
      BY <3>1, FS_Subset, FS_CardinalityType DEF Assumptions, AgentsAssumption
    <3> QED BY <1>3, <3>2 DEF OfflineTransitions
  <2>3. \A i \in new : i \in Nat /\ i > lastId /\ i \notin DOMAIN notes
    BY <1>1, <2>2
  <2>4. lastId' >= lastId
    BY <1>1, <2>2
  <2> HIDE DEF new
  <2>5. \A i \in new : notes'[i].next = 0 /\ notes'[i].state = "pending"
    BY <2>1 DEF NewNote
  <2>6. DOMAIN notes' = DOMAIN notes \cup new /\ \A i \in DOMAIN notes : notes'[i] = notes[i]
    BY <2>1, <2>3
  <2>7. \A i \in PendingIds' : i \in PendingIds \/ i > lastId
    BY <2>3, <2>6 DEF PendingIds
  <2>8. \A i \in lastId + 1 .. lastId' : i \in DOMAIN notes'
    BY <2>2, <2>6 DEF new
  <2>9. /\ \A i \in PendingIds :
             i \in DOMAIN notes' /\ Pending(notes'[i]) /\ notes'[i].owner = notes[i].owner
        /\ \A i \in DOMAIN notes' :
             \/ i \in DOMAIN notes /\ notes'[i] = notes[i]
             \/ i > lastId /\ i \in Nat /\ notes'[i].next = 0 /\ Pending(notes'[i])
    BY <2>3, <2>5, <2>6 DEF PendingIds, Pending
  <2> QED BY <2>4, <2>7, <2>8, <2>9 DEF OutboxKept, Pending
<1>4. CASE RetryDeadLetters
  <2>1. DOMAIN notes' = DOMAIN notes /\ lastId' = lastId
    BY <1>4 DEF RetryDeadLetters
  <2>2. ASSUME NEW i \in DOMAIN notes
        PROVE  /\ notes'[i].next = notes[i].next
               /\ notes[i].state = "dead" => notes'[i].state = "pending"
               /\ notes[i].state # "dead" => notes'[i] = notes[i]
    <3>1. Rearmed(notes[i]).next = notes[i].next /\ Rearmed(notes[i]).state = "pending"
      BY <1>1, RowUpdates DEF SameText
    <3> QED BY <1>4, <3>1 DEF RetryDeadLetters
  <2> QED BY <1>1, <2>1, <2>2 DEF OutboxKept, PendingIds, Pending
<1>5. CASE \E i \in DOMAIN notes : RequeueDeadLetter(i)
  <2>1. PICK i \in DOMAIN notes : RequeueDeadLetter(i)
    BY <1>5
  <2> DEFINE id == lastId + 1
  <2>2. notes[i].state = "dead" /\ notes[i] \in Note /\ lastId' = id
    BY <1>1, <2>1 DEF RequeueDeadLetter, Requeueable
  <2>3. id \notin DOMAIN notes /\ id \in Nat /\ id > lastId
    BY <1>1
  <2>4. /\ Requeued(notes[i], id).state = "requeued"
        /\ Requeued(notes[i], id).next = notes[i].next
        /\ CloneOf(i).next = 0 /\ CloneOf(i).state = "pending"
    BY <2>2 DEF Requeued, Note, CloneOf, NewNote
  <2>5. notes' = Put([notes EXCEPT ![i] = Requeued(notes[i], id)], id, CloneOf(i))
    BY <2>1 DEF RequeueDeadLetter
  <2> HIDE DEF id
  <2>6. /\ DOMAIN notes' = DOMAIN notes \cup {id} /\ notes'[id] = CloneOf(i)
        /\ \A j \in DOMAIN notes :
             notes'[j] = IF j = i THEN Requeued(notes[i], id) ELSE notes[j]
    BY <1>1, <2>1, <2>3, <2>5 DEF Put
  <2>7. lastId' >= lastId /\ \A j \in lastId + 1 .. lastId' : j = id
    BY <1>1, <2>2, <2>3 DEF id
  <2>8. \A j \in PendingIds' : j \in PendingIds \/ j > lastId
    BY <2>2, <2>3, <2>4, <2>6 DEF PendingIds, Pending
  <2>9. /\ \A j \in PendingIds :
             j \in DOMAIN notes' /\ Pending(notes'[j]) /\ notes'[j].owner = notes[j].owner
        /\ \A j \in DOMAIN notes' :
             \/ /\ j \in DOMAIN notes /\ notes'[j].next = notes[j].next
                /\ Pending(notes'[j]) => notes[j].state \in {"pending", "dead"}
                /\ notes'[j].state = "dead" => notes[j].state = "dead"
             \/ j > lastId /\ j \in Nat /\ notes'[j].next = 0 /\ Pending(notes'[j])
    BY <2>2, <2>3, <2>4, <2>6 DEF PendingIds, Pending
  <2> QED BY <2>6, <2>7, <2>8, <2>9 DEF OutboxKept
<1> QED BY <1>2, <1>3, <1>4, <1>5 DEF SyncRegistry, Tick, tables

LEMMA ElsewhereKeeps ==
  ASSUME Assumptions, IInv, IInv', StoreInv, StoreInv', RootsKept, DispatchInv,
         NEW new, RowsFollow(new), Elsewhere
  PROVE  DispatchInv'
<1>1. OutboxKept
  BY AcceptedOutbox, OtherOutbox DEF Elsewhere, Reporting
<1> QED BY <1>1, OthersKeep DEF Elsewhere

-----------------------------------------------------------------------------
(* Theorems about the outbox.                                              *)

\* Whatever the dispatchers do to the store, the store allows.
LEMMA DispatchStepIsStoreStep ==
  ASSUME DispatchInv, [DispatchNext]_dispatchVars
  PROVE  [Next]_vars
<1>1. CASE UNCHANGED dispatchVars
  BY <1>1 DEF dispatchVars
<1>2. CASE Elsewhere
  BY <1>2 DEF Elsewhere, Next, Repairing
<1>3. ASSUME NEW o \in Owners, StartDrain(o) \/ Draining(o) \/ Crash(o)
      PROVE  [Next]_vars
  <2>1. CASE ResetStaleLeases(o)
    BY <2>1 DEF ResetStaleLeases, Next, Repairing
  <2>2. CASE Claim(o)
    BY <2>2 DEF Claim, Next, Dispatching
  <2>3. CASE Acknowledge(o)
    <3>1. AcknowledgeChunk(o, worker[o].note, worker[o].chunk)
      BY <2>3 DEF Acknowledge
    <3>2. worker[o].note \in DOMAIN notes /\ notes[worker[o].note].next = worker[o].chunk
      BY <3>1 DEF AcknowledgeChunk, HoldsClaim, PendingIds
    <3> QED BY <3>1, <3>2 DEF Next, Dispatching
  <2>4. CASE RecordSendFailure(o)
    <3>1. RecordFailure(o, worker[o].note, worker[o].chunk, worker[o].permanent)
      BY <2>4 DEF RecordSendFailure
    <3>2. worker[o].note \in DOMAIN notes /\ notes[worker[o].note].next = worker[o].chunk
      BY <3>1 DEF RecordFailure, HoldsClaim, PendingIds
    <3>3. worker[o].permanent \in BOOLEAN
      BY DEF DispatchInv, DispatchType, Worker
    <3> QED BY <3>1, <3>2, <3>3 DEF Next, Dispatching
  <2>5. CASE StartDrain(o) \/ NothingDue(o) \/ Sending(o) \/ AckRefused(o) \/ Crash(o)
    BY <2>5 DEF StartDrain, NothingDue, Sending, SentAndConfirmed, AnswerLost, TryFails,
       RefusedForGood, AnswerUnusable, SendDeadline, AckRefused, Crash
  <2> QED BY <1>3, <2>1, <2>2, <2>3, <2>4, <2>5 DEF Draining, Concluding
<1> QED BY <1>1, <1>2, <1>3 DEF DispatchNext

LEMMA NextDispatchInv ==
  ASSUME Assumptions, IInv, IInv', StoreInv, StoreInv', DispatchInv,
         [DispatchNext]_dispatchVars
  PROVE  DispatchInv'
<1> PICK new : RowsFollow(new)
  BY DispatchStepIsStoreStep, NextRows
<1> RootsKept
  BY RowsKeepRoots DEF StoreInv
<1>1. CASE UNCHANGED dispatchVars
  <2>1. OutboxKept
    BY <1>1 DEF OutboxKept, dispatchVars, vars, tables, PendingIds, IInv, TypeOK, Pending
  <2> QED BY <1>1, <2>1, OthersKeep DEF dispatchVars
<1>2. CASE Elsewhere
  BY <1>2, ElsewhereKeeps
<1>3. ASSUME NEW o \in Owners, StartDrain(o) \/ Draining(o) \/ Crash(o)
      PROVE  DispatchInv'
  BY <1>3, StartDrainKeeps, ResetStaleLeasesKeeps, ClaimKeeps, LeavingKeeps, SendingKeeps,
     AcknowledgeKeeps, RecordSendFailureKeeps DEF Draining, Concluding
<1> QED BY <1>1, <1>2, <1>3 DEF DispatchNext

LEMMA DispatchInvariance == DispatchSpec => [](IInv /\ StoreInv /\ DispatchInv)
<1>1. Assumptions
  BY AgentsAssumption, NoneAssumption, LimitsAssumption DEF Assumptions
<1>2. DispatchInit => IInv /\ StoreInv /\ DispatchInv
  <2> SUFFICES ASSUME DispatchInit
               PROVE  IInv /\ StoreInv /\ DispatchInv
    OBVIOUS
  <2>1. Init /\ DOMAIN notes = {}
    BY DEF DispatchInit, Init
  <2>2. StoreInv
    BY <2>1, InitKeyInv DEF StoreInv, ChainInv, SourcesAmong, RestsNest
  <2> QED BY <1>1, <2>1, <2>2, InitIInv, InitDispatchInv
<1>3. IInv /\ StoreInv /\ DispatchInv /\ [DispatchNext]_dispatchVars =>
        IInv' /\ StoreInv' /\ DispatchInv'
  <2> SUFFICES ASSUME IInv, StoreInv, DispatchInv, [DispatchNext]_dispatchVars
               PROVE  IInv' /\ StoreInv' /\ DispatchInv'
    OBVIOUS
  <2>1. [Next]_vars
    BY DispatchStepIsStoreStep
  <2>2. IInv'
    BY <1>1, <2>1, NextIInv
  <2>3. StoreInv'
    BY <1>1, <2>1, <2>2, NextKeyInv, NextChainInv DEF StoreInv
  <2> QED BY <1>1, <2>2, <2>3, NextDispatchInv
<1> QED BY <1>2, <1>3, PTL DEF DispatchSpec

\* The dispatchers, with all their crashes, deadlines and lost claims, use the
\* store as its own specification says: every theorem about the store holds of
\* a store that dispatchers drain.
THEOREM DispatchUsesTheStore == DispatchSpec => Spec
<1>1. DispatchInit => Init
  BY DEF DispatchInit
<1>2. DispatchInv /\ [DispatchNext]_dispatchVars => [Next]_vars
  BY DispatchStepIsStoreStep
<1> QED BY <1>1, <1>2, DispatchInvariance, PTL DEF DispatchSpec, Spec

\* No chunk is ever acknowledged that Telegram did not show: nothing is lost
\* between the claim of a notification and its completion.
THEOREM NothingIsSkipped == DispatchSpec => []AcknowledgedWasShown
<1>1. DispatchInv => AcknowledgedWasShown
  BY DEF DispatchInv
<1> QED BY <1>1, DispatchInvariance, PTL

\* The chat follows the outbox, dead letters apart, for any number of
\* dispatchers, faults and retries.
THEOREM TheChatIsInOrder == DispatchSpec => []ChatInOrder
<1>1. DispatchInv => ChatInOrder
  BY DEF DispatchInv
<1> QED BY <1>1, DispatchInvariance, PTL

\* Every time the chat reads a part of a message again, a fault of its own has
\* paid for it: a lost or unusable answer, a send deadline, a refused
\* acknowledgement or a crash.  Competing dispatchers repeat nothing by themselves,
\* nor do dead letters, however often they are rearmed and requeued: a clone takes
\* up what its source has not acknowledged, and no message is enqueued twice.
THEOREM RepetitionsAreOwed == DispatchSpec => []RepeatsNeedFaults
<1>1. IInv /\ DispatchInv => RepeatsNeedFaults
  <2> SUFFICES ASSUME IInv, DispatchInv
               PROVE  repeats <= faults
    BY DEF RepeatsNeedFaults
  <2>1. Cardinality(Debt) \in Nat /\ repeats + Cardinality(Debt) <= faults
    BY DebtFinite DEF IInv, DispatchInv, DebtBound
  <2>2. repeats \in Nat /\ faults \in Nat
    BY DEF DispatchInv, DispatchType
  <2> QED BY <2>1, <2>2
<1> QED BY <1>1, DispatchInvariance, PTL

-----------------------------------------------------------------------------
(* The store and its dispatchers are an ordered outbox.                    *)

\* What OrderedOutbox sees of the store and the chat.
Seen == <<1 .. lastId, [i \in PendingIds |-> notes[i].count], wereDead, Shown>>

LEMMA CountsKept ==
  ASSUME Assumptions, IInv, [Next]_vars
  PROVE  \A i \in DOMAIN notes \cap DOMAIN notes' : notes'[i].count = notes[i].count
BY NextRows DEF RowsFollow, StepOfNotes, SameNote

LEMMA UnseenStep ==
  ASSUME PendingIds' = PendingIds, \A i \in PendingIds : notes'[i].count = notes[i].count,
         UNCHANGED <<lastId, wereDead>>, Shown' = Shown
  PROVE  UNCHANGED Seen
BY DEF Seen

\* What a dispatcher posts is next in its message, and every older message that
\* waits was a dead letter.
LEMMA PostingIsShowing ==
  ASSUME Assumptions, IInv, DispatchInv, NEW o \in Owners,
         At(o, "sending"), Show(o), UNCHANGED <<notes, lastId, wereDead>>
  PROVE  [Delivery!Next]_Seen
<1> DEFINE i == worker[o].note
           c == worker[o].chunk
<1>1. /\ worker[o].pc = "sending" /\ worker[o] \in Worker /\ posted \in Seq(Nat \X Nat)
  BY DEF At, DispatchInv, DispatchType
<1>2. /\ i \in PendingIds /\ i \in DOMAIN notes /\ notes[i].next = c
      /\ notes[i].state = "pending" /\ i \in Nat /\ c \in Nat /\ Chunk(o) = <<i, c>>
  BY <1>1 DEF DispatchInv, Claims, HoldsClaim, PendingIds, Pending, Worker, Chunk
<1>3. Shown' = Shown \cup {<<i, c>>}
  <2>1. Chunk(o) \in Nat \X Nat
    BY <1>2
  <2>2. Shown' = Shown \cup {Chunk(o)}
    BY <1>1, <2>1, ShowPosts
  <2> QED BY <1>2, <2>2
<1>4. PendingIds' = PendingIds
  BY DEF PendingIds
<1>5. CASE Chunk(o) \in Shown
  BY <1>2, <1>3, <1>4, <1>5, UnseenStep
<1>6. CASE Chunk(o) \notin Shown
  <2>1. c \in 0 .. notes[i].count - 1
    BY <1>2 DEF IInv, TypeOK, UnfinishedHasChunk, Note
  <2>2. \A b \in 0 .. c - 1 : <<i, b>> \in Shown
    BY <1>2 DEF DispatchInv, AcknowledgedWasShown
  <2>3. \A j \in PendingIds : j < i => j \in wereDead
    BY <1>1 DEF DispatchInv, LateWereDead, PendingIds, IInv, TypeOK
  <2>4. Delivery!Show(i, c)
    BY <1>2, <1>3, <1>4, <1>6, <2>2, <2>3 DEF Delivery!Show
  <2> QED BY <1>2, <2>1, <2>4 DEF Delivery!Next
<1> QED BY <1>5, <1>6

\* A message leaves with the acknowledgement of its last chunk.
LEMMA AcknowledgedIds ==
  ASSUME Assumptions, IInv, NEW o \in Owners, NEW i, NEW c, AcknowledgeChunk(o, i, c)
  PROVE  PendingIds' = IF CompletesNote(i) THEN PendingIds \ {i} ELSE PendingIds
<1> DEFINE done == CompletesNote(i)
           row == Acked(notes[i], done)
           acked == [notes EXCEPT ![i] = row]
<1>1. /\ i \in DOMAIN notes /\ notes[i] \in Note /\ notes[i].state = "pending"
      /\ notes \in [DOMAIN notes -> Note]
  BY DEF IInv, TypeOK, AcknowledgeChunk, HoldsClaim, PendingIds, Pending
<1>2. row \in Note /\ row.state = IF done THEN "completed" ELSE "pending"
  <2>1. PICK u \in Note : u = Unleased(notes[i]) /\ u.state = "pending" /\ u.next + 1 \in Nat
    BY <1>1, RowUpdates DEF Note, IInv, TypeOK
  <2>2. CASE done
    <3>1. row = [u EXCEPT !.next = u.next + 1, !.state = "completed",
                          !.attempts = 0, !.retryAt = None]
      BY <2>1, <2>2 DEF Acked
    <3> HIDE DEF row, done
    <3> QED BY <2>1, <2>2, <3>1 DEF Note, Option, States
  <2>3. CASE ~done
    <3>1. row = [u EXCEPT !.next = u.next + 1, !.state = "pending",
                          !.attempts = 0, !.retryAt = None]
      BY <2>1, <2>3 DEF Acked
    <3> HIDE DEF row, done
    <3> QED BY <2>1, <2>3, <3>1 DEF Note, Option, States
  <2> QED BY <2>2, <2>3
<1> HIDE DEF row
<1>3. /\ acked \in [DOMAIN acked -> Note] /\ DOMAIN acked = DOMAIN notes
      /\ \A j \in DOMAIN notes : acked[j] = IF j = i THEN row ELSE notes[j]
  BY <1>1, <1>2
<1>4. notes' = PruneNotes(acked, now) \/ notes' = acked
  BY DEF AcknowledgeChunk, row
<1> HIDE DEF acked, done
<1>5. KeepsUnfinished(notes', acked)
  BY <1>3, <1>4, PruneKeepsUnfinished DEF KeepsUnfinished, SameNote
<1>6. PendingIds' = {j \in DOMAIN notes : acked[j].state = "pending"}
  BY <1>3, <1>5 DEF KeepsUnfinished, PendingIds, Pending
<1>7. PendingIds' = IF done THEN PendingIds \ {i} ELSE PendingIds
  BY <1>1, <1>2, <1>3, <1>6 DEF PendingIds, Pending
<1> QED BY <1>7 DEF done

LEMMA AcknowledgingIsDelivering ==
  ASSUME Assumptions, IInv, DispatchInv, [Next]_vars, NEW o \in Owners, Acknowledge(o)
  PROVE  [Delivery!Next]_Seen
<1> PICK i : i = worker[o].note
  OBVIOUS
<1>1. /\ AcknowledgeChunk(o, i, worker[o].chunk) /\ worker[o].pc = "acking"
      /\ UNCHANGED <<lastId, posted, wereDead>>
  BY DEF Acknowledge, AcknowledgeChunk, At
<1>2. /\ i \in PendingIds /\ i \in DOMAIN notes /\ notes[i] \in Note
      /\ notes[i].next = worker[o].chunk
  BY <1>1 DEF AcknowledgeChunk, HoldsClaim, PendingIds, IInv, TypeOK
<1>3. /\ PendingIds' = IF CompletesNote(i) THEN PendingIds \ {i} ELSE PendingIds
      /\ Shown' = Shown
      /\ \A j \in PendingIds' \cap PendingIds : notes'[j].count = notes[j].count
  BY <1>1, AcknowledgedIds, CountsKept DEF Shown, PendingIds
<1>4. CASE ~CompletesNote(i)
  BY <1>1, <1>3, <1>4, UnseenStep
<1>5. CASE CompletesNote(i)
  <2>1. ASSUME NEW c \in 0 .. notes[i].count - 1
        PROVE  <<i, c>> \in Shown
    <3>1. c \in 0 .. notes[i].next - 1 \/ c = notes[i].next
      BY <1>2, <1>5 DEF CompletesNote, Note
    <3>2. <<i, notes[i].next>> \in Shown
      BY <1>1, <1>2 DEF DispatchInv, AcksFollow, Chunk
    <3> QED BY <1>2, <3>1, <3>2 DEF DispatchInv, AcknowledgedWasShown
  <2>2. Delivery!Deliver(i)
    BY <1>1, <1>2, <1>3, <1>5, <2>1 DEF Delivery!Deliver, Delivery!ShownWhole, Delivery!Without
  <2> QED BY <1>2, <2>2 DEF Delivery!Next
<1> QED BY <1>4, <1>5

\* A message that fails for good is set aside.
LEMMA FailingIsSettingAside ==
  ASSUME Assumptions, IInv, DispatchInv, NEW o \in Owners, RecordSendFailure(o)
  PROVE  [Delivery!Next]_Seen
<1> PICK i : i = worker[o].note
  OBVIOUS
<1>1. /\ RecordFailure(o, i, worker[o].chunk, worker[o].permanent)
      /\ UNCHANGED <<lastId, posted>>
      /\ wereDead' = wereDead \cup {j \in DOMAIN notes' : notes'[j].state = "dead"}
  BY DEF RecordSendFailure, RecordFailure, NoteDead
<1>2. /\ i \in DOMAIN notes /\ notes[i] \in Note /\ notes[i].state = "pending" /\ now \in Time
      /\ i \in PendingIds
  BY <1>1 DEF IInv, TypeOK, RecordFailure, HoldsClaim, PendingIds, Pending
<1>3. PICK row \in {Died(notes[i]), Delayed(notes[i])} : notes' = [notes EXCEPT ![i] = row]
  BY <1>1 DEF RecordFailure
<1>4. row.count = notes[i].count /\ row.state \in {"dead", "pending"}
  BY <1>2, <1>3, RowUpdates DEF SameText
<1>5. /\ DOMAIN notes' = DOMAIN notes
      /\ \A j \in DOMAIN notes : notes'[j] = IF j = i THEN row ELSE notes[j]
  BY <1>2, <1>3 DEF IInv, TypeOK
<1>6. \A j \in DOMAIN notes : notes[j].state = "dead" => j \in wereDead
  BY DEF DispatchInv, DeadWere
<1>7. /\ Shown' = Shown
      /\ \A j \in PendingIds : notes'[j].count = notes[j].count
  BY <1>1, <1>4, <1>5 DEF Shown, PendingIds
<1>8. CASE row.state = "pending"
  <2>1. PendingIds' = PendingIds /\ wereDead' = wereDead
    BY <1>1, <1>2, <1>5, <1>6, <1>8 DEF PendingIds, Pending
  <2> QED BY <1>1, <1>7, <2>1, UnseenStep
<1>9. CASE row.state = "dead"
  <2>1. PendingIds' = PendingIds \ {i} /\ wereDead' = wereDead \cup {i}
    BY <1>1, <1>2, <1>5, <1>6, <1>9 DEF PendingIds, Pending
  <2>2. Delivery!SetAside(i)
    BY <1>1, <1>7, <2>1 DEF Delivery!SetAside, Delivery!Without
  <2> QED BY <1>2, <2>2 DEF Delivery!Next
<1> QED BY <1>4, <1>8, <1>9

\* What others do to the store takes messages in, or returns dead ones.
LEMMA OthersTakeInOrReturn ==
  ASSUME Assumptions, IInv, IInv', DispatchInv, [Next]_vars, OutboxKept,
         UNCHANGED <<posted, wereDead>>
  PROVE  [Delivery!Next]_Seen
<1>1. Shown' = Shown /\ wereDead' = wereDead
  BY DEF Shown
<1>2. /\ lastId \in Nat /\ lastId' \in Nat /\ lastId' >= lastId
      /\ PendingIds \subseteq 1 .. lastId /\ PendingIds' \subseteq 1 .. lastId'
  BY DEF IInv, TypeOK, PendingIds, OutboxKept
<1>3. PendingIds \subseteq PendingIds'
  BY DEF OutboxKept, PendingIds
<1>4. \A i \in PendingIds : notes'[i].count = notes[i].count
  BY <1>3, CountsKept DEF PendingIds
<1>5. Delivery!SameChunks /\ Delivery!Left = {}
  BY <1>3, <1>4 DEF Delivery!SameChunks, Delivery!Left
<1>6. CASE lastId' = lastId
  <2>1. ASSUME NEW i \in PendingIds' \ PendingIds
        PROVE  i \in wereDead
    <3>1. i \in DOMAIN notes' /\ Pending(notes'[i]) /\ ~(i > lastId)
      BY <1>2, <1>6 DEF PendingIds
    <3>2. i \in DOMAIN notes /\ notes[i].state = "dead"
      BY <3>1 DEF OutboxKept, PendingIds, Pending
    <3> QED BY <3>2 DEF DispatchInv, DeadWere
  <2>2. Delivery!Return
    BY <1>1, <1>5, <1>6, <2>1 DEF Delivery!Return, Delivery!Entered
  <2> QED BY <2>2 DEF Delivery!Next
<1>7. CASE lastId' # lastId
  <2>1. \A i \in PendingIds' \ PendingIds : i \in (1 .. lastId') \ (1 .. lastId)
    BY <1>2, <1>7 DEF OutboxKept
  <2>2. ASSUME NEW i \in (1 .. lastId') \ (1 .. lastId)
        PROVE  i \in PendingIds' \ PendingIds
    <3>1. i \in lastId + 1 .. lastId' /\ i > lastId
      BY <1>2
    <3>2. i \in DOMAIN notes' /\ i \notin DOMAIN notes
      BY <3>1 DEF OutboxKept, IInv, TypeOK
    <3> QED BY <3>2 DEF OutboxKept, PendingIds
  <2>3. Delivery!Entered = Delivery!New
    BY <2>1, <2>2 DEF Delivery!Entered, Delivery!New
  <2>4. /\ 1 .. lastId \subseteq 1 .. lastId'
        /\ \A i \in 1 .. lastId, j \in (1 .. lastId') \ (1 .. lastId) : i < j
    BY <1>2
  <2>5. Delivery!TakeIn
    BY <1>1, <1>5, <2>3, <2>4 DEF Delivery!TakeIn, Delivery!New
  <2> QED BY <2>5 DEF Delivery!Next
<1> QED BY <1>6, <1>7

\* Claims and resets of leases leave everything but the leases alone.
LEMMA LeasesOnly ==
  ASSUME Assumptions, IInv, NEW o \in Owners,
         \/ UNCHANGED notes
         \/ ResetLeases
         \/ \E i \in DOMAIN notes : ClaimNotification(o, i)
  PROVE  /\ DOMAIN notes' = DOMAIN notes
         /\ \A i \in DOMAIN notes : notes'[i].state = notes[i].state
<1>1. /\ now \in Time /\ notes \in [DOMAIN notes -> Note]
      /\ \A i \in DOMAIN notes : /\ Unleased(notes[i]).state = notes[i].state
                                 /\ Leased(notes[i], o).state = notes[i].state
  BY RowUpdates DEF IInv, TypeOK
<1>2. CASE UNCHANGED notes
  BY <1>2
<1>3. CASE ResetLeases
  BY <1>1, <1>3 DEF ResetLeases
<1>4. CASE \E i \in DOMAIN notes : ClaimNotification(o, i)
  <2>1. PICK i \in DOMAIN notes : notes' = [notes EXCEPT ![i] = Leased(notes[i], o)]
    BY <1>4 DEF ClaimNotification
  <2> QED BY <1>1, <2>1
<1> QED BY <1>2, <1>3, <1>4

LEMMA DispatchStepIsDelivery ==
  ASSUME Assumptions, IInv, IInv', DispatchInv, [DispatchNext]_dispatchVars
  PROVE  [Delivery!Next]_Seen
<1>1. [Next]_vars
  BY DispatchStepIsStoreStep
<1>2. CASE UNCHANGED <<notes, lastId, posted, wereDead>>
  BY <1>2, UnseenStep DEF PendingIds, Shown
<1>3. CASE Elsewhere
  <2>1. OutboxKept
    BY <1>3, AcceptedOutbox, OtherOutbox DEF Elsewhere, Reporting
  <2> QED BY <1>1, <1>3, <2>1, OthersTakeInOrReturn DEF Elsewhere
<1>4. ASSUME NEW o \in Owners, StartDrain(o) \/ Draining(o) \/ Crash(o)
      PROVE  [Delivery!Next]_Seen
  <2>1. CASE StartDrain(o) \/ NothingDue(o) \/ AckRefused(o) \/ Crash(o) \/ TryFails(o)
               \/ RefusedForGood(o)
    BY <1>2, <2>1 DEF StartDrain, NothingDue, AckRefused, Crash, TryFails, RefusedForGood,
       NothingShown, vars, tables
  <2>2. CASE ResetStaleLeases(o) \/ Claim(o)
    <3>1. UNCHANGED <<lastId, posted, wereDead>>
      BY <2>2 DEF ResetStaleLeases, Claim, ResetLeases, ClaimNotification, vars, tables
    <3>2. DOMAIN notes' = DOMAIN notes /\ \A i \in DOMAIN notes : notes'[i].state = notes[i].state
      BY <2>2, LeasesOnly DEF ResetStaleLeases, Claim, vars, tables
    <3>3. PendingIds' = PendingIds
      BY <3>2 DEF PendingIds, Pending
    <3> QED BY <1>1, <3>1, <3>2, <3>3, CountsKept, UnseenStep DEF PendingIds, Shown
  <2>3. CASE SentAndConfirmed(o) \/ AnswerLost(o) \/ AnswerUnusable(o)
               \/ (SendDeadline(o) /\ Show(o))
    BY <2>3, PostingIsShowing DEF SentAndConfirmed, AnswerLost, AnswerUnusable, SendDeadline,
       vars, tables
  <2>4. CASE SendDeadline(o) /\ NothingShown
    BY <1>2, <2>4 DEF SendDeadline, NothingShown, vars, tables
  <2>5. CASE Acknowledge(o)
    BY <1>1, <2>5, AcknowledgingIsDelivering
  <2>6. CASE RecordSendFailure(o)
    BY <2>6, FailingIsSettingAside
  <2> QED BY <1>4, <2>1, <2>2, <2>3, <2>4, <2>5, <2>6
          DEF Draining, Sending, Concluding, SendDeadline
<1> QED BY <1>2, <1>3, <1>4 DEF DispatchNext, dispatchVars, vars, tables

\* The store and its dispatchers implement OrderedOutbox: seen through the pending
\* rows, what has been dead and what was posted, every step takes messages in,
\* shows the next chunk of one, delivers it, sets it aside or returns it, or is
\* not seen at all, for any number of dispatchers, retention, caps and faults.
THEOREM DispatchersDeliver == DispatchSpec => DeliversInOrder
<1>1. Assumptions
  BY AgentsAssumption, NoneAssumption, LimitsAssumption DEF Assumptions
<1>2. DispatchInit => Delivery!Init
  <2> SUFFICES ASSUME DispatchInit
               PROVE  Delivery!Init
    OBVIOUS
  <2>1. PendingIds = {} /\ Shown = {} /\ wereDead = {} /\ 1 .. lastId = {}
    BY DEF DispatchInit, Init, PendingIds, Shown, Range
  <2> QED BY <2>1 DEF Delivery!Init
<1>3. IInv /\ IInv' /\ DispatchInv /\ [DispatchNext]_dispatchVars => [Delivery!Next]_Seen
  BY <1>1, DispatchStepIsDelivery
<1> QED BY <1>2, <1>3, DispatchInvariance, PTL
        DEF DispatchSpec, DeliversInOrder, Delivery!Spec, Seen

=============================================================================
