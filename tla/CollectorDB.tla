---------------------------- MODULE CollectorDB ----------------------------
(***************************************************************************)
(* The collector's SQLite store, litechecker/collector/db.py.              *)
(*                                                                         *)
(* Every public method of CollectorDB runs in one BEGIN IMMEDIATE          *)
(* transaction that commits completely or rolls back completely, so each   *)
(* method is one action here.  A call that raises or returns without       *)
(* writing (a duplicate report, a refused report, a claim that finds no    *)
(* due head, a lost claim) leaves every table as it was: it is a           *)
(* stuttering step and needs no action of its own.                         *)
(*                                                                         *)
(* A report carries the time at which its handler received it, captured    *)
(* before its transaction waits for a thread and for the database: other   *)
(* transactions, with later times, may commit in between.                  *)
(*                                                                         *)
(* Abstracted: message bodies (only their number of chunks is kept), the   *)
(* measurement columns of events and results, agent_boots (written, never  *)
(* read), error codes and the schema migrations.                           *)
(***************************************************************************)
EXTENDS Integers, FiniteSets, Functions

CONSTANTS
  Agents,           \* the registered agents; numbers, in agent_id order
  Boots,            \* boot identifiers an agent may report under
  Sequences,        \* report sequence numbers an agent may send
  Digests,          \* digests of report payloads
  ReportChunks,     \* chunk counts a formatted report may have
  Owners,           \* lease owners, one per dispatcher instance
  None,             \* SQL NULL
  Interval,         \* expected_interval_seconds of each agent
  OfflineThreshold, \* offline_threshold_seconds
  ReportBurst, ReportWindow,
  EventRetention, MaxEventsPerAgent,
  CompletedRetention, MaxCompleted,
  MaxDeadLetters,
  MaxPendingPerAgent, MaxPendingGlobal,
  MaxChunksPerAgent, MaxChunksGlobal,
  LeaseTime, MaxAttempts, RetryDelay,
  ReportDelay,      \* bound of the model on how long a report waits for its transaction
  MaxTime,          \* bound of the model on the clock
  MaxNotes,         \* bound of the model on notification ids
  MaxReactivations  \* bound of the model on registry reactivations

ASSUME AgentsAssumption == Agents \subseteq Nat /\ IsFiniteSet(Agents)

ASSUME NoneAssumption ==
  None \notin Nat /\ None \notin Owners /\ None \notin {"REPORT", "OFFLINE", "RECOVERY"}

ASSUME LimitsAssumption ==
  /\ Sequences \subseteq Nat
  /\ ReportChunks \subseteq Nat \ {0}
  /\ Interval \in [Agents -> Nat \ {0}]
  /\ {OfflineThreshold, ReportBurst, ReportWindow, MaxEventsPerAgent, MaxCompleted,
      MaxDeadLetters, MaxPendingPerAgent, MaxPendingGlobal, MaxChunksPerAgent,
      MaxChunksGlobal, LeaseTime, MaxAttempts} \subseteq Nat \ {0}
  /\ {EventRetention, CompletedRetention, RetryDelay, ReportDelay,
      MaxTime, MaxNotes, MaxReactivations} \subseteq Nat

VARIABLES
  now,        \* the wall clock
  agents,     \* table agents, by agent
  events,     \* table events, by event id
  notes,      \* tables notifications and notification_chunks, by id
  lastId,     \* the AUTOINCREMENT counter of notifications
  accepted,   \* history: received_at of every event ever accepted
  alerts,     \* history: kind of the newest OFFLINE/RECOVERY notification
  reactivated, \* history: number of registry reactivations of each agent
  reopened,   \* history: how often a report from before its rate window began it anew
  checked     \* history: the watchdog has found agents offline at this instant

tables == <<agents, events, notes, lastId>>
history == <<accepted, alerts, reactivated, reopened, checked>>
vars == <<now, tables, history>>

-----------------------------------------------------------------------------
(* Rows.                                                                   *)

Time == Nat
Option(S) == S \cup {None}

\* event_id is f"{agent_id}:{boot_id}:{sequence}".
EventIds == Agents \X Boots \X Sequences

Event == [digest : Digests, at : Time]

Agent == [active : BOOLEAN, lastSeen : Option(Time), activatedAt : Time,
          offline : BOOLEAN, maxSequence : Option(Nat),
          windowStart : Option(Time), rateCount : Nat]

Kinds == {"REPORT", "OFFLINE", "RECOVERY"}

\* The columns completed, dead_letter and requeued: completed excludes
\* dead_letter in every UPDATE of the code, and requeued is set only on a
\* dead letter, so the three flags take four values.
States == {"pending", "completed", "dead", "requeued"}

Note == [kind : Kinds, agent : Agents, event : Option(EventIds), created : Time,
         next : Nat, count : Nat \ {0}, state : States,
         owner : Option(Owners), until : Option(Time),
         attempts : Nat, retryAt : Option(Time),
         source : Option(Nat), clone : Option(Nat)]

Pending(n) == n.state = "pending"

\* Pending, or a dead letter that nobody has requeued.
Unresolved(n) == n.state \in {"pending", "dead"}

\* The UNIQUE column dedupe_key: REPORT:event, RECOVERY:event,
\* OFFLINE:agent:time or REQUEUE:source.
DedupeKey(n) ==
  IF n.source # None THEN <<"REQUEUE", n.source>>
  ELSE IF n.kind = "OFFLINE" THEN <<"OFFLINE", n.agent, n.created>>
  ELSE <<n.kind, n.event[1], n.event[2], n.event[3]>>

IdsOf(ns, a) == {i \in DOMAIN ns : ns[i].agent = a}
PendingIds == {i \in DOMAIN notes : Pending(notes[i])}
PendingOf(a) == PendingIds \cap IdsOf(notes, a)
DeadOf(a) == {i \in IdsOf(notes, a) : notes[i].state = "dead"}
UnresolvedOf(a) == {i \in IdsOf(notes, a) : Unresolved(notes[i])}

Put(f, x, v) == [y \in DOMAIN f \cup {x} |-> IF y = x THEN v ELSE f[y]]

-----------------------------------------------------------------------------
(* Capacity and retention.                                                 *)

\* SUM(chunk_count - next_chunk) over a set of notifications.
ChunksLeft(ids) == SumFunctionOnSet([i \in ids |-> notes[i].count - notes[i].next], ids)

\* _ensure_pending_capacity: room for some notifications of one agent.
HasRoom(a, additions, chunks) ==
  /\ Cardinality(PendingOf(a)) + additions <= MaxPendingPerAgent
  /\ Cardinality(PendingIds) + additions <= MaxPendingGlobal
  /\ ChunksLeft(PendingOf(a)) + chunks <= MaxChunksPerAgent
  /\ ChunksLeft(PendingIds) + chunks <= MaxChunksGlobal

\* requeued_notification_id REFERENCES notifications ON DELETE SET NULL.
DeleteNotes(ns, gone) ==
  [i \in DOMAIN ns \ gone |->
     [ns[i] EXCEPT !.clone = IF @ \in gone THEN None ELSE @]]

AgedNotes(ns, at) ==
  {i \in DOMAIN ns : ns[i].state = "completed" /\ ns[i].created < at - CompletedRetention}

SurplusNotes(ns) ==
  LET done == {i \in DOMAIN ns : ns[i].state = "completed"}
  IN  {i \in done : Cardinality({j \in done : j > i}) >= MaxCompleted}

\* The first two statements of _prune_history, at the caller's time.
PruneNotes(ns, at) ==
  LET kept == DeleteNotes(ns, AgedNotes(ns, at))
  IN  DeleteNotes(kept, SurplusNotes(kept))

\* Mutant: only notifications that are still pending protect their event.
ProtectedByPending(ns) ==
  {ns[i].event : i \in {j \in DOMAIN ns : Pending(ns[j])}}

\* The sub-select "protected" of _prune_history.
ProtectedEvents(ns) ==
  {ns[i].event : i \in {j \in DOMAIN ns : Unresolved(ns[j])}}

\* ORDER BY received_at_us DESC, event_id DESC.  Rows of one microsecond are
\* ordered by their event_id as text; here by sequence, which nothing tells apart.
NewerEvent(evs, e, f) ==
  \/ evs[e].at > evs[f].at
  \/ evs[e].at = evs[f].at /\ e[3] > f[3]

\* The last two statements of _prune_history, against the notifications ns.
PruneEvents(evs, ns, a, maxEvents, at) ==
  LET free == {e \in DOMAIN evs : e[1] = a /\ e \notin ProtectedEvents(ns)}
      aged == {e \in free : evs[e].at < at - EventRetention}
      rest == free \ aged
      surplus == {e \in rest :
                    Cardinality({f \in rest : NewerEvent(evs, f, e)}) >= maxEvents}
  IN  Restrict(evs, DOMAIN evs \ (aged \cup surplus))

-----------------------------------------------------------------------------
(* accept_report.                                                          *)

NewNote(kind, a, event, count, at) ==
  [kind |-> kind, agent |-> a, event |-> event, created |-> at,
   next |-> 0, count |-> count, state |-> "pending",
   owner |-> None, until |-> None, attempts |-> 0, retryAt |-> None,
   source |-> None, clone |-> None]

Stored(id) == id \in DOMAIN events

\* Mutant: the high water is kept per boot, as agent_boots would do.
FreshSequencePerBoot(a, b, s) ==
  \A e \in DOMAIN events : e[1] = a /\ e[2] = b => s > e[3]

\* report.sequence against agents.max_sequence, whatever the boot.
FreshSequence(a, b, s) ==
  agents[a].maxSequence # None => s > agents[a].maxSequence

\* Mutant: a dead letter backlog does not stop admission.
AnyDeadLetterBacklog(a) == a \in Agents

DeadLetterRoom(a) == Cardinality(DeadOf(a)) < MaxDeadLetters

\* A report received before the window of its agent began: another one, received
\* later, has overtaken it.
Overtaken(a, at) == agents[a].windowStart # None /\ at < agents[a].windowStart

\* Mutant: the window restarts with every accepted report.
WindowRestartsAlways(a, at) == agents[a].windowStart = None \/ at >= 0

\* The fixed rate window has not started, lies in the report's future or is over.
WindowOver(a, at) ==
  \/ agents[a].windowStart = None
  \/ Overtaken(a, at)
  \/ at - agents[a].windowStart >= ReportWindow

RateCount(a, at) == IF WindowOver(a, at) THEN 0 ELSE agents[a].rateCount

\* The notifications one report enqueues: RECOVERY (one chunk) before REPORT
\* when the report ends an offline period.
Additions(a) == IF agents[a].offline THEN 2 ELSE 1
AddedChunks(a, chunks) == IF agents[a].offline THEN chunks + 1 ELSE chunks

Admissible(a, b, s, chunks, at) ==
  /\ agents[a].active
  /\ ~Stored(<<a, b, s>>)
  /\ FreshSequence(a, b, s)
  /\ DeadLetterRoom(a)
  /\ RateCount(a, at) < ReportBurst
  /\ HasRoom(a, Additions(a), AddedChunks(a, chunks))

LaterOf(t, u) == IF t = None \/ u > t THEN u ELSE t

\* The agent's row after an accepted report with sequence s.
Heard(a, s, at) ==
  [agents[a] EXCEPT !.lastSeen = LaterOf(@, at), !.offline = FALSE, !.maxSequence = s,
                    !.windowStart = IF WindowOver(a, at) THEN at ELSE @,
                    !.rateCount = RateCount(a, at) + 1]

\* received_at is captured before the await of the transaction, in the process
\* that commits it: the agent was active then.
ReceptionTimes(a) ==
  {at \in 0 .. now : at + ReportDelay >= now /\ at >= agents[a].activatedAt}

AcceptReport(a, b, s, d, chunks, at) ==
  LET id == <<a, b, s>>
      report == NewNote("REPORT", a, id, chunks, at)
      pruned == PruneNotes(notes, at)
      queued == IF agents[a].offline
                THEN Put(Put(pruned, lastId + 1, NewNote("RECOVERY", a, id, 1, at)),
                         lastId + 2, report)
                ELSE Put(pruned, lastId + 1, report)
      slots == IF MaxEventsPerAgent > 1 THEN MaxEventsPerAgent - 1 ELSE 1
      room == PruneEvents(events, pruned, a, slots, at)
  IN  /\ lastId + Additions(a) <= MaxNotes
      /\ Admissible(a, b, s, chunks, at)
      /\ notes' = PruneNotes(queued, at)
      /\ events' = PruneEvents(Put(room, id, [digest |-> d, at |-> at]),
                               PruneNotes(queued, at), a, MaxEventsPerAgent, at)
      /\ lastId' = lastId + Additions(a)
      /\ agents' = [agents EXCEPT ![a] = Heard(a, s, at)]
      /\ accepted' = Put(accepted, id, at)
      /\ alerts' = IF agents[a].offline THEN [alerts EXCEPT ![a] = "RECOVERY"]
                                        ELSE alerts
      /\ reopened' = IF Overtaken(a, at) THEN [reopened EXCEPT ![a] = @ + 1] ELSE reopened
      /\ UNCHANGED <<now, reactivated, checked>>

-----------------------------------------------------------------------------
(* offline_transitions.                                                    *)

Evidence(a) == IF agents[a].lastSeen # None THEN agents[a].lastSeen
                                            ELSE agents[a].activatedAt

\* max(offline_threshold, ceil(interval * 5 / 2)).
Threshold(a) ==
  LET patience == (Interval[a] * 5 + 1) \div 2
  IN  IF patience > OfflineThreshold THEN patience ELSE OfflineThreshold

\* Mutant: agents already offline are reported again.
OverdueAgain ==
  {a \in Agents : agents[a].active /\ now - Evidence(a) >= Threshold(a)}

Overdue ==
  {a \in Agents : /\ agents[a].active
                  /\ ~agents[a].offline
                  /\ now - Evidence(a) >= Threshold(a)}

\* The capacity check is repeated for each overdue agent after the previous
\* one was enqueued; the first that fails rolls all of them back.
RoomForAll(late) ==
  /\ \A a \in late : HasRoom(a, 1, 1)
  /\ Cardinality(PendingIds) + Cardinality(late) <= MaxPendingGlobal
  /\ ChunksLeft(PendingIds) + Cardinality(late) <= MaxChunksGlobal

\* The watchdog is one task that sleeps between its checks, so that no two checks
\* are of one instant.
OfflineTransitions ==
  LET late == Overdue
      added == lastId + 1 .. lastId + Cardinality(late)
  IN  /\ late # {}
      /\ ~checked
      /\ lastId + Cardinality(late) <= MaxNotes
      /\ RoomForAll(late)
      /\ agents' = [a \in Agents |->
           IF a \in late THEN [agents[a] EXCEPT !.offline = TRUE] ELSE agents[a]]
      /\ \E turn \in [added -> late] :
           /\ \A i, j \in added : i < j => turn[i] < turn[j]
           /\ notes' = [i \in DOMAIN notes \cup added |->
                IF i \in added THEN NewNote("OFFLINE", turn[i], None, 1, now) ELSE notes[i]]
      /\ lastId' = lastId + Cardinality(late)
      /\ alerts' = [a \in Agents |-> IF a \in late THEN "OFFLINE" ELSE alerts[a]]
      /\ checked' = TRUE
      /\ UNCHANGED <<now, events, accepted, reactivated, reopened>>

-----------------------------------------------------------------------------
(* The outbox: claims, acknowledgements, failures.                         *)

\* Mutant: the claim does not take the oldest pending notification.
AnyPending(i) == i \in PendingIds

\* ORDER BY notification_id LIMIT 1 over the pending notifications.
IsHead(i) == i \in PendingIds /\ \A j \in PendingIds : i <= j

Due(i) == notes[i].retryAt # None => notes[i].retryAt <= now

\* Whoever holds a lease that has not run out is this owner.
LeaseFree(i, o) ==
  notes[i].until # None /\ notes[i].until > now => notes[i].owner = o

Claimable(i, o) == IsHead(i) /\ Due(i) /\ LeaseFree(i, o)

Leased(n, o) == [n EXCEPT !.owner = o, !.until = now + LeaseTime]
Unleased(n) == [n EXCEPT !.owner = None, !.until = None]

ClaimNotification(o, i) ==
  /\ Claimable(i, o)
  /\ notes' = [notes EXCEPT ![i] = Leased(@, o)]
  /\ UNCHANGED <<now, agents, events, lastId, history>>

\* The claim (notification, chunk) an owner presents is still the one leased.
HoldsClaim(i, o, c) ==
  i \in PendingIds /\ notes[i].owner = o /\ notes[i].next = c

LeaseLive(i) == notes[i].until # None /\ notes[i].until > now

CompletesNote(i) == notes[i].next + 1 >= notes[i].count

Acked(n, done) ==
  [Unleased(n) EXCEPT !.next = @ + 1, !.state = IF done THEN "completed" ELSE @,
                      !.attempts = 0, !.retryAt = None]

AcknowledgeChunk(o, i, c) ==
  LET done == CompletesNote(i)
      acked == [notes EXCEPT ![i] = Acked(@, done)]
  IN  /\ HoldsClaim(i, o, c)
      /\ LeaseLive(i)
      /\ notes' = IF done THEN PruneNotes(acked, now) ELSE acked
      /\ events' = IF done THEN PruneEvents(events, PruneNotes(acked, now), notes[i].agent,
                                            MaxEventsPerAgent, now)
                           ELSE events
      /\ UNCHANGED <<now, agents, lastId, history>>

Died(n) == [Unleased(n) EXCEPT !.attempts = @ + 1, !.retryAt = None, !.state = "dead"]

Delayed(n) == [Unleased(n) EXCEPT !.attempts = @ + 1, !.retryAt = now + RetryDelay]

\* No expiry check: an owner may report a failure after its lease ran out.
RecordFailure(o, i, c, permanent) ==
  /\ HoldsClaim(i, o, c)
  /\ notes' = [notes EXCEPT ![i] =
       IF permanent \/ @.attempts + 1 >= MaxAttempts THEN Died(@) ELSE Delayed(@)]
  /\ UNCHANGED <<now, agents, events, lastId, history>>

ReleaseNotification(o, i) ==
  /\ i \in PendingIds
  /\ notes[i].owner = o
  /\ notes' = [notes EXCEPT ![i] = Unleased(@)]
  /\ UNCHANGED <<now, agents, events, lastId, history>>

\* Mutant: leases left behind are not cleared.
LeasesIgnored == PendingIds \subseteq DOMAIN notes

NoLeases == \A i \in PendingIds : notes[i].owner = None

ResetLeases ==
  /\ ~NoLeases
  /\ notes' = [i \in DOMAIN notes |->
       IF Pending(notes[i]) THEN Unleased(notes[i]) ELSE notes[i]]
  /\ UNCHANGED <<now, agents, events, lastId, history>>

-----------------------------------------------------------------------------
(* Operator actions on dead letters.                                       *)

\* Mutant: a dead letter may be requeued more than once.
RequeueableAgain(i) ==
  i \in DOMAIN notes /\ notes[i].state \in {"dead", "requeued"}

Requeueable(i) ==
  i \in DOMAIN notes /\ notes[i].state = "dead"

\* Mutant: the clone restarts from the first chunk.
WholeMessage(i) == notes[i].count

\* The chunks from next_chunk on: the ones Telegram has not acknowledged.
Remainder(i) == notes[i].count - notes[i].next

CloneOf(i) ==
  [NewNote(notes[i].kind, notes[i].agent, notes[i].event, Remainder(i), now)
     EXCEPT !.retryAt = now, !.source = i]

Requeued(n, id) == [n EXCEPT !.state = "requeued", !.clone = id]

\* The remaining chunks go to the tail of the outbox as a new notification.
RequeueDeadLetter(i) ==
  /\ Requeueable(i)
  /\ lastId < MaxNotes
  /\ Remainder(i) >= 1
  /\ HasRoom(notes[i].agent, 1, Remainder(i))
  /\ notes' = Put([notes EXCEPT ![i] = Requeued(@, lastId + 1)], lastId + 1, CloneOf(i))
  /\ lastId' = lastId + 1
  /\ UNCHANGED <<now, agents, events, history>>

Rearmed(n) == [Unleased(n) EXCEPT !.state = "pending", !.attempts = 0, !.retryAt = now]

\* Every unresolved dead letter is rearmed in place, with no capacity check.
RetryDeadLetters ==
  /\ \E i \in DOMAIN notes : notes[i].state = "dead"
  /\ notes' = [i \in DOMAIN notes |->
       IF notes[i].state = "dead" THEN Rearmed(notes[i]) ELSE notes[i]]
  /\ UNCHANGED <<now, agents, events, lastId, history>>

-----------------------------------------------------------------------------
(* Start of a process with a (changed) agent registry; time.               *)

\* The row of an agent the registry lists again (or for the first time).
Reactivated(row) ==
  [row EXCEPT !.active = TRUE, !.lastSeen = None, !.activatedAt = now,
              !.offline = FALSE, !.windowStart = None, !.rateCount = 0]

SyncRegistry(registry) ==
  LET back == {a \in registry : ~agents[a].active}
  IN  /\ registry # {a \in Agents : agents[a].active}
      /\ \A a \in back : reactivated[a] < MaxReactivations
      /\ agents' = [a \in Agents |->
           IF a \in back THEN Reactivated(agents[a])
           ELSE [agents[a] EXCEPT !.active = (a \in registry)]]
      /\ alerts' = [a \in Agents |-> IF a \in back THEN None ELSE alerts[a]]
      /\ reactivated' = [a \in Agents |-> reactivated[a] + IF a \in back THEN 1 ELSE 0]
      /\ UNCHANGED <<now, events, notes, lastId, accepted, reopened, checked>>

Tick ==
  /\ now < MaxTime
  /\ now' = now + 1
  /\ checked' = FALSE
  /\ UNCHANGED <<tables, accepted, alerts, reactivated, reopened>>

-----------------------------------------------------------------------------

Init ==
  /\ now = 0
  /\ agents = [a \in Agents |->
       [active |-> TRUE, lastSeen |-> None, activatedAt |-> 0, offline |-> FALSE,
        maxSequence |-> None, windowStart |-> None, rateCount |-> 0]]
  /\ events = [e \in {} |-> None]
  /\ notes = [i \in {} |-> None]
  /\ lastId = 0
  /\ accepted = [e \in {} |-> None]
  /\ alerts = [a \in Agents |-> None]
  /\ reactivated = [a \in Agents |-> 0]
  /\ reopened = [a \in Agents |-> 0]
  /\ checked = FALSE

Reporting ==
  \E a \in Agents, b \in Boots, s \in Sequences, d \in Digests, k \in ReportChunks :
    \E at \in ReceptionTimes(a) : AcceptReport(a, b, s, d, k, at)

Dispatching ==
  \E o \in Owners, i \in DOMAIN notes :
    \/ ClaimNotification(o, i)
    \/ AcknowledgeChunk(o, i, notes[i].next)
    \/ \E permanent \in BOOLEAN : RecordFailure(o, i, notes[i].next, permanent)
    \/ ReleaseNotification(o, i)

Repairing ==
  \/ ResetLeases
  \/ RetryDeadLetters
  \/ \E i \in DOMAIN notes : RequeueDeadLetter(i)

Next ==
  \/ Reporting
  \/ OfflineTransitions
  \/ Dispatching
  \/ Repairing
  \/ \E registry \in SUBSET Agents : SyncRegistry(registry)
  \/ Tick

Spec == Init /\ [][Next]_vars

-----------------------------------------------------------------------------
(* Properties.                                                             *)

\* Every column holds a value of its declared type and satisfies its CHECKs,
\* and no notification id exceeds the AUTOINCREMENT counter (schema of db.py).
TypeOK ==
  /\ now \in Time
  /\ agents \in [Agents -> Agent]
  /\ DOMAIN events \subseteq EventIds
  /\ events \in [DOMAIN events -> Event]
  /\ lastId \in Nat
  /\ DOMAIN notes \subseteq 1 .. lastId
  /\ notes \in [DOMAIN notes -> Note]
  /\ \A i \in DOMAIN notes : notes[i].next <= notes[i].count
  /\ DOMAIN accepted \subseteq EventIds
  /\ accepted \in [DOMAIN accepted -> Time]
  /\ alerts \in [Agents -> Option(Kinds)]
  /\ reactivated \in [Agents -> Nat] /\ reopened \in [Agents -> Nat]
  /\ checked \in BOOLEAN

\* Retention never deletes the event behind a notification that is still to be
\* delivered or is an unresolved dead letter, however the age and count rules
\* of _prune_history, requeues and rearmed dead letters are interleaved.
UnresolvedKeepsEvent ==
  \A i \in DOMAIN notes :
    Unresolved(notes[i]) /\ notes[i].event # None => notes[i].event \in DOMAIN events

\* A claim always finds a chunk to send (otherwise claim_notification raises
\* notification-outbox-corrupt), a requeue always has a remainder, and a
\* notification is completed exactly when its last chunk is acknowledged.
UnfinishedHasChunk ==
  \A i \in DOMAIN notes :
    /\ notes[i].next <= notes[i].count
    /\ notes[i].state = "completed" <=> notes[i].next = notes[i].count

\* No INSERT into notifications can hit the UNIQUE constraint on dedupe_key
\* (which would turn an admissible report into a 503 for ever): the keys of the
\* retained rows are distinct although events are deleted and agents return.
DedupeKeysUnique ==
  \A i, j \in DOMAIN notes :
    DedupeKey(notes[i]) = DedupeKey(notes[j]) => i = j

\* What an agent can have waiting or dead: the pending cap and the dead letter
\* cap bound the sum, because admission checks both; an OFFLINE notice, which
\* ignores the dead letter cap, is paid for by the offline flag, and every
\* return of the agent to the registry can add one more.
BacklogBound ==
  \A a \in Agents :
    Cardinality(UnresolvedOf(a)) + (IF agents[a].offline THEN 0 ELSE 1)
      <= MaxPendingPerAgent + MaxDeadLetters + reactivated[a]

\* The fixed window lets at most two bursts of reports of one agent, less one,
\* be received in any span of the window's length: the first report of a window
\* begins it.  Each return of the agent to the registry and each report that was
\* overtaken by the one that began the window breaks the row of windows, and may
\* add as much again.
RateBound ==
  \A a \in Agents : \A t \in 0 .. now :
    Cardinality({e \in DOMAIN accepted :
                   e[1] = a /\ accepted[e] >= t /\ accepted[e] < t + ReportWindow})
      <= (2 * ReportBurst - 1) * (1 + reactivated[a] + reopened[a])

\* An event, once accepted, is never accepted again: not after retention has
\* deleted its row, not under another boot, not after the agent was dropped
\* from the registry and listed again; and sequences only ever increase.
AcceptedOnceStep ==
  \A e \in DOMAIN events' \ DOMAIN events :
    \A f \in DOMAIN accepted : f[1] = e[1] => f[3] < e[3]

AcceptedOnce == [][AcceptedOnceStep]_vars

\* The admission of reports implements what agents rely on: per agent, one
\* report at a time in increasing sequence, whatever boots, retention and
\* registry changes do to the stored rows.
Admission == INSTANCE ReportAdmission WITH log <- {<<e[1], e[3]>> : e \in DOMAIN accepted}

AdmitsInOrder == Admission!Spec

\* Each agent's alerts alternate: OFFLINE is enqueued only if the last alert
\* was not OFFLINE, RECOVERY only after an OFFLINE (clones of dead letters and
\* a reset by the registry apart).
FreshAlerts(a, kind) ==
  \E i \in DOMAIN notes' \ DOMAIN notes :
    notes'[i].agent = a /\ notes'[i].kind = kind /\ notes'[i].source = None

AlertsAlternateStep ==
  \A a \in Agents :
    /\ FreshAlerts(a, "OFFLINE") => alerts[a] # "OFFLINE"
    /\ FreshAlerts(a, "RECOVERY") => alerts[a] = "OFFLINE"

AlertsAlternate == [][AlertsAlternateStep]_vars

=============================================================================
