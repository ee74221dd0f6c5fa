-------------------------- MODULE CollectorService --------------------------
(***************************************************************************)
(* The collector process, litechecker/collector/app.py: the report         *)
(* handlers, the watchdog task and the outbox task, which share the store  *)
(* and two asyncio events.  A handler commits in a worker thread and       *)
(* signals the outbox task in a later step of the event loop.              *)
(*                                                                         *)
(* The store is reduced to what decides who is woken and when: the queue   *)
(* of pending notifications with their retry state, the dead letters and   *)
(* each agent's offline flag.  A notification is one chunk, and its claim, *)
(* send and acknowledgement are one step: CollectorDB and OutboxDispatch   *)
(* hold the detail.  Time is reduced to its effects: an agent becomes      *)
(* overdue, a retry becomes due, a sleep ends.                             *)
(***************************************************************************)
EXTENDS Integers, Sequences, FiniteSets, Functions

CONSTANTS
  Agents,
  MaxPendingPerAgent, MaxPendingGlobal, MaxDeadLetters, MaxAttempts,
  MaxFaults  \* bound of the model on Telegram outages, failed drains, restarts

ASSUME ServiceAssumption ==
  /\ IsFiniteSet(Agents) /\ "watchdog" \notin Agents
  /\ {MaxPendingPerAgent, MaxPendingGlobal, MaxDeadLetters, MaxAttempts} \subseteq Nat \ {0}
  /\ MaxFaults \in Nat

VARIABLES
  queue,     \* pending notifications, oldest first
  dead,      \* number of unresolved dead letters of each agent
  overdue,   \* agents silent for longer than their threshold
  offline,   \* agents.offline
  reported,  \* agents with a stored event
  event,     \* app.state.outbox_event
  idle,      \* app.state.outbox_idle
  loop,      \* where _outbox_loop is
  toSignal,  \* tasks that have committed and not signalled yet
  telegram,  \* whether Telegram takes messages
  faults     \* number of outages, failed drains and restarts so far

store == <<queue, dead, overdue, offline, reported>>
loopVars == <<event, idle, loop>>
vars == <<store, loopVars, toSignal, telegram, faults>>

Notification == [agent : Agents, attempts : Nat, due : BOOLEAN]

Fresh(a) == [agent |-> a, attempts |-> 0, due |-> TRUE]

PendingCount(a) == Cardinality({i \in DOMAIN queue : queue[i].agent = a})

\* _ensure_pending_capacity for one agent.
HasRoom(a, additions) ==
  /\ PendingCount(a) + additions <= MaxPendingPerAgent
  /\ Len(queue) + additions <= MaxPendingGlobal

-----------------------------------------------------------------------------
(* receive_report and _watchdog_once.                                      *)

Additions(a) == IF a \in offline THEN 2 ELSE 1

\* accept_report commits; a refused report is answered 503 and signals nothing.
ReportCommits(a) ==
  /\ a \notin toSignal
  /\ dead[a] < MaxDeadLetters
  /\ HasRoom(a, Additions(a))
  /\ queue' = queue \o [i \in 1 .. Additions(a) |-> Fresh(a)]
  /\ overdue' = overdue \ {a}
  /\ offline' = offline \ {a}
  /\ reported' = reported \cup {a}
  /\ toSignal' = toSignal \cup {a}
  /\ UNCHANGED <<dead, loopVars, telegram, faults>>

\* An exact duplicate of a stored event: nothing is written, but it signals.
DuplicateReport(a) ==
  /\ a \in reported
  /\ a \notin toSignal
  /\ toSignal' = toSignal \cup {a}
  /\ UNCHANGED <<store, loopVars, telegram, faults>>

FallsSilent(a) ==
  /\ a \notin overdue
  /\ overdue' = overdue \cup {a}
  /\ UNCHANGED <<queue, dead, offline, reported, loopVars, toSignal, telegram, faults>>

Late == overdue \ offline

\* offline_transitions is all or nothing: without room for one of the late
\* agents it raises, _watchdog_once logs the error and signals nothing.
WatchdogCommits ==
  /\ "watchdog" \notin toSignal
  /\ \A a \in Late : HasRoom(a, 1)
  /\ Len(queue) + Cardinality(Late) <= MaxPendingGlobal
  /\ \E turn \in [1 .. Cardinality(Late) -> Late] :
       /\ Late \subseteq Range(turn)
       /\ queue' = queue \o [i \in DOMAIN turn |-> Fresh(turn[i])]
  /\ offline' = offline \cup Late
  /\ toSignal' = toSignal \cup {"watchdog"}
  /\ UNCHANGED <<dead, overdue, reported, loopVars, telegram, faults>>

\* _signal_outbox, when the thread's result reaches the event loop.
Signal(task) ==
  /\ task \in toSignal
  /\ toSignal' = toSignal \ {task}
  /\ idle' = FALSE
  /\ event' = TRUE
  /\ UNCHANGED <<store, loop, telegram, faults>>

-----------------------------------------------------------------------------
(* _outbox_loop.                                                           *)

Wake ==
  /\ loop = "waiting" /\ event
  /\ event' = FALSE
  /\ loop' = "draining"
  /\ UNCHANGED <<store, idle, toSignal, telegram, faults>>

\* Mutant: signals that came during the drain are cleared at its end.
EventCleared == FALSE

\* The event as drain leaves it: set if anything signalled during the drain.
EventAfterDrain == event

\* The finally clause of the loop body.
IdleAfterDrain == IF EventAfterDrain THEN idle ELSE TRUE

\* drain has returned to the loop, some time after its last transaction: it
\* leaves the dispatcher lock in between.
DrainReturns ==
  /\ loop = "returning"
  /\ loop' = "waiting"
  /\ event' = EventAfterDrain
  /\ idle' = IdleAfterDrain
  /\ UNCHANGED <<store, toSignal, telegram, faults>>

\* claim_notification finds no due head.
NothingDue ==
  /\ loop = "draining"
  /\ queue # <<>> => ~Head(queue).due
  /\ loop' = "returning"
  /\ UNCHANGED <<store, event, idle, toSignal, telegram, faults>>

Delivers ==
  /\ loop = "draining"
  /\ queue # <<>> /\ Head(queue).due
  /\ telegram = "up"
  /\ queue' = Tail(queue)
  /\ UNCHANGED <<dead, overdue, offline, reported, loopVars, toSignal, telegram, faults>>

LastAttempt == Head(queue).attempts + 1 >= MaxAttempts

\* After a terminal failure drain goes on with the next notification.
FailsForGood ==
  /\ loop = "draining"
  /\ queue # <<>> /\ Head(queue).due
  /\ telegram = "down"
  /\ LastAttempt
  /\ queue' = Tail(queue)
  /\ dead' = [dead EXCEPT ![Head(queue).agent] = @ + 1]
  /\ UNCHANGED <<overdue, offline, reported, loopVars, toSignal, telegram, faults>>

Postponed(n) == [n EXCEPT !.attempts = @ + 1, !.due = FALSE]

\* After any other failure the head is not due: drain returns normally, and
\* nothing sets the event.
FailsForNow ==
  /\ loop = "draining"
  /\ queue # <<>> /\ Head(queue).due
  /\ telegram = "down"
  /\ ~LastAttempt
  /\ queue' = [queue EXCEPT ![1] = Postponed(@)]
  /\ loop' = "returning"
  /\ UNCHANGED <<dead, overdue, offline, reported, event, idle, toSignal, telegram, faults>>

\* Mutant: the exception is not caught, and the task ends.
TaskEnds == "ended"

AfterFailure == "sleeping"

\* drain raises: the loop sleeps before it sets the event itself.
DrainRaises ==
  /\ loop \in {"draining", "returning"}
  /\ faults < MaxFaults
  /\ faults' = faults + 1
  /\ loop' = AfterFailure
  /\ UNCHANGED <<store, event, idle, toSignal, telegram>>

SleepEnds ==
  /\ loop = "sleeping"
  /\ loop' = "waiting"
  /\ event' = TRUE
  /\ UNCHANGED <<store, idle, toSignal, telegram, faults>>

-----------------------------------------------------------------------------
(* The surroundings.                                                       *)

RetryDue ==
  /\ queue # <<>> /\ ~Head(queue).due
  /\ queue' = [queue EXCEPT ![1].due = TRUE]
  /\ UNCHANGED <<dead, overdue, offline, reported, loopVars, toSignal, telegram, faults>>

TelegramFails ==
  /\ telegram = "up" /\ faults < MaxFaults
  /\ telegram' = "down"
  /\ faults' = faults + 1
  /\ UNCHANGED <<store, loopVars, toSignal>>

TelegramRecovers ==
  /\ telegram = "down"
  /\ telegram' = "up"
  /\ UNCHANGED <<store, loopVars, toSignal, faults>>

\* The process stops at any point; lifespan signals the outbox at its start.
Restart ==
  /\ faults < MaxFaults
  /\ faults' = faults + 1
  /\ event' = TRUE /\ idle' = FALSE /\ loop' = "waiting"
  /\ toSignal' = {}
  /\ UNCHANGED <<store, telegram>>

-----------------------------------------------------------------------------

Init ==
  /\ queue = <<>>
  /\ dead = [a \in Agents |-> 0]
  /\ overdue = {} /\ offline = {} /\ reported = {}
  /\ event = TRUE /\ idle = FALSE /\ loop = "waiting"
  /\ toSignal = {}
  /\ telegram = "up"
  /\ faults = 0

OutboxLoop ==
  \/ Wake \/ NothingDue \/ Delivers \/ FailsForGood \/ FailsForNow
  \/ DrainReturns \/ DrainRaises \/ SleepEnds

Signalling == \E task \in Agents \cup {"watchdog"} : Signal(task)

Next ==
  \/ \E a \in Agents : ReportCommits(a) \/ DuplicateReport(a) \/ FallsSilent(a)
  \/ WatchdogCommits
  \/ Signalling
  \/ OutboxLoop
  \/ RetryDue \/ TelegramFails \/ TelegramRecovers \/ Restart

Spec == Init /\ [][Next]_vars

\* Tasks that can run do run, the watchdog ticks, delays end.  Agents need not
\* report, and Telegram need not recover.
Fairness ==
  /\ WF_vars(OutboxLoop)
  /\ WF_vars(WatchdogCommits)
  /\ WF_vars(Signalling)
  /\ WF_vars(RetryDue)

FairSpec == Spec /\ Fairness

-----------------------------------------------------------------------------
(* Properties.                                                             *)

\* Queue entries are notifications within the caps of the store, flags and
\* events are Booleans, and the loop is at one of its await points.
TypeOK ==
  /\ queue \in Seq(Notification)
  /\ Len(queue) <= MaxPendingGlobal
  /\ \A a \in Agents : PendingCount(a) <= MaxPendingPerAgent
  /\ dead \in [Agents -> Nat]
  /\ overdue \subseteq Agents /\ offline \subseteq Agents /\ reported \subseteq Agents
  /\ {event, idle} \subseteq BOOLEAN
  /\ loop \in {"waiting", "draining", "returning", "sleeping"}
  /\ toSignal \subseteq Agents \cup {"watchdog"}
  /\ telegram \in {"up", "down"}
  /\ faults \in 0 .. MaxFaults

\* No lost wakeup: while the outbox task waits unsignalled, a head that was
\* never tried belongs to a task that has committed and is about to signal.
NoLostWakeup ==
  loop = "waiting" /\ ~event /\ queue # <<>> /\ Head(queue).attempts = 0 =>
    toSignal # {}

\* outbox_idle means that nothing is being drained and nobody has asked for it,
\* whatever reports, ticks and failed drains overlap.
IdleIsIdle == idle => loop = "waiting" /\ ~event

Full(a) == ~HasRoom(a, 1)

\* Once Telegram stays up, an agent at its pending cap gets room again, if the
\* watchdog keeps completing its ticks.
RoomWhileTicking ==
  <>[](telegram = "up") /\ []<>("watchdog" \in toSignal) =>
    \A a \in Agents : Full(a) ~> ~Full(a)

\* full-reference.md: after a limit was reached admission resumes by itself.
AdmissionResumes ==
  <>[](telegram = "up") => \A a \in Agents : Full(a) ~> ~Full(a)

=============================================================================
