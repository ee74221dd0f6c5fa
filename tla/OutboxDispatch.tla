-------------------------- MODULE OutboxDispatch --------------------------
(***************************************************************************)
(* NotificationDispatcher and TelegramClient (collector/telegram.py) over  *)
(* the store of CollectorDB.  Each owner is one dispatcher instance in a   *)
(* process of its own; drain() runs under the cross-process dispatcher     *)
(* lock, and every call into the store is one transaction, so other        *)
(* processes act between a claim, the send and the acknowledgement.        *)
(*                                                                         *)
(* A fault is anything after which a posted chunk may be posted again: a   *)
(* lost answer, an answer 200 that the client cannot use, a send deadline, *)
(* an acknowledgement that fails, a crash.                                 *)
(***************************************************************************)
EXTENDS CollectorDB, Sequences

CONSTANTS
  MaxTries,   \* TelegramClient's max_attempts for one chunk
  MaxFaults   \* bound of the model on faults

ASSUME DispatchAssumption == MaxTries \in Nat \ {0} /\ MaxFaults \in Nat

VARIABLES
  lock,     \* the owner holding the dispatcher file lock, or None
  worker,   \* what each dispatcher is doing, with the claim it holds
  posted,   \* history: chunks in the order Telegram first showed them
  repeats,  \* history: number of times the chat was shown what it had already
  faults,   \* history: number of faults
  wereDead  \* history: notifications that have been dead letters

dispatchVars == <<vars, lock, worker, posted, repeats, faults, wereDead>>

Idle == [pc |-> "idle", note |-> 0, chunk |-> 0, tries |-> 0, permanent |-> FALSE]

Chunk(o) == <<worker[o].note, worker[o].chunk>>

Shown == Range(posted)

At(o, pc) == worker[o].pc = pc

Goto(o, pc) == worker' = [worker EXCEPT ![o].pc = pc]

\* Leaving "async with lock", normally or by an exception.
Leave(o) ==
  /\ worker' = [worker EXCEPT ![o] = Idle]
  /\ lock' = None

\* The notification of which a requeued one holds the rest.
Root[i \in DOMAIN notes] == IF notes[i].source = None THEN i ELSE Root[notes[i].source]

\* What the chat reads in a chunk: a message, which its first notification names,
\* and how far the chunk is from its end, for a clone holds the last chunks.
Text(p) == [message |-> DedupeKey(notes[Root[p[1]]]), left |-> notes[p[1]].count - p[2]]

\* What the chunk says has been shown, in this notification or in one of which it
\* is the rest.
AlreadyShown(o) == \E q \in Shown : q[1] \in DOMAIN notes /\ Text(q) = Text(Chunk(o))

\* Telegram shows the chunk in the chat.
Show(o) ==
  /\ posted' = IF Chunk(o) \in Shown THEN posted ELSE Append(posted, Chunk(o))
  /\ repeats' = IF AlreadyShown(o) THEN repeats + 1 ELSE repeats

NothingShown == UNCHANGED <<posted, repeats>>

Fault == faults < MaxFaults /\ faults' = faults + 1

NoteDead == wereDead' = wereDead \cup {i \in DOMAIN notes' : notes'[i].state = "dead"}

-----------------------------------------------------------------------------
(* drain and _drain_locked.                                                *)

\* Mutant: the dispatcher lock does not exclude other processes.
LockIgnored(o) == o \in Owners

\* AsyncFileLock with a short timeout; a caller that times out returns.
LockFree(o) == lock = None

StartDrain(o) ==
  /\ At(o, "idle")
  /\ LockFree(o)
  /\ lock' = o
  /\ Goto(o, "locked")
  /\ UNCHANGED <<vars, posted, repeats, faults, wereDead>>

ResetStaleLeases(o) ==
  /\ At(o, "locked")
  /\ ResetLeases \/ (NoLeases /\ UNCHANGED vars)
  /\ Goto(o, "claiming")
  /\ UNCHANGED <<lock, posted, repeats, faults, wereDead>>

Claim(o) ==
  /\ At(o, "claiming")
  /\ \E i \in DOMAIN notes :
       /\ ClaimNotification(o, i)
       /\ worker' = [worker EXCEPT ![o] =
            [pc |-> "sending", note |-> i, chunk |-> notes[i].next, tries |-> 1,
             permanent |-> FALSE]]
  /\ UNCHANGED <<lock, posted, repeats, faults, wereDead>>

\* The outbox is empty, or its head is not due: drain returns.
NothingDue(o) ==
  /\ At(o, "claiming")
  /\ \A i \in DOMAIN notes : ~Claimable(i, o)
  /\ Leave(o)
  /\ UNCHANGED <<vars, posted, repeats, faults, wereDead>>

-----------------------------------------------------------------------------
(* send_chunks: _send_one under the send deadline.                         *)

SentAndConfirmed(o) ==
  /\ At(o, "sending")
  /\ Show(o)
  /\ Goto(o, "acking")
  /\ UNCHANGED <<vars, lock, faults, wereDead>>

\* Mutant: an unanswered last attempt counts as delivered.
AfterLastTryOptimistic(o) == Goto(o, "acking")

\* The last attempt of _send_one raises TelegramTransientError.
AfterLastTry(o) == Goto(o, "failing")

RetryOrGiveUp(o) ==
  IF worker[o].tries < MaxTries
  THEN worker' = [worker EXCEPT ![o].tries = @ + 1]
  ELSE AfterLastTry(o)

\* Shown, but the answer is lost on the way back: a network error.
AnswerLost(o) ==
  /\ At(o, "sending")
  /\ Fault
  /\ Show(o)
  /\ RetryOrGiveUp(o)
  /\ UNCHANGED <<vars, lock, wereDead>>

\* Not shown: no connection, or an answer 408, 425, 429 or 5xx.
TryFails(o) ==
  /\ At(o, "sending")
  /\ NothingShown
  /\ RetryOrGiveUp(o)
  /\ UNCHANGED <<vars, lock, faults, wereDead>>

TerminalFailure(o) ==
  worker' = [worker EXCEPT ![o].pc = "failing", ![o].permanent = TRUE]

\* Any other status: TelegramPermanentError.
RefusedForGood(o) ==
  /\ At(o, "sending")
  /\ NothingShown
  /\ TerminalFailure(o)
  /\ UNCHANGED <<vars, lock, faults, wereDead>>

\* Shown, but the body of the answer 200 is encoded, oversized, malformed or no
\* confirmation: TelegramPermanentError as well.
AnswerUnusable(o) ==
  /\ At(o, "sending")
  /\ Fault
  /\ Show(o)
  /\ TerminalFailure(o)
  /\ UNCHANGED <<vars, lock, wereDead>>

\* asyncio.timeout cancels the send; the chunk may or may not be shown.
SendDeadline(o) ==
  /\ At(o, "sending")
  /\ Fault
  /\ Show(o) \/ NothingShown
  /\ Goto(o, "failing")
  /\ UNCHANGED <<vars, lock, wereDead>>

-----------------------------------------------------------------------------
(* After the send.                                                         *)

ClaimStands(o) ==
  HoldsClaim(worker[o].note, o, worker[o].chunk) /\ LeaseLive(worker[o].note)

Acknowledge(o) ==
  /\ At(o, "acking")
  /\ AcknowledgeChunk(o, worker[o].note, worker[o].chunk)
  /\ Goto(o, "claiming")
  /\ UNCHANGED <<lock, posted, repeats, faults, wereDead>>

\* notification-claim-lost, here because the lease ran out: drain raises.  A fault
\* that the clock bounds, not MaxFaults.
AckRefused(o) ==
  /\ At(o, "acking")
  /\ ~ClaimStands(o)
  /\ faults' = faults + 1
  /\ Leave(o)
  /\ UNCHANGED <<vars, posted, repeats, wereDead>>

\* A terminal failure frees the head, so the loop goes on; after any other
\* failure the head is not due and drain returns.  (A claim that was
\* lost would hold the dispatcher up here; OutboxDrains says that none does.)
RecordSendFailure(o) ==
  /\ At(o, "failing")
  /\ RecordFailure(o, worker[o].note, worker[o].chunk, worker[o].permanent)
  /\ IF notes'[worker[o].note].state = "dead"
     THEN Goto(o, "claiming") /\ UNCHANGED lock
     ELSE Leave(o)
  /\ NoteDead
  /\ UNCHANGED <<posted, repeats, faults>>

\* A transaction fails (locked or broken database), a task is cancelled, or
\* the process dies: the lock is freed, the lease stays in the table.
Crash(o) ==
  /\ worker[o].pc # "idle"
  /\ Fault
  /\ Leave(o)
  /\ UNCHANGED <<vars, posted, repeats, wereDead>>

-----------------------------------------------------------------------------

DispatchInit ==
  /\ Init
  /\ lock = None
  /\ worker = [o \in Owners |-> Idle]
  /\ posted = <<>>
  /\ repeats = 0
  /\ faults = 0
  /\ wereDead = {}

Sending(o) ==
  \/ SentAndConfirmed(o) \/ AnswerLost(o) \/ TryFails(o)
  \/ RefusedForGood(o) \/ AnswerUnusable(o) \/ SendDeadline(o)

Concluding(o) ==
  Acknowledge(o) \/ AckRefused(o) \/ RecordSendFailure(o)

Draining(o) ==
  ResetStaleLeases(o) \/ Claim(o) \/ NothingDue(o) \/ Sending(o) \/ Concluding(o)

\* Everything the store does for callers other than the dispatchers.
Elsewhere ==
  /\ \/ Reporting
     \/ OfflineTransitions
     \/ RetryDeadLetters
     \/ \E i \in DOMAIN notes : RequeueDeadLetter(i)
     \/ \E registry \in SUBSET Agents : SyncRegistry(registry)
     \/ Tick
  /\ UNCHANGED <<lock, worker, posted, repeats, faults, wereDead>>

DispatchNext ==
  \/ \E o \in Owners : StartDrain(o) \/ Draining(o) \/ Crash(o)
  \/ Elsewhere

DispatchSpec == DispatchInit /\ [][DispatchNext]_dispatchVars

\* The steps of StartDrain and Draining.  Of Acknowledge only the dispatcher's part
\* is given: no other step has it, and TLC recognises it at less cost.
GoesOn(o) ==
  \/ StartDrain(o) \/ ResetStaleLeases(o) \/ Claim(o) \/ NothingDue(o)
  \/ Sending(o) \/ AckRefused(o) \/ RecordSendFailure(o)
  \/ At(o, "acking") /\ ClaimStands(o) /\ Goto(o, "claiming")

\* The collector's loop calls drain again and again, a drain in progress goes
\* on unless its process dies, and a send ends at its deadline at the latest.
\* While one drains, nobody else can start.
DispatchFairness == WF_worker(\E o \in Owners : GoesOn(o))

FairDispatchSpec == DispatchSpec /\ DispatchFairness

-----------------------------------------------------------------------------
(* Properties.                                                             *)

\* No chunk is acknowledged in the table unless Telegram has shown it: crashes,
\* deadlines and lost answers between the claim and the acknowledgement can
\* repeat a chunk but never skip one.
AcknowledgedWasShown ==
  \A i \in DOMAIN notes : \A c \in 0 .. notes[i].next - 1 : <<i, c>> \in Shown

\* The chat shows messages in outbox order and each message's chunks in their
\* order; only a notification that has been a dead letter may come late.
ChatInOrder ==
  \A p, q \in DOMAIN posted : p < q =>
    /\ posted[p][1] = posted[q][1] => posted[p][2] < posted[q][2]
    /\ posted[p][1] > posted[q][1] => posted[q][1] \in wereDead

\* Every time the chat reads a part of a message again, a fault has paid for it:
\* competing dispatchers repeat nothing, nor do dead letters that are rearmed or
\* requeued again and again, and one fault costs one repetition at most.
RepeatsNeedFaults == repeats <= faults

\* The store and its dispatchers together are an outbox that shows what it was
\* given, in order: a message leaves shown whole or dead, whatever retention,
\* crashes, lost leases and late answers come between the transactions, and only
\* one that was dead comes late.
Delivery == INSTANCE OrderedOutbox WITH
  known <- 1 .. lastId, waiting <- [i \in PendingIds |-> notes[i].count],
  aside <- wereDead, shown <- Shown

DeliversInOrder == Delivery!Spec

\* Every notification is in the end completed or a dead letter, if operators
\* rearm dead letters only finitely often (retry_dead_letters runs once when a
\* process starts): no lease, retry or dead dispatcher holds up the outbox, which
\* is empty again and again, finitely many notifications being taken in.
OutboxDrains == <>[][~RetryDeadLetters]_vars => []<>(PendingIds = {})

=============================================================================
