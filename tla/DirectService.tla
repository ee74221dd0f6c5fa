---------------------------- MODULE DirectService ----------------------------
(***************************************************************************)
(* The native service of direct_service.py with its queue of               *)
(* direct_outbox.py: a cycle every interval, each cycle's message queued   *)
(* on disk, the queue drained at the start of the service, at the end of a *)
(* cycle and while waiting for the next one.                               *)
(*                                                                         *)
(* service.lock admits one service, so only a crash comes between two of   *)
(* its steps.  A message is the number of the cycle that made it and the   *)
(* number of its chunks; in the chat a chunk sent late takes LateParts     *)
(* messages, because it is split again to make room for the label.         *)
(*                                                                         *)
(* Time is counted in waits that end in a drain: a short cycle leaves room *)
(* for Waits of them.  A measurement that ran into its deadline and a      *)
(* drain after it leave none, but without that drain one remains, unless   *)
(* the deadline overruns the interval.                                     *)
(***************************************************************************)
EXTENDS Integers, Sequences, SequencesExt, FiniteSets

CONSTANTS
  None,         \* no value
  MaxMessages,  \* bound of the queue on messages (32 in the code)
  MaxChunks,    \* bound of the queue on waiting chunks (256 in the code)
  DrainLimit,   \* chunks a drain sends at most (8 in the code)
  LateParts,    \* sends that a chunk of an earlier cycle takes
  Waits,        \* waits between two cycles (20 in the code)
  Overruns,     \* may a cycle take longer than the interval?
  MaxCycles,    \* bound of the model on cycles; every fault allows one more
  MaxFaults     \* bound of the model on failed sends and writes and on crashes

ASSUME DirectAssumption ==
  /\ None \notin Nat \cup {"telegram-delivery-failed", "outbox-overflow", "state-write-failed"}
  /\ {MaxMessages, MaxChunks, DrainLimit, LateParts, Waits} \subseteq Nat \ {0}
  /\ Overruns \in BOOLEAN
  /\ {MaxCycles, MaxFaults} \subseteq Nat

VARIABLES
  outbox,      \* direct-outbox.json: the waiting messages, oldest first
  dropped,     \* direct-outbox.json: dropped_messages
  pc,          \* what the service is doing
  drain,       \* the drain that is running or ran last
  failed,      \* delivery_failed
  overflowed,  \* this cycle's enqueue dropped a message
  accepted,    \* delivery_accepted of the last cycle, or None
  error,       \* status.json: last_error of the telegram part
  waits,       \* waits left before the next cycle
  cycles,      \* cycles begun
  chat,        \* what Telegram has shown
  sizes,       \* chunks of each message ever queued
  faults       \* number of faults so far

queue == <<outbox, dropped, sizes>>
service == <<pc, drain, failed, overflowed, accepted, error, waits, cycles>>
vars == <<queue, service, chat, faults>>

Fault == faults < MaxFaults /\ faults' = faults + 1

MoreCycles == cycles < MaxCycles + faults

-----------------------------------------------------------------------------
(* DirectOutbox.                                                           *)

WaitingChunks(q) == FoldSeq(LAMBDA m, n : n + m.chunks - m.next, 0, q)

Fits(q) == Len(q) <= MaxMessages /\ WaitingChunks(q) <= MaxChunks

\* Mutant: a new message goes to the front.
QueuedFirst(m) == <<m>> \o outbox

Queued(m) == Append(outbox, m)

\* n is the least number of messages to drop from the front of q.
Excess(q, n) ==
  /\ Fits(SubSeq(q, n + 1, Len(q)))
  /\ \A k \in 0 .. n - 1 : ~Fits(SubSeq(q, k + 1, Len(q)))

Enqueue(size) ==
  LET q == Queued([id |-> cycles, chunks |-> size, next |-> 0])
  IN  /\ \E n \in 0 .. Len(q) :
           /\ Excess(q, n)
           /\ outbox' = SubSeq(q, n + 1, Len(q))
           /\ dropped' = dropped + n
      /\ sizes' = [i \in DOMAIN sizes \cup {cycles} |-> IF i = cycles THEN size ELSE sizes[i]]

Finished(m) == m.next + 1 = m.chunks

\* acknowledge: the head's next chunk was accepted.
Acknowledged ==
  IF Finished(Head(outbox)) THEN Tail(outbox) ELSE [outbox EXCEPT ![1].next = @ + 1]

-----------------------------------------------------------------------------
(* _drain.                                                                 *)

\* Mutant: the count of sent chunks survives from one drain to the next.
SentKept == drain.sent

SentAtFirst == 0

CurrentOf(reason) == IF reason = "cycle" THEN cycles ELSE None

BeginDrain(reason) ==
  /\ pc' = "draining"
  /\ drain' = [reason |-> reason, current |-> CurrentOf(reason), sent |-> SentAtFirst, part |-> 1]

\* A chunk of an earlier cycle is labelled.
Late == Head(outbox).id # drain.current

\* Mutant: a late chunk is acknowledged after its first part.
OnePart == 1

Parts == IF Late THEN LateParts ELSE 1

AllSent == drain.part > Parts

Show ==
  chat' = Append(chat, [id |-> Head(outbox).id, chunk |-> Head(outbox).next,
                        part |-> drain.part, late |-> Late])

Sending == pc = "draining" /\ outbox # <<>> /\ drain.sent < DrainLimit

SendPart ==
  /\ Sending /\ ~AllSent
  /\ Show
  /\ drain' = [drain EXCEPT !.part = @ + 1]
  /\ UNCHANGED <<queue, pc, failed, overflowed, accepted, error, waits, cycles, faults>>

\* Shown, but the answer is lost; the client sends the part again.
AnswerLost ==
  /\ Sending /\ ~AllSent
  /\ Fault
  /\ Show
  /\ UNCHANGED <<queue, service>>

Acknowledge ==
  /\ Sending /\ AllSent
  /\ outbox' = Acknowledged
  /\ drain' = [drain EXCEPT !.sent = @ + 1, !.part = 1]
  /\ UNCHANGED <<dropped, sizes, pc, failed, overflowed, accepted, error, waits, cycles,
                 chat, faults>>

\* Mutant: the verdict looks at this drain only.
DrainWentWell(ok) == ~overflowed /\ ok

\* current_accepted
CurrentAccepted(ok) == ~overflowed /\ outbox = <<>> /\ ok \in BOOLEAN

\* _update_telegram_status
ErrorAfter(ok) ==
  IF ~ok THEN "telegram-delivery-failed"
  ELSE IF error = "outbox-overflow" THEN error ELSE None

\* The end of _measured_cycle, and the start of the wait.
EndCycle(ok) ==
  /\ pc' = "waiting"
  /\ failed' = ~ok
  /\ accepted' = CurrentAccepted(ok)
  /\ error' = IF overflowed THEN "outbox-overflow" ELSE ErrorAfter(ok)

\* What _drain's caller does with the result.
EndDrain(ok) ==
  \/ /\ drain.reason = "cycle"
     /\ EndCycle(ok)
  \/ /\ drain.reason # "cycle"
     /\ pc' = IF drain.reason = "start" THEN "ready" ELSE "waiting"
     /\ failed' = ~ok
     /\ error' = ErrorAfter(ok)
     /\ UNCHANGED accepted

DrainEnds ==
  /\ pc = "draining" /\ ~Sending
  /\ EndDrain(TRUE)
  /\ UNCHANGED <<queue, drain, overflowed, waits, cycles, chat, faults>>

\* A send or the acknowledgement fails, or the time runs out; a part that was
\* on its way may have been shown.
DrainFails ==
  /\ pc = "draining"
  /\ Fault
  /\ \/ UNCHANGED chat
     \/ /\ Sending /\ ~AllSent
        /\ Show
  /\ EndDrain(FALSE)
  /\ UNCHANGED <<queue, drain, overflowed, waits, cycles>>

-----------------------------------------------------------------------------
(* _run_locked and _measured_cycle.                                        *)

Start ==
  /\ pc = "starting"
  /\ error' = None
  /\ IF outbox # <<>>
     THEN BeginDrain("start")
     ELSE pc' = "ready" /\ UNCHANGED <<drain>>
  /\ UNCHANGED <<queue, failed, overflowed, accepted, waits, cycles, chat, faults>>

BeginCycle ==
  /\ pc = "ready" \/ (pc = "waiting" /\ waits = 0)
  /\ MoreCycles
  /\ cycles' = cycles + 1
  /\ pc' = "measuring"
  /\ UNCHANGED <<queue, drain, failed, overflowed, accepted, error, waits, chat, faults>>

\* The time left when the cycle has ended, with or without a drain of its own.
WaitsAfterwards(drains) ==
  waits' \in IF Overruns \/ (drains /\ MoreCycles) THEN 0 .. Waits ELSE 1 .. Waits

\* The cycle has a message whatever became of the measurement; after a failed
\* delivery it only queues the message.
MessageQueued ==
  /\ pc = "measuring"
  /\ \E size \in 1 .. MaxChunks : Enqueue(size)
  /\ overflowed' = (dropped' > dropped)
  /\ IF failed
     THEN /\ pc' = "waiting"
          /\ accepted' = FALSE
          /\ error' = IF overflowed' THEN "outbox-overflow" ELSE "telegram-delivery-failed"
          /\ UNCHANGED drain
     ELSE BeginDrain("cycle") /\ UNCHANGED <<accepted, error>>
  /\ WaitsAfterwards(~failed)
  /\ UNCHANGED <<failed, cycles, chat, faults>>

\* DirectOutboxError: too many chunks, a broken file, a failed write; or the
\* message is queued and then the queue cannot be read.
QueueingFails ==
  /\ pc = "measuring"
  /\ Fault
  /\ pc' = "waiting"
  /\ failed' = TRUE /\ overflowed' = FALSE /\ accepted' = FALSE
  /\ error' = "state-write-failed"
  /\ WaitsAfterwards(FALSE)
  /\ UNCHANGED queue \/ \E size \in 1 .. MaxChunks : Enqueue(size)
  /\ UNCHANGED <<drain, cycles, chat>>

Backlog == outbox # <<>>

\* The interval after the model's last cycle has no end.
Wait ==
  /\ pc = "waiting" /\ waits > 0
  /\ waits' = IF MoreCycles THEN waits - 1 ELSE waits
  /\ IF Backlog THEN BeginDrain("wait") ELSE UNCHANGED <<pc, drain>>
  /\ UNCHANGED <<queue, failed, overflowed, accepted, error, cycles, chat, faults>>

\* The process dies, or the status or the state of the queue cannot be read or
\* written; the platform starts the service again.
Crash ==
  /\ pc # "starting"
  /\ Fault
  /\ pc' = "starting"
  /\ failed' = FALSE /\ overflowed' = FALSE /\ accepted' = None
  /\ UNCHANGED <<queue, drain, error, waits, cycles, chat>>

-----------------------------------------------------------------------------

Init ==
  /\ outbox = <<>> /\ dropped = 0 /\ sizes = <<>>
  /\ pc = "starting"
  /\ drain = [reason |-> "start", current |-> None, sent |-> 0, part |-> 1]
  /\ failed = FALSE /\ overflowed = FALSE /\ accepted = None
  /\ error = None
  /\ waits = 0 /\ cycles = 0
  /\ chat = <<>>
  /\ faults = 0

Draining == SendPart \/ Acknowledge \/ DrainEnds

Cycling == Start \/ BeginCycle \/ MessageQueued \/ Wait

Next == Draining \/ Cycling \/ AnswerLost \/ DrainFails \/ QueueingFails \/ Crash

Spec == Init /\ [][Next]_vars

\* The service's task goes on: sends end by their time limits, and so do waits.
FairSpec == Spec /\ WF_vars(Draining \/ Cycling)

-----------------------------------------------------------------------------
(* Properties.                                                             *)

\* The chunks of message id that the chat shows whole: unlabelled in one piece,
\* or in all the parts of a late chunk.
ShownWhole(id, c) ==
  LET copies == {chat[i] : i \in DOMAIN chat}
      has(p, l) == [id |-> id, chunk |-> c, part |-> p, late |-> l] \in copies
  IN  has(1, FALSE) \/ \A p \in 1 .. LateParts : has(p, TRUE)

ShownMessage(id) == \A c \in 0 .. sizes[id] - 1 : ShownWhole(id, c)

Waiting == {outbox[i].id : i \in DOMAIN outbox}

\* The chunks of the messages queued so far that the chat shows whole.
ShownChunks ==
  {p \in UNION {{id} \X (0 .. sizes[id] - 1) : id \in DOMAIN sizes} : ShownWhole(p[1], p[2])}

\* Nothing disappears silently: a message that was queued still waits, or has
\* been shown whole, or is one of those that dropped_messages counts, through
\* failed sends, crashes between a send and its acknowledgement, and overflow.
NothingVanishes ==
  Cardinality({id \in DOMAIN sizes : id \notin Waiting /\ ~ShownMessage(id)}) <= dropped

\* The chat shows messages in the order of their cycles and each message's
\* chunks in order; what a lost answer or a failure repeats is the chunk that
\* was being sent, from its first part at the most, never an earlier one.
ChatInOrder ==
  \A i \in 1 .. Len(chat) - 1 :
    LET a == chat[i]
        b == chat[i + 1]
    IN  a.id < b.id \/ (a.id = b.id /\ a.chunk <= b.chunk)

\* The queue and its drains together are an outbox that shows what it was given,
\* in order: a message leaves shown whole, or is dropped to make room for a newer
\* one, through lost answers, failures within a chunk and restarts.
Delivery == INSTANCE OrderedOutbox WITH
  known <- DOMAIN sizes, waiting <- [id \in Waiting |-> sizes[id]],
  aside <- {id \in DOMAIN sizes : id \notin Waiting /\ ~ShownMessage(id)},
  shown <- ShownChunks

DeliversInOrder == Delivery!Spec

\* Between cycles the status can be relied on: delivery is reported as accepted
\* (the exit status of a one-shot run) only if the cycle's own message has been
\* shown whole and nothing is left to send, and an error is named whenever the
\* last delivery failed or could not be queued.
StatusIsTrue ==
  pc = "waiting" =>
    /\ accepted = TRUE => cycles \in DOMAIN sizes /\ ShownMessage(cycles) /\ outbox = <<>>
    /\ error = None => ~failed

\* When the faults end, a backlog is delivered, label and all, although each
\* drain is bounded and a cycle after a failure skips its own.
BacklogDrains == faults = MaxFaults /\ outbox # <<>> ~> outbox = <<>>

=============================================================================
