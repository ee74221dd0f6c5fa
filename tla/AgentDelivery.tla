--------------------------- MODULE AgentDelivery ---------------------------
(***************************************************************************)
(* How an agent delivers its reports: the sequence counter and the pending *)
(* slot of litechecker/state.py, deliver_report of agent.py and the client *)
(* of protocol.py, against a collector that admits reports as              *)
(* ReportAdmission says.                                                   *)
(*                                                                         *)
(* Several processes may share one state directory (the daemon and a       *)
(* one-shot run).  Every store operation runs under a short file lock and  *)
(* is one step; between two of them any other process may act.  Only       *)
(* network sends are serialised, by the delivery lock.                     *)
(*                                                                         *)
(* A report is its sequence number and whether it announces a dropped      *)
(* report; nothing else of it changes after it was measured.  Two versions *)
(* of a report have different digests.  The boot id is left out: the       *)
(* counter never gives a number twice, so it tells nothing apart.          *)
(***************************************************************************)
EXTENDS Integers, FiniteSets

CONSTANTS
  Runs,         \* the processes that share the state directory
  Self,         \* the agent_id
  None,         \* no value
  MaxAttempts,  \* attempts of CollectorClient.send (2 in the code)
  MaxSequence,  \* bound of the model on reports
  MaxFaults     \* bound of the model on timeouts, refusals for load, crashes

ASSUME DeliveryAssumption ==
  /\ None \notin Runs /\ None \notin Nat
  /\ None \notin [seq : Nat, dropped : BOOLEAN]
  /\ MaxAttempts \in Nat \ {0}
  /\ {MaxSequence, MaxFaults} \subseteq Nat

VARIABLES
  next,       \* sequence.json
  pending,    \* pending-report.json: the report waiting for delivery, or None
  highWater,  \* pending-report.json: sequence of the newest report saved
  lock,       \* the process holding the delivery lock, or None
  run,        \* what each process is doing
  ack,        \* collector-ack.json: the last report recorded as accepted
  digest,     \* the collector: the version of each report it has taken
  delayed,    \* requests whose client has stopped waiting for the answer
  faults      \* number of faults so far

files == <<next, pending, highWater, ack>>
network == <<digest, delayed>>
vars == <<files, lock, run, network, faults>>

Report == [seq : Nat, dropped : BOOLEAN]

NoReport == [seq |-> 0, dropped |-> FALSE]

Steps == {"idle", "measured", "loaded", "saved", "locked", "retrying", "retried",
          "replacing", "confirming", "sending", "clearing", "recording"}

Run == [pc : Steps, report : Report, previous : Report \cup {None}, attempt : Nat]

IdleRun == [pc |-> "idle", report |-> NoReport, previous |-> None, attempt |-> 1]

At(p, pc) == run[p].pc = pc

Goto(p, pc) == run' = [run EXCEPT ![p].pc = pc]

Seq(p) == run[p].report.seq

\* Mutant: an early return keeps the delivery lock.
KeptLocked(p) == IF p \in Runs THEN lock ELSE None

\* Leaving deliver_report frees the delivery lock if this process holds it.
Freed(p) == IF lock = p THEN None ELSE lock

Leave(p) == run' = [run EXCEPT ![p] = IdleRun] /\ lock' = Freed(p)

Fault == faults < MaxFaults /\ faults' = faults + 1

-----------------------------------------------------------------------------
(* The collector.                                                          *)

Collector == INSTANCE ReportAdmission
  WITH Agents <- {Self}, Sequences <- 0 .. MaxSequence,
       log <- {<<Self, s>> : s \in DOMAIN digest}

\* The same event with the same digest is answered 200, a new one 202.
Welcome(r) ==
  IF r.seq \in DOMAIN digest THEN digest[r.seq] = r.dropped
                             ELSE Collector!Fresh(Self, r.seq)

Takes(r) ==
  digest' = [s \in DOMAIN digest \cup {r.seq} |->
               IF s = r.seq THEN r.dropped ELSE digest[s]]

\* A request that nobody waits for is handled after all.
DelayedArrives(r) ==
  /\ r \in delayed
  /\ delayed' = delayed \ {r}
  /\ IF Welcome(r) THEN Takes(r) ELSE UNCHANGED digest
  /\ UNCHANGED <<files, lock, run, faults>>

-----------------------------------------------------------------------------
(* measure_cycle and the first half of deliver_report.                     *)

Measure(p) ==
  /\ At(p, "idle")
  /\ next < MaxSequence
  /\ next' = next + 1
  /\ run' = [run EXCEPT ![p].pc = "measured", ![p].report = [seq |-> next, dropped |-> FALSE]]
  /\ UNCHANGED <<pending, highWater, ack, lock, network, faults>>

Load(p) ==
  /\ At(p, "measured")
  /\ run' = [run EXCEPT ![p].pc = "loaded", ![p].previous = pending]
  /\ UNCHANGED <<files, lock, network, faults>>

\* save refuses a report older than the newest one saved.
IsNewest(p) == highWater # None => Seq(p) >= highWater

Save(p) ==
  /\ At(p, "loaded")
  /\ IsNewest(p)
  /\ pending' = run[p].report
  /\ highWater' = Seq(p)
  /\ Goto(p, "saved")
  /\ UNCHANGED <<next, ack, lock, network, faults>>

SaveRefused(p) ==
  /\ At(p, "loaded")
  /\ ~IsNewest(p)
  /\ Leave(p)
  /\ UNCHANGED <<files, network, faults>>

-----------------------------------------------------------------------------
(* _deliver_current.                                                       *)

LockFree(p) == lock = None

TakeLock(p) ==
  /\ At(p, "saved")
  /\ LockFree(p)
  /\ lock' = p
  /\ Goto(p, "locked")
  /\ UNCHANGED <<files, network, faults>>

\* DeliveryLockUnavailable: the bounded wait for another process ran out.
LockUnavailable(p) ==
  /\ At(p, "saved")
  /\ ~LockFree(p)
  /\ Leave(p)
  /\ UNCHANGED <<files, network, faults>>

\* Mutant: any pending report passes for one's own.
AnythingPending(p) == pending # None /\ p \in Runs

\* is_pending: this report still owns the slot.
Owns(p) == pending # None /\ highWater = Seq(p)

\* The next step after each of the three revalidations.
AfterCheck(p) ==
  CASE At(p, "locked") -> IF run[p].previous = None THEN "retried" ELSE "retrying"
    [] At(p, "retried") -> IF run[p].report.dropped THEN "replacing" ELSE "confirming"
    [] At(p, "confirming") -> "sending"

Check(p) ==
  /\ run[p].pc \in {"locked", "retried", "confirming"}
  /\ Owns(p)
  /\ run' = [run EXCEPT ![p].pc = AfterCheck(p), ![p].attempt = 1]
  /\ UNCHANGED <<files, lock, network, faults>>

Disowned(p) ==
  /\ run[p].pc \in {"locked", "retried", "replacing", "confirming"}
  /\ ~Owns(p)
  /\ Leave(p)
  /\ UNCHANGED <<files, network, faults>>

ReplacementOf(p) == run[p].report

\* replace_if_event: what is stored is what will be sent.
Replace(p) ==
  /\ At(p, "replacing")
  /\ Owns(p)
  /\ pending' = ReplacementOf(p)
  /\ Goto(p, "confirming")
  /\ UNCHANGED <<next, highWater, ack, lock, network, faults>>

-----------------------------------------------------------------------------
(* CollectorClient.send: at most MaxAttempts requests with the same bytes. *)

Sent(p) == IF At(p, "retrying") THEN run[p].previous ELSE run[p].report

\* _retry_pending counts a failure and goes on; the current report is kept.
Failed(p) ==
  IF At(p, "retrying")
  THEN /\ run' = [run EXCEPT ![p].pc = "retried", ![p].report.dropped = TRUE]
       /\ UNCHANGED lock
  ELSE Leave(p)

FailedAttempt(p) ==
  IF run[p].attempt < MaxAttempts
  THEN run' = [run EXCEPT ![p].attempt = @ + 1] /\ UNCHANGED lock
  ELSE Failed(p)

\* 200 or 202.
Accepted(p) ==
  /\ run[p].pc \in {"retrying", "sending"}
  /\ Welcome(Sent(p))
  /\ Takes(Sent(p))
  /\ Goto(p, IF At(p, "retrying") THEN "retried" ELSE "clearing")
  /\ UNCHANGED <<files, lock, delayed, faults>>

\* 422: the sequence is too low or the stored event differs.
Refused(p) ==
  /\ run[p].pc \in {"retrying", "sending"}
  /\ ~Welcome(Sent(p))
  /\ Failed(p)
  /\ UNCHANGED <<files, network, faults>>

\* 429 or 503: the collector has taken nothing.
Busy(p) ==
  /\ run[p].pc \in {"retrying", "sending"}
  /\ Fault
  /\ FailedAttempt(p)
  /\ UNCHANGED <<files, network>>

\* 401, 404, 413 and the like are not tried again.
Rejected(p) ==
  /\ run[p].pc \in {"retrying", "sending"}
  /\ Fault
  /\ Failed(p)
  /\ UNCHANGED <<files, network>>

\* No answer in time; the request may still be handled, now or much later.
NoAnswer(p) ==
  /\ run[p].pc \in {"retrying", "sending"}
  /\ Fault
  /\ delayed' = delayed \cup {Sent(p)}
  /\ FailedAttempt(p)
  /\ UNCHANGED <<files, digest>>

-----------------------------------------------------------------------------

\* Mutant: clear empties the slot whatever it holds.
ClearsAnything(p) == pending # None /\ p \in Runs

\* clear compares the event before it empties the slot.
Clears(p) == Owns(p)

Clear(p) ==
  /\ At(p, "clearing")
  /\ pending' = IF Clears(p) THEN None ELSE pending
  /\ lock' = Freed(p)
  /\ Goto(p, "recording")
  /\ UNCHANGED <<next, highWater, ack, network, faults>>

\* run_cycle records the acceptance after the delivery lock was released.
Record(p) ==
  /\ At(p, "recording")
  /\ ack' = Seq(p)
  /\ Leave(p)
  /\ UNCHANGED <<next, pending, highWater, network, faults>>

\* A store fails, the task is cancelled or the process dies; a store operation
\* itself is atomic (a temporary file is renamed).
Crash(p) ==
  /\ ~At(p, "idle")
  /\ Fault
  /\ Leave(p)
  /\ UNCHANGED <<files, network>>

-----------------------------------------------------------------------------

Init ==
  /\ next = 0
  /\ pending = None /\ highWater = None /\ ack = None
  /\ lock = None
  /\ run = [p \in Runs |-> IdleRun]
  /\ digest = [s \in {} |-> FALSE]
  /\ delayed = {}
  /\ faults = 0

Sending(p) ==
  Accepted(p) \/ Refused(p) \/ Busy(p) \/ Rejected(p) \/ NoAnswer(p)

Delivering(p) ==
  \/ Load(p) \/ Save(p) \/ SaveRefused(p)
  \/ TakeLock(p) \/ LockUnavailable(p)
  \/ Check(p) \/ Disowned(p) \/ Replace(p)
  \/ Sending(p)
  \/ Clear(p) \/ Record(p)

Next ==
  \/ \E p \in Runs : Measure(p) \/ Delivering(p) \/ Crash(p)
  \/ \E r \in delayed : DelayedArrives(r)

Spec == Init /\ [][Next]_vars

\* A started cycle goes on; every request ends, by an answer or a timeout.
FairSpec == Spec /\ \A p \in Runs : WF_vars(Delivering(p))

-----------------------------------------------------------------------------
(* Properties.                                                             *)

\* The files hold what their readers accept (a pending report is the one the
\* high water names), and only the lock's holder is between its acquisition
\* and its release.
TypeOK ==
  /\ next \in Nat
  /\ pending \in Report \cup {None}
  /\ highWater \in Nat \cup {None} /\ ack \in Nat \cup {None}
  /\ pending # None => pending.seq = highWater
  /\ lock \in Runs \cup {None}
  /\ run \in [Runs -> Run]
  /\ \A p \in Runs :
       run[p].pc \notin {"idle", "measured", "loaded", "saved", "recording"} <=> lock = p
  /\ DOMAIN digest \subseteq Nat
  /\ digest \in [DOMAIN digest -> BOOLEAN]
  /\ delayed \subseteq Report
  /\ faults \in Nat

\* The newest report ever saved is still waiting in the slot unless the
\* collector has it, and so has it every report recorded as acknowledged: a
\* process that finishes late never empties the slot of a newer report, and an
\* old answer is never taken for a new one.
NewestIsSafe ==
  /\ highWater # None /\ pending = None => highWater \in DOMAIN digest
  /\ ack # None => ack \in DOMAIN digest

\* The collector never refuses the report a process sends as its own: nothing
\* newer was sent before it and nothing different under its event id, although
\* other processes save, retry and time out meanwhile and abandoned requests
\* arrive late.
CurrentNeverRefused ==
  \A p \in Runs : At(p, "sending") => Welcome(run[p].report)

\* When the faults are over, a cycle with the newest report empties the slot,
\* whatever other processes and earlier cycles left in it, in the delivery lock
\* and in the network, unless another process starts a cycle meanwhile.
DeliversOnceCalm ==
  \A p \in Runs :
    LET Alone == \A q \in Runs \ {p} : At(q, "idle")
    IN  faults = MaxFaults /\ Alone /\ At(p, "measured") /\ run[p].report.seq = next - 1
          ~> pending = None \/ ~Alone

=============================================================================
