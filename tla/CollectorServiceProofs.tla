----------------------- MODULE CollectorServiceProofs -----------------------
(***************************************************************************)
(* Theorems about the collector process: its two events never lie, and no  *)
(* committed notification is forgotten.                                    *)
(***************************************************************************)
EXTENDS CollectorService, SequenceTheorems, FiniteSetTheorems, TLAPS

\* outbox_idle tells the truth in every reachable state.
THEOREM IdleIsTrue == Spec => []IdleIsIdle
<1>1. Init => IdleIsIdle
  BY DEF Init, IdleIsIdle
<1>2. IdleIsIdle /\ [Next]_vars => IdleIsIdle'
  <2> SUFFICES ASSUME IdleIsIdle, [Next]_vars
               PROVE  IdleIsIdle'
    OBVIOUS
  <2>1. CASE UNCHANGED loopVars
    BY <2>1 DEF IdleIsIdle, loopVars
  <2>2. CASE UNCHANGED vars
    BY <2>1, <2>2 DEF vars
  <2>3. ASSUME NEW a \in Agents, ReportCommits(a) \/ DuplicateReport(a) \/ FallsSilent(a)
        PROVE  UNCHANGED loopVars
    BY <2>3 DEF ReportCommits, DuplicateReport, FallsSilent
  <2>4. WatchdogCommits \/ RetryDue \/ TelegramFails \/ TelegramRecovers => UNCHANGED loopVars
    BY DEF WatchdogCommits, RetryDue, TelegramFails, TelegramRecovers
  <2>5. CASE Signalling \/ Restart
    BY <2>5 DEF Signalling, Signal, Restart, IdleIsIdle
  <2>6. CASE OutboxLoop
    BY <2>6 DEF OutboxLoop, Wake, NothingDue, Delivers, FailsForGood, FailsForNow,
       DrainRaises, SleepEnds, DrainReturns, EventAfterDrain, IdleAfterDrain, AfterFailure,
       IdleIsIdle, loopVars
  <2> QED BY <2>1, <2>2, <2>3, <2>4, <2>5, <2>6 DEF Next
<1> QED BY <1>1, <1>2, PTL DEF Spec

-----------------------------------------------------------------------------
(* Lost wakeups.                                                           *)

\* A notification that was never tried is due: only a failed attempt delays it.
UntriedIsDue ==
  /\ queue \in Seq(Notification)
  /\ \A i \in 1 .. Len(queue) : queue[i].attempts = 0 => queue[i].due

\* The same while drain returns after its last look at the queue.
Covered ==
  loop \in {"waiting", "returning"} /\ ~event /\ queue # <<>> /\ Head(queue).attempts = 0 =>
    toSignal # {}

WInv == overdue \subseteq Agents /\ UntriedIsDue /\ Covered

LEMMA FreshType ==
  ASSUME NEW a \in Agents
  PROVE  Fresh(a) \in Notification /\ Fresh(a).due
BY DEF Fresh, Notification

\* New notifications at the tail of the queue.
LEMMA AppendKeepsDue ==
  ASSUME UntriedIsDue, NEW n \in Nat, NEW more \in [1 .. n -> Notification],
         \A i \in 1 .. n : more[i].due, queue' = queue \o more
  PROVE  UntriedIsDue'
<1>1. more \in Seq(Notification) /\ Len(more) = n
  BY SeqDef
<1>2. /\ queue' \in Seq(Notification) /\ Len(queue') = Len(queue) + n
      /\ \A i \in 1 .. Len(queue) + n :
           queue'[i] = IF i <= Len(queue) THEN queue[i] ELSE more[i - Len(queue)]
  BY <1>1, ConcatProperties DEF UntriedIsDue
<1> QED BY <1>2 DEF UntriedIsDue

\* The head leaves the queue.
LEMMA TailKeepsDue ==
  ASSUME UntriedIsDue, queue # <<>>, queue' = Tail(queue)
  PROVE  UntriedIsDue'
<1>1. /\ Tail(queue) \in Seq(Notification) /\ Len(Tail(queue)) = Len(queue) - 1
      /\ \A i \in 1 .. Len(Tail(queue)) : Tail(queue)[i] = queue[i + 1]
  BY HeadTailProperties DEF UntriedIsDue
<1> QED BY <1>1 DEF UntriedIsDue

LEMMA ReportKeepsDue ==
  ASSUME UntriedIsDue, NEW a \in Agents, ReportCommits(a)
  PROVE  UntriedIsDue'
<1> DEFINE more == [i \in 1 .. Additions(a) |-> Fresh(a)]
<1>1. Additions(a) \in Nat
  BY DEF Additions
<1>2. /\ more \in [1 .. Additions(a) -> Notification]
      /\ \A i \in 1 .. Additions(a) : more[i].due
  BY FreshType
<1>3. queue' = queue \o more
  BY DEF ReportCommits
<1> HIDE DEF more
<1> QED BY <1>1, <1>2, <1>3, AppendKeepsDue

LEMMA WatchdogKeepsDue ==
  ASSUME UntriedIsDue, overdue \subseteq Agents, WatchdogCommits
  PROVE  UntriedIsDue'
<1>1. Late \subseteq Agents /\ Cardinality(Late) \in Nat
  <2>1. Late \subseteq Agents
    BY DEF Late
  <2> QED BY <2>1, ServiceAssumption, FS_Subset, FS_CardinalityType DEF ServiceAssumption
<1>2. PICK turn \in [1 .. Cardinality(Late) -> Late] :
        queue' = queue \o [i \in DOMAIN turn |-> Fresh(turn[i])]
  BY DEF WatchdogCommits
<1> DEFINE more == [i \in 1 .. Cardinality(Late) |-> Fresh(turn[i])]
<1>3. /\ more \in [1 .. Cardinality(Late) -> Notification]
      /\ \A i \in 1 .. Cardinality(Late) : more[i].due
  BY <1>1, FreshType
<1>4. queue' = queue \o more
  BY <1>2
<1> HIDE DEF more
<1> QED BY <1>1, <1>3, <1>4, AppendKeepsDue

\* A change of the head that leaves a tried head tried and an untried one due.
LEMMA HeadKeepsDue ==
  ASSUME UntriedIsDue, queue # <<>>, NEW head \in Notification,
         head.attempts = 0 => head.due, queue' = [queue EXCEPT ![1] = head]
  PROVE  UntriedIsDue' /\ queue' # <<>> /\ Head(queue') = head
<1>1. /\ queue' \in Seq(Notification) /\ Len(queue') = Len(queue) /\ Len(queue) >= 1
      /\ \A i \in 1 .. Len(queue) : queue'[i] = IF i = 1 THEN head ELSE queue[i]
  BY DEF UntriedIsDue
<1> QED BY <1>1 DEF UntriedIsDue

\* The head after a failure that is not the last.
LEMMA FailureKeepsDue ==
  ASSUME UntriedIsDue, FailsForNow
  PROVE  UntriedIsDue' /\ queue' # <<>> /\ Head(queue').attempts # 0
<1> DEFINE head == Postponed(Head(queue))
<1>1. queue # <<>> /\ Head(queue) \in Notification /\ Head(queue) = queue[1]
  BY HeadTailProperties DEF FailsForNow, UntriedIsDue
<1>2. head \in Notification /\ head.attempts # 0
  <2>1. Head(queue).attempts + 1 \in Nat /\ Head(queue).attempts + 1 # 0
    BY <1>1 DEF Notification
  <2> QED BY <1>1, <2>1 DEF Notification, Postponed
<1>3. queue' = [queue EXCEPT ![1] = head]
  BY <1>1 DEF FailsForNow
<1> HIDE DEF head
<1> QED BY <1>1, <1>2, <1>3, HeadKeepsDue

LEMMA RetryKeepsDue ==
  ASSUME UntriedIsDue, RetryDue
  PROVE  UntriedIsDue' /\ queue # <<>> /\ Head(queue').attempts = Head(queue).attempts
<1> DEFINE head == [Head(queue) EXCEPT !.due = TRUE]
<1>1. queue # <<>> /\ Head(queue) \in Notification /\ Head(queue) = queue[1]
  BY HeadTailProperties DEF RetryDue, UntriedIsDue
<1>2. head \in Notification /\ head.due /\ head.attempts = Head(queue).attempts
  BY <1>1 DEF Notification
<1>3. queue' = [queue EXCEPT ![1] = head]
  BY <1>1 DEF RetryDue
<1> HIDE DEF head
<1> QED BY <1>1, <1>2, <1>3, HeadKeepsDue

LEMMA WInvInductive ==
  ASSUME WInv, [Next]_vars
  PROVE  WInv'
<1> USE DEF WInv
<1>1. ASSUME NEW a \in Agents, ReportCommits(a)
      PROVE  WInv'
  <2>1. UntriedIsDue'
    BY <1>1, ReportKeepsDue
  <2> QED BY <1>1, <2>1 DEF ReportCommits, Covered
<1>2. ASSUME NEW a \in Agents, DuplicateReport(a) \/ FallsSilent(a)
      PROVE  WInv'
  BY <1>2 DEF DuplicateReport, FallsSilent, Covered, UntriedIsDue, store, loopVars
<1>3. CASE WatchdogCommits
  <2>1. UntriedIsDue'
    BY <1>3, WatchdogKeepsDue
  <2> QED BY <1>3, <2>1 DEF WatchdogCommits, Covered
<1>4. CASE Signalling \/ Restart
  BY <1>4 DEF Signalling, Signal, Restart, Covered, UntriedIsDue, store
<1>5. CASE Wake \/ DrainReturns \/ DrainRaises \/ SleepEnds
  BY <1>5 DEF Wake, DrainReturns, EventAfterDrain, DrainRaises, SleepEnds, AfterFailure,
     Covered, UntriedIsDue, store
<1>6. CASE NothingDue
  <2>1. queue # <<>> => Head(queue).attempts # 0
    <3>1. queue # <<>> => Len(queue) \in Nat /\ Len(queue) >= 1 /\ Head(queue) = queue[1]
      BY HeadTailProperties, EmptySeq, LenProperties DEF UntriedIsDue
    <3> QED BY <1>6, <3>1 DEF NothingDue, UntriedIsDue
  <2> QED BY <1>6, <2>1 DEF NothingDue, Covered, UntriedIsDue, store
<1>7. CASE Delivers \/ FailsForGood
  <2>1. UntriedIsDue'
    BY <1>7, TailKeepsDue DEF Delivers, FailsForGood
  <2> QED BY <1>7, <2>1 DEF Delivers, FailsForGood, Covered, loopVars
<1>8. CASE FailsForNow
  <2>1. UntriedIsDue' /\ Head(queue').attempts # 0
    BY <1>8, FailureKeepsDue
  <2> QED BY <1>8, <2>1 DEF FailsForNow, Covered
<1>9. CASE RetryDue
  <2>1. UntriedIsDue' /\ queue # <<>> /\ Head(queue').attempts = Head(queue).attempts
    BY <1>9, RetryKeepsDue
  <2> QED BY <1>9, <2>1 DEF RetryDue, Covered, loopVars
<1>10. CASE TelegramFails \/ TelegramRecovers \/ UNCHANGED vars
  BY <1>10 DEF TelegramFails, TelegramRecovers, vars, store, loopVars, Covered, UntriedIsDue
<1> QED BY <1>1, <1>2, <1>3, <1>4, <1>5, <1>6, <1>7, <1>8, <1>9, <1>10 DEF Next, OutboxLoop

\* No interleaving of commits, signals, drains, failures and restarts leaves a
\* new notification at the head of a queue that nobody is going to drain.
THEOREM WakeupsAreNotLost == Spec => []NoLostWakeup
<1>1. Init => WInv
  BY DEF Init, WInv, UntriedIsDue, Covered
<1>2. WInv /\ [Next]_vars => WInv'
  BY WInvInductive
<1>3. WInv => NoLostWakeup
  BY DEF WInv, Covered, NoLostWakeup
<1> QED BY <1>1, <1>2, <1>3, PTL DEF Spec

=============================================================================
