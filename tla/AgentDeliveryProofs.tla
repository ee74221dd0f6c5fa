------------------------ MODULE AgentDeliveryProofs ------------------------
(***************************************************************************)
(* Type correctness of AgentDelivery, that the newest report is never      *)
(* lost, and that the collector never refuses a current report.            *)
(***************************************************************************)
EXTENDS AgentDelivery, TLAPS

Alive(p) == ~At(p, "idle")

BeforeSave(p) == run[p].pc \in {"measured", "loaded"}

BeforeSend(p) ==
  run[p].pc \in {"measured", "loaded", "saved", "locked", "retrying", "retried",
                 "replacing", "confirming"}

\* The collector has the report or may still get it.
Out(s) == s \in DOMAIN digest \/ \E r \in delayed : r.seq = s

\* Living processes hold different numbers, all drawn from the counter, and the
\* high water is one that was drawn.
NumbersDrawn ==
  /\ \A p \in Runs : Alive(p) => Seq(p) < next
  /\ \A p, q \in Runs : Alive(p) /\ Alive(q) /\ p # q => Seq(p) # Seq(q)
  /\ highWater # None => highWater < next

\* The high water covers what was saved and nothing that was not.
HighWaterCovers ==
  /\ \A p \in Runs : BeforeSave(p) => highWater # Seq(p)
  /\ \A p \in Runs : Alive(p) /\ ~BeforeSave(p) => highWater # None /\ Seq(p) <= highWater
  /\ \A s \in Nat : Out(s) => highWater # None /\ s <= highWater

\* A process retries only a report older than its own.
RetriesOlder ==
  \A p \in Runs :
    /\ run[p].pc \in {"idle", "measured"} => run[p].previous = None
    /\ At(p, "retrying") => run[p].previous # None
    /\ run[p].previous # None =>
         /\ highWater # None /\ run[p].previous.seq <= highWater
         /\ run[p].previous.seq # Seq(p)
         /\ ~At(p, "loaded") => run[p].previous.seq < Seq(p)

\* Nobody else sends a report before its owner unless a newer one is saved.
UnsentBefore ==
  \A p \in Runs : BeforeSend(p) /\ Out(Seq(p)) => highWater > Seq(p)

\* Nothing newer than this process's report is out, and no other version of it.
NewestOut(p) ==
  /\ \A s \in DOMAIN digest : s <= Seq(p)
  /\ \A r \in delayed : r.seq <= Seq(p)
  /\ Seq(p) \in DOMAIN digest => digest[Seq(p)] = run[p].report.dropped
  /\ \A r \in delayed : r.seq = Seq(p) => r = run[p].report

SendsNewest == \A p \in Runs : At(p, "sending") => NewestOut(p)

\* A process about to clear or to record was answered.
AnsweredFirst ==
  \A p \in Runs : run[p].pc \in {"clearing", "recording"} => Seq(p) \in DOMAIN digest

IInv ==
  /\ TypeOK /\ NumbersDrawn /\ HighWaterCovers /\ RetriesOlder
  /\ UnsentBefore /\ SendsNewest /\ AnsweredFirst /\ NewestIsSafe

-----------------------------------------------------------------------------
(* What each step keeps of the invariant.                                  *)

\* A new report has a number that nobody has saved or sent.
LEMMA MeasureKeeps ==
  ASSUME IInv, NEW p \in Runs, Measure(p)
  PROVE  IInv'
<1> USE DeliveryAssumption DEF IInv, At, Goto, Seq, Alive, BeforeSave, BeforeSend, Out, files,
        network, Measure
<1>1. TypeOK'
  <2>1. run' \in [Runs -> Run]
    <3>1. run[p] \in Run
      BY DEF TypeOK
    <3>2. run' = [run EXCEPT ![p] = [run[p] EXCEPT !.pc = "measured",
                                                    !.report = [seq |-> next, dropped |-> FALSE]]]
      OBVIOUS
    <3>3. [seq |-> next, dropped |-> FALSE] \in Report
      BY DEF TypeOK, Report
    <3>4. [run[p] EXCEPT !.pc = "measured", !.report = [seq |-> next, dropped |-> FALSE]] \in Run
      BY <3>1, <3>3 DEF Run, Steps
    <3> QED
      BY <3>1, <3>2, <3>4 DEF TypeOK
  <2>2. \A q \in Runs :
          run'[q].pc \notin {"idle", "measured", "loaded", "saved", "recording"} <=> lock' = q
    BY DEF TypeOK, Run
  <2> QED
    BY <2>1, <2>2 DEF TypeOK
<1>2. NumbersDrawn'
  BY DEF NumbersDrawn, TypeOK, Run, Report
<1>3. HighWaterCovers'
  BY DEF HighWaterCovers, NumbersDrawn, TypeOK, Run, Report
<1>4. RetriesOlder'
  BY DEF RetriesOlder, TypeOK, Run, Report
<1>5. UnsentBefore'
  BY DEF UnsentBefore, HighWaterCovers, NumbersDrawn, TypeOK, Run, Report
<1>6. SendsNewest'
  <2>1. ASSUME NEW q \in Runs, (At(q, "sending"))'
        PROVE  At(q, "sending") /\ run'[q] = run[q]
    BY <2>1 DEF TypeOK, Run
  <2>2. ASSUME NEW q \in Runs, At(q, "sending"), run'[q] = run[q]
        PROVE  NewestOut(q)'
    BY <2>2 DEF SendsNewest, NewestOut
  <2> QED
    BY <2>1, <2>2 DEF SendsNewest
<1>7. AnsweredFirst'
  BY DEF AnsweredFirst, TypeOK, Run, Report
<1>8. NewestIsSafe'
  BY DEF NewestIsSafe, TypeOK, Run, Report
<1> QED
  BY <1>1, <1>2, <1>3, <1>4, <1>5, <1>6, <1>7, <1>8

\* What is loaded from the slot is older than the report in hand, or the save will fail.
LEMMA LoadKeeps ==
  ASSUME IInv, NEW p \in Runs, Load(p)
  PROVE  IInv'
<1> USE DeliveryAssumption DEF IInv, At, Goto, Seq, Alive, BeforeSave, BeforeSend, Out, files,
        network, Load
<1>1. TypeOK'
  <2>1. run' \in [Runs -> Run]
    <3>1. run[p] \in Run
      BY DEF TypeOK
    <3>2. run' = [run EXCEPT ![p] = [run[p] EXCEPT !.pc = "loaded", !.previous = pending]]
      OBVIOUS
    <3>3. pending \in Report \cup {None}
      BY DEF TypeOK
    <3>4. [run[p] EXCEPT !.pc = "loaded", !.previous = pending] \in Run
      BY <3>1, <3>3 DEF Run, Steps
    <3> QED
      BY <3>1, <3>2, <3>4 DEF TypeOK
  <2>2. \A q \in Runs :
          run'[q].pc \notin {"idle", "measured", "loaded", "saved", "recording"} <=> lock' = q
    BY DEF TypeOK, Run
  <2> QED
    BY <2>1, <2>2 DEF TypeOK
<1>2. NumbersDrawn'
  BY DEF NumbersDrawn, TypeOK, Run, Report
<1>3. HighWaterCovers'
  BY DEF HighWaterCovers, TypeOK, Run, Report
<1>4. RetriesOlder'
  BY DEF RetriesOlder, TypeOK, Run, Report
<1>5. UnsentBefore'
  BY DEF UnsentBefore, TypeOK, Run, Report
<1>6. SendsNewest'
  BY DEF SendsNewest, NewestOut, TypeOK, Run, Report
<1>7. AnsweredFirst'
  BY DEF AnsweredFirst, TypeOK, Run, Report
<1>8. NewestIsSafe'
  BY DEF NewestIsSafe, TypeOK, Run, Report
<1> QED
  BY <1>1, <1>2, <1>3, <1>4, <1>5, <1>6, <1>7, <1>8

\* A saved report becomes the high water, and no report before it does any more.
LEMMA SaveKeeps ==
  ASSUME IInv, NEW p \in Runs, Save(p)
  PROVE  IInv'
<1> USE DeliveryAssumption DEF IInv, At, Goto, Seq, Alive, BeforeSave, BeforeSend, Out, files,
        network, Save, IsNewest
<1>1. TypeOK'
  BY DEF TypeOK, Run, IdleRun, NoReport, Report, Steps
<1>2. NumbersDrawn'
  BY DEF NumbersDrawn, TypeOK, Run, Report
<1>3. HighWaterCovers'
  BY DEF HighWaterCovers, NumbersDrawn, TypeOK, Run, Report
<1>4. RetriesOlder'
  <2>1. highWater' \in Nat /\ (highWater # None => highWater <= highWater')
    BY DEF TypeOK, Run, Report
  <2>2. ASSUME NEW q \in Runs, run'[q].previous # None
        PROVE  /\ run'[q].previous.seq <= highWater'
               /\ run'[q].previous.seq # Seq(q)'
               /\ ~At(q, "loaded")' => run'[q].previous.seq < Seq(q)'
    <3>1. CASE q = p
      <4>1. run'[p].previous = run[p].previous /\ Seq(p)' = Seq(p) /\ highWater' = Seq(p)
        BY DEF TypeOK, Run
      <4>2. run[p].previous \in Report /\ Seq(p) \in Nat
        BY <2>2, <3>1, <4>1 DEF TypeOK, Run, Report
      <4>3. run[p].previous.seq < Seq(p)
        <5>1. highWater \in Nat /\ Seq(p) >= highWater
          BY <2>2, <3>1, <4>1 DEF RetriesOlder, TypeOK
        <5>2. run[p].previous.seq <= highWater /\ run[p].previous.seq # Seq(p)
          BY <2>2, <3>1, <4>1 DEF RetriesOlder
        <5> QED
          BY <4>2, <5>1, <5>2 DEF Report
      <4> QED
        BY <3>1, <4>1, <4>2, <4>3 DEF Report
    <3>2. CASE q # p
      BY <2>1, <2>2, <3>2 DEF RetriesOlder, TypeOK, Run, Report
    <3> QED
      BY <3>1, <3>2
  <2> QED
    BY <2>1, <2>2 DEF RetriesOlder, TypeOK, Run
<1>5. UnsentBefore'
  BY DEF UnsentBefore, HighWaterCovers, NumbersDrawn, TypeOK, Run, Report
<1>6. SendsNewest'
  BY DEF SendsNewest, NewestOut, TypeOK, Run, Report
<1>7. AnsweredFirst'
  BY DEF AnsweredFirst, TypeOK, Run, Report
<1>8. NewestIsSafe'
  BY DeliveryAssumption DEF NewestIsSafe, TypeOK, Run, Report
<1> QED
  BY <1>1, <1>2, <1>3, <1>4, <1>5, <1>6, <1>7, <1>8

\* Every early return, cancellation and crash.
LEMMA LeaveKeeps ==
  ASSUME IInv, NEW p \in Runs, Alive(p), Leave(p), UNCHANGED <<files, network>>, faults' \in Nat
  PROVE  IInv'
<1> USE DeliveryAssumption DEF IInv, At, Goto, Seq, Alive, BeforeSave, BeforeSend, Out, files,
        network, Leave, Freed, IdleRun, NoReport
<1>1. TypeOK'
  BY DEF TypeOK, Run, IdleRun, NoReport, Report, Steps
<1>2. NumbersDrawn'
  BY DEF NumbersDrawn, TypeOK, Run, Report
<1>3. HighWaterCovers'
  BY DEF HighWaterCovers, TypeOK, Run, Report
<1>4. RetriesOlder'
  BY DEF RetriesOlder, TypeOK, Run, Report
<1>5. UnsentBefore'
  BY DEF UnsentBefore, TypeOK, Run, Report
<1>6. SendsNewest'
  BY DEF SendsNewest, NewestOut, TypeOK, Run, Report
<1>7. AnsweredFirst'
  BY DEF AnsweredFirst, TypeOK, Run, Report
<1>8. NewestIsSafe'
  BY DEF NewestIsSafe, TypeOK, Run, Report
<1> QED
  BY <1>1, <1>2, <1>3, <1>4, <1>5, <1>6, <1>7, <1>8

\* The lock is free when it is taken.
LEMMA TakeLockKeeps ==
  ASSUME IInv, NEW p \in Runs, TakeLock(p)
  PROVE  IInv'
<1> USE DeliveryAssumption DEF IInv, At, Goto, Seq, Alive, BeforeSave, BeforeSend, Out, files,
        network, TakeLock, LockFree
<1>1. TypeOK'
  BY DEF TypeOK, Run, IdleRun, NoReport, Report, Steps
<1>2. NumbersDrawn'
  BY DEF NumbersDrawn, TypeOK, Run, Report
<1>3. HighWaterCovers'
  BY DEF HighWaterCovers, TypeOK, Run, Report
<1>4. RetriesOlder'
  BY DEF RetriesOlder, TypeOK, Run, Report
<1>5. UnsentBefore'
  BY DEF UnsentBefore, TypeOK, Run, Report
<1>6. SendsNewest'
  BY DEF SendsNewest, NewestOut, TypeOK, Run, Report
<1>7. AnsweredFirst'
  BY DEF AnsweredFirst, TypeOK, Run, Report
<1>8. NewestIsSafe'
  BY DEF NewestIsSafe, TypeOK, Run, Report
<1> QED
  BY <1>1, <1>2, <1>3, <1>4, <1>5, <1>6, <1>7, <1>8

\* The last revalidation is what makes SendsNewest true.
LEMMA CheckKeeps ==
  ASSUME IInv, NEW p \in Runs, Check(p)
  PROVE  IInv'
<1> USE DeliveryAssumption DEF IInv, At, Goto, Seq, Alive, BeforeSave, BeforeSend, Out, files,
        network, Check, Owns, AfterCheck
<1>1. TypeOK'
  <2>0. AfterCheck(p) \in {"retried", "retrying", "replacing", "confirming", "sending"}
    OBVIOUS
  <2> HIDE DEF AfterCheck
  <2>1. run' \in [Runs -> Run]
    <3>1. run[p] \in Run
      BY DEF TypeOK
    <3>2. run' = [run EXCEPT ![p] = [run[p] EXCEPT !.pc = AfterCheck(p), !.attempt = 1]]
      OBVIOUS
    <3>3. AfterCheck(p) \in Steps
      BY <2>0 DEF Steps
    <3>4. [run[p] EXCEPT !.pc = AfterCheck(p), !.attempt = 1] \in Run
      BY <3>1, <3>3 DEF Run, Steps
    <3> QED
      BY <3>1, <3>2, <3>4 DEF TypeOK
  <2>2. \A q \in Runs :
          run'[q].pc \notin {"idle", "measured", "loaded", "saved", "recording"} <=> lock' = q
    BY <2>0 DEF TypeOK, Run
  <2> QED
    BY <2>1, <2>2 DEF TypeOK
<1>2. NumbersDrawn'
  BY DEF NumbersDrawn, TypeOK, Run, Report
<1>3. HighWaterCovers'
  BY DEF HighWaterCovers, TypeOK, Run, Report
<1>4. RetriesOlder'
  BY DEF RetriesOlder, TypeOK, Run, Report
<1>5. UnsentBefore'
  BY DEF UnsentBefore, TypeOK, Run, Report
<1>6. SendsNewest'
  <2>1. ASSUME NEW q \in Runs, q # p, (At(q, "sending"))'
        PROVE  At(q, "sending") /\ run'[q] = run[q]
    BY <2>1 DEF TypeOK, Run
  <2>2. ASSUME (At(p, "sending"))'
        PROVE  \A s \in Nat : Out(s) => s < Seq(p)
    <3>1. highWater = Seq(p) /\ BeforeSend(p) /\ Seq(p) \in Nat
      BY DEF TypeOK, Run, Report
    <3> QED
      BY <3>1 DEF UnsentBefore, HighWaterCovers, TypeOK
  <2>4. ASSUME NEW q \in Runs, At(q, "sending"), run'[q] = run[q]
        PROVE  NewestOut(q)'
    BY <2>4 DEF SendsNewest, NewestOut
  <2>3. Seq(p)' = Seq(p) /\ Seq(p) \in Nat
    BY DEF TypeOK, Run, Report
  <2>5. ASSUME (At(p, "sending"))'
        PROVE  NewestOut(p)'
    BY <2>2, <2>3, <2>5 DEF NewestOut, TypeOK, Report
  <2> QED
    BY <2>1, <2>4, <2>5 DEF SendsNewest
<1>7. AnsweredFirst'
  BY DEF AnsweredFirst, TypeOK, Run, Report
<1>8. NewestIsSafe'
  BY DEF NewestIsSafe, TypeOK, Run, Report
<1> QED
  BY <1>1, <1>2, <1>3, <1>4, <1>5, <1>6, <1>7, <1>8

\* The slot keeps its number when its report is replaced.
LEMMA ReplaceKeeps ==
  ASSUME IInv, NEW p \in Runs, Replace(p)
  PROVE  IInv'
<1> USE DeliveryAssumption DEF IInv, At, Goto, Seq, Alive, BeforeSave, BeforeSend, Out, files,
        network, Replace, Owns, ReplacementOf
<1>1. TypeOK'
  BY DEF TypeOK, Run, IdleRun, NoReport, Report, Steps
<1>2. NumbersDrawn'
  BY DEF NumbersDrawn, TypeOK, Run, Report
<1>3. HighWaterCovers'
  BY DEF HighWaterCovers, TypeOK, Run, Report
<1>4. RetriesOlder'
  BY DEF RetriesOlder, TypeOK, Run, Report
<1>5. UnsentBefore'
  BY DEF UnsentBefore, TypeOK, Run, Report
<1>6. SendsNewest'
  BY DEF SendsNewest, NewestOut, TypeOK, Run, Report
<1>7. AnsweredFirst'
  BY DEF AnsweredFirst, TypeOK, Run, Report
<1>8. NewestIsSafe'
  BY DeliveryAssumption DEF NewestIsSafe, TypeOK, Run, Report
<1> QED
  BY <1>1, <1>2, <1>3, <1>4, <1>5, <1>6, <1>7, <1>8

\* A failed retry marks the report in hand.
LEMMA RetryFailsKeeps ==
  ASSUME IInv, NEW p \in Runs, At(p, "retrying"), Failed(p),
         UNCHANGED <<files, network>>, faults' \in Nat
  PROVE  IInv'
<1> USE DeliveryAssumption DEF IInv, At, Goto, Seq, Alive, BeforeSave, BeforeSend, Out, files,
        network, Failed
<1>1. TypeOK'
  BY DEF TypeOK, Run, IdleRun, NoReport, Report, Steps
<1>2. NumbersDrawn'
  <2>1. \A q \in Runs : Seq(q)' = Seq(q) /\ (Alive(q)' <=> Alive(q))
    BY DEF TypeOK, Run, Report
  <2> QED
    BY <2>1 DEF NumbersDrawn
<1>3. HighWaterCovers'
  BY DEF HighWaterCovers, TypeOK, Run, Report
<1>4. RetriesOlder'
  BY DEF RetriesOlder, TypeOK, Run, Report
<1>5. UnsentBefore'
  BY DEF UnsentBefore, TypeOK, Run, Report
<1>6. SendsNewest'
  BY DEF SendsNewest, NewestOut, TypeOK, Run, Report
<1>7. AnsweredFirst'
  BY DEF AnsweredFirst, TypeOK, Run, Report
<1>8. NewestIsSafe'
  BY DEF NewestIsSafe, TypeOK, Run, Report
<1> QED
  BY <1>1, <1>2, <1>3, <1>4, <1>5, <1>6, <1>7, <1>8

\* An accepted report was saved, and only the lock's holder sends.
LEMMA AcceptedKeeps ==
  ASSUME IInv, NEW p \in Runs, Accepted(p)
  PROVE  IInv'
<1> USE DeliveryAssumption DEF IInv, At, Goto, Seq, Alive, BeforeSave, BeforeSend, Out, files,
        network, Accepted, Takes, Sent
<1>1. TypeOK'
  <2>1. run' \in [Runs -> Run]
    BY DEF TypeOK, Run, Report, Steps
  <2>2. \A q \in Runs :
          run'[q].pc \notin {"idle", "measured", "loaded", "saved", "recording"} <=> lock' = q
    BY DEF TypeOK, Run
  <2>3. Sent(p) \in Report
    BY DEF TypeOK, Run, RetriesOlder
  <2>4. DOMAIN digest' \subseteq Nat /\ digest' \in [DOMAIN digest' -> BOOLEAN]
    BY <2>3 DEF TypeOK, Report
  <2> QED
    BY <2>1, <2>2, <2>4 DEF TypeOK
<1>2. NumbersDrawn'
  BY DEF NumbersDrawn, TypeOK, Run, Report
<1>3. HighWaterCovers'
  <2>1. Sent(p) \in Report /\ highWater \in Nat /\ Sent(p).seq <= highWater
    BY DEF TypeOK, Run, Report, RetriesOlder, HighWaterCovers
  <2>2. ASSUME NEW s \in Nat, Out(s)'
        PROVE  Out(s) \/ s = Sent(p).seq
    BY <2>2
  <2>3. \A q \in Runs : /\ Seq(q)' = Seq(q)
                        /\ BeforeSave(q)' <=> BeforeSave(q)
                        /\ Alive(q)' <=> Alive(q)
    BY DEF TypeOK, Run, Report
  <2> QED
    BY <2>1, <2>2, <2>3 DEF HighWaterCovers, TypeOK
<1>4. RetriesOlder'
  BY DEF RetriesOlder, TypeOK, Run, Report
<1>5. UnsentBefore'
  <2>1. Sent(p) \in Report /\ highWater \in Nat
    BY DEF TypeOK, Run, Report, RetriesOlder, HighWaterCovers
  <2>2. ASSUME NEW q \in Runs, BeforeSend(q)', Out(Seq(q))'
        PROVE  highWater > Seq(q)
    <3>1. BeforeSend(q) /\ Seq(q)' = Seq(q) /\ Seq(q) \in Nat
      BY <2>2 DEF TypeOK, Run, Report
    <3>2. CASE Out(Seq(q))
      BY <3>1, <3>2 DEF UnsentBefore
    <3>3. CASE Seq(q) = Sent(p).seq /\ At(p, "retrying")
      BY <2>1, <3>1, <3>3 DEF RetriesOlder, HighWaterCovers, TypeOK, Run, Report
    <3>4. CASE Seq(q) = Sent(p).seq /\ At(p, "sending")
      BY <3>1, <3>4, <2>2 DEF NumbersDrawn, TypeOK, Run
    <3> QED
      BY <2>2, <3>1, <3>2, <3>3, <3>4
  <2> QED
    BY <2>2 DEF UnsentBefore, TypeOK, Run, Report
<1>6. SendsNewest'
  BY DEF SendsNewest, NewestOut, TypeOK, Run, Report
<1>7. AnsweredFirst'
  BY DEF AnsweredFirst, TypeOK, Run, Report
<1>8. NewestIsSafe'
  BY DEF NewestIsSafe, TypeOK, Run, Report
<1> QED
  BY <1>1, <1>2, <1>3, <1>4, <1>5, <1>6, <1>7, <1>8

\* The slot is emptied only of the report that was accepted.
LEMMA ClearKeeps ==
  ASSUME IInv, NEW p \in Runs, Clear(p)
  PROVE  IInv'
<1> USE DeliveryAssumption DEF IInv, At, Goto, Seq, Alive, BeforeSave, BeforeSend, Out, files,
        network, Clear, Clears, Owns, Freed
<1>1. TypeOK'
  BY DEF TypeOK, Run, IdleRun, NoReport, Report, Steps
<1>2. NumbersDrawn'
  BY DEF NumbersDrawn, TypeOK, Run, Report
<1>3. HighWaterCovers'
  BY DEF HighWaterCovers, TypeOK, Run, Report
<1>4. RetriesOlder'
  BY DEF RetriesOlder, TypeOK, Run, Report
<1>5. UnsentBefore'
  BY DEF UnsentBefore, TypeOK, Run, Report
<1>6. SendsNewest'
  BY DEF SendsNewest, NewestOut, TypeOK, Run, Report
<1>7. AnsweredFirst'
  BY DEF AnsweredFirst, TypeOK, Run, Report
<1>8. NewestIsSafe'
  BY DEF NewestIsSafe, AnsweredFirst, TypeOK, Run, Report
<1> QED
  BY <1>1, <1>2, <1>3, <1>4, <1>5, <1>6, <1>7, <1>8

\* What is recorded was accepted.
LEMMA RecordKeeps ==
  ASSUME IInv, NEW p \in Runs, Record(p)
  PROVE  IInv'
<1> USE DeliveryAssumption DEF IInv, At, Goto, Seq, Alive, BeforeSave, BeforeSend, Out, files,
        network, Record, Leave, Freed, IdleRun, NoReport
<1>1. TypeOK'
  BY DEF TypeOK, Run, IdleRun, NoReport, Report, Steps
<1>2. NumbersDrawn'
  BY DEF NumbersDrawn, TypeOK, Run, Report
<1>3. HighWaterCovers'
  BY DEF HighWaterCovers, TypeOK, Run, Report
<1>4. RetriesOlder'
  BY DEF RetriesOlder, TypeOK, Run, Report
<1>5. UnsentBefore'
  BY DEF UnsentBefore, TypeOK, Run, Report
<1>6. SendsNewest'
  BY DEF SendsNewest, NewestOut, TypeOK, Run, Report
<1>7. AnsweredFirst'
  BY DEF AnsweredFirst, TypeOK, Run, Report
<1>8. NewestIsSafe'
  BY DEF NewestIsSafe, AnsweredFirst, TypeOK, Run, Report
<1> QED
  BY <1>1, <1>2, <1>3, <1>4, <1>5, <1>6, <1>7, <1>8


\* What a failed attempt leaves of the process: it left, tries the same bytes
\* again, or goes on after a failed retry.
AttemptOver(p) ==
  \/ /\ run'[p] = IdleRun
     /\ lock' = None
  \/ /\ \/ run'[p].pc = run[p].pc
        \/ At(p, "retrying") /\ run'[p].pc = "retried"
     /\ At(p, "sending") => run'[p].pc = "sending" /\ run'[p].report = run[p].report
     /\ Seq(p)' = Seq(p)
     /\ run'[p].previous = run[p].previous
     /\ lock' = lock

LEMMA AttemptEnds ==
  ASSUME IInv, NEW p \in Runs, run[p].pc \in {"retrying", "sending"}, FailedAttempt(p)
  PROVE  /\ run' \in [Runs -> Run]
         /\ \A q \in Runs : q # p => run'[q] = run[q]
         /\ AttemptOver(p)
<1>1. run[p] \in Run /\ run \in [Runs -> Run] /\ run[p].report \in Report /\ lock = p
  BY DEF IInv, TypeOK, Run
<1>2. CASE run[p].attempt < MaxAttempts
  <2>1. run' = [run EXCEPT ![p] = [run[p] EXCEPT !.attempt = @ + 1]] /\ lock' = lock
    BY <1>2 DEF FailedAttempt
  <2>2. [run[p] EXCEPT !.attempt = @ + 1] \in Run
    BY <1>1 DEF Run
  <2> QED
    BY <1>1, <2>1, <2>2 DEF AttemptOver, At, Seq, Run
<1>3. CASE ~(run[p].attempt < MaxAttempts) /\ At(p, "retrying")
  <2>1. /\ run' = [run EXCEPT ![p] = [run[p] EXCEPT !.pc = "retried",
                                                    !.report = [@ EXCEPT !.dropped = TRUE]]]
        /\ lock' = lock
    BY <1>3 DEF FailedAttempt, Failed
  <2>2. [run[p] EXCEPT !.pc = "retried", !.report = [@ EXCEPT !.dropped = TRUE]] \in Run
    BY <1>1 DEF Run, Steps, Report
  <2> QED
    BY <1>1, <1>3, <2>1, <2>2 DEF AttemptOver, At, Seq, Run, Report
<1>4. CASE ~(run[p].attempt < MaxAttempts) /\ ~At(p, "retrying")
  <2>1. run' = [run EXCEPT ![p] = IdleRun] /\ lock' = None
    BY <1>1, <1>4 DEF FailedAttempt, Failed, Leave, Freed
  <2>2. IdleRun \in Run
    BY DEF IdleRun, NoReport, Run, Steps, Report
  <2> QED
    BY <1>1, <2>1, <2>2 DEF AttemptOver
<1> QED
  BY <1>2, <1>3, <1>4

LEMMA UnansweredKeeps ==
  ASSUME IInv, NEW p \in Runs, run[p].pc \in {"retrying", "sending"}, FailedAttempt(p),
         delayed' \in {delayed, delayed \cup {Sent(p)}},
         UNCHANGED <<files, digest>>, faults' \in Nat
  PROVE  IInv'
<1> USE DeliveryAssumption DEF IInv, At, Seq, files
<1>1. run' \in [Runs -> Run] /\ \A q \in Runs : q # p => run'[q] = run[q]
  BY AttemptEnds
<1>2. AttemptOver(p)
  BY AttemptEnds
<1>3. lock = p /\ Sent(p) \in Report /\ highWater \in Nat /\ Sent(p).seq <= highWater
  BY DEF Sent, TypeOK, Run, Report, RetriesOlder, HighWaterCovers, Alive, BeforeSave
<1>4. \A q \in Runs : /\ Alive(q)' => Alive(q) /\ Seq(q)' = Seq(q)
                      /\ BeforeSave(q)' => BeforeSave(q) /\ Seq(q)' = Seq(q)
                      /\ BeforeSend(q)' => BeforeSend(q) /\ Seq(q)' = Seq(q)
                      /\ Alive(q)' /\ ~BeforeSave(q)' => Alive(q) /\ ~BeforeSave(q)
  BY <1>1, <1>2 DEF AttemptOver, Alive, BeforeSave, BeforeSend, IdleRun
<1>5. ASSUME NEW s \in Nat, Out(s)'
      PROVE  Out(s) \/ s = Sent(p).seq
  BY <1>5 DEF Out
<1>6. TypeOK'
  <2>1. \A q \in Runs :
          run'[q].pc \notin {"idle", "measured", "loaded", "saved", "recording"} <=> lock' = q
    BY <1>1, <1>2, <1>3 DEF AttemptOver, IdleRun, TypeOK, Run
  <2> QED
    BY <1>1, <1>2, <1>3, <2>1 DEF TypeOK, AttemptOver
<1>7. NumbersDrawn'
  BY <1>4 DEF NumbersDrawn
<1>8. HighWaterCovers'
  BY <1>3, <1>4, <1>5 DEF HighWaterCovers
<1>9. RetriesOlder'
  BY <1>1, <1>2 DEF RetriesOlder, AttemptOver, IdleRun, Run
<1>10. UnsentBefore'
  <2>1. ASSUME NEW q \in Runs, BeforeSend(q)', Out(Seq(q))'
        PROVE  highWater > Seq(q)
    <3>1. BeforeSend(q) /\ Seq(q)' = Seq(q) /\ Seq(q) \in Nat
      BY <1>4, <2>1 DEF TypeOK, Run, Report
    <3>2. CASE Out(Seq(q))
      BY <3>1, <3>2 DEF UnsentBefore
    <3>3. CASE Seq(q) = Sent(p).seq /\ At(p, "retrying")
      BY <1>3, <3>1, <3>3 DEF Sent, RetriesOlder, HighWaterCovers, Alive, BeforeSave,
                              TypeOK, Run, Report
    <3>4. CASE Seq(q) = Sent(p).seq /\ At(p, "sending")
      BY <3>1, <3>4 DEF Sent, NumbersDrawn, Alive, BeforeSend, TypeOK, Run
    <3> QED
      BY <1>5, <2>1, <3>1, <3>2, <3>3, <3>4
  <2> QED
    BY <1>4, <2>1 DEF UnsentBefore
<1>11. SendsNewest'
  <2>1. ASSUME NEW q \in Runs, (At(q, "sending"))'
        PROVE  q = p /\ At(p, "sending") /\ run'[p].report = run[p].report
    BY <1>1, <1>2, <1>3, <2>1 DEF AttemptOver, IdleRun, TypeOK, Run
  <2>2. ASSUME At(p, "sending"), run'[p].report = run[p].report
        PROVE  NewestOut(p)'
    BY <1>3, <2>2 DEF SendsNewest, NewestOut, Sent, Report
  <2> QED
    BY <2>1, <2>2 DEF SendsNewest
<1>12. AnsweredFirst'
  BY <1>1, <1>2 DEF AnsweredFirst, AttemptOver, IdleRun, TypeOK, Run
<1>13. NewestIsSafe'
  BY DEF NewestIsSafe
<1> QED
  BY <1>6, <1>7, <1>8, <1>9, <1>10, <1>11, <1>12, <1>13

LEMMA FailedKeeps ==
  ASSUME IInv, NEW p \in Runs, run[p].pc \in {"retrying", "sending"}, Failed(p),
         UNCHANGED <<files, network>>, faults' \in Nat
  PROVE  IInv'
<1>1. CASE At(p, "retrying")
  BY <1>1, RetryFailsKeeps
<1>2. CASE ~At(p, "retrying")
  <2>1. Leave(p) /\ Alive(p)
    BY <1>2 DEF Failed, Alive, At
  <2> QED
    BY <2>1, LeaveKeeps
<1> QED
  BY <1>1, <1>2

LEMMA ArrivalKeeps ==
  ASSUME IInv, NEW r \in delayed, DelayedArrives(r)
  PROVE  IInv'
<1> USE DEF IInv, DelayedArrives, At, Seq, files
<1>1. r \in Report /\ delayed' \subseteq delayed
  BY DEF TypeOK
<1>2. \A s \in Nat : Out(s)' => Out(s)
  BY DEF Takes, Out
<1>3. DOMAIN digest \subseteq DOMAIN digest'
  BY DEF Takes
<1>4. TypeOK'
  <2>1. DOMAIN digest' \subseteq Nat /\ digest' \in [DOMAIN digest' -> BOOLEAN]
    BY <1>1 DEF Takes, TypeOK, Report
  <2> QED
    BY <1>1, <2>1 DEF TypeOK
<1>5. NumbersDrawn'
  BY DEF NumbersDrawn, Alive
<1>6. HighWaterCovers'
  BY <1>2 DEF HighWaterCovers, Alive, BeforeSave
<1>7. RetriesOlder'
  BY DEF RetriesOlder
<1>8. UnsentBefore'
  BY <1>2 DEF UnsentBefore, BeforeSend, TypeOK, Run, Report
<1>9. SendsNewest'
  <2>1. ASSUME NEW p \in Runs, At(p, "sending")
        PROVE  NewestOut(p)'
    <3>1. Seq(p) \in Nat /\ run[p].report \in Report
      BY DEF TypeOK, Run, Report
    <3>2. r.seq <= Seq(p) /\ (r.seq = Seq(p) => r = run[p].report)
      BY <2>1 DEF SendsNewest, NewestOut
    <3> QED
      BY <1>1, <2>1, <3>1, <3>2 DEF SendsNewest, NewestOut, Takes, Report
  <2> QED
    BY <2>1 DEF SendsNewest
<1>10. AnsweredFirst'
  BY <1>3 DEF AnsweredFirst
<1>11. NewestIsSafe'
  BY <1>3 DEF NewestIsSafe
<1> QED
  BY <1>4, <1>5, <1>6, <1>7, <1>8, <1>9, <1>10, <1>11

-----------------------------------------------------------------------------
(* The invariant, and the properties it gives.                             *)

LEMMA InitHolds == Init => IInv
<1> SUFFICES ASSUME Init PROVE IInv
  OBVIOUS
<1> USE DeliveryAssumption DEF Init, IdleRun, NoReport, At, Seq
<1>1. TypeOK
  BY DEF TypeOK, Run, Steps, Report
<1>2. NumbersDrawn /\ HighWaterCovers /\ RetriesOlder
  BY DEF NumbersDrawn, HighWaterCovers, RetriesOlder, Alive, BeforeSave, Out
<1>3. UnsentBefore /\ SendsNewest /\ AnsweredFirst /\ NewestIsSafe
  BY DEF UnsentBefore, BeforeSend, SendsNewest, AnsweredFirst, NewestIsSafe
<1> QED
  BY <1>1, <1>2, <1>3 DEF IInv

LEMMA StepKeeps == IInv /\ [Next]_vars => IInv'
<1> SUFFICES ASSUME IInv, [Next]_vars PROVE IInv'
  OBVIOUS
<1>1. ASSUME NEW p \in Runs, Measure(p) PROVE IInv'
  BY <1>1, MeasureKeeps
<1>2. ASSUME NEW p \in Runs, Load(p) \/ Save(p) \/ TakeLock(p) \/ Check(p) \/ Replace(p)
      PROVE IInv'
  BY <1>2, LoadKeeps, SaveKeeps, TakeLockKeeps, CheckKeeps, ReplaceKeeps
<1>3. ASSUME NEW p \in Runs,
             SaveRefused(p) \/ LockUnavailable(p) \/ Disowned(p) \/ Crash(p)
      PROVE IInv'
  <2>1. Leave(p) /\ UNCHANGED <<files, network>> /\ Alive(p) /\ faults' \in Nat
    BY <1>3 DEF SaveRefused, LockUnavailable, Disowned, Crash, Fault, Alive, At, IInv, TypeOK
  <2> QED
    BY <2>1, LeaveKeeps
<1>4. ASSUME NEW p \in Runs, Accepted(p) \/ Clear(p) \/ Record(p) PROVE IInv'
  BY <1>4, AcceptedKeeps, ClearKeeps, RecordKeeps
<1>5. ASSUME NEW p \in Runs, Refused(p) \/ Rejected(p) PROVE IInv'
  <2>1. /\ run[p].pc \in {"retrying", "sending"} /\ Failed(p)
        /\ UNCHANGED <<files, network>> /\ faults' \in Nat
    BY <1>5 DEF Refused, Rejected, Fault, IInv, TypeOK
  <2> QED
    BY <2>1, FailedKeeps
<1>6. ASSUME NEW p \in Runs, Busy(p) \/ NoAnswer(p) PROVE IInv'
  <2>1. /\ run[p].pc \in {"retrying", "sending"} /\ FailedAttempt(p)
        /\ delayed' \in {delayed, delayed \cup {Sent(p)}}
        /\ UNCHANGED <<files, digest>> /\ faults' \in Nat
    BY <1>6 DEF Busy, NoAnswer, Fault, network, IInv, TypeOK
  <2> QED
    BY <2>1, UnansweredKeeps
<1>7. ASSUME NEW r \in delayed, DelayedArrives(r) PROVE IInv'
  BY <1>7, ArrivalKeeps
<1>8. CASE UNCHANGED vars
  BY <1>8 DEF vars, files, network, IInv, TypeOK, NumbersDrawn, HighWaterCovers, RetriesOlder,
              UnsentBefore, SendsNewest, NewestOut, AnsweredFirst, NewestIsSafe, Alive,
              BeforeSave, BeforeSend, Out, At, Seq
<1> QED
  BY <1>1, <1>2, <1>3, <1>4, <1>5, <1>6, <1>7, <1>8 DEF Next, Delivering, Sending

LEMMA Inductive == Spec => []IInv
BY InitHolds, StepKeeps, PTL DEF Spec

\* The files, the lock and the processes keep their types, whatever number of
\* processes shares the state directory.
THEOREM TypeCorrect == Spec => []TypeOK
<1>1. IInv => TypeOK
  BY DEF IInv
<1> QED
  BY <1>1, Inductive, PTL

\* The newest report saved is in the slot or with the collector, and so is every
\* acknowledgement recorded (PendingReportStore.clear, CollectorAckStore.record).
THEOREM NewestNeverLost == Spec => []NewestIsSafe
<1>1. IInv => NewestIsSafe
  BY DEF IInv
<1> QED
  BY <1>1, Inductive, PTL

\* The collector never refuses the report a process sends as its own
\* (_deliver_current of agent.py), for any number of processes and requests.
THEOREM CurrentIsWelcome == Spec => []CurrentNeverRefused
<1>1. IInv => CurrentNeverRefused
  <2> SUFFICES ASSUME IInv, NEW p \in Runs, At(p, "sending")
               PROVE  Welcome(run[p].report)
    BY DEF CurrentNeverRefused
  <2>1. NewestOut(p)
    BY DEF IInv, SendsNewest
  <2>2. Seq(p) \in Nat /\ DOMAIN digest \subseteq Nat
    BY DEF IInv, TypeOK, Run, Report, Seq
  <2>3. CASE Seq(p) \in DOMAIN digest
    BY <2>1, <2>3 DEF NewestOut, Welcome, Seq
  <2>4. CASE Seq(p) \notin DOMAIN digest
    <3>1. \A s \in DOMAIN digest : s < Seq(p)
      BY <2>1, <2>2, <2>4 DEF NewestOut
    <3> QED
      BY <2>4, <3>1 DEF Welcome, Collector!Fresh, Seq
  <2> QED
    BY <2>3, <2>4
<1> QED
  BY <1>1, Inductive, PTL

=============================================================================
