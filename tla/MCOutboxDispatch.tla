-------------------------- MODULE MCOutboxDispatch --------------------------
(***************************************************************************)
(* Small instances of OutboxDispatch for TLC.                              *)
(***************************************************************************)
EXTENDS OutboxDispatch, TLC

MCInterval == [a \in Agents |-> 1]

\* Two parts of one instance.  Chat: two notifications of reports received at the
\* start, while the clock moves once at most.  Series: reports come before anybody
\* drains.  Agents skip no number.
Chat ==
  /\ lastId <= 2 /\ now <= 1
  /\ \A e \in DOMAIN accepted : accepted[e] = 0
  /\ \A a \in Agents : reactivated[a] = 0

Series ==
  /\ worker = [o \in Owners |-> Idle] /\ posted = <<>> /\ faults = 0
  /\ \A i \in DOMAIN notes : notes[i].kind = "REPORT" /\ notes[i].count = 1

NoneSkipped ==
  \A e \in DOMAIN accepted : \A s \in 1 .. e[3] : <<e[1], e[2], s>> \in DOMAIN accepted

Parts == NoneSkipped /\ (Chat \/ Series)

=============================================================================
