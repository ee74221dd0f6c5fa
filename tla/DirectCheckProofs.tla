-------------------------- MODULE DirectCheckProofs --------------------------
(***************************************************************************)
(* What a measurement says is proved here for every set of targets and     *)
(* ports, every bound and every host: the safety properties of ProbeBatch, *)
(* Measurement and DirectCheck, as theorems of DirectSpec.                 *)
(*                                                                         *)
(* The inductive invariant has one part per module.  ProbeInv looks at one *)
(* target at a time: its task, its process and its port.  CycleInv says    *)
(* what each await of measure_cycle has behind it.  TrialInv says what the *)
(* awaits of run_trial have behind them.                                   *)
(***************************************************************************)
EXTENDS DirectCheck, TLAPS

-----------------------------------------------------------------------------
(* One target.                                                             *)

\* XrayProcess.open is entered, and its process not yet stopped.
Asking == {"asking", "answered", "leaving"}
Tunnelled == {"starting", "closing"} \cup Asking

Afters == {"XRAY", "E2E", "address", "DEADLINE"}

TaskRecords ==
  [pc : {"out", "waiting", "resolving", "dialing", "shaking", "done"} \cup Tunnelled,
   left : Nat, reached : BOOLEAN, canary : Nat, ok : BOOLEAN, fault : BOOLEAN, own : BOOLEAN,
   after : Afters \cup {None}, result : Stages \cup {None}]

XrayRecords == [alive : BOOLEAN, port : Ports \cup {None}]

\* A canary that somebody else answered was asked after the process had died,
\* so no later look succeeds and no verdict follows.
OwnIsLost(r, x) ==
  \/ r.pc \in Asking /\ ~x.alive
  \/ r.pc = "closing" /\ r.after \in {"XRAY", "DEADLINE"}
  \/ r.pc = "done" /\ r.result \notin {"E2E", "VLESS_E2E"}

\* The task r and the process x of t, with the last answer of the control.
Fine(t, r, x, listeners, answered) ==
  /\ r.pc = "done" => r.result \in Stages
  /\ r.pc # "done" => r.result = None
  /\ r.pc = "closing" => r.after # None
  /\ answered => r.result # "AGENT_NETWORK"
  /\ x # NoXray => r.pc \in Tunnelled
  /\ x.alive => x.port \in Ports
  /\ r.pc \in Asking /\ x.alive => listeners[x.port] = t
  /\ ~r.own => OwnIsLost(r, x)

ProbeType ==
  /\ task \in [Targets -> TaskRecords]
  /\ xray \in [Targets -> XrayRecords]
  /\ listener \in [Ports -> Targets \cup {Foreign, None}]

ProbeInv == ProbeType /\ \A t \in Targets : Fine(t, task[t], xray[t], listener, control)

-----------------------------------------------------------------------------
(* One cycle.                                                              *)

Before == {"idle", "control", "refreshing", "unavailable"}
Again == {"delaying", "recontrol", "reprobing", "second", "rejudging", "lastcontrol"}
Phases == Before \cup Again \cup {"version", "first", "judging", "reporting"}

CycleType ==
  /\ phase \in Phases
  /\ control \in BOOLEAN /\ compatible \in BOOLEAN
  /\ DOMAIN results \subseteq Targets
  /\ confirmed \in [Targets -> 0 .. 5]

\* How far on its way every failure in the results is.
FailedAt(n) == \A t \in DOMAIN results : results[t] \in Down => confirmed[t] = n

\* What stands behind the failures at each await.
Confirmation ==
  /\ phase = "control" => \A t \in Targets : confirmed[t] = 0
  /\ phase \in {"refreshing", "version", "first"} /\ control => \A t \in Targets : confirmed[t] = 1
  /\ phase \in {"judging", "delaying", "recontrol"} /\ control => FailedAt(2)
  /\ phase \in {"reprobing", "second"} => FailedAt(3)
  /\ phase \in {"rejudging", "lastcontrol"} => FailedAt(4)
  /\ phase = "reporting" => FailedAt(5) /\ (Failing # {} => control)

\* Which targets the results judge, and which the batch probes.
Judged ==
  /\ phase \in Before => results = Empty
  /\ phase \in {"version", "first"} => \A t \in DOMAIN results : results[t] \in {"XRAY", "POLICY"}
  /\ phase \notin {"first", "second"} => Batch = {}
  /\ phase = "second" => Failing = Batch
  /\ phase \in Again => control
  /\ control => \A t \in DOMAIN results : results[t] # "AGENT_NETWORK"
  /\ ~compatible => Batch \cap Vpn = {}
  /\ ~compatible => \A t \in DOMAIN results : t \in Vpn => results[t] \in Unknown

IsReport(r) ==
  r = [results |-> r.results, reason |-> r.reason, control |-> r.control, fresh |-> r.fresh]

ReportInv ==
  report # None =>
    /\ IsReport(report)
    /\ phase = "idle"
    /\ \A t \in Said(report, Down) : confirmed[t] = 5

CycleInv == CycleType /\ Confirmation /\ Judged /\ ReportInv /\ BlameIsLocal

-----------------------------------------------------------------------------
(* One trial.                                                              *)

TrialType ==
  /\ host \in {"ordinary", "macOS", "Windows"}
  /\ at \in {"idle", "discovering", "entering", "final", "pausing", "aborting"} \cup Guarded
  /\ wire \in Networks /\ net \in Networks \cup {None}
  /\ astray \in BOOLEAN

\* A cycle that went astray is on another network still, or said so.
StrayingIsSeen ==
  /\ at \in {"entering", "exits"} => ~astray
  /\ at \notin {"idle", "discovering"} /\ astray => wire # net
  /\ host = "Windows" /\ at \in {"closing", "final"} /\ astray /\ report # None =>
       Said(report, Up \cup Down) = {}

TrialInv ==
  /\ TrialType
  /\ StrayingIsSeen
  /\ host = "ordinary" => at = "idle" /\ outcome = None
  /\ host # "ordinary" /\ at \notin {"measuring", "aborting"} => phase = "idle"
  /\ at = "measuring" /\ phase = "idle" => IsReport(report)
  /\ at \notin Guarded \cup {"aborting"} => ~relay
  /\ at = "idle" => ~interrupted
  /\ ObservationIsTrue
  /\ LastingChangeIsSeen

MeasureInv == ProbeInv /\ CycleInv

DirectInv == MeasureInv /\ TrialInv

-----------------------------------------------------------------------------
(* The steps of one probe.                                                 *)

LEMMA NoneIsNoStage == None \notin Stages /\ None \notin Afters
  BY NoneAssumption DEF Stages, Up, Down, Unknown, Afters

LEMMA TargetsAreTheirOwn == Foreign \notin Targets /\ None \notin Targets
  BY ProbeAssumption DEF Targets

\* A step of one task that leaves processes and ports alone.
LEMMA ToKeeps ==
  ASSUME ProbeInv, NEW t \in Targets, NEW r,
         To(t, r), control' = control,
         r \in TaskRecords, Fine(t, r, xray[t], listener, control)
  PROVE  ProbeInv'
<1>1. task \in [Targets -> TaskRecords] /\ \A u \in Targets : Fine(u, task[u], xray[u], listener, control)
  BY DEF ProbeInv, ProbeType
<1>2. task' = [task EXCEPT ![t] = r] /\ xray' = xray /\ listener' = listener
  BY DEF To
<1>3. ProbeType'
  BY <1>1, <1>2 DEF ProbeInv, ProbeType
<1>4. ASSUME NEW u \in Targets
      PROVE  Fine(u, task[u], xray[u], listener, control)'
  <2>1. CASE u = t
    <3>1. task'[u] = r
      BY <1>1, <1>2, <2>1
    <3> QED
      BY <1>2, <2>1, <3>1 DEF Fine, OwnIsLost
  <2>2. CASE u # t
    <3>1. task'[u] = task[u]
      BY <1>1, <1>2, <2>2
    <3> QED
      BY <1>1, <1>2, <3>1 DEF Fine, OwnIsLost
  <2> QED
    BY <2>1, <2>2
<1> QED
  BY <1>3, <1>4 DEF ProbeInv

\* A target whose task is in the batch stays in it.
LEMMA BatchStays ==
  ASSUME ProbeType, NEW t \in Batch, NEW r, r.pc # "out",
         task' = [task EXCEPT ![t] = r]
  PROVE  Batch' = Batch
  BY DEF Batch, ProbeType

\* The two together, for the steps of a task.
LEMMA ToStep ==
  ASSUME ProbeInv, NEW t \in Batch, NEW r,
         To(t, r), control' = control,
         r \in TaskRecords, r.pc # "out", Fine(t, r, xray[t], listener, control)
  PROVE  ProbeInv' /\ Batch' = Batch
<1>1. t \in Targets
  BY DEF Batch
<1>2. ProbeInv'
  BY <1>1, ToKeeps
<1>3. Batch' = Batch
  BY BatchStays DEF ProbeInv, To
<1> QED
  BY <1>2, <1>3

\* What is known of a task in the batch.
LEMMA TaskFacts ==
  ASSUME ProbeInv, NEW t \in Batch
  PROVE  /\ t \in Targets /\ task[t] \in TaskRecords /\ xray[t] \in XrayRecords
         /\ Fine(t, task[t], xray[t], listener, control)
  BY DEF ProbeInv, ProbeType, Batch

LEMMA ConcludedIsFine ==
  ASSUME NEW t \in Targets, NEW stage \in Stages, task[t] \in TaskRecords,
         control => stage # "AGENT_NETWORK",
         task[t].own \/ stage \notin {"E2E", "VLESS_E2E"}
  PROVE  /\ Concluded(t, stage) \in TaskRecords
         /\ Concluded(t, stage).pc # "out"
         /\ \A ls : Fine(t, Concluded(t, stage), NoXray, ls, control)
<1> DEFINE r == Concluded(t, stage)
<1>1. task[t].fault \in BOOLEAN /\ task[t].own \in BOOLEAN
  BY DEF TaskRecords
<1>2. r \in TaskRecords
  BY <1>1 DEF Concluded, Out, TaskRecords
<1>3. r.pc = "done" /\ r.result = stage /\ r.own = task[t].own
  BY DEF Concluded, Out
<1>4. NoXray.alive = FALSE
  BY DEF NoXray
<1> HIDE DEF r
<1>5. \A ls : Fine(t, r, NoXray, ls, control)
  BY <1>3, <1>4 DEF Fine, OwnIsLost, Asking
<1> QED
  BY <1>2, <1>3, <1>5 DEF r

LEMMA NextAddressIsFine ==
  ASSUME NEW t \in Targets, NEW reached \in BOOLEAN, task[t] \in TaskRecords,
         task[t].own, task[t].result = None
  PROVE  /\ NextAddress(t, reached) \in TaskRecords
         /\ NextAddress(t, reached).pc # "out"
         /\ \A ls : Fine(t, NextAddress(t, reached), NoXray, ls, control)
<1>1. CASE task[t].left > 1
  <2> DEFINE r == [task[t] EXCEPT !.pc = "dialing", !.left = @ - 1, !.reached = reached,
                                  !.ok = FALSE, !.canary = 0, !.after = None]
  <2>1. NextAddress(t, reached) = r
    BY <1>1 DEF NextAddress
  <2>2. task[t].left - 1 \in Nat
    BY <1>1 DEF TaskRecords
  <2>3. r \in TaskRecords
    BY <2>2 DEF TaskRecords
  <2>4. r.pc = "dialing" /\ r.result = None /\ r.own
    BY DEF TaskRecords
  <2>5. NoXray.alive = FALSE
    BY DEF NoXray
  <2> HIDE DEF r
  <2>6. \A ls : Fine(t, r, NoXray, ls, control)
    BY <2>4, <2>5, NoneIsNoStage DEF Fine, OwnIsLost, Asking, Stages, Up, Down, Unknown
  <2> QED
    BY <2>1, <2>3, <2>4, <2>6
<1>2. CASE ~(task[t].left > 1)
  <2>1. Failed(t, reached) \in Stages /\ Failed(t, reached) # "AGENT_NETWORK"
    BY DEF Failed, Stages, Up, Down, Unknown
  <2>2. NextAddress(t, reached) = Concluded(t, Failed(t, reached))
    BY <1>2 DEF NextAddress
  <2> QED
    BY <2>1, <2>2, ConcludedIsFine
<1> QED
  BY <1>1, <1>2

LEMMA FaultyIsFine ==
  ASSUME NEW t \in Targets, NEW r \in TaskRecords, NEW o, NEW x, NEW ls,
         Fine(t, r, x, ls, control)
  PROVE  /\ Faulty(r, o) \in TaskRecords
         /\ Faulty(r, o).pc = r.pc
         /\ Fine(t, Faulty(r, o), x, ls, control)
<1> DEFINE q == Faulty(r, o)
<1>1. q = [r EXCEPT !.fault = r.fault \/ o = "local"]
  BY DEF Faulty
<1>2. (r.fault \/ o = "local") \in BOOLEAN
  OBVIOUS
<1>3. q \in TaskRecords
  BY <1>1, <1>2 DEF TaskRecords
<1>4. q.pc = r.pc /\ q.result = r.result /\ q.after = r.after /\ q.own = r.own
  BY <1>1 DEF TaskRecords
<1> HIDE DEF q
<1> QED
  BY <1>3, <1>4 DEF q, Fine, OwnIsLost

-----------------------------------------------------------------------------
(* Each step keeps ProbeInv and the batch.                                 *)

LEMMA AcquireKeeps ==
  ASSUME ProbeInv, NEW t \in Batch, Acquire(t, control), control' = control
  PROVE  ProbeInv' /\ Batch' = Batch
<1>1. /\ t \in Targets /\ task[t] \in TaskRecords /\ Fine(t, task[t], xray[t], listener, control)
      /\ task[t].pc = "waiting"
  BY TaskFacts DEF Acquire, At
<1>2. xray[t] = NoXray
  BY <1>1 DEF Fine, Tunnelled, Asking
<1>3. CASE control
  <2> DEFINE r == [task[t] EXCEPT !.pc = "resolving"]
  <2>1. To(t, r)
    BY <1>3 DEF Acquire
  <2>2. r \in TaskRecords
    BY <1>1 DEF TaskRecords
  <2>3. r.pc = "resolving" /\ r.result = task[t].result /\ r.own = task[t].own
    BY <1>1 DEF TaskRecords
  <2> HIDE DEF r
  <2>4. Fine(t, r, xray[t], listener, control)
    BY <1>1, <1>2, <2>3 DEF Fine, OwnIsLost, NoXray, Asking
  <2> QED
    BY <2>1, <2>2, <2>3, <2>4, ToStep
<1>4. CASE ~control
  <2>1. To(t, Concluded(t, "AGENT_NETWORK"))
    BY <1>4 DEF Acquire
  <2>2. "AGENT_NETWORK" \in Stages \ {"E2E", "VLESS_E2E"}
    BY DEF Stages, Unknown
  <2> QED
    BY <1>1, <1>2, <1>4, <2>1, <2>2, ConcludedIsFine, ToStep
<1> QED
  BY <1>3, <1>4

LEMMA ResolveKeeps ==
  ASSUME ProbeInv, NEW t \in Batch, NEW o, Resolve(t, o), control' = control
  PROVE  ProbeInv' /\ Batch' = Batch
<1>1. /\ t \in Targets /\ task[t] \in TaskRecords /\ Fine(t, task[t], xray[t], listener, control)
      /\ task[t].pc = "resolving"
  BY TaskFacts DEF Resolve, At
<1>2. xray[t] = NoXray
  BY <1>1 DEF Fine, Tunnelled, Asking
<1>3. ASSUME NEW n \in 1 .. MaxAddresses, To(t, [task[t] EXCEPT !.pc = "dialing", !.left = n])
      PROVE  ProbeInv' /\ Batch' = Batch
  <2> DEFINE r == [task[t] EXCEPT !.pc = "dialing", !.left = n]
  <2>1. n \in Nat
    OBVIOUS
  <2>2. r \in TaskRecords
    BY <1>1, <2>1 DEF TaskRecords
  <2>3. r.pc = "dialing" /\ r.result = task[t].result /\ r.own = task[t].own
    BY <1>1 DEF TaskRecords
  <2>4. To(t, r)
    BY <1>3
  <2> HIDE DEF r
  <2>5. Fine(t, r, xray[t], listener, control)
    BY <1>1, <1>2, <2>3 DEF Fine, OwnIsLost, NoXray, Asking
  <2> QED
    BY <2>2, <2>3, <2>4, <2>5, ToStep
<1>4. "POLICY" \in Stages \ {"AGENT_NETWORK", "E2E", "VLESS_E2E"}
      /\ "DNS" \in Stages \ {"AGENT_NETWORK", "E2E", "VLESS_E2E"}
  BY DEF Stages, Down, Unknown
<1>5. CASE To(t, Concluded(t, "POLICY"))
  BY <1>1, <1>2, <1>4, <1>5, ConcludedIsFine, ToStep
<1>6. CASE To(t, Faulty(Concluded(t, "DNS"), o))
  <2> DEFINE r == Concluded(t, "DNS")
  <2>1. r \in TaskRecords /\ r.pc # "out" /\ Fine(t, r, xray[t], listener, control)
    BY <1>1, <1>2, <1>4, ConcludedIsFine
  <2> HIDE DEF r
  <2>2. /\ Faulty(r, o) \in TaskRecords /\ Faulty(r, o).pc = r.pc
        /\ Fine(t, Faulty(r, o), xray[t], listener, control)
    BY <1>1, <2>1, FaultyIsFine
  <2> QED
    BY <1>6, <2>1, <2>2, ToStep DEF r
<1> QED
  BY <1>3, <1>5, <1>6 DEF Resolve

\* The address of t failed while nothing of its Xray ran, with the fault o.
LEMMA FailedAddressKeeps ==
  ASSUME ProbeInv, NEW t \in Batch, NEW o, NEW reached \in BOOLEAN,
         task[t].pc \in {"dialing", "shaking"},
         To(t, Faulty(NextAddress(t, reached), o)), control' = control
  PROVE  ProbeInv' /\ Batch' = Batch
<1>1. t \in Targets /\ task[t] \in TaskRecords /\ Fine(t, task[t], xray[t], listener, control)
  BY TaskFacts
<1>2. xray[t] = NoXray /\ task[t].own /\ task[t].result = None
  BY <1>1 DEF Fine, OwnIsLost, Tunnelled, Asking
<1> DEFINE r == NextAddress(t, reached)
<1>3. r \in TaskRecords /\ r.pc # "out" /\ Fine(t, r, xray[t], listener, control)
  BY <1>1, <1>2, NextAddressIsFine
<1>4. To(t, Faulty(r, o))
  OBVIOUS
<1> HIDE DEF r
<1>5. /\ Faulty(r, o) \in TaskRecords /\ Faulty(r, o).pc = r.pc
      /\ Fine(t, Faulty(r, o), xray[t], listener, control)
  BY <1>1, <1>3, FaultyIsFine
<1> QED
  BY <1>3, <1>4, <1>5, ToStep

LEMMA LaunchKeeps ==
  ASSUME ProbeInv, NEW t \in Batch, task[t].pc = "dialing", Launch(t), control' = control
  PROVE  ProbeInv' /\ Batch' = Batch
<1>1. t \in Targets /\ task[t] \in TaskRecords /\ Fine(t, task[t], xray[t], listener, control)
  BY TaskFacts
<1>2. PICK p \in FreePorts : xray' = [xray EXCEPT ![t] = [alive |-> TRUE, port |-> p]]
  BY DEF Launch
<1> DEFINE r == [task[t] EXCEPT !.pc = "starting", !.reached = TRUE]
           x == [alive |-> TRUE, port |-> p]
<1>3. task' = [task EXCEPT ![t] = r] /\ listener' = listener /\ p \in Ports
  BY <1>1, <1>2 DEF Launch, FreePorts, ProbeInv, ProbeType
<1>4. r \in TaskRecords
  BY <1>1 DEF TaskRecords, Tunnelled
<1>5. r.pc = "starting" /\ r.result = None /\ r.own
  BY <1>1 DEF TaskRecords, Fine, OwnIsLost, Asking
<1>6. x \in XrayRecords /\ x.port = p
  BY <1>3 DEF XrayRecords
<1> HIDE DEF r, x
<1>7. ProbeType'
  BY <1>1, <1>2, <1>3, <1>4, <1>6 DEF ProbeInv, ProbeType, x
<1>8. ASSUME NEW u \in Targets
      PROVE  Fine(u, task[u], xray[u], listener, control)'
  <2>1. CASE u = t
    <3>1. task'[u] = r /\ xray'[u] = x
      BY <1>1, <1>2, <1>3, <2>1 DEF ProbeInv, ProbeType, x
    <3>2. Fine(u, r, x, listener, control)
      BY <1>3, <1>5, <1>6, NoneIsNoStage DEF Fine, Tunnelled, Asking, Stages, Unknown
    <3> QED
      BY <1>3, <3>1, <3>2 DEF Fine, OwnIsLost
  <2>2. CASE u # t
    <3>1. task'[u] = task[u] /\ xray'[u] = xray[u]
      BY <1>2, <1>3, <2>2 DEF ProbeInv, ProbeType
    <3> QED
      BY <1>3, <3>1 DEF ProbeInv, Fine, OwnIsLost
  <2> QED
    BY <2>1, <2>2
<1>9. Batch' = Batch
  BY <1>3, <1>5, BatchStays DEF ProbeInv
<1> QED
  BY <1>7, <1>8, <1>9 DEF ProbeInv

LEMMA DialKeeps ==
  ASSUME ProbeInv, NEW t \in Batch, NEW o, Dial(t, o), control' = control
  PROVE  ProbeInv' /\ Batch' = Batch
<1>1. /\ t \in Targets /\ task[t] \in TaskRecords /\ Fine(t, task[t], xray[t], listener, control)
      /\ task[t].pc = "dialing"
  BY TaskFacts DEF Dial, At
<1>2. xray[t] = NoXray /\ task[t].reached \in BOOLEAN
  BY <1>1 DEF Fine, Tunnelled, Asking, TaskRecords
<1>3. CASE To(t, Faulty(NextAddress(t, task[t].reached), o))
  <2> DEFINE reached == task[t].reached
  <2>1. reached \in BOOLEAN /\ To(t, Faulty(NextAddress(t, reached), o))
    BY <1>2, <1>3
  <2> HIDE DEF reached
  <2> QED
    BY <1>1, <2>1, FailedAddressKeeps
<1>4. CASE To(t, [task[t] EXCEPT !.pc = "shaking"])
  <2> DEFINE r == [task[t] EXCEPT !.pc = "shaking"]
  <2>1. r \in TaskRecords
    BY <1>1 DEF TaskRecords
  <2>2. r.pc = "shaking" /\ r.result = task[t].result /\ r.own = task[t].own
    BY <1>1 DEF TaskRecords
  <2>3. To(t, r)
    BY <1>4
  <2> HIDE DEF r
  <2>4. Fine(t, r, xray[t], listener, control)
    BY <1>1, <1>2, <2>2 DEF Fine, OwnIsLost, NoXray, Asking
  <2> QED
    BY <2>1, <2>2, <2>3, <2>4, ToStep
<1>5. CASE To(t, Concluded(t, "XRAY"))
  <2>1. "XRAY" \in Stages \ {"AGENT_NETWORK", "E2E", "VLESS_E2E"}
    BY DEF Stages, Unknown
  <2> QED
    BY <1>1, <1>2, <1>5, <2>1, ConcludedIsFine, ToStep
<1> QED
  BY <1>1, <1>3, <1>4, <1>5, LaunchKeeps DEF Dial

LEMMA HandshakeKeeps ==
  ASSUME ProbeInv, NEW t \in Batch, NEW o, Handshake(t, o), control' = control
  PROVE  ProbeInv' /\ Batch' = Batch
<1>1. /\ t \in Targets /\ task[t] \in TaskRecords /\ Fine(t, task[t], xray[t], listener, control)
      /\ task[t].pc = "shaking"
  BY TaskFacts DEF Handshake, At
<1>2. CASE To(t, Concluded(t, "TLS"))
  <2>1. "TLS" \in Stages \ {"AGENT_NETWORK", "E2E", "VLESS_E2E"}
    BY DEF Stages, Up
  <2>2. xray[t] = NoXray
    BY <1>1 DEF Fine, Tunnelled, Asking
  <2> QED
    BY <1>1, <1>2, <2>1, <2>2, ConcludedIsFine, ToStep
<1>3. CASE To(t, Faulty(NextAddress(t, TRUE), o))
  BY <1>1, <1>3, FailedAddressKeeps
<1> QED
  BY <1>2, <1>3 DEF Handshake

LEMMA RelayFailsKeeps ==
  ASSUME ProbeInv, NEW t \in Batch, RelayFails(t), control' = control
  PROVE  ProbeInv' /\ Batch' = Batch
  BY FailedAddressKeeps DEF RelayFails, At

LEMMA RaisesKeeps ==
  ASSUME ProbeInv, NEW t \in Batch, Raises(t), control' = control
  PROVE  ProbeInv' /\ Batch' = Batch
<1>1. t \in Targets /\ task[t] \in TaskRecords /\ Fine(t, task[t], xray[t], listener, control)
  BY TaskFacts
<1>2. xray[t] = NoXray
  BY <1>1 DEF Raises, Fine, Tunnelled, Asking
<1>3. LocalError(t) \in Stages \ {"AGENT_NETWORK", "E2E", "VLESS_E2E"}
  BY DEF LocalError, Stages, Unknown
<1> QED
  BY <1>1, <1>2, <1>3, ConcludedIsFine, ToStep DEF Raises

\* The task goes on to clean up after its Xray, with the given conclusion.
LEMMA ClosingIsFine ==
  ASSUME ProbeInv, NEW t \in Batch, NEW after \in Afters, task[t].result = None,
         task[t].own \/ after \in {"XRAY", "DEADLINE"}
  PROVE  /\ Closing(t, after) \in TaskRecords
         /\ Closing(t, after).pc # "out"
         /\ Fine(t, Closing(t, after), xray[t], listener, control)
<1> DEFINE r == Closing(t, after)
<1>1. task[t] \in TaskRecords /\ Fine(t, task[t], xray[t], listener, control)
  BY TaskFacts
<1>2. r \in TaskRecords
  BY <1>1 DEF Closing, TaskRecords, Tunnelled
<1>3. r.pc = "closing" /\ r.after = after /\ r.result = None /\ r.own = task[t].own
  BY <1>1 DEF Closing, TaskRecords
<1> HIDE DEF r
<1>4. Fine(t, r, xray[t], listener, control)
  BY <1>1, <1>3, NoneIsNoStage DEF Fine, OwnIsLost, Asking, Tunnelled, Stages, Unknown
<1> QED
  BY <1>2, <1>3, <1>4 DEF r

LEMMA LookFailsKeeps ==
  ASSUME ProbeInv, NEW t \in Batch, LookFails(t), control' = control
  PROVE  ProbeInv' /\ Batch' = Batch
<1>1. Fine(t, task[t], xray[t], listener, control)
  BY TaskFacts
<1>2. task[t].result = None /\ To(t, Closing(t, "XRAY"))
  BY <1>1 DEF LookFails, Fine
<1> QED
  BY <1>2, ClosingIsFine, ToStep DEF Afters

LEMMA ListeningKeeps ==
  ASSUME ProbeInv, NEW t \in Batch, Listening(t), control' = control
  PROVE  ProbeInv' /\ Batch' = Batch
<1> DEFINE r == [task[t] EXCEPT !.pc = "asking", !.canary = 1]
<1>1. task[t] \in TaskRecords /\ Fine(t, task[t], xray[t], listener, control)
  BY TaskFacts
<1>2. task[t].pc = "starting" /\ listener[xray[t].port] = t /\ To(t, r)
  BY DEF Listening, EnsureHealthy, Authenticated, At
<1>3. r \in TaskRecords
  BY <1>1 DEF TaskRecords, Tunnelled, Asking
<1>4. r.pc = "asking" /\ r.result = task[t].result /\ r.own = task[t].own
  BY <1>1 DEF TaskRecords
<1> HIDE DEF r
<1>5. Fine(t, r, xray[t], listener, control)
  BY <1>1, <1>2, <1>4 DEF Fine, OwnIsLost, Asking, Tunnelled
<1> QED
  BY <1>2, <1>3, <1>4, <1>5, ToStep

\* A canary that another program answers finds the process dead.
LEMMA AskKeeps ==
  ASSUME ProbeInv, NEW t \in Batch, NEW o, Ask(t, o), control' = control
  PROVE  ProbeInv' /\ Batch' = Batch
<1> DEFINE mine == listener[xray[t].port] = t
           good == o = "ok"
           r == [task[t] EXCEPT !.pc = "answered", !.ok = good, !.own = @ /\ mine]
<1>1. task[t] \in TaskRecords /\ xray[t] \in XrayRecords
      /\ Fine(t, task[t], xray[t], listener, control)
  BY TaskFacts
<1>2. task[t].pc = "asking" /\ To(t, Faulty(r, o))
  BY DEF Ask, At
<1>3. mine \in BOOLEAN /\ good \in BOOLEAN /\ (xray[t].alive => mine)
  BY <1>1, <1>2 DEF Fine, Asking
<1> HIDE DEF mine, good
<1>4. (task[t].own /\ mine) \in BOOLEAN
  OBVIOUS
<1>5. r \in TaskRecords
  BY <1>1, <1>3, <1>4 DEF TaskRecords, Tunnelled, Asking
<1>6. r.pc = "answered" /\ r.result = task[t].result /\ r.own = (task[t].own /\ mine)
  BY <1>1 DEF TaskRecords
<1> HIDE DEF r
<1>7. Fine(t, r, xray[t], listener, control)
  BY <1>1, <1>2, <1>3, <1>6 DEF Fine, OwnIsLost, Asking, Tunnelled
<1>8. t \in Targets
  BY DEF Batch
<1>9. /\ Faulty(r, o) \in TaskRecords /\ Faulty(r, o).pc = r.pc
      /\ Fine(t, Faulty(r, o), xray[t], listener, control)
  BY <1>5, <1>7, <1>8, FaultyIsFine
<1> QED
  BY <1>2, <1>6, <1>9, ToStep

LEMMA WeighKeeps ==
  ASSUME ProbeInv, NEW t \in Batch, Weigh(t), control' = control
  PROVE  ProbeInv' /\ Batch' = Batch
<1>1. task[t] \in TaskRecords /\ Fine(t, task[t], xray[t], listener, control)
  BY TaskFacts
<1>2. task[t].pc = "answered" /\ xray[t].alive
  BY DEF Weigh, EnsureHealthy, At
<1>3. ASSUME NEW r \in TaskRecords, r.pc \in {"leaving", "asking"}, r.result = task[t].result,
             r.own = task[t].own, To(t, r)
      PROVE  ProbeInv' /\ Batch' = Batch
  <2>1. Fine(t, r, xray[t], listener, control)
    BY <1>1, <1>2, <1>3 DEF Fine, OwnIsLost, Asking, Tunnelled
  <2> QED
    BY <1>3, <2>1, ToStep
<1>4. CASE To(t, [task[t] EXCEPT !.pc = "leaving"])
  <2> DEFINE r == [task[t] EXCEPT !.pc = "leaving"]
  <2>1. r \in TaskRecords /\ r.pc = "leaving" /\ r.result = task[t].result /\ r.own = task[t].own
    BY <1>1 DEF TaskRecords, Tunnelled, Asking
  <2> QED
    BY <1>3, <1>4, <2>1
<1>5. CASE To(t, [task[t] EXCEPT !.pc = "asking", !.canary = @ + 1])
  <2> DEFINE r == [task[t] EXCEPT !.pc = "asking", !.canary = @ + 1]
  <2>1. task[t].canary + 1 \in Nat
    BY <1>1 DEF TaskRecords
  <2>2. r \in TaskRecords /\ r.pc = "asking" /\ r.result = task[t].result /\ r.own = task[t].own
    BY <1>1, <2>1 DEF TaskRecords, Tunnelled, Asking
  <2> QED
    BY <1>3, <1>5, <2>2
<1> QED
  BY <1>4, <1>5 DEF Weigh

LEMMA LeaveTunnelKeeps ==
  ASSUME ProbeInv, NEW t \in Batch, LeaveTunnel(t), control' = control
  PROVE  ProbeInv' /\ Batch' = Batch
<1>1. task[t] \in TaskRecords /\ Fine(t, task[t], xray[t], listener, control)
  BY TaskFacts
<1>2. task[t].pc = "leaving" /\ xray[t].alive
  BY DEF LeaveTunnel, EnsureHealthy, At
<1>3. task[t].own /\ task[t].result = None
  BY <1>1, <1>2 DEF Fine, OwnIsLost
<1>4. PICK after \in Afters : To(t, Closing(t, after))
  BY DEF LeaveTunnel, Afters
<1> QED
  BY <1>3, <1>4, ClosingIsFine, ToStep

\* What t's process leaves of the ports is of no interest to the others.
LEMMA UnboundKeeps ==
  ASSUME ProbeInv, NEW t \in Targets
  PROVE  /\ Unbound(t) \in [Ports -> Targets \cup {Foreign, None}]
         /\ \A u \in Targets \ {t}, p \in Ports : listener[p] = u => Unbound(t)[p] = u
  BY DEF ProbeInv, ProbeType, Unbound

LEMMA CleanupKeeps ==
  ASSUME ProbeInv, NEW t \in Batch, Cleanup(t), control' = control
  PROVE  ProbeInv' /\ Batch' = Batch
<1> DEFINE r == IF task[t].after = "address" THEN NextAddress(t, TRUE)
                                             ELSE Concluded(t, task[t].after)
<1>1. /\ t \in Targets /\ task[t] \in TaskRecords /\ Fine(t, task[t], xray[t], listener, control)
      /\ task[t].pc = "closing"
  BY TaskFacts DEF Cleanup, At
<1>2. task[t].result = None /\ task[t].after \in Afters
      /\ (task[t].own \/ task[t].after \in {"XRAY", "DEADLINE"})
  BY <1>1 DEF Fine, OwnIsLost, Asking, TaskRecords
<1>3. r \in TaskRecords /\ r.pc # "out" /\ \A ls : Fine(t, r, NoXray, ls, control)
  <2>1. CASE task[t].after = "address"
    BY <1>1, <1>2, <2>1, NextAddressIsFine
  <2>2. CASE task[t].after # "address"
    <3> DEFINE stage == task[t].after
    <3>1. stage \in Stages \ {"AGENT_NETWORK"} /\ (task[t].own \/ stage \notin {"E2E", "VLESS_E2E"})
      BY <1>2, <2>2 DEF Stages, Up, Unknown, Afters
    <3>2. r = Concluded(t, stage)
      BY <2>2
    <3> HIDE DEF stage, r
    <3> QED
      BY <1>1, <3>1, <3>2, ConcludedIsFine
  <2> QED
    BY <2>1, <2>2
<1>4. task' = [task EXCEPT ![t] = r] /\ xray' = [xray EXCEPT ![t] = NoXray] /\ listener' = Unbound(t)
  BY DEF Cleanup
<1> HIDE DEF r
<1>5. ProbeType'
  <2>1. NoXray \in XrayRecords
    BY DEF NoXray, XrayRecords
  <2> QED
    BY <1>1, <1>3, <1>4, <2>1, UnboundKeeps DEF ProbeInv, ProbeType
<1>6. ASSUME NEW u \in Targets
      PROVE  Fine(u, task[u], xray[u], listener, control)'
  <2>1. CASE u = t
    <3>1. task'[u] = r /\ xray'[u] = NoXray
      BY <1>1, <1>4, <2>1 DEF ProbeInv, ProbeType
    <3>2. Fine(u, r, NoXray, listener', control)
      BY <1>3, <2>1
    <3> QED
      BY <3>1, <3>2 DEF Fine, OwnIsLost
  <2>2. CASE u # t
    <3>1. task'[u] = task[u] /\ xray'[u] = xray[u]
      BY <1>4, <2>2 DEF ProbeInv, ProbeType
    <3>2. Fine(u, task[u], xray[u], listener, control)
      BY DEF ProbeInv
    <3>3. \A p \in Ports : listener[p] = u => listener'[p] = u
      BY <1>1, <1>4, <2>2, UnboundKeeps
    <3> QED
      BY <3>1, <3>2, <3>3 DEF Fine, OwnIsLost
  <2> QED
    BY <2>1, <2>2
<1>7. Batch' = Batch
  BY <1>3, <1>4, BatchStays DEF ProbeInv
<1> QED
  BY <1>5, <1>6, <1>7 DEF ProbeInv

LEMMA ProbeStepKeeps ==
  ASSUME ProbeInv, NEW t \in Batch, NEW Outcomes, ProbeStep(t, control, Outcomes), control' = control
  PROVE  ProbeInv' /\ Batch' = Batch
  BY AcquireKeeps, ResolveKeeps, DialKeeps, HandshakeKeeps, AskKeeps, RaisesKeeps, RelayFailsKeeps,
     LookFailsKeeps, ListeningKeeps, WeighKeeps, LeaveTunnelKeeps, CleanupKeeps
  DEF ProbeStep

\* What cancelling leaves: every task that was not done is cut.
LEMMA CutKeeps ==
  ASSUME ProbeInv, UNCHANGED <<xray, listener>>, control' = control,
         task' = [t \in Targets |-> IF task[t].pc \in {"out", "done"} THEN task[t] ELSE CutTask(t)]
  PROVE  ProbeInv' /\ Batch' = Batch
<1>1. ASSUME NEW t \in Targets
      PROVE  /\ task'[t] \in TaskRecords
             /\ task'[t].pc = "out" <=> task[t].pc = "out"
             /\ Fine(t, task'[t], xray[t], listener, control)
  <2>1. /\ task[t] \in TaskRecords /\ Fine(t, task[t], xray[t], listener, control)
    BY DEF ProbeInv, ProbeType
  <2>2. CASE task[t].pc \in {"out", "done"}
    BY <2>1, <2>2
  <2>3. CASE task[t].pc \notin {"out", "done"}
    <3>1. task'[t] = CutTask(t) /\ t \in Batch /\ task[t].result = None
      BY <2>1, <2>3 DEF Batch, Fine
    <3>2. "DEADLINE" \in Stages \ {"AGENT_NETWORK", "E2E", "VLESS_E2E"} /\ "DEADLINE" \in Afters
      BY DEF Stages, Unknown, Afters
    <3>3. CASE xray[t] = NoXray
      BY <2>1, <2>3, <3>1, <3>2, <3>3, ConcludedIsFine DEF CutTask
    <3>4. CASE xray[t] # NoXray
      BY <2>3, <3>1, <3>2, <3>4, ClosingIsFine DEF CutTask
    <3> QED
      BY <3>3, <3>4
  <2> QED
    BY <2>2, <2>3
<1>2. ProbeType'
  <2>1. DOMAIN task' = Targets
    OBVIOUS
  <2>2. task' \in [Targets -> TaskRecords]
    BY <1>1
  <2> QED
    BY <2>2 DEF ProbeInv, ProbeType
<1>3. ASSUME NEW t \in Targets
      PROVE  Fine(t, task[t], xray[t], listener, control)'
  BY <1>1 DEF Fine, OwnIsLost
<1>4. Batch' = Batch
  BY <1>1 DEF Batch
<1> QED
  BY <1>2, <1>3, <1>4 DEF ProbeInv

LEMMA CancelledKeeps ==
  ASSUME ProbeInv, Cut, control' = control
  PROVE  ProbeInv' /\ Batch' = Batch
  BY CutKeeps DEF Cut

\* Processes and programs come and go: a listening process of a target keeps
\* its port until it dies.
LEMMA SurroundingsKeep ==
  ASSUME ProbeInv, Surroundings, control' = control
  PROVE  ProbeInv' /\ Batch' = Batch
<1>1. task' = task
  BY DEF Surroundings, Bind, XrayDies, ForeignBinds, ForeignLeaves
<1>2. Batch' = Batch
  BY <1>1 DEF Batch
<1>3. Vpn \subseteq Targets
  BY DEF Targets
<1>4. ASSUME \A t \in Targets :
                xray'[t] = xray[t] \/ (~xray'[t].alive /\ xray[t].alive),
             \A t \in Targets, p \in Ports :
                listener[p] = t /\ xray'[t].alive => listener'[p] = t,
             ProbeType'
      PROVE  ProbeInv'
  <2>1. ASSUME NEW t \in Targets
        PROVE  Fine(t, task[t], xray[t], listener, control)'
    <3>1. Fine(t, task[t], xray[t], listener, control)
      BY DEF ProbeInv
    <3>2. CASE xray'[t] = xray[t]
      BY <1>1, <1>4, <3>1, <3>2 DEF Fine, OwnIsLost
    <3>3. CASE ~xray'[t].alive /\ xray[t].alive
      <4>1. xray[t] # NoXray
        BY <3>3 DEF NoXray
      <4> QED
        BY <1>1, <3>1, <3>3, <4>1 DEF Fine, OwnIsLost
    <3> QED
      BY <1>4, <3>2, <3>3
  <2> QED
    BY <1>4, <2>1 DEF ProbeInv
<1>5. ASSUME NEW t \in Vpn, Bind(t)
      PROVE  ProbeInv'
  <2>1. t \in Targets /\ xray[t].alive /\ xray[t].port \in Ports /\ xray[t] \in XrayRecords
    BY <1>3, <1>5 DEF Bind, ProbeInv, ProbeType, Fine
  <2>2. CASE listener[xray[t].port] = None
    <3>1. listener' = [listener EXCEPT ![xray[t].port] = t] /\ xray' = xray
      BY <1>5, <2>2 DEF Bind
    <3>2. ProbeType'
      BY <1>1, <2>1, <3>1 DEF ProbeInv, ProbeType
    <3> QED
      BY <1>4, <2>1, <2>2, <3>1, <3>2, TargetsAreTheirOwn DEF ProbeInv, ProbeType
  <2>3. CASE listener[xray[t].port] # None
    <3> DEFINE x == [xray[t] EXCEPT !.alive = FALSE]
    <3>1. xray' = [xray EXCEPT ![t] = x] /\ listener' = listener
      BY <1>5, <2>3 DEF Bind
    <3>2. x \in XrayRecords /\ ~x.alive
      BY <2>1 DEF XrayRecords
    <3> HIDE DEF x
    <3>3. ProbeType'
      BY <1>1, <3>1, <3>2 DEF ProbeInv, ProbeType
    <3> QED
      BY <1>4, <2>1, <3>1, <3>2, <3>3 DEF ProbeInv, ProbeType
  <2> QED
    BY <2>2, <2>3
<1>6. ASSUME NEW t \in Vpn, XrayDies(t)
      PROVE  ProbeInv'
  <2> DEFINE x == [xray[t] EXCEPT !.alive = FALSE]
  <2>1. t \in Targets /\ xray[t].alive /\ xray[t] \in XrayRecords
    BY <1>3, <1>6 DEF XrayDies, ProbeInv, ProbeType
  <2>2. xray' = [xray EXCEPT ![t] = x] /\ listener' = Unbound(t)
    BY <1>6 DEF XrayDies
  <2>3. x \in XrayRecords /\ ~x.alive
    BY <2>1 DEF XrayRecords
  <2> HIDE DEF x
  <2>4. ProbeType'
    BY <1>1, <2>1, <2>2, <2>3, UnboundKeeps DEF ProbeInv, ProbeType
  <2>5. \A u \in Targets, p \in Ports : listener[p] = u /\ xray'[u].alive => listener'[p] = u
    BY <2>1, <2>2, <2>3, UnboundKeeps DEF ProbeInv, ProbeType
  <2>6. \A u \in Targets : xray'[u] = xray[u] \/ (~xray'[u].alive /\ xray[u].alive)
    BY <2>1, <2>2, <2>3 DEF ProbeInv, ProbeType
  <2> QED
    BY <1>4, <2>4, <2>5, <2>6
<1>7. ASSUME NEW p \in Ports, ForeignBinds(p) \/ ForeignLeaves(p)
      PROVE  ProbeInv'
  <2>1. PICK who \in {Foreign, None} : listener' = [listener EXCEPT ![p] = who]
    BY <1>7 DEF ForeignBinds, ForeignLeaves
  <2>2. listener[p] \notin Targets /\ xray' = xray
    BY <1>7, TargetsAreTheirOwn DEF ForeignBinds, ForeignLeaves
  <2>3. ProbeType'
    BY <1>1, <2>1, <2>2 DEF ProbeInv, ProbeType
  <2> QED
    BY <1>4, <2>1, <2>2, <2>3 DEF ProbeInv, ProbeType
<1> QED
  BY <1>2, <1>5, <1>6, <1>7 DEF Surroundings

\* A batch that is over, or was never started, has no process left.
LEMMA OverIsEmpty ==
  ASSUME ProbeInv, BatchOver
  PROVE  \A t \in Targets : xray[t] = NoXray
<1>1. ASSUME NEW t \in Targets
      PROVE  task[t].pc \in {"out", "done"}
  BY DEF BatchOver, Batch, At
<1> QED
  BY <1>1 DEF ProbeInv, Fine, Tunnelled, Asking

LEMMA NoBatchIsOver ==
  ASSUME Batch = {}
  PROVE  BatchOver
  BY DEF BatchOver

LEMMA BatchedKeeps ==
  ASSUME ProbeInv, BatchOver, NEW ts, ts \subseteq Targets,
         task' = Batched(ts), UNCHANGED <<xray, listener>>
  PROVE  ProbeInv' /\ Batch' = ts
<1> DEFINE waiting == [Out EXCEPT !.pc = "waiting"]
<1>1. Out \in TaskRecords /\ waiting \in TaskRecords
  BY DEF Out, TaskRecords
<1>2. /\ Out.pc = "out" /\ Out.result = None /\ Out.own = TRUE
      /\ waiting.pc = "waiting" /\ waiting.result = None /\ waiting.own = TRUE
  BY DEF Out
<1> HIDE DEF waiting
<1>3. \A t \in Targets : task'[t] = IF t \in ts THEN waiting ELSE Out
  BY DEF Batched, waiting
<1>4. task' \in [Targets -> TaskRecords]
  BY <1>1 DEF Batched, waiting
<1>5. ASSUME NEW t \in Targets
      PROVE  Fine(t, task[t], xray[t], listener, control)'
  <2>1. xray'[t] = NoXray /\ NoXray.alive = FALSE
    BY OverIsEmpty DEF NoXray
  <2>2. None # "AGENT_NETWORK"
    BY NoneIsNoStage DEF Stages, Unknown
  <2> QED
    BY <1>2, <1>3, <2>1, <2>2 DEF Fine
<1>6. Batch' = ts
  BY <1>2, <1>3 DEF Batch
<1> QED
  BY <1>4, <1>5, <1>6 DEF ProbeInv, ProbeType

\* Without a batch the control may answer as it likes.
LEMMA RestKeeps ==
  ASSUME ProbeInv, UNCHANGED probeVars, control' = control \/ Batch = {}
  PROVE  ProbeInv' /\ Batch' = Batch
<1>1. task' = task /\ xray' = xray /\ listener' = listener
  BY DEF probeVars
<1>2. ASSUME NEW t \in Targets
      PROVE  Fine(t, task[t], xray[t], listener, control)'
  <2>1. Fine(t, task[t], xray[t], listener, control)
    BY DEF ProbeInv
  <2>2. Batch = {} => task[t].result # "AGENT_NETWORK"
    BY <2>1, NoneIsNoStage DEF Fine, Batch, Stages, Unknown
  <2> QED
    BY <1>1, <2>1, <2>2 DEF Fine, OwnIsLost
<1> QED
  BY <1>1, <1>2 DEF ProbeInv, ProbeType, Batch

-----------------------------------------------------------------------------
(* The steps of a cycle.                                                   *)

LEMMA StagesApart ==
  /\ Unknown \cap Down = {} /\ Unknown \cap Up = {} /\ Up \cap Down = {}
  /\ {"XRAY", "POLICY", "DEADLINE", "AGENT_NETWORK"} \subseteq Unknown
  BY DEF Up, Down, Unknown

\* While a cycle runs there is no report to be wrong.
LEMMA Unreported ==
  ASSUME report' = None
  PROVE  ReportInv' /\ BlameIsLocal'
  BY DEF ReportInv, BlameIsLocal

LEMMA CycleStutters ==
  ASSUME CycleInv, UNCHANGED cycleVars, Batch' = Batch
  PROVE  CycleInv'
<1>1. /\ phase' = phase /\ control' = control /\ compatible' = compatible
      /\ results' = results /\ report' = report /\ confirmed' = confirmed
  BY DEF cycleVars
<1>2. CycleType'
  BY <1>1 DEF CycleInv, CycleType
<1>3. Confirmation'
  BY <1>1 DEF CycleInv, Confirmation, FailedAt, Failing
<1>4. Judged'
  BY <1>1 DEF CycleInv, Judged, Failing
<1>5. ReportInv' /\ BlameIsLocal'
  BY <1>1 DEF CycleInv, ReportInv, BlameIsLocal, Said, IsReport
<1> QED
  BY <1>2, <1>3, <1>4, <1>5 DEF CycleInv

LEMMA ReplacedFacts ==
  ASSUME NEW rs, NEW new
  PROVE  /\ DOMAIN Replaced(rs, new) = DOMAIN rs
         /\ \A t \in DOMAIN rs : Replaced(rs, new)[t] = IF t \in DOMAIN new THEN new[t] ELSE rs[t]
  BY DEF Replaced

LEMMA UncertainFacts ==
  ASSUME NEW stage
  PROVE  /\ DOMAIN Uncertain(stage) = DOMAIN results
         /\ \A t \in DOMAIN results :
              Uncertain(stage)[t] = IF results[t] \in Down THEN stage ELSE results[t]
<1> DEFINE new == [t \in Failing |-> stage]
<1>1. Uncertain(stage) = Replaced(results, new)
  BY DEF Uncertain
<1>2. DOMAIN new = Failing /\ \A t \in Failing : new[t] = stage
  OBVIOUS
<1> HIDE DEF new
<1> QED
  BY <1>1, <1>2, ReplacedFacts DEF Failing

LEMMA UnknownFacts ==
  ASSUME NEW ts, NEW stage
  PROVE  /\ DOMAIN UnknownResults(ts, stage) = ts
         /\ \A t \in ts : UnknownResults(ts, stage)[t] \in {stage, "POLICY"}
  BY DEF UnknownResults

\* A measurement that never comes to its second look leaves no failure.
LEMMA SettledKeeps ==
  ASSUME CycleInv, NEW stage \in Unknown, results' = Uncertain(stage), phase' = "reporting",
         phase \in (Again \ {"second"}) \cup {"judging"},
         control' \in BOOLEAN, control' => control /\ stage # "AGENT_NETWORK",
         confirmed' \in [Targets -> 0 .. 5], UNCHANGED <<compatible, report>>, Batch' = Batch
  PROVE  CycleInv'
<1>1. /\ DOMAIN results' = DOMAIN results
      /\ \A t \in DOMAIN results : results'[t] = IF results[t] \in Down THEN stage ELSE results[t]
  BY UncertainFacts
<1>2. \A t \in DOMAIN results' : results'[t] \notin Down
  BY <1>1, StagesApart
<1>3. CycleType'
  BY <1>1 DEF CycleInv, CycleType, Phases
<1>4. Confirmation'
  BY <1>2 DEF Confirmation, FailedAt, Failing
<1>5. phase # "idle" /\ phase \notin {"first", "second"}
  BY DEF Again
<1>6. Batch' = {}
  BY <1>5 DEF CycleInv, Judged
<1>7. \A t \in DOMAIN results' : control' => results'[t] # "AGENT_NETWORK"
  BY <1>1 DEF CycleInv, Judged
<1>8. \A t \in DOMAIN results' : ~compatible' /\ t \in Vpn => results'[t] \in Unknown
  BY <1>1 DEF CycleInv, Judged
<1>9. Judged'
  BY <1>6, <1>7, <1>8 DEF Judged, Before, Again
<1>10. report' = None
  BY <1>5 DEF CycleInv, ReportInv
<1> QED
  BY <1>3, <1>4, <1>9, <1>10, Unreported DEF CycleInv

LEMMA ControlSeenType ==
  ASSUME CycleType, NEW ok, ControlSeen(ok)
  PROVE  confirmed' \in [Targets -> 0 .. 5]
<1>1. ASSUME NEW n \in {0, 2, 4} PROVE n + 1 \in 0 .. 5
  OBVIOUS
<1>2. \A t \in Targets : confirmed[t] \in 0 .. 5
  BY DEF CycleType
<1> QED
  BY <1>1, <1>2 DEF ControlSeen

LEMMA FailuresSeenType ==
  ASSUME CycleType, NEW rs, FailuresSeen(rs)
  PROVE  confirmed' \in [Targets -> 0 .. 5]
<1>1. ASSUME NEW n \in {1, 3} PROVE n + 1 \in 0 .. 5
  OBVIOUS
<1>2. \A t \in Targets : confirmed[t] \in 0 .. 5
  BY DEF CycleType
<1> QED
  BY <1>1, <1>2 DEF FailuresSeen

\* A good control moves every target on that waited for one.
LEMMA ControlSeenFacts ==
  ASSUME CycleType, ControlSeen(TRUE), NEW t \in Targets, NEW n \in {0, 2, 4}, confirmed[t] = n
  PROVE  confirmed'[t] = n + 1
  BY DEF ControlSeen, CycleType

-----------------------------------------------------------------------------

LEMMA StartCycleKeeps ==
  ASSUME MeasureInv, StartCycle
  PROVE  MeasureInv'
<1>1. /\ phase = "idle" /\ phase' = "control" /\ compatible' = TRUE /\ control' = FALSE
      /\ report' = None /\ UNCHANGED probeVars /\ results' = results
      /\ confirmed' = [t \in Targets |-> 0]
  BY DEF StartCycle
<1>2. Batch = {} /\ results = Empty
  BY <1>1 DEF MeasureInv, CycleInv, Judged, Before
<1>3. ProbeInv' /\ Batch' = {}
  BY <1>1, <1>2, RestKeeps DEF MeasureInv
<1>4. CycleType'
  <2>1. 0 \in 0 .. 5 /\ DOMAIN results' = {}
    BY <1>1, <1>2 DEF Empty
  <2> QED
    BY <1>1, <2>1 DEF CycleType, Phases, Before
<1>5. Confirmation'
  BY <1>1 DEF Confirmation
<1>6. DOMAIN results' = {}
  BY <1>1, <1>2 DEF Empty
<1>7. Judged'
  BY <1>1, <1>2, <1>3, <1>6 DEF Judged, Before, Again
<1> QED
  BY <1>1, <1>3, <1>4, <1>5, <1>7, Unreported DEF MeasureInv, CycleInv

LEMMA AdvanceKeeps ==
  ASSUME MeasureInv, Advance
  PROVE  MeasureInv'
<1>1. UNCHANGED <<probeVars, phase, control, compatible, results, report, confirmed>>
  BY DEF Advance
<1>2. ProbeInv' /\ Batch' = Batch
  BY <1>1, RestKeeps DEF MeasureInv
<1>3. CycleType'
  BY <1>1 DEF MeasureInv, CycleInv, CycleType
<1>4. Confirmation'
  BY <1>1 DEF MeasureInv, CycleInv, Confirmation, FailedAt, Failing
<1>5. Judged'
  BY <1>1, <1>2 DEF MeasureInv, CycleInv, Judged, Failing
<1>6. ReportInv' /\ BlameIsLocal'
  BY <1>1 DEF MeasureInv, CycleInv, ReportInv, BlameIsLocal, Said, IsReport
<1> QED
  BY <1>2, <1>3, <1>4, <1>5, <1>6 DEF MeasureInv, CycleInv

LEMMA FirstControlKeeps ==
  ASSUME MeasureInv, FirstControl
  PROVE  MeasureInv'
<1>1. PICK ok \in BOOLEAN : RunControl(ok, "refreshing")
  BY DEF FirstControl
<1>2. /\ phase = "control" /\ phase' = "refreshing" /\ control' = ok /\ ControlSeen(ok)
      /\ UNCHANGED <<compatible, report, results>> /\ UNCHANGED probeVars
  BY <1>1 DEF FirstControl, RunControl
<1>3. Batch = {} /\ results = Empty /\ report = None
  BY <1>2 DEF MeasureInv, CycleInv, Judged, Before, ReportInv
<1>4. ProbeInv' /\ Batch' = {}
  BY <1>2, <1>3, RestKeeps DEF MeasureInv
<1>5. DOMAIN results' = {}
  BY <1>2, <1>3 DEF Empty
<1>6. CycleType'
  BY <1>2, <1>5, ControlSeenType DEF MeasureInv, CycleInv, CycleType, Phases, Before
<1>7. control' => \A t \in Targets : confirmed'[t] = 1
  <2>1. \A t \in Targets : confirmed[t] = 0
    BY <1>2 DEF MeasureInv, CycleInv, Confirmation
  <2>2. 0 + 1 = 1 /\ 0 \in {0, 2, 4}
    OBVIOUS
  <2> QED
    BY <1>2, <2>1, <2>2, ControlSeenFacts DEF MeasureInv, CycleInv
<1>8. Confirmation'
  BY <1>2, <1>7 DEF Confirmation
<1>9. Judged'
  BY <1>2, <1>3, <1>4, <1>5 DEF Judged, Before, Again
<1> QED
  BY <1>2, <1>3, <1>4, <1>6, <1>8, <1>9, Unreported DEF MeasureInv, CycleInv

LEMMA RefreshFailsKeeps ==
  ASSUME MeasureInv, RefreshFails
  PROVE  MeasureInv'
<1>1. /\ phase = "refreshing" /\ phase' = "unavailable"
      /\ UNCHANGED <<control, compatible, results, report, confirmed>> /\ UNCHANGED probeVars
  BY DEF RefreshFails
<1>2. Batch = {} /\ results = Empty /\ report = None
  BY <1>1 DEF MeasureInv, CycleInv, Judged, Before, ReportInv
<1>3. ProbeInv' /\ Batch' = {}
  BY <1>1, <1>2, RestKeeps DEF MeasureInv
<1>4. DOMAIN results' = {}
  BY <1>1, <1>2 DEF Empty
<1>5. CycleType'
  BY <1>1 DEF MeasureInv, CycleInv, CycleType, Phases, Before
<1>6. Confirmation'
  BY <1>1 DEF Confirmation
<1>7. Judged'
  BY <1>1, <1>2, <1>3, <1>4 DEF Judged, Before, Again
<1> QED
  BY <1>1, <1>2, <1>3, <1>5, <1>6, <1>7, Unreported DEF MeasureInv, CycleInv

LEMMA RefreshKeeps ==
  ASSUME MeasureInv, Refresh
  PROVE  MeasureInv'
<1>1. /\ phase = "refreshing" /\ phase' = "version"
      /\ UNCHANGED <<control, compatible, report, confirmed>> /\ UNCHANGED probeVars
  BY DEF Refresh
<1>2. PICK ts \in Fetched : results' = UnknownResults(ts, "XRAY")
  BY DEF Refresh
<1>3. ts \subseteq Targets /\ DOMAIN results' = ts /\ \A t \in ts : results'[t] \in {"XRAY", "POLICY"}
  BY <1>2, UnknownFacts DEF Fetched
<1>4. Batch = {} /\ report = None
  BY <1>1 DEF MeasureInv, CycleInv, Judged, ReportInv
<1>5. ProbeInv' /\ Batch' = {}
  BY <1>1, <1>4, RestKeeps DEF MeasureInv
<1>6. CycleType'
  BY <1>1, <1>3 DEF MeasureInv, CycleInv, CycleType, Phases
<1>7. Confirmation'
  BY <1>1 DEF MeasureInv, CycleInv, Confirmation
<1>8. \A t \in DOMAIN results' : results'[t] \in Unknown /\ results'[t] # "AGENT_NETWORK"
  BY <1>3, StagesApart
<1>9. Judged'
  BY <1>1, <1>3, <1>5, <1>8 DEF Judged, Before, Again
<1> QED
  BY <1>1, <1>4, <1>5, <1>6, <1>7, <1>9, Unreported DEF MeasureInv, CycleInv

LEMMA VersionCheckedKeeps ==
  ASSUME MeasureInv, VersionChecked
  PROVE  MeasureInv'
<1> DEFINE ts == DOMAIN results \ (IF compatible' THEN {} ELSE Vpn)
<1>1. /\ phase = "version" /\ compatible' \in BOOLEAN
      /\ UNCHANGED <<xray, listener, control, report, confirmed>>
      /\ RunProbes(ts, results, "first", "judging")
  BY DEF VersionChecked, VersionAnswers
<1>2. /\ Batch = {} /\ report = None /\ DOMAIN results \subseteq Targets
      /\ \A t \in DOMAIN results : results[t] \in {"XRAY", "POLICY"}
      /\ control => \A t \in Targets : confirmed[t] = 1
  BY <1>1 DEF MeasureInv, CycleInv, CycleType, Judged, ReportInv, Confirmation
<1>3. ts \subseteq DOMAIN results /\ (~compatible' => ts \cap Vpn = {})
  OBVIOUS
<1> HIDE DEF ts
<1>4. CASE task' = Batched(ts) /\ results' = results /\ phase' = "first"
  <2>1. ProbeInv' /\ Batch' = ts
    BY <1>1, <1>2, <1>3, <1>4, BatchedKeeps, NoBatchIsOver DEF MeasureInv
  <2>2. CycleType'
    BY <1>1, <1>4 DEF MeasureInv, CycleInv, CycleType, Phases
  <2>3. Confirmation'
    BY <1>1, <1>2, <1>4 DEF Confirmation
  <2>4. \A t \in DOMAIN results' : results'[t] \in Unknown /\ results'[t] # "AGENT_NETWORK"
    BY <1>2, <1>4, StagesApart
  <2>5. Judged'
    BY <1>2, <1>3, <1>4, <2>1, <2>4 DEF Judged, Before, Again
  <2> QED
    BY <1>1, <1>2, <2>1, <2>2, <2>3, <2>5, Unreported DEF MeasureInv, CycleInv
<1>5. ASSUME NEW stage \in {"DEADLINE", "XRAY"},
             results' = Replaced(results, UnknownResults(ts, stage)),
             phase' = "judging", task' = task
      PROVE  MeasureInv'
  <2>1. ProbeInv' /\ Batch' = {}
    BY <1>1, <1>2, <1>5, RestKeeps DEF MeasureInv, probeVars
  <2>2. DOMAIN results' = DOMAIN results
        /\ \A t \in DOMAIN results' : results'[t] \in {"XRAY", "POLICY", "DEADLINE"}
    BY <1>2, <1>5, ReplacedFacts, UnknownFacts
  <2>3. \A t \in DOMAIN results' :
           results'[t] \in Unknown /\ results'[t] \notin Down /\ results'[t] # "AGENT_NETWORK"
    BY <2>2, StagesApart
  <2>4. CycleType'
    BY <1>1, <1>5, <2>2 DEF MeasureInv, CycleInv, CycleType, Phases
  <2>5. Confirmation'
    BY <1>5, <2>3 DEF Confirmation, FailedAt
  <2>6. Judged'
    BY <1>5, <2>1, <2>3 DEF Judged, Before, Again
  <2> QED
    BY <1>1, <1>2, <2>1, <2>4, <2>5, <2>6, Unreported DEF MeasureInv, CycleInv
<1> QED
  BY <1>1, <1>4, <1>5 DEF RunProbes

\* What a finished batch adds to the results.
LEMMA BatchResultsFacts ==
  ASSUME MeasureInv, BatchOver, NEW t \in Batch
  PROVE  /\ DOMAIN BatchResults = Batch
         /\ BatchResults[t] \in Stages
         /\ control => BatchResults[t] # "AGENT_NETWORK"
<1>1. task[t].pc = "done" /\ Fine(t, task[t], xray[t], listener, control)
  BY TaskFacts DEF BatchOver, At, MeasureInv
<1>2. task[t].result \in Stages /\ (control => task[t].result # "AGENT_NETWORK")
  BY <1>1 DEF Fine
<1>3. Settled(t) \in {task[t].result, "POLICY"} /\ "POLICY" \in Stages
  BY DEF Settled, Stages, Unknown
<1> QED
  BY <1>2, <1>3 DEF BatchResults

\* A target that failed in the batch is one failure further on its way.
LEMMA BatchDoneFacts ==
  ASSUME MeasureInv, NEW running, NEW next, BatchDone(running, next),
         \A t \in DOMAIN results \ Batch : results[t] \notin Down,
         NEW n \in {1, 3}, \A t \in Batch : control => confirmed[t] = n
  PROVE  /\ ProbeInv' /\ Batch' = {}
         /\ DOMAIN results' = DOMAIN results
         /\ confirmed' \in [Targets -> 0 .. 5]
         /\ control => \A t \in DOMAIN results : results'[t] \in Down => confirmed'[t] = n + 1
         /\ control => \A t \in DOMAIN results : results'[t] # "AGENT_NETWORK"
         /\ \A t \in DOMAIN results \ Batch : results'[t] = results[t]
<1>1. /\ BatchOver /\ results' = Replaced(results, BatchResults) /\ FailuresSeen(BatchResults)
      /\ task' = Batched({}) /\ UNCHANGED <<xray, listener, control>>
  BY DEF BatchDone
<1>2. ProbeInv' /\ Batch' = {}
  BY <1>1, BatchedKeeps DEF MeasureInv
<1>3. DOMAIN BatchResults = Batch
  BY DEF BatchResults
<1>4. /\ DOMAIN results' = DOMAIN results
      /\ \A t \in DOMAIN results :
           results'[t] = IF t \in Batch THEN BatchResults[t] ELSE results[t]
  BY <1>1, <1>3, ReplacedFacts
<1>5. confirmed' \in [Targets -> 0 .. 5]
  BY <1>1, FailuresSeenType DEF MeasureInv, CycleInv
<1>6. \A t \in Targets :
        confirmed'[t] = IF t \in Batch /\ BatchResults[t] \in Down /\ confirmed[t] \in {1, 3}
                        THEN confirmed[t] + 1 ELSE confirmed[t]
  BY <1>1, <1>3 DEF FailuresSeen
<1>7. ASSUME control, NEW t \in DOMAIN results, results'[t] \in Down
      PROVE  confirmed'[t] = n + 1
  <2>1. t \in Batch /\ BatchResults[t] \in Down
    BY <1>4, <1>7
  <2>2. t \in Targets /\ confirmed[t] = n
    BY <1>7, <2>1 DEF Batch
  <2> QED
    BY <1>6, <2>1, <2>2
<1>8. ASSUME control, NEW t \in DOMAIN results
      PROVE  results'[t] # "AGENT_NETWORK"
  BY <1>1, <1>4, <1>8, BatchResultsFacts DEF MeasureInv, CycleInv, Judged
<1> QED
  BY <1>2, <1>4, <1>5, <1>7, <1>8

LEMMA FirstDoneKeeps ==
  ASSUME MeasureInv, FirstDone
  PROVE  MeasureInv'
<1>1. /\ phase = "first" /\ phase' = "judging" /\ BatchDone("first", "judging")
      /\ UNCHANGED <<control, compatible, report>>
  BY DEF FirstDone, BatchDone
<1>2. /\ \A t \in DOMAIN results : results[t] \in {"XRAY", "POLICY"}
      /\ control => \A t \in Targets : confirmed[t] = 1
      /\ report = None /\ Batch \subseteq Targets
      /\ ~compatible => Batch \cap Vpn = {}
      /\ ~compatible => \A t \in DOMAIN results : t \in Vpn => results[t] \in Unknown
  BY <1>1 DEF MeasureInv, CycleInv, Judged, Confirmation, ReportInv, Batch
<1>3. \A t \in DOMAIN results \ Batch : results[t] \notin Down
  BY <1>2, StagesApart
<1>4. \A t \in Batch : control => confirmed[t] = 1
  BY <1>2
<1>5. /\ ProbeInv' /\ Batch' = {}
      /\ DOMAIN results' = DOMAIN results
      /\ confirmed' \in [Targets -> 0 .. 5]
      /\ control => \A t \in DOMAIN results : results'[t] \in Down => confirmed'[t] = 1 + 1
      /\ control => \A t \in DOMAIN results : results'[t] # "AGENT_NETWORK"
      /\ \A t \in DOMAIN results \ Batch : results'[t] = results[t]
  BY <1>1, <1>3, <1>4, BatchDoneFacts
<1>6. CycleType'
  BY <1>1, <1>5 DEF MeasureInv, CycleInv, CycleType, Phases
<1>7. 1 + 1 = 2
  OBVIOUS
<1>8. Confirmation'
  BY <1>1, <1>5, <1>7 DEF Confirmation, FailedAt
<1>9. Judged'
  BY <1>1, <1>2, <1>5 DEF Judged, Before, Again
<1> QED
  BY <1>1, <1>2, <1>5, <1>6, <1>8, <1>9, Unreported DEF MeasureInv, CycleInv

LEMMA SecondDoneKeeps ==
  ASSUME MeasureInv, SecondDone
  PROVE  MeasureInv'
<1>1. /\ phase = "second" /\ phase' = "rejudging" /\ BatchDone("second", "rejudging")
      /\ UNCHANGED <<control, compatible, report>>
  BY DEF SecondDone, BatchDone
<1>2. /\ Failing = Batch /\ FailedAt(3) /\ control
      /\ report = None
      /\ ~compatible => Batch \cap Vpn = {}
      /\ ~compatible => \A t \in DOMAIN results : t \in Vpn => results[t] \in Unknown
  BY <1>1 DEF MeasureInv, CycleInv, Judged, Confirmation, ReportInv, Again
<1>3. \A t \in DOMAIN results \ Batch : results[t] \notin Down
  BY <1>2 DEF Failing
<1>4. \A t \in Batch : control => confirmed[t] = 3
  BY <1>2 DEF Failing, FailedAt
<1>5. /\ ProbeInv' /\ Batch' = {}
      /\ DOMAIN results' = DOMAIN results
      /\ confirmed' \in [Targets -> 0 .. 5]
      /\ control => \A t \in DOMAIN results : results'[t] \in Down => confirmed'[t] = 3 + 1
      /\ control => \A t \in DOMAIN results : results'[t] # "AGENT_NETWORK"
      /\ \A t \in DOMAIN results \ Batch : results'[t] = results[t]
  BY <1>1, <1>3, <1>4, BatchDoneFacts
<1>6. CycleType'
  BY <1>1, <1>5 DEF MeasureInv, CycleInv, CycleType, Phases, Again
<1>7. 3 + 1 = 4
  OBVIOUS
<1>8. Confirmation'
  BY <1>1, <1>2, <1>5, <1>7 DEF Confirmation, FailedAt
<1>9. Judged'
  BY <1>1, <1>2, <1>5 DEF Judged, Before, Again
<1> QED
  BY <1>1, <1>2, <1>5, <1>6, <1>8, <1>9, Unreported DEF MeasureInv, CycleInv

-----------------------------------------------------------------------------
(* The steps of confirm_failures.                                          *)

\* An await is passed on the way to the second look, with the same results.
LEMMA PassedKeeps ==
  ASSUME MeasureInv, phase \in {"judging", "delaying", "rejudging"},
         phase = "rejudging" => phase' = "lastcontrol",
         phase # "rejudging" => phase' \in {"delaying", "recontrol"},
         control, UNCHANGED <<probeVars, control, compatible, results, report, confirmed>>
  PROVE  MeasureInv'
<1>1. Batch = {} /\ report = None
  BY DEF MeasureInv, CycleInv, Judged, ReportInv
<1>2. ProbeInv' /\ Batch' = {}
  BY <1>1, RestKeeps DEF MeasureInv
<1>3. CycleType'
  BY DEF MeasureInv, CycleInv, CycleType, Phases, Again
<1>4. Confirmation'
  BY DEF MeasureInv, CycleInv, Confirmation, FailedAt
<1>5. Judged'
  BY <1>2 DEF MeasureInv, CycleInv, Judged, Before, Again
<1> QED
  BY <1>1, <1>2, <1>3, <1>4, <1>5, Unreported DEF MeasureInv, CycleInv

\* Nothing failed, or nothing failed again: the results stand.
LEMMA KeptKeeps ==
  ASSUME MeasureInv, phase \in {"judging", "rejudging"}, Failing = {}, Keep, Unprobed
  PROVE  MeasureInv'
<1>1. /\ phase' = "reporting" /\ UNCHANGED <<control, compatible, results, report, confirmed>>
      /\ UNCHANGED probeVars
  BY DEF Keep, Unprobed
<1>2. Batch = {} /\ report = None
  BY DEF MeasureInv, CycleInv, Judged, ReportInv
<1>3. ProbeInv' /\ Batch' = {}
  BY <1>1, <1>2, RestKeeps DEF MeasureInv
<1>4. CycleType'
  BY <1>1 DEF MeasureInv, CycleInv, CycleType, Phases
<1>5. Confirmation'
  BY <1>1 DEF Confirmation, FailedAt, Failing
<1>6. Judged'
  BY <1>1, <1>3 DEF MeasureInv, CycleInv, Judged, Before, Again
<1> QED
  BY <1>1, <1>2, <1>3, <1>4, <1>5, <1>6, Unreported DEF MeasureInv, CycleInv

\* The failures are given up for what stage says.
LEMMA GivenUpKeeps ==
  ASSUME MeasureInv, phase \in {"judging", "delaying", "rejudging"}, NEW stage \in Unknown,
         control => stage # "AGENT_NETWORK", Settle(stage), Unprobed
  PROVE  MeasureInv'
<1>1. /\ results' = Uncertain(stage) /\ phase' = "reporting"
      /\ UNCHANGED <<control, compatible, report, confirmed>> /\ UNCHANGED probeVars
  BY DEF Settle, Unprobed
<1>2. ProbeInv' /\ Batch' = Batch
  BY <1>1, RestKeeps DEF MeasureInv
<1>3. phase \in (Again \ {"second"}) \cup {"judging"}
  BY DEF Again
<1>4. control' \in BOOLEAN /\ confirmed' \in [Targets -> 0 .. 5]
  BY <1>1 DEF MeasureInv, CycleInv, CycleType
<1> QED
  BY <1>1, <1>2, <1>3, <1>4, SettledKeeps DEF MeasureInv

LEMMA JudgeKeeps ==
  ASSUME MeasureInv, Judge
  PROVE  MeasureInv'
<1>1. phase = "judging" /\ Unprobed /\ control \in BOOLEAN
  BY DEF Judge, MeasureInv, CycleInv, CycleType
<1>2. CASE Failing = {}
  BY <1>1, <1>2, KeptKeeps DEF Judge
<1>3. CASE Failing # {} /\ ~control
  BY <1>1, <1>3, GivenUpKeeps, StagesApart DEF Judge
<1>4. CASE Failing # {} /\ control /\ clock = "ample"
  BY <1>1, <1>4, PassedKeeps DEF Judge, Unprobed
<1>5. CASE Failing # {} /\ control /\ clock # "ample"
  BY <1>1, <1>5, GivenUpKeeps, StagesApart DEF Judge
<1> QED
  BY <1>1, <1>2, <1>3, <1>4, <1>5

LEMMA DelayOverKeeps ==
  ASSUME MeasureInv, DelayOver
  PROVE  MeasureInv'
<1>1. phase = "delaying" /\ Unprobed /\ control
  BY DEF DelayOver, MeasureInv, CycleInv, Judged, Again
<1>2. CASE Settle("DEADLINE")
  BY <1>1, <1>2, GivenUpKeeps, StagesApart
<1>3. CASE phase' = "recontrol" /\ UNCHANGED results
  BY <1>1, <1>3, PassedKeeps DEF Unprobed
<1> QED
  BY <1>2, <1>3 DEF DelayOver

LEMMA RejudgeKeeps ==
  ASSUME MeasureInv, Rejudge
  PROVE  MeasureInv'
<1>1. phase = "rejudging" /\ Unprobed /\ control
  BY DEF Rejudge, MeasureInv, CycleInv, Judged, Again
<1>2. CASE Failing = {}
  BY <1>1, <1>2, KeptKeeps DEF Rejudge
<1>3. CASE Failing # {} /\ clock = "over"
  BY <1>1, <1>3, GivenUpKeeps, StagesApart DEF Rejudge
<1>4. CASE Failing # {} /\ clock # "over"
  BY <1>1, <1>4, PassedKeeps DEF Rejudge, Unprobed
<1> QED
  BY <1>2, <1>3, <1>4

\* A good control confirms every failure once more, a bad one takes them back.
LEMMA ControlAgainKeeps ==
  ASSUME MeasureInv, NEW from, NEW next, NEW n \in {2, 4}, ControlAgain(from, next),
         \/ from = "recontrol" /\ next = "reprobing" /\ n = 2
         \/ from = "lastcontrol" /\ next = "reporting" /\ n = 4
  PROVE  MeasureInv'
<1>1. phase = from /\ phase \in Again \ {"second"}
  BY DEF ControlAgain, Again
<1>2. FailedAt(n) /\ control /\ Batch = {} /\ report = None /\ DOMAIN results \subseteq Targets
  BY <1>1 DEF MeasureInv, CycleInv, CycleType, Confirmation, Judged, ReportInv, Again
<1>3. ASSUME RunControl(TRUE, next), UNCHANGED results
      PROVE  MeasureInv'
  <2>1. /\ phase' = next /\ control' = TRUE /\ ControlSeen(TRUE)
        /\ UNCHANGED <<compatible, results, report>> /\ UNCHANGED probeVars
    BY <1>3 DEF RunControl
  <2>2. ProbeInv' /\ Batch' = {}
    BY <1>2, <2>1, RestKeeps DEF MeasureInv
  <2>3. CycleType'
    BY <2>1, ControlSeenType DEF MeasureInv, CycleInv, CycleType, Phases, Again
  <2>4. \A t \in DOMAIN results' : results'[t] \in Down => confirmed'[t] = n + 1
    BY <1>2, <2>1, ControlSeenFacts DEF FailedAt, MeasureInv, CycleInv
  <2>5. Confirmation'
    BY <2>1, <2>4 DEF Confirmation, FailedAt
  <2>6. Judged'
    BY <1>1, <1>2, <2>1, <2>2 DEF MeasureInv, CycleInv, Judged, Before, Again
  <2> QED
    BY <1>2, <2>1, <2>2, <2>3, <2>5, <2>6, Unreported DEF MeasureInv, CycleInv
<1>4. ASSUME RunControl(FALSE, "reporting"), results' = Uncertain("AGENT_NETWORK")
      PROVE  MeasureInv'
  <2>1. /\ phase' = "reporting" /\ control' = FALSE /\ ControlSeen(FALSE)
        /\ UNCHANGED <<compatible, report>> /\ UNCHANGED probeVars
    BY <1>4 DEF RunControl
  <2>2. ProbeInv' /\ Batch' = Batch
    BY <1>2, <2>1, RestKeeps DEF MeasureInv
  <2>3. confirmed' \in [Targets -> 0 .. 5]
    BY <2>1, ControlSeenType DEF MeasureInv, CycleInv
  <2> QED
    BY <1>1, <1>4, <2>1, <2>2, <2>3, SettledKeeps, StagesApart DEF MeasureInv
<1> QED
  BY <1>3, <1>4 DEF ControlAgain

LEMMA ReprobeKeeps ==
  ASSUME MeasureInv, Reprobe
  PROVE  MeasureInv'
<1>1. /\ phase = "reprobing"
      /\ UNCHANGED <<xray, listener, control, compatible, report, confirmed>>
  BY DEF Reprobe
<1>2. /\ FailedAt(3) /\ control /\ Batch = {} /\ report = None /\ DOMAIN results \subseteq Targets
      /\ \A t \in DOMAIN results : results[t] # "AGENT_NETWORK"
      /\ ~compatible => \A t \in DOMAIN results : t \in Vpn => results[t] \in Unknown
  BY <1>1 DEF MeasureInv, CycleInv, CycleType, Confirmation, Judged, ReportInv, Again
<1>3. Failing \subseteq Targets
  BY <1>2 DEF Failing
<1>4. ASSUME Settle("DEADLINE"), task' = task
      PROVE  MeasureInv'
  <2>1. ProbeInv' /\ Batch' = Batch
    BY <1>1, <1>4, RestKeeps DEF MeasureInv, probeVars
  <2>2. results' = Uncertain("DEADLINE") /\ phase' = "reporting"
    BY <1>4 DEF Settle
  <2>3. phase \in (Again \ {"second"}) \cup {"judging"} /\ control' \in BOOLEAN
        /\ confirmed' \in [Targets -> 0 .. 5]
    BY <1>1 DEF Again, MeasureInv, CycleInv, CycleType
  <2> QED
    BY <1>1, <2>1, <2>2, <2>3, SettledKeeps, StagesApart DEF MeasureInv
<1>5. ASSUME task' = Batched(Failing), results' = results, phase' = "second"
      PROVE  MeasureInv'
  <2>1. ProbeInv' /\ Batch' = Failing
    BY <1>1, <1>2, <1>3, <1>5, BatchedKeeps, NoBatchIsOver DEF MeasureInv
  <2>2. CycleType'
    BY <1>1, <1>5 DEF MeasureInv, CycleInv, CycleType, Phases, Again
  <2>3. Confirmation'
    BY <1>1, <1>2, <1>5 DEF Confirmation, FailedAt
  <2>4. Failing' = Failing
    BY <1>5 DEF Failing
  <2>5. ~compatible => Failing \cap Vpn = {}
    BY <1>2, StagesApart DEF Failing
  <2>6. Judged'
    BY <1>1, <1>2, <1>5, <2>1, <2>4, <2>5 DEF Judged, Before, Again
  <2> QED
    BY <1>1, <1>2, <2>1, <2>2, <2>3, <2>6, Unreported DEF MeasureInv, CycleInv
<1>6. ASSUME NEW stage \in {"DEADLINE", "XRAY"},
             results' = Replaced(results, UnknownResults(Failing, stage)),
             phase' = "rejudging", task' = task
      PROVE  MeasureInv'
  <2>1. ProbeInv' /\ Batch' = {}
    BY <1>1, <1>2, <1>6, RestKeeps DEF MeasureInv, probeVars
  <2>2. DOMAIN results' = DOMAIN results
        /\ \A t \in DOMAIN results' :
             \/ t \in Failing /\ results'[t] \in {"XRAY", "POLICY", "DEADLINE"}
             \/ t \notin Failing /\ results'[t] = results[t]
    BY <1>6, ReplacedFacts, UnknownFacts
  <2>3. \A t \in DOMAIN results' : results'[t] \notin Down /\ results'[t] # "AGENT_NETWORK"
    BY <1>2, <2>2, StagesApart DEF Failing
  <2>4. ~compatible => \A t \in DOMAIN results' : t \in Vpn => results'[t] \in Unknown
    BY <1>2, <2>2, StagesApart
  <2>5. CycleType'
    BY <1>1, <1>6, <2>2 DEF MeasureInv, CycleInv, CycleType, Phases, Again
  <2>6. Confirmation'
    BY <1>6, <2>3 DEF Confirmation, FailedAt
  <2>7. Judged'
    BY <1>1, <1>2, <1>6, <2>1, <2>3, <2>4 DEF Judged, Before, Again
  <2> QED
    BY <1>1, <1>2, <2>1, <2>5, <2>6, <2>7, Unreported DEF MeasureInv, CycleInv
<1> QED
  BY <1>4, <1>5, <1>6 DEF Reprobe, RunProbes

-----------------------------------------------------------------------------
(* The report, and what is left of it.                                     *)

\* What each reason of a report says about its results.
LEMMA ReasonFacts ==
  ASSUME MeasureInv, phase \in {"unavailable", "reporting"}
  PROVE  /\ RunReason \in {"agent-network", "no-valid-snapshot"} => Failing = {}
         /\ RunReason = "xray-version" =>
              \A t \in DOMAIN results : t \in Vpn => results[t] \in Unknown
         /\ RunReason = None =>
              /\ control /\ phase = "reporting"
              /\ \A t \in DOMAIN results : results[t] \notin {"DEADLINE", "XRAY", "AGENT_NETWORK"}
<1>1. CASE phase = "unavailable"
  <2>1. RunReason = "no-valid-snapshot" /\ results = Empty
    BY <1>1 DEF RunReason, MeasureInv, CycleInv, Judged, Before
  <2>2. DOMAIN results = {}
    BY <2>1 DEF Empty
  <2> QED
    BY <2>1, <2>2, ReasonAssumption DEF Failing
<1>2. CASE phase = "reporting" /\ ~control
  <2>1. RunReason = "agent-network" /\ Failing = {}
    BY <1>2 DEF RunReason, MeasureInv, CycleInv, Confirmation
  <2> QED
    BY <2>1, ReasonAssumption
<1>3. CASE phase = "reporting" /\ control /\ ~compatible
  <2>1. RunReason = "xray-version"
        /\ \A t \in DOMAIN results : t \in Vpn => results[t] \in Unknown
    BY <1>3 DEF RunReason, MeasureInv, CycleInv, Judged
  <2> QED
    BY <2>1, ReasonAssumption
<1>4. CASE phase = "reporting" /\ control /\ compatible
  <2>1. RunReason = Incomplete(results) /\ "AGENT_NETWORK" \notin StagesOf(results)
    BY <1>4 DEF RunReason, MeasureInv, CycleInv, Judged, StagesOf
  <2>2. CASE "DEADLINE" \in StagesOf(results)
    <3>1. RunReason = "deadline"
      BY <2>1, <2>2 DEF Incomplete
    <3> QED
      BY <3>1, ReasonAssumption
  <2>3. CASE "DEADLINE" \notin StagesOf(results) /\ "XRAY" \in StagesOf(results)
    <3>1. RunReason = "probe-incomplete"
      BY <2>1, <2>3 DEF Incomplete
    <3> QED
      BY <3>1, ReasonAssumption
  <2>4. CASE "DEADLINE" \notin StagesOf(results) /\ "XRAY" \notin StagesOf(results)
    <3>1. RunReason = None
      BY <2>1, <2>4 DEF Incomplete
    <3>2. \A t \in DOMAIN results : results[t] \notin {"DEADLINE", "XRAY", "AGENT_NETWORK"}
      BY <2>1, <2>4 DEF StagesOf
    <3> QED
      BY <1>4, <3>1, <3>2, ReasonAssumption
  <2> QED
    BY <2>2, <2>3, <2>4
<1> QED
  BY <1>1, <1>2, <1>3, <1>4 DEF MeasureInv, CycleInv, CycleType

LEMMA ReportKeeps ==
  ASSUME MeasureInv, Report
  PROVE  MeasureInv'
<1>1. /\ phase \in {"unavailable", "reporting"} /\ phase' = "idle" /\ results' = Empty
      /\ report' = [results |-> results, reason |-> RunReason, control |-> control,
                    fresh |-> phase = "reporting"]
      /\ UNCHANGED <<control, compatible, confirmed>> /\ UNCHANGED probeVars
  BY DEF Report
<1>2. /\ report'.results = results /\ report'.reason = RunReason /\ report'.control = control
      /\ report'.fresh = (phase = "reporting")
  BY <1>1
<1>3. Batch = {}
  BY <1>1 DEF MeasureInv, CycleInv, Judged
<1>4. ProbeInv' /\ Batch' = {}
  BY <1>1, <1>3, RestKeeps DEF MeasureInv
<1>5. DOMAIN results' = {}
  BY <1>1 DEF Empty
<1>6. CycleType'
  BY <1>1, <1>5 DEF MeasureInv, CycleInv, CycleType, Phases, Before
<1>7. Confirmation'
  BY <1>1 DEF Confirmation
<1>8. Judged'
  BY <1>1, <1>4, <1>5 DEF Judged, Before, Again
<1>9. FailedAt(5)
  <2>1. CASE phase = "reporting"
    BY <2>1 DEF MeasureInv, CycleInv, Confirmation
  <2>2. CASE phase = "unavailable"
    <3>1. DOMAIN results = {}
      BY <2>2 DEF MeasureInv, CycleInv, Judged, Before, Empty
    <3> QED
      BY <3>1 DEF FailedAt
  <2> QED
    BY <1>1, <2>1, <2>2
<1>10. ReportInv'
  <2>1. \A t \in Said(report', Down) : confirmed'[t] = 5
    BY <1>1, <1>2, <1>9 DEF Said, FailedAt
  <2>2. IsReport(report)'
    BY <1>1, <1>2 DEF IsReport
  <2> QED
    BY <1>1, <2>1, <2>2 DEF ReportInv
<1>11. BlameIsLocal'
  <2>1. report'.reason \in {"agent-network", "no-valid-snapshot"} => Said(report', Down) = {}
    BY <1>1, <1>2, ReasonFacts DEF Said, Failing
  <2>2. report'.reason = "xray-version" => Said(report', Up \cup Down) \cap Vpn = {}
    BY <1>1, <1>2, ReasonFacts, StagesApart DEF Said
  <2>3. report'.reason = None =>
          /\ report'.control /\ report'.fresh
          /\ Said(report', {"DEADLINE", "XRAY", "AGENT_NETWORK"}) = {}
    BY <1>1, <1>2, ReasonFacts DEF Said
  <2> QED
    BY <2>1, <2>2, <2>3 DEF BlameIsLocal
<1> QED
  BY <1>4, <1>6, <1>7, <1>8, <1>10, <1>11 DEF MeasureInv, CycleInv

LEMMA CycleClearedKeeps ==
  ASSUME MeasureInv, BatchOver, CycleCleared
  PROVE  MeasureInv' /\ phase' = "idle"
<1>1. /\ task' = Batched({}) /\ phase' = "idle" /\ results' = Empty /\ report' = None
      /\ confirmed' = [t \in Targets |-> 0]
      /\ UNCHANGED <<xray, listener, control, compatible>>
  BY DEF CycleCleared
<1>2. ProbeInv' /\ Batch' = {}
  BY <1>1, BatchedKeeps DEF MeasureInv
<1>3. DOMAIN results' = {} /\ 0 \in 0 .. 5
  BY <1>1 DEF Empty
<1>4. CycleType'
  BY <1>1, <1>3 DEF MeasureInv, CycleInv, CycleType, Phases, Before
<1>5. Confirmation'
  BY <1>1 DEF Confirmation
<1>6. Judged'
  BY <1>1, <1>2, <1>3 DEF Judged, Before, Again
<1> QED
  BY <1>1, <1>2, <1>4, <1>5, <1>6, Unreported DEF MeasureInv, CycleInv

\* A report whose measurement left its network judges nobody.
LEMMA UnmeasuredFacts ==
  ASSUME NEW old, IsReport(old)
  PROVE  /\ IsReport(Unmeasured(old))
         /\ Unmeasured(old).reason = "direct-interface-changed"
         /\ Said(Unmeasured(old), Up \cup Down) = {} /\ Said(Unmeasured(old), Down) = {}
<1> DEFINE rs == [t \in DOMAIN old.results |-> "POLICY"]
           r == Unmeasured(old)
<1>1. old = [results |-> old.results, reason |-> old.reason,
             control |-> old.control, fresh |-> old.fresh]
  BY DEF IsReport
<1>2. r = [old EXCEPT !.results = rs, !.reason = "direct-interface-changed"]
  BY DEF Unmeasured
<1> HIDE DEF rs
<1>3. r = [results |-> rs, reason |-> "direct-interface-changed", control |-> old.control,
           fresh |-> old.fresh]
  BY <1>1, <1>2
<1>4. \A t \in DOMAIN rs : rs[t] = "POLICY"
  BY DEF rs
<1>5. r.results = rs /\ r.reason = "direct-interface-changed" /\ r.control = old.control
      /\ r.fresh = old.fresh
  BY <1>3
<1> HIDE DEF r
<1>6. Said(r, Up \cup Down) = {} /\ Said(r, Down) = {}
  BY <1>4, <1>5, StagesApart DEF Said
<1> QED
  BY <1>3, <1>5, <1>6 DEF r, IsReport

LEMMA UnmeasuredKeeps ==
  ASSUME MeasureInv, phase = "idle", IsReport(report), report' = Unmeasured(report),
         UNCHANGED <<probeVars, phase, clock, control, compatible, results, confirmed>>
  PROVE  MeasureInv'
<1>1. ProbeInv' /\ Batch' = Batch
  BY RestKeeps DEF MeasureInv
<1>2. CycleType'
  BY DEF MeasureInv, CycleInv, CycleType
<1>3. Confirmation'
  BY DEF Confirmation
<1>4. Judged'
  BY <1>1 DEF MeasureInv, CycleInv, Judged, Failing
<1>5. /\ IsReport(report') /\ report'.reason = "direct-interface-changed" /\ Said(report', Down) = {}
  BY UnmeasuredFacts
<1>6. ReportInv'
  BY <1>5 DEF ReportInv, IsReport
<1>7. report'.reason # None
  BY <1>5, DirectAssumption
<1>8. BlameIsLocal'
  BY <1>5, <1>7 DEF BlameIsLocal
<1> QED
  BY <1>1, <1>2, <1>3, <1>4, <1>6, <1>8 DEF MeasureInv, CycleInv

-----------------------------------------------------------------------------
(* A cycle, whoever runs it.                                               *)

LEMMA ProbingKeeps ==
  ASSUME MeasureInv, NEW Outcomes, Probing(Outcomes)
  PROVE  MeasureInv'
<1>1. control' = control /\ UNCHANGED cycleVars
  BY DEF Probing, cycleVars
<1>2. ProbeInv' /\ Batch' = Batch
  BY <1>1, ProbeStepKeeps DEF Probing, MeasureInv
<1> QED
  BY <1>1, <1>2, CycleStutters DEF MeasureInv

LEMMA DeadlineCutKeeps ==
  ASSUME MeasureInv, DeadlineCut
  PROVE  MeasureInv'
<1>1. control' = control /\ UNCHANGED cycleVars
  BY DEF DeadlineCut, cycleVars
<1>2. ProbeInv' /\ Batch' = Batch
  BY <1>1, CancelledKeeps DEF DeadlineCut, MeasureInv
<1> QED
  BY <1>1, <1>2, CycleStutters DEF MeasureInv

LEMMA AroundKeeps ==
  ASSUME MeasureInv, Around
  PROVE  MeasureInv'
<1>1. control' = control /\ UNCHANGED cycleVars
  BY DEF Around, cycleVars
<1>2. ProbeInv' /\ Batch' = Batch
  BY <1>1, SurroundingsKeep DEF Around, MeasureInv
<1> QED
  BY <1>1, <1>2, CycleStutters DEF MeasureInv

LEMMA CycleStepKeeps ==
  ASSUME MeasureInv, CycleStep
  PROVE  MeasureInv'
<1>1. CASE Recontrol
  BY <1>1, ControlAgainKeeps DEF Recontrol
<1>2. CASE LastControl
  BY <1>2, ControlAgainKeeps DEF LastControl
<1> QED
  BY <1>1, <1>2, FirstControlKeeps, RefreshFailsKeeps, RefreshKeeps, VersionCheckedKeeps,
     FirstDoneKeeps, SecondDoneKeeps, JudgeKeeps, DelayOverKeeps, ReprobeKeeps, RejudgeKeeps,
     ReportKeeps
  DEF CycleStep, Confirming

LEMMA MeasureNextKeeps ==
  ASSUME MeasureInv, MeasureNext
  PROVE  MeasureInv'
  BY StartCycleKeeps, CycleStepKeeps, AdvanceKeeps, ProbingKeeps, DeadlineCutKeeps, AroundKeeps
  DEF MeasureNext

\* A cycle ends with its report.
LEMMA CycleEndsInReport ==
  ASSUME MeasureInv, phase # "idle", phase' = "idle", NEW Outcomes,
         CycleStep \/ Advance \/ Probing(Outcomes) \/ DeadlineCut
  PROVE  IsReport(report')
<1>1. Report
  BY DEF CycleStep, Advance, Probing, DeadlineCut, cycleVars, FirstControl, RefreshFails, Refresh,
         VersionChecked, RunProbes, FirstDone, SecondDone, BatchDone, Confirming, Judge, DelayOver,
         Recontrol, LastControl, ControlAgain, RunControl, Reprobe, Rejudge, Settle, Keep
<1>2. report' = [results |-> results, reason |-> RunReason, control |-> control,
                 fresh |-> phase = "reporting"]
  BY <1>1 DEF Report
<1> QED
  BY <1>2 DEF IsReport

-----------------------------------------------------------------------------
(* The steps of run_trial.                                                 *)

LEMMA OutcomesApart ==
  /\ None \notin {"available", "partial", "interrupted"}
  /\ \A r : Verdict(r) \in {"available", "partial"}
  BY DirectAssumption DEF Verdict

\* However a trial ends, its file says what it says, and it has no relay.
LEMMA EndFacts ==
  ASSUME NEW said \in {None, "unavailable", "available", "partial"}, NEW observed,
         said \in {"available", "partial"} => observed = said,
         End(said, observed)
  PROVE  /\ at' = "idle" /\ ~relay' /\ ~interrupted' /\ ObservationIsTrue'
         /\ outcome' \in {"available", "partial"} => outcome' = said
<1>1. /\ at' = "idle" /\ interrupted' = FALSE /\ relay' = FALSE
      /\ outcome' = IF interrupted /\ said # "available" THEN "interrupted" ELSE said
      /\ saved' = IF interrupted /\ said # "available" THEN "interrupted" ELSE observed
  BY DEF End, Kept
<1>2. CASE interrupted /\ said # "available"
  BY <1>1, <1>2 DEF ObservationIsTrue
<1>3. CASE ~(interrupted /\ said # "available")
  BY <1>1, <1>3, OutcomesApart DEF ObservationIsTrue
<1> QED
  BY <1>2, <1>3

LEMMA VanishFacts ==
  ASSUME Vanish
  PROVE  at' = "idle" /\ ~relay' /\ ~interrupted' /\ ObservationIsTrue' /\ outcome' = None
  BY OutcomesApart DEF Vanish, ObservationIsTrue

LEMMA InterruptFacts ==
  ASSUME Interrupt
  PROVE  /\ at' \in {"idle", "pausing"} /\ ~relay' /\ ObservationIsTrue'
         /\ at' = "idle" => ~interrupted' /\ outcome' = "interrupted"
<1>1. saved' = "interrupted" /\ relay' = FALSE
  BY DEF Interrupt
<1>2. CASE again
  BY <1>1, <1>2 DEF Interrupt, ObservationIsTrue
<1>3. CASE ~again
  BY <1>1, <1>3 DEF Interrupt, ObservationIsTrue
<1> QED
  BY <1>2, <1>3

\* After such an end, or before the second attempt, nothing is under way.
LEMMA RestingKeeps ==
  ASSUME TrialInv, host # "ordinary", UNCHANGED <<host, wire, net, astray>>,
         at' \in {"idle", "pausing"}, at' = "pausing" => at \notin {"idle", "discovering"},
         ~relay', at' = "idle" => ~interrupted', ObservationIsTrue', LastingChangeIsSeen', phase' = "idle"
  PROVE  TrialInv'
<1>1. TrialType'
  BY DEF TrialInv, TrialType
<1>2. StrayingIsSeen'
  BY DEF TrialInv, StrayingIsSeen
<1> QED
  BY <1>1, <1>2 DEF TrialInv, Guarded

\* A trial that ends without a verdict.
LEMMA NoVerdict ==
  ASSUME at' = "idle" => outcome' \notin {"available", "partial"}
  PROVE  LastingChangeIsSeen'
  BY DEF LastingChangeIsSeen

LEMMA EndedKeeps ==
  ASSUME TrialInv, host # "ordinary", UNCHANGED <<host, wire, net, astray>>, phase' = "idle",
         \/ Interrupt /\ at \notin {"idle", "discovering"}
         \/ Vanish
         \/ \E said \in {None, "unavailable"} : End(said, saved)
  PROVE  TrialInv'
<1>1. CASE Interrupt /\ at \notin {"idle", "discovering"}
  BY <1>1, InterruptFacts, NoVerdict, RestingKeeps
<1>2. CASE Vanish
  BY <1>2, VanishFacts, OutcomesApart, NoVerdict, RestingKeeps
<1>3. ASSUME NEW said \in {None, "unavailable"}, End(said, saved)
      PROVE  TrialInv'
  <2>1. said \notin {"available", "partial"}
    BY OutcomesApart
  <2>2. /\ at' = "idle" /\ ~relay' /\ ~interrupted' /\ ObservationIsTrue'
        /\ outcome' \notin {"available", "partial"}
    BY <1>3, <2>1, EndFacts
  <2> QED
    BY <2>2, NoVerdict, RestingKeeps
<1> QED
  BY <1>1, <1>2, <1>3

\* Between the measurements, and before the first, nothing of a cycle runs.
LEMMA QuietFacts ==
  ASSUME DirectInv, host # "ordinary", at \notin {"measuring", "aborting"}
  PROVE  phase = "idle" /\ Batch = {} /\ BatchOver
<1>1. phase = "idle"
  BY DEF DirectInv, TrialInv
<1>2. Batch = {}
  BY <1>1 DEF DirectInv, MeasureInv, CycleInv, Judged
<1> QED
  BY <1>1, <1>2, NoBatchIsOver

LEMMA MeasureRests ==
  ASSUME MeasureInv, UNCHANGED measureVars
  PROVE  MeasureInv'
<1>1. UNCHANGED probeVars /\ UNCHANGED cycleVars /\ control' = control
  BY DEF measureVars, cycleVars
<1> QED
  BY <1>1, RestKeeps, CycleStutters DEF MeasureInv

LEMMA BeginTrialKeeps ==
  ASSUME DirectInv, BeginTrial
  PROVE  DirectInv'
<1>1. /\ host # "ordinary" /\ at = "idle" /\ at' = "discovering"
      /\ UNCHANGED wire /\ net' = None
      /\ outcome' = None /\ saved' = "earlier" /\ CycleCleared
      /\ UNCHANGED <<host, why, again, interrupted, relay, astray>>
  BY DEF BeginTrial
<1>2. MeasureInv' /\ phase' = "idle"
  BY <1>1, QuietFacts, CycleClearedKeeps DEF DirectInv
<1>3. ~interrupted' /\ ~relay'
  BY <1>1 DEF DirectInv, TrialInv, Guarded
<1>4. TrialType'
  BY <1>1 DEF DirectInv, TrialInv, TrialType
<1>5. StrayingIsSeen' /\ ObservationIsTrue' /\ LastingChangeIsSeen'
  BY <1>1, <1>3 DEF StrayingIsSeen, ObservationIsTrue, LastingChangeIsSeen
<1> QED
  BY <1>1, <1>2, <1>3, <1>4, <1>5 DEF DirectInv, TrialInv

LEMMA DiscoverKeeps ==
  ASSUME DirectInv, Discover
  PROVE  DirectInv'
<1>1. /\ at = "discovering" /\ net' = wire /\ at' \in {"entering", "exits"} /\ astray' = FALSE
      /\ UNCHANGED measureVars
      /\ UNCHANGED <<host, wire, why, again, interrupted, relay, outcome, saved>>
  BY DEF Discover
<1>2. MeasureInv'
  BY <1>1, MeasureRests DEF DirectInv
<1>3. host # "ordinary" /\ phase = "idle" /\ phase' = phase /\ ~relay
  BY <1>1 DEF DirectInv, TrialInv, measureVars, cycleVars, Guarded
<1>4. TrialType'
  <2>1. wire \in Networks /\ host \in {"ordinary", "macOS", "Windows"}
    BY DEF DirectInv, TrialInv, TrialType
  <2>2. wire' = wire /\ net' = wire /\ host' = host /\ astray' \in BOOLEAN
    BY <1>1
  <2>3. at' \in {"idle", "discovering", "entering", "final", "pausing", "aborting"} \cup Guarded
    BY <1>1 DEF Guarded
  <2> QED
    BY <2>1, <2>2, <2>3 DEF TrialType
<1>5. StrayingIsSeen' /\ LastingChangeIsSeen'
  BY <1>1 DEF StrayingIsSeen, LastingChangeIsSeen
<1>6. ObservationIsTrue'
  BY <1>1 DEF DirectInv, TrialInv, ObservationIsTrue
<1> QED
  BY <1>1, <1>2, <1>3, <1>4, <1>5, <1>6 DEF DirectInv, TrialInv

LEMMA NothingDiscoveredKeeps ==
  ASSUME DirectInv, NothingDiscovered
  PROVE  DirectInv'
<1>1. /\ at = "discovering" /\ End("unavailable", saved)
      /\ UNCHANGED measureVars /\ UNCHANGED <<host, wire, net, astray>>
  BY DEF NothingDiscovered
<1>2. MeasureInv'
  BY <1>1, MeasureRests DEF DirectInv
<1>3. host # "ordinary" /\ phase' = "idle"
  BY <1>1 DEF DirectInv, TrialInv, measureVars, cycleVars
<1> QED
  BY <1>1, <1>2, <1>3, EndedKeeps DEF DirectInv

\* A step on the way: what is left to show of each.
LEMMA OnTheWayKeeps ==
  ASSUME DirectInv, MeasureInv', host # "ordinary",
         UNCHANGED <<host, wire, net, interrupted, saved>>, astray' \in BOOLEAN, StrayingIsSeen',
         at' \in {"discovering", "entering", "final", "pausing", "aborting"} \cup Guarded,
         at' \notin {"measuring", "aborting"} => phase' = "idle",
         at' = "measuring" /\ phase' = "idle" => IsReport(report)',
         at' \notin Guarded \cup {"aborting"} => ~relay'
  PROVE  DirectInv'
<1>1. at' # "idle"
  BY DEF Guarded
<1>2. TrialType'
  BY DEF DirectInv, TrialInv, TrialType
<1>3. ObservationIsTrue' /\ LastingChangeIsSeen'
  BY <1>1 DEF DirectInv, TrialInv, ObservationIsTrue, LastingChangeIsSeen
<1> QED
  BY <1>1, <1>2, <1>3 DEF DirectInv, TrialInv

LEMMA EnterKeeps ==
  ASSUME DirectInv, Enter
  PROVE  DirectInv'
<1>1. at = "entering" /\ UNCHANGED measureVars /\ UNCHANGED <<host, wire, net, astray>>
  BY DEF Enter
<1>2. MeasureInv' /\ host # "ordinary" /\ phase' = "idle" /\ phase = "idle" /\ ~astray
  BY <1>1, MeasureRests DEF DirectInv, TrialInv, StrayingIsSeen, measureVars, cycleVars
<1>3. CASE Interrupt
  BY <1>1, <1>2, <1>3, EndedKeeps DEF DirectInv
<1>4. CASE at' = "exits" /\ UNCHANGED <<why, again, interrupted, relay, outcome, saved>>
  <2>1. StrayingIsSeen' /\ astray' \in BOOLEAN
    BY <1>1, <1>2, <1>4 DEF StrayingIsSeen, DirectInv, TrialInv, TrialType
  <2> QED
    BY <1>1, <1>2, <1>4, <2>1, OnTheWayKeeps DEF Guarded
<1> QED
  BY <1>3, <1>4 DEF Enter

LEMMA OpenRelayKeeps ==
  ASSUME DirectInv, OpenRelay
  PROVE  DirectInv'
<1>1. at = "exits" /\ UNCHANGED measureVars /\ UNCHANGED <<host, wire, net, astray>>
  BY DEF OpenRelay
<1>2. MeasureInv' /\ host # "ordinary" /\ phase' = "idle" /\ phase = "idle" /\ ~astray
  BY <1>1, MeasureRests DEF DirectInv, TrialInv, StrayingIsSeen, measureVars, cycleVars
<1>3. CASE End(None, saved)
  BY <1>1, <1>2, <1>3, EndedKeeps DEF DirectInv
<1>4. CASE relay' = TRUE /\ UNCHANGED <<at, why, again, interrupted, outcome, saved>>
  <2>1. StrayingIsSeen' /\ astray' \in BOOLEAN
    BY <1>1, <1>2, <1>4 DEF StrayingIsSeen, DirectInv, TrialInv, TrialType
  <2> QED
    BY <1>1, <1>2, <1>4, <2>1, OnTheWayKeeps DEF Guarded
<1> QED
  BY <1>3, <1>4 DEF OpenRelay

LEMMA LookupExitKeeps ==
  ASSUME DirectInv, LookupExit
  PROVE  DirectInv'
<1>1. /\ at = "exits"
      /\ UNCHANGED <<host, wire, net, why, again, interrupted, relay, astray, outcome, saved>>
  BY DEF LookupExit
<1>2. host # "ordinary" /\ phase = "idle" /\ ~astray /\ ~astray' /\ astray' \in BOOLEAN
  BY <1>1 DEF DirectInv, TrialInv, TrialType, StrayingIsSeen
<1>3. StrayingIsSeen'
  BY <1>2 DEF StrayingIsSeen
<1>4. CASE at' = "measuring" /\ StartCycle
  <2>1. MeasureInv' /\ phase' # "idle"
    BY <1>4, StartCycleKeeps DEF DirectInv, StartCycle
  <2> QED
    BY <1>1, <1>2, <1>3, <1>4, <2>1, OnTheWayKeeps DEF Guarded
<1>5. CASE at' = "closing" /\ UNCHANGED measureVars
  <2>1. MeasureInv' /\ phase' = "idle"
    BY <1>2, <1>5, MeasureRests DEF DirectInv, measureVars, cycleVars
  <2> QED
    BY <1>1, <1>2, <1>3, <1>5, <2>1, OnTheWayKeeps DEF Guarded
<1> QED
  BY <1>4, <1>5 DEF LookupExit

LEMMA MeasureKeeps ==
  ASSUME DirectInv, Measure
  PROVE  DirectInv'
<1>1. /\ at = "measuring" /\ phase # "idle" /\ at' = at
      /\ CycleStep \/ Advance \/ Probing(ScopedOutcomes) \/ DeadlineCut
      /\ astray' = (astray \/ wire # net)
      /\ UNCHANGED <<host, wire, net, interrupted, relay, saved>>
  BY DEF Measure
<1>2. MeasureInv'
  BY <1>1, CycleStepKeeps, AdvanceKeeps, ProbingKeeps, DeadlineCutKeeps DEF DirectInv
<1>3. phase' = "idle" => IsReport(report')
  BY <1>1, CycleEndsInReport DEF DirectInv
<1>4. phase' = "idle" => IsReport(report)'
  BY <1>3 DEF IsReport
<1>5. host # "ordinary" /\ (astray => wire # net) /\ astray' \in BOOLEAN
  BY <1>1 DEF DirectInv, TrialInv, StrayingIsSeen
<1>6. StrayingIsSeen'
  BY <1>1, <1>5 DEF StrayingIsSeen
<1> QED
  BY <1>1, <1>2, <1>4, <1>5, <1>6, OnTheWayKeeps DEF Guarded

\* On Windows the look after the cycle sees what the cycle did not.
LEMMA MeasuredKeeps ==
  ASSUME DirectInv, Measured
  PROVE  DirectInv'
<1>1. /\ at = "measuring" /\ phase = "idle" /\ at' = "closing"
      /\ UNCHANGED <<probeVars, phase, clock, control, compatible, results, confirmed>>
      /\ UNCHANGED <<host, wire, net, interrupted, relay, astray, saved>>
  BY DEF Measured
<1>2. /\ host # "ordinary" /\ IsReport(report) /\ (astray => wire # net)
      /\ astray' \in BOOLEAN /\ phase' = "idle"
  BY <1>1 DEF DirectInv, TrialInv, TrialType, StrayingIsSeen
<1>3. CASE (host = "Windows" => SameNetwork) /\ UNCHANGED report
  <2>1. UNCHANGED measureVars
    BY <1>1, <1>3 DEF measureVars, cycleVars
  <2>2. MeasureInv'
    BY <2>1, MeasureRests DEF DirectInv
  <2>3. StrayingIsSeen'
    BY <1>1, <1>2, <1>3 DEF StrayingIsSeen, SameNetwork
  <2> QED
    BY <1>1, <1>2, <2>2, <2>3, OnTheWayKeeps DEF Guarded
<1>4. CASE report' = Unmeasured(report)
  <2>1. MeasureInv'
    BY <1>1, <1>2, <1>4, UnmeasuredKeeps DEF DirectInv
  <2>2. Said(report', Up \cup Down) = {}
    BY <1>2, <1>4, UnmeasuredFacts
  <2>3. StrayingIsSeen'
    BY <1>1, <1>2, <2>2 DEF StrayingIsSeen, Said
  <2> QED
    BY <1>1, <1>2, <2>1, <2>3, OnTheWayKeeps DEF Guarded
<1> QED
  BY <1>3, <1>4 DEF Measured

LEMMA CloseRelayKeeps ==
  ASSUME DirectInv, CloseRelay
  PROVE  DirectInv'
<1>1. /\ at = "closing" /\ at' = "final" /\ relay' = FALSE /\ UNCHANGED measureVars
      /\ UNCHANGED <<host, wire, net, interrupted, astray, saved>>
  BY DEF CloseRelay
<1>2. MeasureInv' /\ host # "ordinary" /\ phase' = "idle" /\ report' = report
  BY <1>1, MeasureRests DEF DirectInv, TrialInv, measureVars, cycleVars
<1>3. StrayingIsSeen' /\ astray' \in BOOLEAN
  BY <1>1, <1>2 DEF DirectInv, TrialInv, TrialType, StrayingIsSeen, Said
<1> QED
  BY <1>1, <1>2, <1>3, OnTheWayKeeps DEF Guarded

\* On macOS the last look, on Windows the look after the cycle, stands between a
\* cycle that left its network and a verdict.
LEMMA ConcludeKeeps ==
  ASSUME DirectInv, Conclude
  PROVE  DirectInv'
<1>1. at = "final" /\ UNCHANGED <<host, wire, net, astray>>
  BY DEF Conclude
<1>2. /\ host \in {"macOS", "Windows"} /\ phase = "idle" /\ BatchOver
      /\ (astray => wire # net)
      /\ host = "Windows" /\ astray /\ report # None => Said(report, Up \cup Down) = {}
  BY <1>1, QuietFacts DEF DirectInv, TrialInv, TrialType, StrayingIsSeen
<1>3. CASE Interrupt /\ CycleCleared
  <2>1. MeasureInv' /\ phase' = "idle"
    BY <1>2, <1>3, CycleClearedKeeps DEF DirectInv
  <2> QED
    BY <1>1, <1>2, <1>3, <2>1, EndedKeeps DEF DirectInv
<1>4. ASSUME UNCHANGED measureVars, host = "macOS" => SameNetwork,
             IF report = None THEN End("unavailable", saved)
                              ELSE End(Verdict(report), Verdict(report))
      PROVE  DirectInv'
  <2>1. MeasureInv' /\ phase' = "idle" /\ report' = report
    BY <1>2, <1>4, MeasureRests DEF DirectInv, measureVars, cycleVars
  <2>2. CASE report = None
    BY <1>1, <1>2, <1>4, <2>1, <2>2, EndedKeeps DEF DirectInv
  <2>3. CASE report # None
    <3>1. PICK said \in {"available", "partial"} : End(said, said)
      BY <1>4, <2>3, OutcomesApart
    <3>2. at' = "idle" /\ ~relay' /\ ~interrupted' /\ ObservationIsTrue'
      BY <3>1, EndFacts
    <3>3. astray => Said(report, Up \cup Down) = {}
      BY <1>2, <1>4, <2>3 DEF SameNetwork
    <3>4. LastingChangeIsSeen'
      BY <1>1, <2>1, <3>3 DEF LastingChangeIsSeen, Said
    <3> QED
      BY <1>1, <1>2, <2>1, <3>2, <3>4, RestingKeeps DEF DirectInv
  <2> QED
    BY <2>2, <2>3
<1> QED
  BY <1>3, <1>4 DEF Conclude

LEMMA PauseOverKeeps ==
  ASSUME DirectInv, PauseOver
  PROVE  DirectInv'
<1>1. /\ at = "pausing" /\ at' = "discovering" /\ UNCHANGED measureVars
      /\ UNCHANGED <<host, wire, net, interrupted, relay, astray, saved>>
  BY DEF PauseOver
<1>2. MeasureInv' /\ host # "ordinary" /\ phase' = "idle" /\ ~relay'
  BY <1>1, MeasureRests DEF DirectInv, TrialInv, measureVars, cycleVars, Guarded
<1>3. StrayingIsSeen' /\ astray' \in BOOLEAN
  BY <1>1 DEF DirectInv, TrialInv, TrialType, StrayingIsSeen
<1> QED
  BY <1>1, <1>2, <1>3, OnTheWayKeeps DEF Guarded

\* The measurement is cancelled: its tasks go on to stop their processes.
LEMMA AbortKeeps ==
  ASSUME DirectInv, at \in Guarded, NEW reason, Abort(reason), UNCHANGED <<host, wire, net, astray>>
  PROVE  DirectInv'
<1>1. /\ at' = "aborting" /\ UNCHANGED cycleVars /\ UNCHANGED <<xray, listener>>
      /\ task' = [t \in Targets |-> IF task[t].pc \in {"out", "done"} THEN task[t] ELSE CutTask(t)]
      /\ UNCHANGED <<interrupted, saved>>
  BY DEF Abort
<1>2. control' = control
  BY <1>1 DEF cycleVars
<1>3. ProbeInv' /\ Batch' = Batch
  BY <1>1, <1>2, CutKeeps DEF DirectInv, MeasureInv
<1>4. MeasureInv'
  BY <1>1, <1>3, CycleStutters DEF DirectInv, MeasureInv
<1>5. host # "ordinary" /\ (astray => wire # net) /\ astray' \in BOOLEAN
  BY DEF DirectInv, TrialInv, TrialType, StrayingIsSeen, Guarded
<1>6. StrayingIsSeen'
  BY <1>1, <1>5 DEF StrayingIsSeen
<1> QED
  BY <1>1, <1>4, <1>5, <1>6, OnTheWayKeeps

LEMMA CutOffKeeps ==
  ASSUME DirectInv, NEW reason, CutOff(reason)
  PROVE  DirectInv'
<1>1. at # "idle" /\ UNCHANGED <<host, wire, net, astray>>
  BY DEF CutOff
<1>2. host # "ordinary"
  BY <1>1 DEF DirectInv, TrialInv
<1>3. CASE at \in Guarded
  BY <1>1, <1>3, AbortKeeps DEF CutOff, Guarded
<1>4. CASE at = "aborting"
  <2>1. UNCHANGED measureVars /\ UNCHANGED <<at, interrupted, relay, saved>>
    BY <1>4 DEF CutOff, Guarded
  <2>2. MeasureInv'
    BY <2>1, MeasureRests DEF DirectInv
  <2>3. StrayingIsSeen' /\ astray' \in BOOLEAN
    BY <1>1, <1>4, <2>1 DEF DirectInv, TrialInv, TrialType, StrayingIsSeen
  <2> QED
    BY <1>1, <1>2, <1>4, <2>1, <2>2, <2>3, OnTheWayKeeps
<1>5. CASE at \notin Guarded \cup {"aborting"}
  <2>1. CycleCleared /\ (End(None, saved) \/ Vanish)
    BY <1>5 DEF CutOff
  <2>2. MeasureInv' /\ phase' = "idle"
    BY <1>2, <1>5, <2>1, QuietFacts, CycleClearedKeeps DEF DirectInv, Guarded
  <2> QED
    BY <1>1, <1>2, <2>1, <2>2, EndedKeeps DEF DirectInv
<1> QED
  BY <1>3, <1>4, <1>5

LEMMA CleanUpKeeps ==
  ASSUME DirectInv, CleanUp
  PROVE  DirectInv'
<1>1. /\ at = "aborting" /\ UNCHANGED cycleVars /\ UNCHANGED <<host, wire>> /\ UNCHANGED trialVars
      /\ \E t \in Batch : Cleanup(t)
  BY DEF CleanUp
<1>2. control' = control /\ UNCHANGED <<net, at, interrupted, relay, astray, saved>>
  BY <1>1 DEF cycleVars, trialVars
<1>3. MeasureInv'
  BY <1>1, <1>2, CleanupKeeps, CycleStutters DEF DirectInv, MeasureInv
<1>4. /\ host # "ordinary" /\ astray' \in BOOLEAN
  BY <1>1, <1>2 DEF DirectInv, TrialInv, TrialType
<1>5. StrayingIsSeen'
  BY <1>1, <1>2 DEF DirectInv, TrialInv, StrayingIsSeen
<1> QED
  BY <1>1, <1>2, <1>3, <1>4, <1>5, OnTheWayKeeps

LEMMA JoinedKeeps ==
  ASSUME DirectInv, Joined
  PROVE  DirectInv'
<1>1. /\ at = "aborting" /\ BatchOver /\ CycleCleared /\ UNCHANGED <<host, wire, net, astray>>
      /\ Interrupt \/ End(None, saved) \/ Vanish
  BY DEF Joined, TasksJoined
<1>2. MeasureInv' /\ phase' = "idle" /\ host # "ordinary"
  BY <1>1, CycleClearedKeeps DEF DirectInv, TrialInv
<1> QED
  BY <1>1, <1>2, EndedKeeps DEF DirectInv

\* A cycle that went astray has come back when its network has.
LEMMA NetworkChangesKeeps ==
  ASSUME DirectInv, NetworkChanges
  PROVE  DirectInv'
<1>1. /\ at # "idle" /\ UNCHANGED measureVars
      /\ UNCHANGED <<host, net, at, interrupted, relay, outcome, saved>>
      /\ wire' \in Networks /\ astray' = (astray /\ wire' # net)
  BY DEF NetworkChanges
<1>2. phase' = phase /\ report' = report
  BY <1>1 DEF measureVars, cycleVars
<1>3. MeasureInv'
  BY <1>1, MeasureRests DEF DirectInv
<1>4. astray \in BOOLEAN
  BY DEF DirectInv, TrialInv, TrialType
<1>5. TrialType'
  BY <1>1, <1>4 DEF DirectInv, TrialInv, TrialType
<1>6. StrayingIsSeen'
  BY <1>1, <1>2, <1>4 DEF DirectInv, TrialInv, StrayingIsSeen, Said
<1>7. ObservationIsTrue' /\ LastingChangeIsSeen'
  BY <1>1 DEF DirectInv, TrialInv, ObservationIsTrue, LastingChangeIsSeen
<1> QED
  BY <1>1, <1>2, <1>3, <1>5, <1>6, <1>7 DEF DirectInv, TrialInv, IsReport

\* A step of the measurement or of its surroundings that no trial takes.
LEMMA OutsideKeeps ==
  ASSUME DirectInv, MeasureInv', UNCHANGED <<host, wire>>, UNCHANGED trialVars,
         host = "ordinary" \/ UNCHANGED <<phase, report>>
  PROVE  DirectInv'
<1>1. UNCHANGED <<net, at, interrupted, relay, astray, outcome, saved>>
  BY DEF trialVars
<1>2. host = "ordinary" => at = "idle" /\ outcome = None
  BY DEF DirectInv, TrialInv
<1>3. TrialType'
  BY <1>1 DEF DirectInv, TrialInv, TrialType
<1>4. StrayingIsSeen'
  BY <1>1, <1>2 DEF DirectInv, TrialInv, StrayingIsSeen, Said
<1>5. ObservationIsTrue'
  BY <1>1 DEF DirectInv, TrialInv, ObservationIsTrue
<1>6. LastingChangeIsSeen'
  BY <1>1, <1>2, OutcomesApart DEF DirectInv, TrialInv, LastingChangeIsSeen, Said
<1> QED
  BY <1>1, <1>2, <1>3, <1>4, <1>5, <1>6 DEF DirectInv, TrialInv, IsReport

-----------------------------------------------------------------------------
(* The inductive invariant.                                                *)

LEMMA InitHolds == DirectInit => DirectInv
<1> SUFFICES ASSUME DirectInit PROVE DirectInv
  OBVIOUS
<1>1. /\ task = [t \in Targets |-> Out] /\ xray = [t \in Targets |-> NoXray]
      /\ listener = [p \in Ports |-> None]
      /\ phase = "idle" /\ control = FALSE /\ compatible = TRUE /\ results = Empty
      /\ report = None /\ confirmed = [t \in Targets |-> 0]
  BY DEF DirectInit, MeasureInit, ProbeInit
<1>2. Out \in TaskRecords /\ Out.pc = "out" /\ Out.result = None /\ Out.own = TRUE
  BY DEF Out, TaskRecords
<1>3. NoXray \in XrayRecords /\ NoXray.alive = FALSE
  BY DEF NoXray, XrayRecords
<1>4. ProbeInv
  <2>1. ProbeType
    BY <1>1, <1>2, <1>3 DEF ProbeType
  <2>2. ASSUME NEW t \in Targets
        PROVE  Fine(t, task[t], xray[t], listener, control)
    BY <1>1, <1>2, <1>3 DEF Fine
  <2> QED
    BY <2>1, <2>2 DEF ProbeInv
<1>5. Batch = {}
  BY <1>1, <1>2 DEF Batch
<1>6. DOMAIN results = {} /\ 0 \in 0 .. 5
  BY <1>1 DEF Empty
<1>7. CycleInv
  BY <1>1, <1>5, <1>6 DEF CycleInv, CycleType, Confirmation, Judged, ReportInv, BlameIsLocal,
     Phases, Before, Again
<1>8. TrialInv
  <2>1. /\ host \in {"ordinary", "macOS", "Windows"} /\ wire \in Networks /\ net = None
        /\ at = "idle"
        /\ interrupted = FALSE /\ relay = FALSE /\ astray = FALSE /\ outcome = None
    BY DEF DirectInit
  <2>2. TrialType
    BY <2>1 DEF TrialType
  <2>3. StrayingIsSeen
    BY <2>1 DEF StrayingIsSeen
  <2>4. ObservationIsTrue /\ LastingChangeIsSeen
    BY <2>1, OutcomesApart DEF ObservationIsTrue, LastingChangeIsSeen
  <2> QED
    BY <1>1, <2>1, <2>2, <2>3, <2>4 DEF TrialInv
<1> QED
  BY <1>4, <1>7, <1>8 DEF DirectInv, MeasureInv

LEMMA NextKeeps == DirectInv /\ [DirectNext]_directVars => DirectInv'
<1> SUFFICES ASSUME DirectInv, [DirectNext]_directVars PROVE DirectInv'
  OBVIOUS
<1>1. CASE OrdinaryCycle
  <2>1. MeasureInv'
    BY <1>1, MeasureNextKeeps DEF OrdinaryCycle, DirectInv
  <2> QED
    BY <1>1, <2>1, OutsideKeeps DEF OrdinaryCycle
<1>2. CASE RunTrial
  BY <1>2, BeginTrialKeeps, DiscoverKeeps, NothingDiscoveredKeeps, EnterKeeps, OpenRelayKeeps,
     LookupExitKeeps, MeasureKeeps, MeasuredKeeps, CloseRelayKeeps, ConcludeKeeps, PauseOverKeeps,
     CutOffKeeps, CleanUpKeeps, JoinedKeeps, AbortKeeps
  DEF RunTrial, WatchFails
<1>3. CASE NetworkChanges
  BY <1>3, NetworkChangesKeeps
<1>4. CASE Around /\ UNCHANGED <<host, wire, trialVars>>
  <2>1. MeasureInv' /\ UNCHANGED <<phase, report>>
    BY <1>4, AroundKeeps DEF DirectInv, Around, cycleVars
  <2> QED
    BY <1>4, <2>1, OutsideKeeps
<1>5. CASE UNCHANGED directVars
  <2>1. UNCHANGED measureVars /\ UNCHANGED <<host, wire>> /\ UNCHANGED trialVars
    BY <1>5 DEF directVars
  <2>2. MeasureInv' /\ UNCHANGED <<phase, report>>
    BY <2>1, MeasureRests DEF DirectInv, measureVars, cycleVars
  <2> QED
    BY <2>1, <2>2, OutsideKeeps
<1> QED
  BY <1>1, <1>2, <1>3, <1>4, <1>5 DEF DirectNext

\* The inductive invariant holds, with the type invariant that is part of it.
THEOREM DirectInvHolds == DirectSpec => []DirectInv
  BY InitHolds, NextKeeps, PTL DEF DirectSpec

-----------------------------------------------------------------------------
(* What it implies.                                                        *)

\* EvidenceIsOwn, for every number of targets, ports and canaries: no verdict
\* on a VPN target rests on an answer of another program.
THEOREM VerdictsRestOnOwnXray == DirectSpec => []EvidenceIsOwn
<1>1. DirectInv => EvidenceIsOwn
  <2> SUFFICES ASSUME DirectInv, NEW t \in Vpn, task[t].result \in {"E2E", "VLESS_E2E"}
               PROVE  task[t].own
    BY DEF EvidenceIsOwn
  <2>1. t \in Targets
    BY DEF Targets
  <2>2. Fine(t, task[t], xray[t], listener, control)
    BY <2>1 DEF DirectInv, MeasureInv, ProbeInv
  <2>3. task[t].pc = "done"
    BY <2>2, NoneIsNoStage DEF Fine, Stages, Up, Down
  <2> QED
    BY <2>2, <2>3 DEF Fine, OwnIsLost, Asking
<1> QED
  BY <1>1, DirectInvHolds, PTL

\* DownIsConfirmed: a DOWN that is reported has failed twice, with a good
\* control before, between and after.
THEOREM ADownWasConfirmed == DirectSpec => []DownIsConfirmed
<1>1. DirectInv => DownIsConfirmed
  BY DEF DirectInv, MeasureInv, CycleInv, ReportInv, DownIsConfirmed
<1> QED
  BY <1>1, DirectInvHolds, PTL

\* BlameIsLocal: what is wrong at home is never reported of a server.
THEOREM NobodyElseIsBlamed == DirectSpec => []BlameIsLocal
<1>1. DirectInv => BlameIsLocal
  BY DEF DirectInv, MeasureInv, CycleInv
<1> QED
  BY <1>1, DirectInvHolds, PTL

\* LastingChangeIsSeen: a network that is left during a measurement and is away when
\* it ends leaves no verdict of run_trial.
THEOREM LastingChangesAreSeen == DirectSpec => []LastingChangeIsSeen
<1>1. DirectInv => LastingChangeIsSeen
  BY DEF DirectInv, TrialInv
<1> QED
  BY <1>1, DirectInvHolds, PTL

\* ObservationIsTrue: last-observation.json says what run_trial said last.
THEOREM TheObservationIsTheResult == DirectSpec => []ObservationIsTrue
<1>1. DirectInv => ObservationIsTrue
  BY DEF DirectInv, TrialInv
<1> QED
  BY <1>1, DirectInvHolds, PTL

\* NothingLeftBehind: an attempt that is over leaves neither relay nor Xray.
THEOREM AnAttemptCleansUp == DirectSpec => []NothingLeftBehind
<1>1. DirectInv => NothingLeftBehind
  <2> SUFFICES ASSUME DirectInv, host # "ordinary", at \notin Guarded \cup {"aborting"}
               PROVE  ~relay /\ \A t \in Targets : xray[t] = NoXray
    BY DEF NothingLeftBehind
  <2>1. ~relay
    BY DEF DirectInv, TrialInv
  <2>2. BatchOver
    BY QuietFacts DEF Guarded
  <2> QED
    BY <2>1, <2>2, OverIsEmpty DEF DirectInv, MeasureInv
<1> QED
  BY <1>1, DirectInvHolds, PTL

=============================================================================
