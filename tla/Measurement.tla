---------------------------- MODULE Measurement ----------------------------
(***************************************************************************)
(* One measurement cycle: measure_cycle (measurement.py) with the second   *)
(* look of confirm_failures (recheck.py), over the batches of ProbeBatch.  *)
(*                                                                         *)
(* clock is what is left of the run deadline: "ample" (more than the delay *)
(* before the second look), "short", or "over".  Cycles follow each other  *)
(* without a bound; a finished report is read before the next one starts.  *)
(* The snapshot is the list of targets of this cycle: what state.py keeps  *)
(* of it between cycles only words the report.                             *)
(***************************************************************************)
EXTENDS ProbeBatch

\* "No value" is no reason of a report.
ASSUME ReasonAssumption ==
  None \notin {"deadline", "probe-incomplete", "agent-network", "no-valid-snapshot", "xray-version"}

VARIABLES
  phase,     \* the await that measure_cycle stands at
  clock,     \* what is left of the deadline
  control,   \* the last answer of the control canaries
  compatible,\* xray_info.compatible
  results,   \* the stage of every target of the snapshot
  report,    \* the last AgentReport, or None
  confirmed  \* history: how far each target is on the way to a confirmed failure

cycleVars == <<phase, clock, control, compatible, results, report, confirmed>>
measureVars == <<probeVars, cycleVars>>

Empty == [t \in {} |-> None]

MeasureInit ==
  /\ ProbeInit
  /\ phase = "idle"
  /\ clock = "over"
  /\ control = FALSE
  /\ compatible = TRUE
  /\ results = Empty
  /\ report = None
  /\ confirmed = [t \in Targets |-> 0]

\* The way to a confirmed failure: control, failure, control, failure, control.
ControlSeen(ok) ==
  confirmed' = [t \in Targets |-> IF ok /\ confirmed[t] \in {0, 2, 4} THEN confirmed[t] + 1
                                                                     ELSE confirmed[t]]

FailuresSeen(rs) ==
  confirmed' = [t \in Targets |-> IF t \in DOMAIN rs /\ rs[t] \in Down /\ confirmed[t] \in {1, 3}
                                  THEN confirmed[t] + 1 ELSE confirmed[t]]

-----------------------------------------------------------------------------

StartCycle ==
  /\ phase = "idle"
  /\ phase' = "control"
  /\ clock' \in {"ample", "short"}
  /\ confirmed' = [t \in Targets |-> 0]
  /\ compatible' = TRUE /\ control' = FALSE /\ report' = None
  /\ UNCHANGED <<probeVars, results>>

Advance ==
  /\ phase # "idle"
  /\ \/ clock = "ample" /\ clock' = "short"
     \/ clock = "short" /\ clock' = "over"
  /\ UNCHANGED <<probeVars, phase, control, compatible, results, report, confirmed>>

\* check_control: one canary that answers as expected is enough.
ControlAnswers == IF clock = "over" THEN {FALSE} ELSE BOOLEAN

\* _run_control: no answer in time, an exception and a wrong answer are alike.
RunControl(ok, next) ==
  /\ ok \in ControlAnswers
  /\ control' = ok
  /\ ControlSeen(ok)
  /\ phase' = next
  /\ UNCHANGED <<probeVars, clock, compatible, report>>

FirstControl ==
  /\ phase = "control"
  /\ \E ok \in BOOLEAN : RunControl(ok, "refreshing")
  /\ UNCHANGED results

\* _unknown_results
UnknownResults(ts, stage) ==
  [t \in ts |-> IF t \in Sni /\ stage = "XRAY" THEN "POLICY" ELSE stage]

\* Neither fetched, parsed nor stored: no results.
RefreshFails ==
  /\ phase = "refreshing"
  /\ phase' = "unavailable"
  /\ UNCHANGED <<probeVars, clock, control, compatible, results, report, confirmed>>

\* What parse_xray_subscription accepts: a VPN target at least, and domains,
\* which come with the targets that name them.
Fetched == {ts \in SUBSET Targets : ts \cap Vpn # {}}

\* SnapshotStore.consider: every valid list is the snapshot at once.
Refresh ==
  /\ phase = "refreshing"
  /\ clock # "over"
  /\ \E targets \in Fetched : results' = UnknownResults(targets, "XRAY")
  /\ phase' = "version"
  /\ UNCHANGED <<probeVars, clock, control, compatible, report, confirmed>>

\* rs, with the entries of new in place of its own.
Replaced(rs, new) == [t \in DOMAIN rs |-> IF t \in DOMAIN new THEN new[t] ELSE rs[t]]

\* _run_probes on the targets ts of base: a batch, or nothing but unknown
\* results without time left or when the prober itself fails.
RunProbes(ts, base, running, next) ==
  \/ /\ clock # "over"
     /\ task' = Batched(ts)
     /\ results' = base
     /\ phase' = running
  \/ /\ results' = Replaced(base, UnknownResults(ts, IF clock = "over" THEN "DEADLINE" ELSE "XRAY"))
     /\ phase' = next
     /\ UNCHANGED task

\* query_xray_version, which is only asked with a working network.
VersionAnswers == IF control THEN BOOLEAN ELSE {TRUE}

\* With the wrong Xray only the domains are probed.
VersionChecked ==
  /\ phase = "version"
  /\ compatible' \in VersionAnswers
  /\ RunProbes(DOMAIN results \ (IF compatible' THEN {} ELSE Vpn), results, "first", "judging")
  /\ UNCHANGED <<xray, listener, clock, control, report, confirmed>>

BatchResults == [t \in Batch |-> Settled(t)]

BatchDone(running, next) ==
  /\ phase = running
  /\ BatchOver
  /\ results' = Replaced(results, BatchResults)
  /\ FailuresSeen(BatchResults)
  /\ task' = Batched({})
  /\ phase' = next
  /\ UNCHANGED <<xray, listener, clock, control, compatible, report>>

FirstDone == BatchDone("first", "judging")

SecondDone == BatchDone("second", "rejudging")

-----------------------------------------------------------------------------
(* confirm_failures.                                                       *)

Failing == {t \in DOMAIN results : results[t] \in Down}

\* Mutant: without time for a second look the first one counts.
StaysDown(stage) == IF stage = "DEADLINE" THEN results ELSE Replaced(results, [t \in Failing |-> stage])

\* _uncertain, for every failure not confirmed.
Uncertain(stage) == Replaced(results, [t \in Failing |-> stage])

Settle(stage) == results' = Uncertain(stage) /\ phase' = "reporting"

Keep == UNCHANGED results /\ phase' = "reporting"

Unprobed == UNCHANGED <<probeVars, clock, control, compatible, report, confirmed>>

Judge ==
  /\ phase = "judging"
  /\ CASE Failing = {} -> Keep
       [] Failing # {} /\ ~control -> Settle("AGENT_NETWORK")
       [] Failing # {} /\ control /\ clock = "ample" -> phase' = "delaying" /\ UNCHANGED results
       [] OTHER -> Settle("DEADLINE")
  /\ Unprobed

DelayOver ==
  /\ phase = "delaying"
  /\ IF clock = "over" THEN Settle("DEADLINE") ELSE phase' = "recontrol" /\ UNCHANGED results
  /\ Unprobed

\* The control between the two looks, and after the second one.
ControlAgain(at, next) ==
  /\ phase = at
  /\ \/ RunControl(TRUE, next) /\ UNCHANGED results
     \/ RunControl(FALSE, "reporting") /\ results' = Uncertain("AGENT_NETWORK")

Recontrol == ControlAgain("recontrol", "reprobing")

LastControl == ControlAgain("lastcontrol", "reporting")

Reprobe ==
  /\ phase = "reprobing"
  /\ \/ clock = "over" /\ Settle("DEADLINE") /\ UNCHANGED task
     \/ clock # "over" /\ RunProbes(Failing, results, "second", "rejudging")
  /\ UNCHANGED <<xray, listener, clock, control, compatible, report, confirmed>>

Rejudge ==
  /\ phase = "rejudging"
  /\ CASE Failing = {} -> Keep
       [] Failing # {} /\ clock = "over" -> Settle("DEADLINE")
       [] OTHER -> phase' = "lastcontrol" /\ UNCHANGED results
  /\ Unprobed

-----------------------------------------------------------------------------
(* The report.                                                             *)

StagesOf(rs) == {rs[t] : t \in DOMAIN rs}

\* Mutant: only the deadline makes a report incomplete.
DeadlineOnly(rs) == IF "DEADLINE" \in StagesOf(rs) THEN "deadline" ELSE None

\* _reconcile_run_status
Incomplete(rs) ==
  CASE "DEADLINE" \in StagesOf(rs) -> "deadline"
    [] "DEADLINE" \notin StagesOf(rs) /\ "XRAY" \in StagesOf(rs) -> "probe-incomplete"
    [] StagesOf(rs) \cap {"DEADLINE", "XRAY"} = {} /\ "AGENT_NETWORK" \in StagesOf(rs) -> "agent-network"
    [] OTHER -> None

RunReason ==
  CASE phase = "unavailable" -> "no-valid-snapshot"
    [] phase # "unavailable" /\ ~control -> "agent-network"
    [] phase # "unavailable" /\ control /\ ~compatible -> "xray-version"
    [] OTHER -> Incomplete(results)

Report ==
  /\ phase \in {"unavailable", "reporting"}
  /\ report' = [results |-> results, reason |-> RunReason, control |-> control,
                fresh |-> phase = "reporting"]
  /\ phase' = "idle"
  /\ results' = Empty
  /\ UNCHANGED <<probeVars, clock, control, compatible, confirmed>>

-----------------------------------------------------------------------------

Probing(Outcomes) ==
  /\ \E t \in Batch : ProbeStep(t, control, Outcomes)
  /\ UNCHANGED cycleVars

\* The wait of probe_all times out.
DeadlineCut == clock = "over" /\ Cut /\ UNCHANGED cycleVars

Around == Surroundings /\ UNCHANGED cycleVars

Confirming == Judge \/ DelayOver \/ Recontrol \/ Reprobe \/ SecondDone \/ Rejudge \/ LastControl

\* The steps of measure_cycle itself.
CycleStep ==
  \/ FirstControl \/ RefreshFails \/ Refresh \/ VersionChecked \/ FirstDone
  \/ Confirming \/ Report

MeasureNext ==
  \/ StartCycle \/ CycleStep \/ Advance
  \/ Probing(PlainOutcomes) \/ DeadlineCut \/ Around

MeasureSpec == MeasureInit /\ [][MeasureNext]_measureVars

-----------------------------------------------------------------------------
(* Properties.                                                             *)

Said(r, statuses) == {t \in DOMAIN r.results : r.results[t] \in statuses}

\* A target is reported DOWN only after it failed twice, with a good control
\* before, between and after: neither the deadline nor a failing network
\* leaves a first failure standing.
DownIsConfirmed ==
  report # None /\ phase = "idle" => \A t \in Said(report, Down) : confirmed[t] = 5

\* A report never blames a server for what is wrong at home: when its reason
\* is the agent's own network no target is DOWN, when it is Xray no VPN target
\* is judged at all, and without a reason every check came to its end.
BlameIsLocal ==
  report # None =>
    /\ report.reason \in {"agent-network", "no-valid-snapshot"} => Said(report, Down) = {}
    /\ report.reason = "xray-version" => Said(report, Up \cup Down) \cap Vpn = {}
    /\ report.reason = None =>
         /\ report.control /\ report.fresh
         /\ Said(report, {"DEADLINE", "XRAY", "AGENT_NETWORK"}) = {}

=============================================================================
