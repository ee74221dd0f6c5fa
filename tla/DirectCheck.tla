----------------------------- MODULE DirectCheck -----------------------------
(***************************************************************************)
(* Who runs a measurement cycle: the collector's agent and the standalone  *)
(* service on the "ordinary" route, or run_trial (direct_check.py) with    *)
(* sockets bound to the one physical connection: on "macOS" under          *)
(* guard_network (direct_guard.py), on "Windows" with a look at the        *)
(* connection after the cycle.                                             *)
(*                                                                         *)
(* A network is what the adapter, its addresses and its DNS servers show   *)
(* of a connection.  One that was left may come back at any moment, also   *)
(* between two looks at it.                                                *)
(***************************************************************************)
EXTENDS Measurement

CONSTANTS
  Networks,     \* what the physical connection can be
  MaxTrialVpn   \* bound of the model on the VPN targets of a trial

ASSUME DirectAssumption ==
  /\ None \notin Networks /\ MaxTrialVpn \in Nat \ {0}
  /\ None \notin {"available", "partial", "interrupted", "direct-interface-changed"}

VARIABLES
  host,         \* who runs the cycles
  wire,         \* the physical connection as it is
  net,          \* the connection that the attempt discovered
  at,           \* the await that run_trial stands at
  why,          \* what aborts the attempt
  again,        \* this is the second attempt
  interrupted,  \* an attempt met NetworkInterrupted
  relay,        \* the attempt's DirectRelay is open
  astray,       \* history: the cycle took a step on another network than net,
                \* and net has not come back since
  outcome,      \* what the last TrialResult says
  saved         \* what last-observation.json says; "earlier": nothing of this trial

trialVars == <<net, at, why, again, interrupted, relay, astray, outcome, saved>>
directVars == <<measureVars, host, wire, trialVars>>

\* The tasks of guard_network run; macOS looks at the connection meanwhile.
Guarded == {"exits", "measuring", "closing"}

DirectInit ==
  /\ MeasureInit
  /\ host \in {"ordinary", "macOS", "Windows"}
  /\ wire \in Networks /\ net = None
  /\ at = "idle" /\ why = None
  /\ again = FALSE /\ interrupted = FALSE /\ relay = FALSE /\ astray = FALSE
  /\ outcome = None
  /\ saved = "earlier"

\* trial_completed
Completed(r) ==
  /\ r.reason = None /\ r.control /\ r.fresh
  /\ StagesOf(r.results) \cap Unknown = {}

Verdict(r) == IF Completed(r) THEN "available" ELSE "partial"

\* Mutant: a look at the interface's name, which another Wi-Fi has too.
SameName == TRUE

\* validate_snapshot and _validate_interface: what was discovered is there.
SameNetwork == wire = net

-----------------------------------------------------------------------------
(* The ends of an attempt and of run_trial.                                *)

\* Mutant: what the second attempt observed stays, whatever is said.
KeepsAttempt(said, observed) == observed

\* After an interruption only a completed second attempt counts.
Kept(said, observed) ==
  IF interrupted /\ said # "available" THEN "interrupted" ELSE observed

\* run_trial ends, with said (None when it raises) and the file observed.
End(said, observed) ==
  /\ at' = "idle"
  /\ outcome' = IF interrupted /\ said # "available" THEN "interrupted" ELSE said
  /\ saved' = Kept(said, observed)
  /\ why' = None /\ again' = FALSE /\ interrupted' = FALSE /\ relay' = FALSE

\* The attempt met NetworkInterrupted: one more, or the end of the loop.
Interrupt ==
  /\ saved' = "interrupted"
  /\ why' = None /\ relay' = FALSE
  /\ IF again
     THEN /\ at' = "idle" /\ outcome' = "interrupted"
          /\ again' = FALSE /\ interrupted' = FALSE
     ELSE at' = "pausing" /\ interrupted' = TRUE /\ UNCHANGED <<again, outcome>>

\* CancelledError passes through without a word.
Vanish ==
  /\ at' = "idle" /\ outcome' = None
  /\ why' = None /\ again' = FALSE /\ interrupted' = FALSE /\ relay' = FALSE
  /\ UNCHANGED saved

\* No task and no report of a cycle is left.
CycleCleared ==
  /\ task' = Batched({})
  /\ phase' = "idle" /\ clock' = "over" /\ results' = Empty /\ report' = None
  /\ confirmed' = [t \in Targets |-> 0]
  /\ UNCHANGED <<xray, listener, control, compatible>>

-----------------------------------------------------------------------------
(* _run_trial and guard_network.                                           *)

BeginTrial ==
  /\ host # "ordinary" /\ at = "idle"
  /\ at' = "discovering"
  /\ net' = None
  /\ outcome' = None /\ saved' = "earlier"
  /\ CycleCleared
  /\ UNCHANGED <<host, wire, why, again, interrupted, relay, astray>>

Discover ==
  /\ at = "discovering"
  /\ net' = wire
  /\ at' = IF host = "macOS" THEN "entering" ELSE "exits"
  /\ astray' = FALSE
  /\ UNCHANGED <<measureVars, host, wire, why, again, interrupted, relay, outcome, saved>>

\* No physical connection, or more than one: a result without a report.
NothingDiscovered ==
  /\ at = "discovering"
  /\ End("unavailable", saved)
  /\ UNCHANGED <<measureVars, host, wire, net, astray>>

\* The look before the measurement; a look can also fail by itself.
Enter ==
  /\ at = "entering"
  /\ \/ /\ SameNetwork
        /\ at' = "exits"
        /\ UNCHANGED <<why, again, interrupted, relay, outcome, saved>>
     \/ Interrupt
  /\ UNCHANGED <<measureVars, host, wire, net, astray>>

\* DirectRelay.__aenter__, or any error outside the measurement.
OpenRelay ==
  /\ at = "exits" /\ ~relay
  /\ \/ relay' = TRUE /\ UNCHANGED <<at, why, again, interrupted, outcome, saved>>
     \/ End(None, saved)
  /\ UNCHANGED <<measureVars, host, wire, net, astray>>

\* lookup_exit through the relay: without an exit nothing is measured.
LookupExit ==
  /\ at = "exits" /\ relay
  /\ \/ at' = "measuring" /\ StartCycle
     \/ at' = "closing" /\ UNCHANGED measureVars
  /\ UNCHANGED <<host, wire, net, why, again, interrupted, relay, astray, outcome, saved>>

\* measure_cycle with the scoped transports.  They compare the connection
\* when a socket connects: an answer can still come from the next one.
Measure ==
  /\ at = "measuring" /\ phase # "idle"
  /\ CycleStep \/ Advance \/ Probing(ScopedOutcomes) \/ DeadlineCut
  /\ Cardinality(DOMAIN results' \cap Vpn) <= MaxTrialVpn
  /\ astray' = (astray \/ wire # net)
  /\ UNCHANGED <<host, wire, net, at, why, again, interrupted, relay, outcome, saved>>

Unmeasured(r) ==
  [r EXCEPT !.results = [t \in DOMAIN r.results |-> "POLICY"],
            !.reason = "direct-interface-changed"]

\* validate_after.
Measured ==
  /\ at = "measuring" /\ phase = "idle"
  /\ \/ (host = "Windows" => SameNetwork) /\ UNCHANGED report
     \/ host = "Windows" /\ report' = Unmeasured(report)
  /\ at' = "closing"
  /\ UNCHANGED <<probeVars, phase, clock, control, compatible, results, confirmed>>
  /\ UNCHANGED <<host, wire, net, why, again, interrupted, relay, astray, outcome, saved>>

\* DirectRelay.__aexit__
CloseRelay ==
  /\ at = "closing"
  /\ relay' = FALSE
  /\ at' = "final"
  /\ UNCHANGED <<measureVars, host, wire, net, why, again, interrupted, astray, outcome, saved>>

\* The last look of guard_network, save_last_observation and the TrialResult.
Conclude ==
  /\ at = "final"
  /\ \/ /\ host = "macOS" => SameNetwork
        /\ IF report = None THEN End("unavailable", saved)
                            ELSE End(Verdict(report), Verdict(report))
        /\ UNCHANGED measureVars
     \/ host = "macOS" /\ Interrupt /\ CycleCleared
  /\ UNCHANGED <<host, wire, net, astray>>

\* The delay before the second attempt.
PauseOver ==
  /\ at = "pausing"
  /\ at' = "discovering" /\ again' = TRUE
  /\ UNCHANGED <<measureVars, host, wire, net, why, interrupted, relay, astray, outcome, saved>>

-----------------------------------------------------------------------------
(* What cuts an attempt off.                                               *)

\* The measurement is cancelled, and joined before anything else happens.
Abort(reason) ==
  /\ at' = "aborting" /\ why' = reason
  /\ task' = [t \in Targets |-> IF task[t].pc \in {"out", "done"} THEN task[t] ELSE CutTask(t)]
  /\ UNCHANGED <<xray, listener, cycleVars, again, interrupted, relay, outcome, saved>>

\* The watching task of guard_network.
WatchFails ==
  /\ host = "macOS" /\ at \in Guarded
  /\ Abort("network")
  /\ UNCHANGED <<host, wire, net, astray>>

\* The budget that both attempts share is over, or the caller is cancelled.
\* While an attempt is joined either takes the place of the interruption.
CutOff(reason) ==
  /\ at # "idle"
  /\ CASE at \in Guarded -> Abort(reason)
       [] at = "aborting" ->
            /\ why' = reason
            /\ UNCHANGED <<measureVars, at, again, interrupted, relay, outcome, saved>>
       [] OTHER -> /\ IF reason = "budget" THEN End(None, saved) ELSE Vanish
                   /\ CycleCleared
  /\ UNCHANGED <<host, wire, net, astray>>

CleanUp ==
  /\ at = "aborting"
  /\ \E t \in Batch : Cleanup(t)
  /\ UNCHANGED <<cycleVars, host, wire, trialVars>>

\* Mutant: the tasks of an interrupted measurement are not waited for.
Disowned == TRUE

\* join_owned_tasks: no task of the batch runs.
TasksJoined == BatchOver

Joined ==
  /\ at = "aborting" /\ TasksJoined
  /\ CASE why = "network" -> Interrupt
       [] why = "budget" -> End(None, saved)
       [] OTHER -> Vanish
  /\ CycleCleared
  /\ UNCHANGED <<host, wire, net, astray>>

\* Another Wi-Fi, another cable, other DNS servers, or those of before again.
NetworkChanges ==
  /\ at # "idle"
  /\ \E other \in Networks \ {wire} : wire' = other /\ astray' = (astray /\ other # net)
  /\ UNCHANGED <<measureVars, host, net, at, why, again, interrupted, relay, outcome, saved>>

-----------------------------------------------------------------------------

OrdinaryCycle == host = "ordinary" /\ MeasureNext /\ UNCHANGED <<host, wire, trialVars>>

RunTrial ==
  \/ BeginTrial \/ Discover \/ NothingDiscovered \/ Enter \/ OpenRelay \/ LookupExit
  \/ Measure \/ Measured \/ CloseRelay \/ Conclude \/ PauseOver
  \/ WatchFails \/ CutOff("budget") \/ CutOff("cancelled") \/ CleanUp \/ Joined

DirectNext ==
  \/ OrdinaryCycle
  \/ RunTrial
  \/ NetworkChanges
  \/ host # "ordinary" /\ Around /\ UNCHANGED <<host, wire, trialVars>>

DirectSpec == DirectInit /\ [][DirectNext]_directVars

-----------------------------------------------------------------------------
(* Properties.                                                             *)

\* A network that is left during a measurement and stays away is always noticed: at
\* whatever step it goes, also where no bound socket sees it, run_trial measures again
\* or says nothing of any server.  Of what was measured on another network, a verdict
\* holds at most what an excursion added that was over before the last look.
LastingChangeIsSeen ==
  at = "idle" /\ outcome \in {"available", "partial"} /\ astray =>
    Said(report, Up \cup Down) = {}

\* last-observation.json says what run_trial says last, whichever attempt
\* measured it, and never an old success once an attempt was interrupted.
ObservationIsTrue ==
  /\ at = "idle" /\ outcome \in {"interrupted", "available", "partial"} => saved = outcome
  /\ interrupted => saved = "interrupted"

\* When an attempt is over, whatever cut it off, so are its relay and its Xray
\* processes: the second attempt and the next trial start with nothing running.
NothingLeftBehind ==
  host # "ordinary" /\ at \notin Guarded \cup {"aborting"} =>
    ~relay /\ \A t \in Targets : xray[t] = NoXray

=============================================================================
