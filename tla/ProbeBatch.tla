----------------------------- MODULE ProbeBatch -----------------------------
(***************************************************************************)
(* One batch of probe_all (probe.py): a task per target behind a           *)
(* semaphore, and for every address of a VPN target an Xray process of its *)
(* own, reached through a loopback port that was free a moment before.     *)
(*                                                                         *)
(* What a remote peer does is the parameter outcome of a step.             *)
(***************************************************************************)
EXTENDS Integers, FiniteSets

CONSTANTS
  Vpn,             \* targets checked end to end through Xray
  Sni,             \* targets checked by a TLS handshake
  Ports,           \* loopback ports
  Foreign,         \* a program of somebody else
  None,            \* no value
  MaxConcurrency,  \* LC_MAX_CONCURRENCY
  MaxAddresses,    \* bound of the model on the addresses of a target
  MaxCanaries      \* canaries per tunnel

ASSUME ProbeAssumption ==
  /\ Vpn \cap Sni = {}
  /\ {Foreign, None} \cap (Vpn \cup Sni) = {} /\ Foreign # None /\ None \notin Ports
  /\ {MaxConcurrency, MaxAddresses, MaxCanaries} \subseteq Nat \ {0}

VARIABLES
  task,     \* where each target's probe stands
  xray,     \* each target's Xray process and its port
  listener  \* who listens on each port

probeVars == <<task, xray, listener>>

Targets == Vpn \cup Sni

\* _STATUS_BY_STAGE
Up == {"E2E", "TLS"}
Down == {"TLS_HANDSHAKE", "DNS", "TCP", "VLESS_E2E"}
Unknown == {"AGENT_NETWORK", "XRAY", "DEADLINE", "POLICY"}
Stages == Up \cup Down \cup Unknown

\* "No value" is no stage, and no word for what follows a tunnel.
ASSUME NoneAssumption == None \notin Stages \cup {"address"}

\* A task not in the batch.  left counts the addresses not finished, canary the
\* one that is asked.  reached is tcp_succeeded, after is what follows the
\* cleanup of Xray, fault an entry of _ScopedDiagnostics.faults; own is history:
\* every canary of the target was answered, or not, by the target's own Xray.
Out == [pc |-> "out", left |-> 0, reached |-> FALSE, canary |-> 0, ok |-> FALSE,
        fault |-> FALSE, own |-> TRUE, after |-> None, result |-> None]

NoXray == [alive |-> FALSE, port |-> None]

ProbeInit ==
  /\ task = [t \in Targets |-> Out]
  /\ xray = [t \in Targets |-> NoXray]
  /\ listener = [p \in Ports |-> None]

At(t, pc) == task[t].pc = pc

Started(t) == task[t].pc \notin {"out", "waiting", "done"}

Batch == {t \in Targets : task[t].pc # "out"}

BatchOver == \A t \in Batch : At(t, "done")

-----------------------------------------------------------------------------
(* What a probe concludes.                                                 *)

Concluded(t, stage) ==
  [Out EXCEPT !.pc = "done", !.result = stage, !.fault = task[t].fault, !.own = task[t].own]

\* A local error of the check itself: "XRAY", or POLICY for a domain.
LocalError(t) == IF t \in Sni THEN "POLICY" ELSE "XRAY"

\* No address is left: the last stage reached is the evidence.
Failed(t, reached) ==
  IF ~reached THEN "TCP" ELSE IF t \in Sni THEN "TLS_HANDSHAKE" ELSE "VLESS_E2E"

\* The address failed: the next one, or the end of the loop.
NextAddress(t, reached) ==
  IF task[t].left > 1
  THEN [task[t] EXCEPT !.pc = "dialing", !.left = @ - 1, !.reached = reached,
                       !.ok = FALSE, !.canary = 0, !.after = None]
  ELSE Concluded(t, Failed(t, reached))

Faulty(r, outcome) == [r EXCEPT !.fault = @ \/ outcome = "local"]

\* uncertain_results: a local fault cannot make a target DOWN.
Settled(t) ==
  IF task[t].result \in Down /\ task[t].fault THEN "POLICY" ELSE task[t].result

-----------------------------------------------------------------------------
(* The Xray process and its port.                                          *)

\* _unused_loopback_port
FreePorts == {p \in Ports : listener[p] = None}

\* _authenticate_socks: the listener accepts the right password and refuses a
\* wrong one, as no other program does.
Authenticated(t) == listener[xray[t].port] = t

\* owns_listener: exactly one socket of the process listens on the port.
OwnsListener(t) == {p \in Ports : listener[p] = t} = {xray[t].port}

\* Mutant: any listener on the port will do.
ListenerPresent(t) == xray[t].alive /\ listener[xray[t].port] # None

EnsureHealthy(t) == xray[t].alive /\ Authenticated(t) /\ OwnsListener(t)

\* Whoever starts listening may do so as soon as the port is free.
Bind(t) ==
  /\ xray[t].alive
  /\ t \notin {listener[p] : p \in Ports}
  /\ IF listener[xray[t].port] = None
     THEN listener' = [listener EXCEPT ![xray[t].port] = t] /\ UNCHANGED xray
     ELSE xray' = [xray EXCEPT ![t].alive = FALSE] /\ UNCHANGED listener
  /\ UNCHANGED task

\* Whatever process of t's was listening listens no longer.
Unbound(t) == [p \in Ports |-> IF listener[p] = t THEN None ELSE listener[p]]

XrayDies(t) ==
  /\ xray[t].alive
  /\ xray' = [xray EXCEPT ![t].alive = FALSE]
  /\ listener' = Unbound(t)
  /\ UNCHANGED task

ForeignBinds(p) ==
  /\ listener[p] = None
  /\ listener' = [listener EXCEPT ![p] = Foreign]
  /\ UNCHANGED <<task, xray>>

ForeignLeaves(p) ==
  /\ listener[p] = Foreign
  /\ listener' = [listener EXCEPT ![p] = None]
  /\ UNCHANGED <<task, xray>>

-----------------------------------------------------------------------------
(* run_one and probe_target.                                               *)

To(t, r) == task' = [task EXCEPT ![t] = r] /\ UNCHANGED <<xray, listener>>

Acquire(t, control) ==
  /\ At(t, "waiting")
  /\ Cardinality({u \in Targets : Started(u)}) < MaxConcurrency
  /\ To(t, IF control THEN [task[t] EXCEPT !.pc = "resolving"]
                      ELSE Concluded(t, "AGENT_NETWORK"))

\* Too many, forbidden or malformed answers are POLICY.
Resolve(t, outcome) ==
  /\ At(t, "resolving")
  /\ IF outcome = "ok"
     THEN \/ \E n \in 1 .. MaxAddresses :
               To(t, [task[t] EXCEPT !.pc = "dialing", !.left = n])
          \/ To(t, Concluded(t, "POLICY"))
     ELSE To(t, Faulty(Concluded(t, "DNS"), outcome))

\* The start of XrayProcess.open.
Launch(t) ==
  /\ \E p \in FreePorts : xray' = [xray EXCEPT ![t] = [alive |-> TRUE, port |-> p]]
  /\ task' = [task EXCEPT ![t].pc = "starting", ![t].reached = TRUE]
  /\ UNCHANGED listener

\* A VPN target starts Xray, which may be missing or refuse its configuration.
Dial(t, outcome) ==
  /\ At(t, "dialing")
  /\ \/ outcome # "ok" /\ To(t, Faulty(NextAddress(t, task[t].reached), outcome))
     \/ outcome = "ok" /\ t \in Sni /\ To(t, [task[t] EXCEPT !.pc = "shaking"])
     \/ outcome = "ok" /\ t \in Vpn /\ To(t, Concluded(t, "XRAY"))
     \/ outcome = "ok" /\ t \in Vpn /\ Launch(t)

\* A scoped tunnel first starts its relay.
RelayFails(t) ==
  /\ At(t, "dialing") /\ t \in Vpn
  /\ To(t, Faulty(NextAddress(t, TRUE), "local"))

\* _probe_sni
Handshake(t, outcome) ==
  /\ At(t, "shaking")
  /\ To(t, IF outcome = "ok" THEN Concluded(t, "TLS")
                             ELSE Faulty(NextAddress(t, TRUE), outcome))

\* An exception other than those of the peer ends the probe.
Raises(t) ==
  /\ task[t].pc \in {"resolving", "dialing", "shaking"}
  /\ To(t, Concluded(t, LocalError(t)))

-----------------------------------------------------------------------------
(* XrayTunnel.check inside XrayProcess.open.                               *)

Closing(t, after) == [task[t] EXCEPT !.pc = "closing", !.after = after]

\* Every look may fail, if only because an answer is late.
LookFails(t) ==
  /\ task[t].pc \in {"starting", "asking", "answered", "leaving"}
  /\ To(t, Closing(t, "XRAY"))

\* _wait_for_owned_listener
Listening(t) ==
  /\ At(t, "starting")
  /\ EnsureHealthy(t)
  /\ To(t, [task[t] EXCEPT !.pc = "asking", !.canary = 1])

\* A canary is asked right after a look, and its answer comes from whoever
\* listens on the port by then: another Xray refuses the password.
Ask(t, outcome) ==
  /\ At(t, "asking")
  /\ LET answering == listener[xray[t].port]
     IN  /\ answering \notin {t, Foreign} => outcome # "ok"
         /\ To(t, Faulty([task[t] EXCEPT !.pc = "answered", !.ok = (outcome = "ok"),
                                         !.own = @ /\ answering = t], outcome))

\* An expected answer ends the loop over the canaries, and so does the last one.
Weigh(t) ==
  /\ At(t, "answered")
  /\ EnsureHealthy(t)
  /\ To(t, IF task[t].ok \/ task[t].canary = MaxCanaries
           THEN [task[t] EXCEPT !.pc = "leaving"]
           ELSE [task[t] EXCEPT !.pc = "asking", !.canary = @ + 1])

\* The last look, of XrayProcess.open.
LeaveTunnel(t) ==
  /\ At(t, "leaving")
  /\ EnsureHealthy(t)
  /\ To(t, Closing(t, IF task[t].ok THEN "E2E" ELSE "address"))

\* _stop_process, joined whatever happens to the task.
Cleanup(t) ==
  /\ At(t, "closing")
  /\ xray' = [xray EXCEPT ![t] = NoXray]
  /\ listener' = Unbound(t)
  /\ task' = [task EXCEPT ![t] =
       IF task[t].after = "address" THEN NextAddress(t, TRUE)
                                    ELSE Concluded(t, task[t].after)]

-----------------------------------------------------------------------------
(* probe_all.                                                              *)

\* The tasks of a new batch.
Batched(ts) == [t \in Targets |-> IF t \in ts THEN [Out EXCEPT !.pc = "waiting"] ELSE Out]

\* What cancelling leaves of a task that is not done: its evidence is gone,
\* its process is still to be stopped.
CutTask(t) ==
  IF xray[t] = NoXray THEN Concluded(t, "DEADLINE") ELSE Closing(t, "DEADLINE")

\* The wait ends before the tasks do: the deadline, or the caller is cancelled.
Cut ==
  /\ \E t \in Batch : ~At(t, "done") /\ task[t].after # "DEADLINE"
  /\ task' = [t \in Targets |-> IF task[t].pc \in {"out", "done"} THEN task[t] ELSE CutTask(t)]
  /\ UNCHANGED <<xray, listener>>

\* What the diagnostics of probe.py make of a peer.
PlainOutcomes == {"ok", "remote"}

\* The scoped transports of direct_check.py can tell a local failure from one
\* of the peer, and report it instead of raising it.
ScopedOutcomes == {"ok", "remote", "local"}

\* The steps of one task with what its peers may do.
ProbeStep(t, control, Outcomes) ==
  \/ Acquire(t, control)
  \/ \E o \in Outcomes : Resolve(t, o) \/ Dial(t, o) \/ Handshake(t, o) \/ Ask(t, o)
  \/ "local" \notin Outcomes /\ Raises(t)
  \/ "local" \in Outcomes /\ RelayFails(t)
  \/ LookFails(t) \/ Listening(t) \/ Weigh(t) \/ LeaveTunnel(t) \/ Cleanup(t)

\* The steps of Xray processes and other programs.
Surroundings ==
  \/ \E t \in Vpn : Bind(t) \/ XrayDies(t)
  \/ \E p \in Ports : ForeignBinds(p) \/ ForeignLeaves(p)

-----------------------------------------------------------------------------
(* Properties.                                                             *)

\* The verdict on a VPN target, good or bad, rests on answers of the target's
\* own Xray: another program that took over the port, a crashed process or a
\* second probe with the same port cannot decide it.
EvidenceIsOwn ==
  \A t \in Vpn : task[t].result \in {"E2E", "VLESS_E2E"} => task[t].own

=============================================================================
