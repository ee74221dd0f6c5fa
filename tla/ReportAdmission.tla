--------------------------- MODULE ReportAdmission ---------------------------
(***************************************************************************)
(* What the collector promises an agent: it takes reports one at a time,   *)
(* each with a higher sequence number than all it took from that agent     *)
(* before, whatever boot, retry or registry change lies between them.      *)
(* CollectorDB implements this; AgentDelivery relies on it.                *)
(***************************************************************************)
EXTENDS Integers

CONSTANTS Agents, Sequences

VARIABLE log  \* <<agent, sequence>> of every report ever taken

\* accept_report's comparison with agents.max_sequence.
Fresh(a, s) == \A t \in log : t[1] = a => t[2] < s

Take(a, s) == Fresh(a, s) /\ log' = log \cup {<<a, s>>}

Init == log = {}

Next == \E a \in Agents, s \in Sequences : Take(a, s)

Spec == Init /\ [][Next]_log

=============================================================================
