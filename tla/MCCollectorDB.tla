--------------------------- MODULE MCCollectorDB ---------------------------
(***************************************************************************)
(* Small instance of CollectorDB for TLC.                                  *)
(***************************************************************************)
EXTENDS CollectorDB, TLC

MCInterval == [a \in Agents |-> 1]

\* Boots and owners are only compared for equality.
Symmetry == Permutations(Boots) \cup Permutations(Owners)

\* Bounds of the instance: only the first agent sends more than its first report,
\* or leaves the registry, in its first two instants, and is followed to their end
\* then; the other shares the caps and the watchdog with it, and reports at the
\* start or after it went offline.  No number but the first is skipped, under
\* whichever boot ids.
OthersAreQuiet ==
  /\ \A e \in DOMAIN accepted, s \in Sequences : 1 < s /\ s < e[3] =>
       \E b \in Boots : <<e[1], b, s>> \in DOMAIN accepted
  /\ \A a \in Agents :
       /\ reactivated[a] > 0 => now <= 1
       /\ a > 1 =>
            /\ reactivated[a] = 0
            /\ \A e \in DOMAIN accepted : e[1] = a => e[3] = 1 /\ accepted[e] \in {0, 3}

\* At the last instant only the watchdog acts: what follows an alert of an agent
\* that stays silent is one more check.
WatchdogLast == now = MaxTime => ~checked /\ checked'

=============================================================================
