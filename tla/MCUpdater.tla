----------------------------- MODULE MCUpdater -----------------------------
(***************************************************************************)
(* Small instances of Updater for TLC.                                     *)
(***************************************************************************)
EXTENDS Updater

R(s, v) == [seq |-> s, version |-> v]

\* Two releases in order, and a second archive of the first one's version.
ThreeReleases == {R(1, 1), R(2, 1), R(3, 2)}

TwoReleases == {R(1, 1), R(2, 2)}

NoneBroken == {}

FirstBroken == {R(1, 1)}

=============================================================================
