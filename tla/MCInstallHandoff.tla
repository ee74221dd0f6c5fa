------------------------- MODULE MCInstallHandoff -------------------------
(* Instance for TLC: the installer and one menu, one file in the archive. *)
EXTENDS InstallHandoff

CONSTANTS t1, t2, v1, v2

MCChoices ==
  [subscription |-> {v1}, token |-> {v1}, proxy |-> {v1}, config |-> {v1, v2}]

MCPayload == <<"control">>

=============================================================================
