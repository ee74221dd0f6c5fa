------------------------ MODULE MCWindowsSupervisor ------------------------
(***************************************************************************)
(* Small instances of WindowsSupervisor for TLC.                           *)
(***************************************************************************)
EXTENDS WindowsSupervisor

=============================================================================
