-------------------------- MODULE MCDirectService --------------------------
(***************************************************************************)
(* Small instances of DirectService for TLC.                               *)
(***************************************************************************)
EXTENDS DirectService

=============================================================================
