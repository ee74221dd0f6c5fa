------------------------- MODULE MCCollectorService -------------------------
(***************************************************************************)
(* Small instances of CollectorService for TLC.                            *)
(***************************************************************************)
EXTENDS CollectorService, TLC

=============================================================================
