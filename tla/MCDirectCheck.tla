--------------------------- MODULE MCDirectCheck ---------------------------
(***************************************************************************)
(* Small instances of DirectCheck for TLC.                                 *)
(***************************************************************************)
EXTENDS DirectCheck, TLC

\* The VPN targets are interchangeable, and so are the networks.
Symmetry == Permutations(Vpn) \cup Permutations(Networks)

=============================================================================
