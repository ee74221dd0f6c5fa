\* Two VPN targets share a port, and a domain; trials of one of them and the
\* domain, while the connection goes to and fro between two networks and looks
\* fail by themselves.
SPECIFICATION DirectSpec
CONSTANTS
  Vpn = {v1, v2}
  Sni = {s1}
  Ports = {p1}
  Foreign = foreign
  None = None
  MaxConcurrency = 2
  MaxAddresses = 2
  MaxCanaries = 1
  Networks = {n1, n2}
  MaxTrialVpn = 1
INVARIANTS EvidenceIsOwn DownIsConfirmed BlameIsLocal LastingChangeIsSeen ObservationIsTrue NothingLeftBehind
SYMMETRY Symmetry
CHECK_DEADLOCK FALSE
