SPECIFICATION Spec
CONSTANTS
  alice = alice
  bob = bob
  a1 = a1
  a2 = a2
  aClear = aClear
  b1 = b1
  Peers <- MCPeers
  Messages <- MCMessages
  PeerOf <- MCPeerOf
  Clears <- MCClears
  MaxMishaps = 1
INVARIANTS OneTurnPerAgent HistorySurvives QuietPeerIsServed
SYMMETRY PromptSymmetry
