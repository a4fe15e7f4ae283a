----------------------------- MODULE MCGateway -----------------------------
(* Two peers; one sends two prompts and clears, the other sends one. *)
EXTENDS Gateway, TLC

CONSTANTS alice, bob, a1, a2, aClear, b1

MCPeers == {alice, bob}
MCMessages == {a1, a2, aClear, b1}
MCPeerOf == (a1 :> alice) @@ (a2 :> alice) @@ (aClear :> alice) @@ (b1 :> bob)
MCClears == {aClear}
PromptSymmetry == Permutations({a1, a2})
=============================================================================
