----------------------------- MODULE MCPeerSet -----------------------------
(* Instances of PeerSet: two other nodes, two slots.                       *)
EXTENDS PeerSet

CONSTANTS me, p, q, e1, e2

MCAddress == {me, p, q}
MCEphemeral == {e1, e2}
MCSeeds == <<me, p>>
=============================================================================
