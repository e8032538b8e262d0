----------------------------- MODULE MCMempool ------------------------------
(* An instance of Mempool: two accounts that pay each other, and a producer. *)
(* A word holds at most 5, so that a total, a credit or the fees can wrap.   *)
EXTENDS Mempool, TLC

CONSTANTS a, b, v

MCAddr == {a, b, v}
MCAllocation == (a :> 4) @@ (b :> 3)
\* v leads the odd heights.
MCValidators == <<b, v>>

Pay(x, y, n, f, k) == [from |-> x, to |-> y, amount |-> n, fee |-> f, nonce |-> k]

\* Two payments of a, one after the other; one back whose amount and fee exceed
\* a word; one with a bad signature; one below the minimum fee, before its turn,
\* which only a peer's block holds.
Unsigned == Pay(a, b, 1, 3, 0)
Cheap    == Pay(a, b, 1, 0, 1)
MCTx == {Pay(a, b, 1, 1, 0), Pay(a, b, 1, 1, 1), Pay(b, a, 5, 1, 0), Unsigned, Cheap}
MCSigned == MCTx \ {Unsigned}

MCPeerBlock == {[validator |-> b, txs |-> <<Cheap>>]}
MCChain == {<<p>> : p \in MCPeerBlock}
=============================================================================
