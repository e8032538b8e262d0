------------------------------ MODULE MCLedger ------------------------------
(* Instances of Ledger: three accounts, one of which produces the blocks.  *)
EXTENDS LedgerReplay, SequencesExt

CONSTANTS a, b, v

MCAddr == {a, b, v}
MCAllocation == a :> 3 @@ b :> 2
\* Two validators hold enough stake, one does not; a second -init lists others.
Stakes(x, y) == {[address |-> v, stake |-> x], [address |-> a, stake |-> y],
                 [address |-> b, stake |-> 1]}
MCValidators == {Stakes(3, 2), Stakes(1, 2)}

Pay(x, y, n, f) == [from |-> x, to |-> y, amount |-> n, fee |-> f]

\* Payments that can overdraw their sender, pay it back in the same block,
\* pay the producer or the sender itself; the total of the last one, and the
\* balance it is credited to, exceed a word of three bits.
MCTx == {Pay(a, b, 2, 1), Pay(b, a, 2, 1), Pay(b, v, 1, 0), Pay(a, a, 6, 3)}
MCBlock == {[validator |-> v, txs |-> s] : s \in BoundedSeq(MCTx, 2)}
               \cup {[validator |-> a, txs |-> s] : s \in BoundedSeq(MCTx, 1)}
MCReplay ==
  LET one(t) == [validator |-> v, txs |-> <<t>>]
  IN  {<<[validator |-> v, txs |-> <<>>], one(Pay(a, b, 2, 1))>>,
       <<one(Pay(b, a, 2, 1)), one(Pay(b, a, 2, 1))>>}

NoReplay == {}
=============================================================================
