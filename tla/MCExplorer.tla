----------------------------- MODULE MCExplorer -----------------------------
(* The readers beside a node that is the only validator, makes three blocks *)
(* and is sent a block on top of its first one that claims the height of    *)
(* that one, and three batches of blocks of another chain.                  *)
EXTENDS Explorer

CONSTANTS s, t1, t2, t3, zero

MCGenesis == [height |-> 0, prev |-> zero, validator |-> s, txs |-> <<>>, time |-> 0]

Child(p, txs, n) ==
  [height |-> p.height + 1, prev |-> p, validator |-> s, txs |-> txs, time |-> n]

b1 == Child(MCGenesis, <<t1>>, 1)
b2 == Child(b1, <<t2>>, 1)
b3 == Child(b2, <<t3>>, 1)
x2 == Child(b1, <<t2>>, 2)
x3 == Child(x2, <<t3>>, 2)
x4 == Child(x3, <<>>, 2)
y2 == [Child(b1, <<t2>>, 3) EXCEPT !.height = 1]

MCAddr == {s}
MCTx == {t1, t2, t3}
MCValidators == <<s>>
MCBlock == {MCGenesis, b1, b2, b3, x2, x3, x4, y2}
MCDeliver == {y2}
MCBatch == {<<x2, x3>>, <<MCGenesis, b1, x2, x3>>, <<MCGenesis, b1, x2, x3, x4>>}
=============================================================================
