------------------------------- MODULE MCNode -------------------------------
(* Instances of Node: the node s, two other validators v and w.            *)
EXTENDS Node

CONSTANTS s, v, w, t1, t2, zero

MCGenesis == [height |-> 0, prev |-> zero, validator |-> s, txs |-> <<>>, time |-> 0]

Child(p, x, txs, n) ==
  [height |-> p.height + 1, prev |-> p, validator |-> x, txs |-> txs, time |-> n]

\* Blocks of the node on top of a set of blocks, one transaction each, at
\* any of the given times.
Own(parents, times) == {Child(p, s, <<t>>, n) : p \in parents, t \in {t1, t2}, n \in times}

\* With validators v, s the node leads the odd heights.  v1 is out of turn;
\* v2 and v2x are two blocks of v for height 2 on a block of the node; bad
\* fails validation.
s1  == Child(MCGenesis, s, <<t1>>, 1)
v1  == Child(MCGenesis, v, <<t1>>, 3)
v2  == Child(s1, v, <<t2>>, 3)
v2x == Child(s1, v, <<t2>>, 4)
s3  == Child(v2, s, <<>>, 5)
bad == Child(s1, v, <<>>, 6)
Foreign == {v1, v2, v2x, s3, bad}

MCAddr == {s, v, w}
MCTx == {t1, t2}
MCValidators == <<v, s>>
MCBlock == {MCGenesis} \cup Own({MCGenesis}, {1}) \cup Own({s1}, {1}) \cup Foreign
MCValid == MCBlock \ {bad}
MCDeliver == {v1, v2, v2x, bad}
MCBatch == {<<v2, v2x>>, <<bad, v2x, v2>>, <<v2x, s3>>, <<s3>>, <<MCGenesis, s1, v2, s3>>}

\* The only validator, which meets blocks of its own earlier lives: peers send
\* back what they were given before a crash.
Alone == <<s>>
r1 == Child(MCGenesis, s, <<t1>>, 2)
r2 == Child(r1, s, <<t2>>, 1)
Life1 == Own({MCGenesis}, {1}) \cup {r1}
CrashBlock == {MCGenesis} \cup Life1 \cup Own({s1, r1}, {1})
CrashDeliver == {s1, r1}
CrashBatch == {<<r1, r2>>, <<MCGenesis, r1, r2>>}

\* Peers send nothing.
None == {}

\* Two conflicting announcements.
PairDeliver == {v2, v2x}
=============================================================================
