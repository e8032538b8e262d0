------------------------------ MODULE Accounts ------------------------------
(***************************************************************************)
(* Tables of balances and nonces, with the arithmetic of Go's uint64.      *)
(***************************************************************************)
EXTENDS Integers, Sequences, FiniteSets

CONSTANTS
  Addr,      \* addresses
  MaxUint    \* largest uint64, 2^64 - 1 in the code

Word == 0 .. MaxUint

\* The sum of two words in Go's uint64 arithmetic.
Saturate(n) == IF n > MaxUint THEN MaxUint ELSE n
Wrap(n) == IF n > MaxUint THEN n - (MaxUint + 1) ELSE n

\* An absent key reads as 0.
Zeros == [a \in Addr |-> 0]

\* The sum of all balances, as the number of coins <<owner, index>> they hold.
Coins(f)  == {c \in Addr \X Word : c[2] < f[c[1]]}
Supply(f) == Cardinality(Coins(f))

\* Addresses whose nonce ApplyBlock reads.  The nonce is read together with
\* the balance, when the sender is not yet in the balances map; a sender that
\* an earlier transaction of the block paid is already in it.
LoadsNonce(txs) ==
  {a \in Addr : \E i \in DOMAIN txs :
     txs[i].from = a /\ \A j \in DOMAIN txs : j < i => txs[j].to # a}
=============================================================================
