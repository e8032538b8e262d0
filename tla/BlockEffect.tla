---------------------------- MODULE BlockEffect -----------------------------
(***************************************************************************)
(* What one block does to the tables of balances and nonces, as functions  *)
(* of the tables and the block.  Module Ledger reaches the same tables     *)
(* through in-memory maps, batches, crashes and replays.                   *)
(***************************************************************************)
EXTENDS Accounts

TxTotal(tx) == Wrap(tx.amount + tx.fee)

\* One transaction on a table of balances.
TransferOn(f, tx) ==
  IF f[tx.from] < TxTotal(tx) THEN f
  ELSE LET paid == [f EXCEPT ![tx.from] = @ - TxTotal(tx)]
       IN  [paid EXCEPT ![tx.to] = Wrap(@ + tx.amount)]

\* The balances, and the fees of all transactions executed or not, after each
\* transaction.
Course(f, txs) ==
  LET at[i \in 0 .. Len(txs)] == IF i = 0 THEN f ELSE TransferOn(at[i-1], txs[i])
  IN  at
Fees(txs) ==
  LET at[i \in 0 .. Len(txs)] == IF i = 0 THEN 0 ELSE Wrap(at[i-1] + txs[i].fee)
  IN  at

\* The fees go to the producer.
BlockOn(f, b) ==
  [Course(f, b.txs)[Len(b.txs)] EXCEPT ![b.validator] = Wrap(@ + Fees(b.txs)[Len(b.txs)])]

\* The i-th transaction of txs is executed and not skipped.
Executes(f, txs, i) == Course(f, txs)[i-1][txs[i].from] >= TxTotal(txs[i])

\* Every executed transaction adds one to its sender's nonce; a nonce that the
\* block did not read is counted from 0.
NonceOn(f, n, b) ==
  [a \in Addr |->
    LET ran == Cardinality({i \in DOMAIN b.txs : b.txs[i].from = a /\ Executes(f, b.txs, i)})
    IN  IF a \in LoadsNonce(b.txs) THEN (n[a] + ran) % (MaxUint + 1)
        ELSE IF ran > 0 THEN ran % (MaxUint + 1) ELSE n[a]]
=============================================================================
