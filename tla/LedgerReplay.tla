---------------------------- MODULE LedgerReplay ----------------------------
(***************************************************************************)
(* The database of Ledger against two references: what the committed       *)
(* blocks, one after the other, make of the balances genesis left, and the *)
(* ledger whose operations are single steps.                               *)
(***************************************************************************)
EXTENDS Ledger, BlockEffect

\* The balances after each block of the list bs.
Replay(f, bs) ==
  LET at[i \in 0 .. Len(bs)] == IF i = 0 THEN f ELSE BlockOn(at[i-1], bs[i])
  IN  at

\* "Same block sequence yields the same state on all nodes" (README.md): the
\* balances in the database are a function of the balances genesis left and
\* of the blocks committed since, whether they were applied one by one or
\* replayed, and whatever crashed or failed in between.
BalancesAreReplay == balance = Replay(base, log)[Len(log)]

StakeOf(vs) == [a \in Listed(vs) |-> (CHOOSE v \in Staked(vs) : v.address = a).stake]

Atomic == INSTANCE AtomicLedger
            WITH Genesis <- Allocation, Stakes <- {StakeOf(vs) : vs \in Validators}

\* ApplyBlock, SlashValidator, ApplyGenesis and ResetAndReplay change the
\* database as AtomicLedger says: no crash, failed write or abandoned replay
\* leaves part of a block or of genesis in it.
AtomicSpec == Atomic!Spec
=============================================================================
