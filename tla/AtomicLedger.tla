---------------------------- MODULE AtomicLedger ----------------------------
(***************************************************************************)
(* What package state promises its callers: the database changes only by   *)
(* whole operations.  A block is applied entirely or not at all, genesis   *)
(* is one write, and a reorganisation is an emptied database to which      *)
(* genesis and blocks are then applied.                                    *)
(***************************************************************************)
EXTENDS BlockEffect

CONSTANTS
  Genesis,     \* balances set by genesis: a function on a set of addresses
  Stakes,      \* the stakes genesis may set: such functions
  Block        \* blocks that may be applied

VARIABLES balance, nonce, stake, validatorList

vars == <<balance, nonce, stake, validatorList>>

\* The table f with the entries of g.
Over(f, g) == [a \in Addr |-> IF a \in DOMAIN g THEN g[a] ELSE f[a]]

Empty(b, n, s, l) == b = Zeros /\ n = Zeros /\ s = Zeros /\ l = {}

Init == Empty(balance, nonce, stake, validatorList)

Seed(stakes) ==
  /\ balance' = Over(balance, Genesis)
  /\ nonce' = Over(nonce, [a \in DOMAIN Genesis |-> 0])
  /\ stake' = Over(stake, stakes)
  /\ validatorList' = IF DOMAIN stakes = {} THEN validatorList ELSE DOMAIN stakes

Apply(b) ==
  /\ balance' = BlockOn(balance, b)
  /\ nonce' = NonceOn(balance, nonce, b)
  /\ UNCHANGED <<stake, validatorList>>

Slash(v) ==
  /\ validatorList # {}
  /\ stake' = [stake EXCEPT ![v] = 0]
  /\ validatorList' = validatorList \ {v}
  /\ UNCHANGED <<balance, nonce>>

Wipe == Empty(balance', nonce', stake', validatorList')

Next ==
  \/ \E stakes \in Stakes : Seed(stakes)
  \/ \E b \in Block : Apply(b)
  \/ \E v \in Addr : Slash(v)
  \/ Wipe

Spec == Init /\ [][Next]_vars
=============================================================================
