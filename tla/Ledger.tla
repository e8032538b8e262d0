------------------------------- MODULE Ledger -------------------------------
(***************************************************************************)
(* The account and validator store of a node: package state, a LevelDB     *)
(* database behind one RWMutex (State.mu).                                 *)
(*                                                                         *)
(* The database holds one balance and one nonce per address (an absent key *)
(* reads as 0), one stake per validator and the list of validators.  The   *)
(* order of that list matters only to the leader schedule; it is kept in   *)
(* module Node and forgotten here.                                         *)
(*                                                                         *)
(* Every writer holds State.mu, so there is at most one at a time.  What   *)
(* makes it more than one step is that ResetAndReplay writes the database  *)
(* in several batches, and that a crash or a failed write may end it after *)
(* any of them.  ApplyBlock works on in-memory maps, one transaction at a  *)
(* time, and writes one batch at the end.                                  *)
(*                                                                         *)
(* An unused operator just before the one it resembles is a mistake the    *)
(* code might have made; the properties must tell the two apart.           *)
(***************************************************************************)
EXTENDS Accounts

CONSTANTS
  MinStake,      \* config.MinStake
  Allocation,    \* genesis balances: a function on a set of addresses
  Validators,    \* what genesis.json may list: sets of [address, stake]
  Tx,            \* transactions [from, to, amount, fee] blocks may carry
  Block,         \* blocks [validator, txs] the node may be asked to apply
  ReplayChain,   \* block sequences a reorganisation may replay
  MaxLog         \* bound: blocks applied since genesis was last written

ASSUME AddrAssumption == IsFiniteSet(Addr) /\ Addr # {}
ASSUME WordAssumption == MaxUint \in Nat /\ MinStake \in Word \ {0}
ASSUME GenesisAssumption ==
  /\ DOMAIN Allocation \subseteq Addr
  /\ \A a \in DOMAIN Allocation : Allocation[a] \in Word
  /\ \A vs \in Validators :
       /\ vs \subseteq [address : Addr, stake : Word]
       /\ \A v, w \in vs : v.address = w.address => v = w
ASSUME BlockAssumption ==
  /\ Tx \subseteq [from : Addr, to : Addr, amount : Word, fee : Word]
  /\ \A b \in Block : b = [validator |-> b.validator, txs |-> b.txs]
  /\ \A b \in Block : b.validator \in Addr /\ b.txs \in Seq(Tx)
  /\ ReplayChain \subseteq Seq(Block)

VARIABLES
  \* the database
  balance, nonce, stake, validatorList,
  \* the writer: its program counter, ApplyBlock's block and maps, and the
  \* blocks ResetAndReplay still has to apply
  pc, block, next, balances, nonces, nonceKeys, totalFees, rest,
  \* history, read by no guard but the bound: the balances genesis left when
  \* it was last written, and the blocks committed since; the coins that
  \* should exist; the spends of each account since genesis set its nonce; the
  \* accounts whose nonce was rewritten from a missing entry; the validators a
  \* later genesis has left off the list
  base, log, issued, created, spends, ran, forgot, dropped

db      == <<balance, nonce, stake, validatorList>>
writer  == <<block, next, balances, nonces, nonceKeys, totalFees, created, ran>>
history == <<base, log, issued, spends, forgot, dropped>>
vars    == <<db, pc, writer, rest, history>>

-----------------------------------------------------------------------------
NoBlock == [validator |-> CHOOSE a \in Addr : TRUE, txs |-> <<>>]

\* balance and nonce writes of ApplyGenesis over the tables f: only the
\* allocated addresses are touched.
Allocate(f) == [a \in Addr |-> IF a \in DOMAIN Allocation THEN Allocation[a] ELSE f[a]]
ZeroAllocated(f) == [a \in Addr |-> IF a \in DOMAIN Allocation THEN 0 ELSE f[a]]

\* Genesis validators below MinStake are ignored.  The stake of one that is no
\* longer listed stays in the database.
AllStaked(vs) == vs
Staked(vs) == {v \in vs : v.stake >= MinStake}
Listed(vs) == {v.address : v \in Staked(vs)}
StakeGenesis(f, vs) ==
  [a \in Addr |-> IF a \in Listed(vs) THEN (CHOOSE v \in Staked(vs) : v.address = a).stake
                  ELSE f[a]]

\* The nonces map after the first loop; a missing entry reads as 0.
LoadedZeros(txs) == Zeros
LoadedNonces(txs) == [a \in Addr |-> IF a \in LoadsNonce(txs) THEN nonce[a] ELSE 0]

-----------------------------------------------------------------------------
Init ==
  /\ balance = Zeros /\ nonce = Zeros /\ stake = Zeros /\ validatorList = {}
  /\ pc = "empty"
  /\ block = NoBlock /\ next = 1 /\ balances = Zeros /\ nonces = Zeros
  /\ nonceKeys = {} /\ totalFees = 0 /\ rest = <<>>
  /\ base = Zeros /\ log = <<>> /\ issued = 0 /\ created = 0
  /\ spends = Zeros /\ ran = Zeros /\ forgot = {} /\ dropped = {}

\* The genesis batch: one atomic write.
WriteGenesis(vs) ==
  /\ balance' = Allocate(balance)
  /\ nonce' = ZeroAllocated(nonce)
  /\ stake' = StakeGenesis(stake, vs)
  /\ validatorList' = IF Listed(vs) = {} THEN validatorList ELSE Listed(vs)
  /\ dropped' = (dropped \cup validatorList) \ validatorList'
  /\ base' = Allocate(balance)
  /\ log' = <<>>
  /\ issued' = Supply(Allocate(balance))
  /\ spends' = ZeroAllocated(spends)
  /\ forgot' = forgot \ DOMAIN Allocation

\* -init, -init-join and the first -run apply genesis to an empty database; a
\* run that finds no genesis block in the chain does it again.  So does -init
\* in a directory that is in use, and the handler of Blocks when it cannot
\* read the tip: genesis is then written over a database that holds blocks.
\* Every -init makes a key of its own and lists it as the validator.
ApplyGenesis ==
  /\ pc \in {"empty", "genesis", "idle"}
  /\ \E vs \in Validators : WriteGenesis(vs)
  /\ pc' = "genesis"
  /\ UNCHANGED <<writer, rest>>

\* The genesis block is in the chain: from here on the node serves blocks.
Start ==
  /\ pc = "genesis"
  /\ pc' = "idle"
  /\ UNCHANGED <<db, writer, rest, history>>

\* First loop of ApplyBlock and applyBlockLocked: fill the maps.  balances is
\* kept for every address, an untouched entry being equal to the database's.
LoadMaps(b) ==
  /\ pc' = "txs"
  /\ block' = b
  /\ next' = 1
  /\ balances' = balance
  /\ nonces' = LoadedNonces(b.txs)
  /\ nonceKeys' = LoadsNonce(b.txs)
  /\ totalFees' = 0 /\ created' = 0 /\ ran' = Zeros

ApplyBlock(b) ==
  /\ pc = "idle"
  /\ Len(log) < MaxLog
  /\ LoadMaps(b)
  /\ UNCHANGED <<db, rest, history>>

CurTx == block.txs[next]
Total == Wrap(CurTx.amount + CurTx.fee)

CoversAmount == balances[CurTx.from] >= CurTx.amount
CoversMore == balances[CurTx.from] > Total
Covered == balances[CurTx.from] >= Total

\* The fee is counted before the balance is looked at.
CountFee ==
  /\ pc = "txs"
  /\ next <= Len(block.txs)
  /\ next' = next + 1
  /\ totalFees' = Wrap(totalFees + CurTx.fee)
  /\ UNCHANGED <<db, pc, block, rest, history>>

SkipTx ==
  /\ CountFee
  /\ ~Covered
  /\ created' = created + CurTx.fee
  /\ UNCHANGED <<balances, nonces, nonceKeys, ran>>

\* nonces[tx.From]++ on a missing entry starts from 0.
ExecuteTx ==
  /\ CountFee
  /\ Covered
  /\ LET paid == [balances EXCEPT ![CurTx.from] = @ - Total]
     IN  balances' = [paid EXCEPT ![CurTx.to] = Wrap(@ + CurTx.amount)]
  /\ nonces' = [nonces EXCEPT ![CurTx.from] = Wrap(@ + 1)]
  /\ nonceKeys' = nonceKeys \cup {CurTx.from}
  /\ created' = created + CurTx.amount + CurTx.fee - Total
  /\ ran' = [ran EXCEPT ![CurTx.from] = @ + 1]

\* Between two writes the writer's maps hold nothing.
DropMaps ==
  /\ block' = NoBlock /\ next' = 1 /\ balances' = Zeros /\ nonces' = Zeros
  /\ nonceKeys' = {} /\ totalFees' = 0 /\ created' = 0 /\ ran' = Zeros

\* Fees go to the producer's balance as the transactions left it.
FeesOnOldBalance ==
  [balances EXCEPT ![block.validator] = Wrap(balance[block.validator] + totalFees)]
PayFees == [balances EXCEPT ![block.validator] = Wrap(@ + totalFees)]

\* One batch writes every entry of both maps.
Commit ==
  /\ pc = "txs"
  /\ next > Len(block.txs)
  /\ balance' = PayFees
  /\ nonce' = [a \in Addr |-> IF a \in nonceKeys THEN nonces[a] ELSE nonce[a]]
  /\ pc' = IF rest = <<>> THEN "idle" ELSE "replay"
  /\ log' = Append(log, block)
  /\ issued' = issued + created
  /\ spends' = [a \in Addr |-> spends[a] + ran[a]]
  /\ forgot' = forgot \cup {a \in nonceKeys \ LoadsNonce(block.txs) : nonce[a] # 0}
  /\ DropMaps
  /\ UNCHANGED <<stake, validatorList, rest, base, dropped>>

\* No validator list in the database: nothing is written, not even the stake.
SlashValidator(v) ==
  /\ pc = "idle"
  /\ validatorList # {}
  /\ stake' = [stake EXCEPT ![v] = 0]
  /\ validatorList' = validatorList \ {v}
  /\ dropped' = dropped \ {v}
  /\ UNCHANGED <<balance, nonce, pc, writer, rest, base, log, issued, spends, forgot>>

\* ResetAndReplay: delete every key, then genesis, then the blocks, each a
\* batch of its own, all under one Lock.
ResetAndReplay(blocks) ==
  /\ pc = "idle"
  /\ blocks # <<>>
  /\ balance' = Zeros /\ nonce' = Zeros /\ stake' = Zeros /\ validatorList' = {}
  /\ pc' = "reset"
  /\ rest' = blocks
  /\ base' = Zeros /\ log' = <<>> /\ issued' = 0 /\ spends' = Zeros /\ forgot' = {} /\ dropped' = {}
  /\ UNCHANGED writer

ReplayGenesis ==
  /\ pc = "reset"
  /\ \E vs \in Validators : WriteGenesis(vs)
  /\ pc' = "replay"
  /\ UNCHANGED <<writer, rest>>

ReplayBlock ==
  /\ pc = "replay"
  /\ LoadMaps(Head(rest))
  /\ rest' = Tail(rest)
  /\ UNCHANGED <<db, history>>

\* A write fails and the function returns its error, or the process dies and
\* is started again: the writer is gone, the batches it wrote stay.
AbortWritesBalances ==
  /\ pc = "txs"
  /\ pc' = "idle"
  /\ balance' = balances
  /\ rest' = <<>>
  /\ DropMaps
  /\ UNCHANGED <<nonce, stake, validatorList, history>>
Abort ==
  /\ pc \in {"txs", "reset", "replay"}
  /\ pc' = "idle"
  /\ rest' = <<>>
  /\ DropMaps
  /\ UNCHANGED <<db, history>>

Next ==
  \/ ApplyGenesis
  \/ Start
  \/ \E b \in Block : ApplyBlock(b)
  \/ SkipTx
  \/ ExecuteTx
  \/ Commit
  \/ \E v \in Addr : SlashValidator(v)
  \/ \E blocks \in ReplayChain : ResetAndReplay(blocks)
  \/ ReplayGenesis
  \/ ReplayBlock
  \/ Abort

Spec == Init /\ [][Next]_vars

-----------------------------------------------------------------------------
(* Properties. *)

BlockType == [validator : Addr, txs : Seq(Tx)]

TypeOK ==
  /\ balance \in [Addr -> Word] /\ nonce \in [Addr -> Word]
  /\ stake \in [Addr -> Word] /\ validatorList \in SUBSET Addr
  /\ pc \in {"empty", "genesis", "idle", "txs", "reset", "replay"}
  /\ block \in BlockType /\ next \in Nat \ {0}
  /\ balances \in [Addr -> Word] /\ nonces \in [Addr -> Word]
  /\ nonceKeys \in SUBSET Addr /\ totalFees \in Word
  /\ rest \in Seq(Block) /\ log \in Seq(BlockType)
  /\ base \in [Addr -> Word] /\ issued \in Nat /\ created \in Nat
  /\ spends \in [Addr -> Nat] /\ ran \in [Addr -> Nat]
  /\ forgot \in SUBSET Addr /\ dropped \in SUBSET Addr

\* The sum of all balances is what genesis left plus the fees of the
\* transactions that blocks carried but did not execute, for as long as that
\* number fits a uint64: ApplyBlock, crashes, failed writes and replays
\* neither lose coins nor create any other.  A second genesis does both, and
\* the count starts again from the balances it leaves.
SupplyAccounted == issued <= MaxUint => Supply(balance) = issued

\* The same modulo 2^64, whatever amounts the transactions carry and however
\* often Amount + Fee or a credit wraps around.
SupplyModular == (Supply(balance) - issued) % (MaxUint + 1) = 0

\* An account's nonce is the number of transactions it has executed since
\* genesis set it, except that ApplyBlock may have restarted it for an account that
\* spent in a block after being paid in it; it never exceeds that number.
NonceAccounted ==
  \A a \in Addr :
    /\ nonce[a] <= spends[a]
    /\ a \notin forgot /\ spends[a] <= MaxUint => nonce[a] = spends[a]

\* The stakes and the list agree, which docs/CONSENSUS_MODEL.md asks of every
\* state, as far as it is true.  Every listed validator has at least MinStake,
\* and an address that is not listed has no stake at all, through slashing,
\* crashes and replays cut short.  The exception is a validator that a later
\* genesis has left off the list: ApplyGenesis does not clear the stake it
\* had, only slashing or a replay does.
StakeMatchesList ==
  \A a \in Addr : /\ a \in validatorList \cup dropped => stake[a] >= MinStake
                  /\ a \notin validatorList \cup dropped => stake[a] = 0

\* docs/WHITEPAPER.md: "New coins are never created."  ApplyBlock adds the
\* fee of a skipped transaction to totalFees and credits it to the producer.
NoMinting == Supply(balance) = Supply(base)

\* docs/SPEC.md: "Nonce(From) == tx.Nonce (then incremented)": each executed
\* transaction adds one to its sender's nonce.
NonceCountsSpends == \A a \in Addr : nonce[a] = spends[a]
=============================================================================
