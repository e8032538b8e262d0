# A TLA+ model of hanticoin

hanticoin is a small proof-of-stake chain: accounts in LevelDB, one JSON file
per block, a memory pool, TCP gossip, and a validator list from which every
height takes its leader in turn. This directory models the parts of a node where
order, crashes and arithmetic matter, model-checks them with TLC and proves the
main laws with TLAPS.

## The system

| Part | State | Operations | Module |
|---|---|---|---|
| Account state, `state/state.go` | balances, nonces, stakes, validator list; one RWMutex | ApplyGenesis, ApplyBlock, SlashValidator, ResetAndReplay | Ledger |
| Chain storage, `core/chain.go` | block files, chain.json, tip in memory; one RWMutex | NewChain, AppendBlock, Save, SetTip, WriteBlock; GetBlocksFrom, GetBlockByHeight | Node; Explorer |
| Producer, `cmd/node/main.go` 528-572 | - | one turn of a 4 s ticker | Node, Mempool |
| Block handlers, `cmd/node/main.go` 215-347 | doubleSignCheck | GetBlocks, Blocks, NewBlock | Node |
| Consensus, `consensus/consensus.go` | validator list | leader of a height | Consensus |
| Memory pool, `mempool/mempool.go` | pending transactions | Add, Pending, Remove | Mempool |
| Peer set and transport, `p2p/` | connection table | dial, accept, add, remove, broadcast, read | PeerSet |
| Genesis and start, `core/genesis.go`, `cmd/node/main.go` 39-170 | genesis.json, key file | -init, -init-join, -run | Bootstrap |
| HTTP API, `cmd/node/main.go` | - | /tx; /blocks, /block; the rest read-only | Mempool; Explorer |
| Cryptography, keygen, send, load generator | - | pure functions and clients | - |

The producer and the block handlers exclude each other through `blockMu`.
Transactions, requests for blocks and the HTTP API do not take it. All of them
meet in the chain storage, the pool and the account state, each with a mutex of
its own that is released between any two calls.

## The modules

An unused operator just before the one it resembles (`Saturate` before `Wrap`)
is a mistake the code might have made; substituting it must break a property.

**Accounts** has the tables and uint64 arithmetic: words are `0 .. MaxUint` and
sums wrap. The sum of balances is the number of coins `<<owner, index>>`, which
needs no recursion. **BlockEffect** is what one block does to the tables:
`Course` and `Fees` are the balances and the fees after each transaction.
**Lists** is the loop that filters a slice, for the pool and the validator list.

**Ledger** is the account state. The database is `balance`, `nonce`, `stake` and
`validatorList` (a set here; its order only matters to the leader schedule). A
writer holds `State.mu`, so there is one `pc`. ApplyBlock is `ApplyBlock` (fill
the maps), one `SkipTx` or `ExecuteTx` per transaction, and `Commit` (fees and
the batch). ResetAndReplay is the deletion, `ReplayGenesis`, and a `ReplayBlock`
followed by the same loop for each block. `Abort` is a failed write or a crash
between two batches. `ApplyGenesis` may come at any time between operations:
-init in a used directory, and the Blocks handler when it cannot read the tip,
write genesis over a database that holds blocks. Each -init makes a key of its
own, so `Validators` is a set of lists and every genesis takes one of them.
History variables record what should exist: `issued` coins, `spends` per
account, the `log` of blocks, and the validators a later genesis has left off
the list (`dropped`).

**AtomicLedger** is the abstract specification of the account state: genesis, a
block, a slashing and the deletion are single steps. **LedgerReplay** compares
Ledger with it (`AtomicSpec`) and with `Replay`, the committed blocks applied
one after the other (`BalancesAreReplay`).

**Consensus** holds the leader of a height, with the nil set of an empty list.

**Node** is one node: producer (`ppc`), the handler that holds `blockMu`
(`hpc`), the files (`files`, `meta` for chain.json), the pool, doubleSignCheck
(`seen`) and the database, abstracted to the list `applied` of blocks applied to
it. A step is one file write or one batch, so a crash can fall between any two;
`SaveTruncate`/`SaveWrite` and `WriteOpen`/`WriteBlock` are the two halves of
`os.WriteFile`. A block is its own hash. Peers may announce any block of
`Deliver` and send any sequence of `Batch`, repeatedly and in any order, which
subsumes loss, duplication and reordering. Writes fail as the code lets them:
the errors of WriteBlock and of the second ApplyGenesis are ignored
(`WriteFails`, `GenesisFails`). `SetTip` ends in `"stuck"`: it calls
Save while holding the mutex Save waits for. Code after it (removing the
transactions, relaying the block) is unreachable and has no action. The
transactions of Node execute when included and keep their senders' nonces; the
others are the subject of Ledger and Mempool. `PathTo[b]` is the chain to a
block and `StateOf[b]` the state it leads to; both recurse to the predecessor,
which `ChainAssumption` makes well-founded: a block holds its predecessor's
hash, so no block is its own ancestor. Heights are numbers the blocks carry and
need not count the chain, since the handlers do not compare them with the
predecessor's.

**HeightLog** is the abstract specification of what a node broadcasts: blocks
that climb. Node implements it (`ClimbsSpec`).

**Explorer** runs a reader beside Node: a peer's GetBlocks, `/blocks`,
`/block?height`. GetBlocksFrom is `ReadTip`, one `Walk` per block down to the
first height, one `Load` per block up to the limit, each under a lock of its
own; GetBlockByHeight is one `Scan` per directory entry, under none. The entries
include a file being rewritten and the temporary file of a block being appended,
whose name has the extension the scan looks for.

**Mempool** is the pool on real balances and nonces. Add is three steps (read
the balance, read the nonce, judge), since it holds the pool's mutex but not the
state's in between. The producer skips its turn when the tip cannot be read or
another validator leads the next height; otherwise it takes the first
`MaxPending` transactions, applies, appends and removes. The handlers change the
same tables: they apply a block of a peer, slash, replay a longer chain batch by
batch under `State.mu`, or apply genesis to the database as it is. Each that
ends in SetTip leaves `blockMu` held (`Stuck`). Of the chain only the height,
modulo `Cycle`, and the readability of the tip are kept.

Its history variables say what the properties allow. `executed` has what the
producer's appended blocks executed; `lately` the same for a block applied and
not yet appended. Peers' executions are left out because a peer's block may
carry a payment before its turn, as ApplyBlock looks at no nonce; Add then
admits the payment here when its turn comes. `forgot` is the set of senders
whose nonce did not grow when they spent. `fresh` is the set of pooled
transactions whose sender has, since Add read the balance, neither spent, nor
received more than a uint64 holds (`Overflows`, `FeesOverflow`), nor been reset
by a replay or a genesis.

**PeerSet** is the connection table. A dialler checks for room (`CheckRoom`),
dials without the mutex and then registers (`DialSucceeds`); `OnConn` is the
registration at the start of the reading goroutine, `ReadFails` its end. A
connection may `Break`, and a failed broadcast closes it (`SendFails`). A reader
whose message gets to SetTip, or waits for a mutex held there, is `"stuck"` and
never reads again (`HandlerStuck`); from then on the accept loop, which needs
Chain.mu for its greeting (`Greet`), hangs with the connection it has accepted.

**Bootstrap** takes a data directory from nothing to a running node: key file,
genesis.json, database and chain.json are written one after the other, every
file is truncated before it is written, a process may die between any two steps
and the operator may give any command again, at any time. There is one -init or
-init-join at a time and any number of -run (`Runner`): LevelDB lets only one
process open the database, but -run reads chain.json and genesis.json first.

**MC...** are the instances, **...Proofs** the proofs.

## The runs

| Run | Checks | Result |
|---|---|---|
| ledger | TypeOK, SupplyAccounted, SupplyModular, NonceAccounted, StakeMatchesList, BalancesAreReplay, AtomicSpec | hold, 121,806 states |
| node | TypeOK, StateIsChain, SlashJustified, AppliedInTurn, SlashedShutOut | hold, 60,264 states |
| node_crash | AnnouncedOnce, AnnouncedDurable, DamageBounded, DriftBounded, ClimbsSpec | hold, 821,386 states |
| explorer | AnswerIsSlice, ShowsLatest, ByHeightCanonical, ShownIsApplied | hold, 996,220 states |
| mempool | TypeOK, NoReplay, SkipJustified, PoolDrains | hold, 255,264 states |
| peers | PeersBounded, ReaderOwnsEntry, NoOpenOrphan, OnlyDialledStale, ReaderCleansUp | hold, 102,731 states |
| bootstrap | Bootstrapped, GenesisOnce, Recovers | hold, 852,949 states |
| ledger_mint | NoMinting | violated |
| ledger_nonce | NonceCountsSpends | violated |
| node_set_tip | TipSaved | violated |
| node_shown | ShownOnce | violated |
| peers_seed | DialledIsRead | violated |

The violated properties say what a document or a comment says; `PROJECT.json`
quotes it beside the code.

- **NoMinting.** A transaction its sender cannot pay is skipped, but its fee is
  credited to the producer.
- **NonceCountsSpends.** An account that is paid and later spends in the same
  block has its nonce restarted from 0.
- **TipSaved.** SetTip deadlocks on the chain's mutex. Every block accepted from
  a peer stops the node.
- **ShownOnce.** A request served between AppendBlock and Save shows a block
  that a crash takes back; the node then makes another for the same height.
- **DialledIsRead.** A connection the node dialled is registered twice; the
  second attempt closes it, so it is never read and its entry stays.

Other behaviour the modules have, which the properties state as their limits:

- A crash or error after ApplyBlock leaves the state one block ahead of the
  chain (DriftBounded counts them), and a block that could not be appended has
  its transactions executed again, since ApplyBlock looks at no nonce
  (NoReplay).
- Genesis over a database with blocks, and a replay, set nonces back:
  transactions executed before can be executed again (NoReplay ends there).
- A credit that wraps lowers a balance without a spend, and an amount and fee
  whose sum wraps pass every balance check (`Overflows` in SkipJustified).
- A node whose turn does not come, because the leader of the next height is away
  or it was joined and is no validator, never empties its pool (PoolDrains).
- A second genesis leaves the stake of a validator it no longer lists in the
  database, while docs/CONSENSUS_MODEL.md:116 wants list and stakes consistent
  (`dropped` in StakeMatchesList).
- After a block of a peer was accepted, the reader that delivered it, and those
  that are sent blocks later, keep their slots for good (ReaderCleansUp).
- Two overlapping -run can write genesis over blocks: one reads an absent
  chain.json, the other makes the chain, applies blocks and dies, and the first
  then opens the database (`raced` in GenesisOnce).
- No handler verifies a block's signature, although docs/SPEC.md:76 says that
  others reject a block its producer has not signed and docs/SECURITY.md:9 lists
  signatures. AppliedInTurn and SlashJustified are therefore about the validator
  a block names, not about who made it.
- A reorganisation replays the genesis validators, slashed ones included. Before
  one, a slashed validator gets blocks in only in the message that got them
  slashed, or when the list has become empty (SlashedShutOut).
- Equivocation in a message that does not extend the tip goes unnoticed;
  SlashJustified is about the converse only.
- A reorganisation rewrites files in place: each fault costs at most one
  readable block (DamageBounded).
- A start dies for good in two cases: chain.json was torn inside Save; or -init
  died with genesis.json but no key and -run was given next (Recovers).

### Bounds

- ledger: three accounts, blocks of up to two transactions, two blocks since
  genesis (`MaxLog`), replays of two blocks, two validator lists, one without a
  validator of the other. Two transactions are enough for a
  payment to enable a later spend, and two blocks for a stored nonce to be
  overwritten. `MaxUint` is 7, so that totals and credits wrap, while genesis
  issues 5 coins and leaves SupplyAccounted room for what blocks create.
- node, node_crash: chains up to height 3, one transaction per block, a pool of
  two, two faults (`MaxFaults`). Two faults give a failed save followed by a
  crash, and two crashes in a row.
- explorer: one reader, limits up to 2 on chains of up to four blocks, so that
  the limit cuts; one validator and no faults, since the reader's races are with
  the writers' steps. One received block claims its parent's height. A scan can
  find its file before the tip moves: without `Counted(out[1])`,
  ByHeightCanonical is violated.
- mempool: three accounts and two validators, of which the node is one; five
  transactions, among them one whose amount and fee exceed a word, one unsigned
  and one, in a peer's block, that is executed before its turn; a pool of three,
  blocks of two, two faults. Two faults make the tip unreadable and then meet
  the genesis applied because of it. `MaxUint` is 5, so that totals, credits and
  fees wrap. Without any one of the exceptions in NoReplay, SkipJustified and
  PoolDrains, or without `wrapped` in `fresh`, the run fails. `Cycle` is a
  multiple of every length the validator list can have, so a height modulo it
  has the same leader.
- peers: three connections and two slots, so that diallers compete for the last
  one; Peers messages of one address (`MaxList`).
- bootstrap: two deaths, three keys, one more than the deaths, and two -run. A
  third -run adds no new pair of commands that overlap.
- Deadlock is checked in run ledger. The others switch it off because the
  modelled part does stop: a node in SetTip or with a torn chain.json, a bounded
  set of blocks, connections, keys or deaths used up.

### Fairness

- Node: weak fairness of the producer and of the handler that holds `blockMu`.
  The ticker fires for as long as the process runs, and a goroutine that can run
  is scheduled. Nothing is assumed of peers or clients.
- Mempool: weak fairness of a running Add and of a replay, strong fairness of
  the producer, which competes with Add for the pool's mutex and with the
  handlers for `blockMu`. Go's mutex hands itself to a waiter that has starved
  for a millisecond.
- PeerSet: weak fairness of each goroutine; a dial ends after five seconds.
  Strong fairness of `ReadFails` on a closed connection: its reader may still
  find messages in its buffer and dial what they name, but the buffer is finite.
  Nothing is assumed of a stuck handler or of the greeting. Connections that
  never break are allowed.
- Bootstrap: commands finish unless they die; the operator repeats -init while
  the directory is unused (strong fairness, as -run in between disables it), and
  -run once there is a chain.

## The proofs

All hold for every value of the constants that satisfies the named assumptions
(finite sets, words, well-formed genesis and blocks), so for any number of
accounts, blocks, connections and faults.

| Theorem | States | Inductive invariant |
|---|---|---|
| TypeCorrect (Ledger) | TypeOK of Ledger: no debit underflows | TypeOK and `RestOK`: a replay in progress has blocks left |
| SupplyCorrect | SupplyAccounted | `SupplyInv`: inside the loop, the maps plus the fees set aside hold what the database holds plus what the block created |
| ModularCorrect | SupplyModular | `ModularInv`: the same difference is a multiple of the word size |
| StakeCorrect | StakeMatchesList | `StakeInv`: list, stakes and `dropped` agree in every batch, whichever list a genesis has |
| NonceCorrect | NonceAccounted | `NonceInv`: each entry of the nonces map is its starting value plus the transactions executed in this block |
| AnnouncedCorrect | AnnouncedOnce | `HeightInv`: what was broadcast is at most as high as the tip and as chain.json, and lower than the block being made |
| ClimbsCorrect | Node implements HeightLog | `HeightInv`; only `Announce` changes what was broadcast |
| SlashCorrect | SlashJustified | `SlashInv`: what doubleSignCheck remembers, and what a handler still has to look at, was received |
| TypeCorrect (Node) | TypeOK of Node | `TypeInv`: TypeOK and `ControlInv`, what a handler has in hand at each of its steps |
| LeaderCorrect | AppliedInTurn | `LeaderInv`: the list and the captured set are the configured ones, and a block is checked before it is written and applied |
| ShutCorrect | SlashedShutOut | `ShutInv`: no slashed validator is in the list |
| DurableCorrect | AnnouncedDurable | `AnnounceInv`: the chain to the tip in memory has the broadcast blocks too |
| StateCorrect | StateIsChain | `SoundInv`: the state at each step of producer, extension and replay; `MessageInv`: what the message at hand consists of |
| DriftCorrect | DriftBounded | `DriftInv`: the same bound for the tip in memory, which Save copies |
| DamageCorrect | DamageBounded | `DamageInv`: the same bound for the tip in memory; a file opened outside a reorganisation is new |
| ReplayCorrect | BalancesAreReplay | `LoopInv`: inside the loop the maps are `Course` and `Fees` of the transactions so far |
| AtomicCorrect | Ledger implements AtomicLedger | `LoopInv`; at Commit, maps and batch are `BlockOn` and `NonceOn` |
| PoolTypeCorrect | TypeOK of Mempool | `TypeInv`: the types, and what producer and handler have in hand at each of their steps |
| NoReplayCorrect | NoReplay | `PoolInv`: up to a replay, what the producer has executed is behind its sender's nonce, and is still in the pool when an Add with an older reading judges it |
| SkipCorrect | SkipJustified | `FundsInv`: the sender of a fresh transaction can pay it, and has at least what Add has read |
| SliceCorrect, LatestCorrect, ByHeightCorrect, ShownCorrect | AnswerIsSlice, ShowsLatest, ByHeightCanonical, ShownIsApplied | `TipInv`: heights along the chains of chain.json and of a readable tip count their blocks, and without faults every file is of the chain; `ReaderInv`: what a request has collected at each of its steps |
| BoundCorrect, OwnerCorrect, OrphanCorrect, StaleCorrect | PeersBounded, ReaderOwnsEntry, NoOpenOrphan, OnlyDialledStale | `TableInv`: an entry is that of its connection's address, and is being read or was dialled |
| GenesisOnceCorrect | GenesisOnce | `GenesisInv`: a database with blocks has a chain.json beside it, and while no two -run have overlapped the one that runs has seen it |
| BootstrapCorrect | Bootstrapped | `StoreInv`: each file agrees with those written before it; `KeyInv`: without -init-join every genesis has a key of this directory |

The supply argument rests on `SupplyUpdate`: changing one entry of a table
changes the number of coins by the difference, proved by splitting the coins
into those of one owner and the rest. `Multiple(x)` names a witness for the
modular form, because the provers do not reason about `%` of a variable.
AnnouncedOnce alone is not inductive: a crash resets the tip to chain.json, so
the invariant has to know that chain.json held a block before it was broadcast.

Facts about recursive functions (`PathTo`, `StateOf`, `Course`, `Fees`,
`Replay`, `Drop`) rest on **Recursion**. The provers cannot instantiate an
induction principle, so that module proves by least counterexample that a set
which contains 0 and is closed under successor contains every number (`Climb`),
and that a function which recurses along numbers or along a well-founded
predecessor exists (`ScanExists`, `RecursionExists`). Every recursive definition
then has a lemma that unfolds it once. LedgerProofs also proves quotient and
remainder (`Division`), which the nonces modulo the word size need.

NoReplay is not inductive by itself: Add judges by a nonce that may be older
than the block just executed. `PoolInv` says why that is harmless. Remove needs
the mutex Add holds, so a transaction executed after Add read its nonce is still
in the pool when Add looks for it there.

SkipJustified rests on `NoLoss`: along the transactions of a block, the balance
of an account that does not spend and whose credits do not wrap never falls. No
amount is excluded: totals wrap in Add and in ApplyBlock alike.

The readers' theorems need heights that count the chain, which nothing in the
code checks of a received block. They hold for every set of blocks because
SetTip never returns: once a received block is to become the tip, Chain.mu is
held for good, so every chain a reader can walk was made by the node itself or
read at start from files that were (`TipInv`). ByHeightCanonical is the one that
needs more, `Counted(out[1])`: the directory is scanned without the mutex, and a
received block's file is in it before the tip moves.

A leaf that names `Zenon` is one on which the SMT solver is slow or runs out of
time, and `SMTT(30)` marks the leaves that need it for longer. All proofs from
nothing take about three quarters of an hour.

Only model-checked is liveness, which the provers do not reach: PoolDrains,
ReaderCleansUp, Recovers, TipSaved, DialledIsRead.

## Limits of the properties

- DriftBounded is stated up to the first reorganisation: that rewrites the
  database in many batches, and the code does not recover from a crash inside
  it.
- AnnouncedDurable, DamageBounded and DriftBounded are stated for a chain.json
  that can be read. A crash inside Save leaves one that cannot, and the node
  does not start again.
- AppliedInTurn is stated while nobody is slashed and no chain is replayed. A
  replay does not check leaders, and after a slash the schedule is another.
- SupplyAccounted, SupplyModular, NonceAccounted and BalancesAreReplay count
  from the tables the last genesis left. They do not say that genesis over a
  database with blocks, or a replay cut short, leaves the right ones.
- The second halves of AnswerIsSlice and ShownIsApplied, and ByHeightCanonical,
  end with a reorganisation, which leaves the files of the old chain in place.
  ByHeightCanonical is also stated only for blocks whose heights count.
- Bootstrapped and Recovers are for directories that were not initialised again
  once they had a chain, and for commands that do not overlap. GenesisOnce
  allows an -init beside -run, but not two -run.
- The first block of a Blocks message that starts at genesis is never validated,
  so its hash is what the sender says and WriteBlock may write it over another
  block's file. Node takes a block as its own hash and leaves this out; `Linked`
  and DamageBounded do not see it.

## Not modelled

- Failed database reads, which ApplyBlock takes as 0: only a damaged database
  causes them, and no property survives a read that may return anything.
- Failure of SlashValidator's write and of signing; power failure (a dying
  process loses no completed write). A temporary file that a crash leaves behind
  is not followed further: it is read by scans only, and ByHeightCanonical ends
  with the first fault. Two -init at the same time.
- Two communicating nodes. Everything a peer can send is an input of Node, so
  safety does not need the second one; catching up as a liveness property fails
  at once, by SetTip's deadlock and by dialled connections that are never read.
  For the same reason the single request for blocks two seconds after start has
  no action.
- /status, /account and /metrics, which print values and change nothing.
- Hashes, signatures, Merkle roots and the JSON encoding: pure functions, ideal
  here. A block or transaction is its own hash, validity a constant set.
- keygen, send and the load generator: clients of the HTTP API.
