------------------------------ MODULE Mempool -------------------------------
(***************************************************************************)
(* The pool of pending transactions (package mempool) between those who    *)
(* fill it, HTTP clients and peers, and the producer that empties it.      *)
(*                                                                         *)
(* Mempool.Add holds m.mu and reads the account database twice, each time  *)
(* under State.mu only for the read; the producer writes the database in   *)
(* between without m.mu.  So Add is three steps here: the balance is read, *)
(* the nonce is read, the transaction is judged by both.  The database is  *)
(* the tables of BlockEffect and the list of validators.  The handlers of  *)
(* peers' messages write it too: they apply a block, replay a longer chain *)
(* from genesis (under State.mu), apply genesis once more, or slash.  One  *)
(* that gets to Chain.SetTip stays there, with blockMu held.               *)
(*                                                                         *)
(* Of the chain only what the producer asks for is kept: the height of the *)
(* tip and whether its file can be read.                                   *)
(*                                                                         *)
(* An unused operator just before the one it resembles is a mistake the    *)
(* code might have made; the properties must tell the two apart.           *)
(***************************************************************************)
EXTENDS BlockEffect, Consensus, Functions

CONSTANTS
  Tx,          \* transactions [from, to, amount, fee, nonce]; one is its own hash
  Signed,      \* those whose signature verifies
  Allocation,  \* balances in genesis, a function from a set of addresses
  Validators,  \* the validators in genesis, in order
  Self,        \* address of the producer
  PeerBlock,   \* blocks [validator, txs] of peers
  Chain,       \* chains of peers, the genesis block left out
  Cycle,       \* heights are kept modulo Cycle: only the leader depends on them
  MinFee,      \* config.MinFee
  MaxPool,     \* Mempool.max
  MaxPending,  \* transactions per block, 100 in the code
  MaxFaults,   \* bound: crashes and failed writes
  NoTx         \* no transaction

ASSUME MempoolAssumption ==
  /\ MaxUint \in Nat
  /\ Signed \subseteq Tx /\ NoTx \notin Tx /\ Self \in Addr
  /\ DOMAIN Allocation \subseteq Addr /\ \A a \in DOMAIN Allocation : Allocation[a] \in Word
  /\ Validators \in Seq(Addr)
  /\ Cycle \in Nat \ {0} /\ \A n \in 1 .. Len(Validators) : Cycle % n = 0
  /\ Tx \subseteq [from : Addr, to : Addr, amount : Word, fee : Word, nonce : Word]
  /\ \A b \in PeerBlock : b.validator \in Addr /\ b.txs \in Seq(Tx)
  /\ \A c \in Chain : c \in Seq(PeerBlock) /\ c # <<>>
  /\ MaxPool \in Nat \ {0} /\ MaxPending \in Nat \ {0} /\ MaxFaults \in Nat

VARIABLES
  balance, nonce, list,  \* the database
  height, saved,         \* height of the tip, in memory and in chain.json
  readable,              \* the tip's file can be read
  pool,                  \* Mempool.txs
  apc, tx, bal, non,     \* Add: its transaction and what it has read
  ppc, txs,              \* the producer and the transactions of its block
  hpc, todo,             \* the handler of a message and the blocks it replays
  \* history: peers' blocks that have a file; transactions executed by the
  \* producer's blocks, the last one's apart until it is appended; pooled
  \* transactions whose sender has executed nothing, has received nothing that
  \* wrapped around and has not been reset since Add read the balance; senders
  \* whose nonce did not grow when they spent; whether genesis has been
  \* applied again or a chain replayed; faults so far
  had, executed, lately, fresh, forgot, reorged, faults

db       == <<balance, nonce, list>>
chain    == <<height, saved, readable>>
adder    == <<apc, tx, bal, non>>
producer == <<ppc, txs>>
handler  == <<hpc, todo>>
history  == <<had, executed, lately, fresh, forgot, reorged, faults>>
vars     == <<db, chain, pool, adder, producer, handler, history>>

\* Genesis on a table of balances and on one of nonces.
Allocate(f) == [a \in Addr |-> IF a \in DOMAIN Allocation THEN Allocation[a] ELSE f[a]]
ZeroAllocated(f) == [a \in Addr |-> IF a \in DOMAIN Allocation THEN 0 ELSE f[a]]

Init ==
  /\ balance = Allocate(Zeros) /\ nonce = Zeros /\ list = Validators
  /\ height = 0 /\ saved = 0 /\ readable = TRUE
  /\ pool = <<>>
  /\ apc = "idle" /\ tx = NoTx /\ bal = 0 /\ non = 0
  /\ ppc = "idle" /\ txs = <<>> /\ hpc = "idle" /\ todo = <<>>
  /\ had = {} /\ executed = {} /\ lately = {} /\ fresh = {} /\ forgot = {}
  /\ reorged = FALSE /\ faults = 0

\* ResetAndReplay holds State.mu; a handler that got to SetTip holds blockMu
\* for good.
StateMuFree == hpc \notin {"genesis", "replay"}
BlockMuFree == ppc = "idle" /\ hpc = "idle"
Stuck == hpc = "stuck"

-----------------------------------------------------------------------------
(* Add, called by POST /tx and for every NewTx message.  A transaction may *)
(* come with a nonce its sender fetched long ago or counted ahead, and any *)
(* number of times: peers relay what they accept.                          *)

\* Lock m.mu; room, signature and fee are checked before the state is asked.
Add(t) ==
  /\ apc = "idle" /\ StateMuFree
  /\ Len(pool) < MaxPool /\ t \in Signed /\ t.fee >= MinFee
  /\ apc' = "nonce" /\ tx' = t /\ bal' = balance[t.from]
  /\ fresh' = IF t \in Range(pool) THEN fresh ELSE fresh \cup {t}
  /\ UNCHANGED <<db, chain, pool, non, producer, handler,
                 had, executed, lately, forgot, reorged, faults>>

ReadNonce ==
  /\ apc = "nonce" /\ StateMuFree
  /\ apc' = "check" /\ non' = nonce[tx.from]
  /\ UNCHANGED <<db, chain, pool, tx, bal, producer, handler, history>>

AdmitsUnpaidFee == tx.nonce = non /\ bal >= tx.amount /\ tx \notin Range(pool)
AdmitsDuplicate == tx.nonce = non /\ bal >= TxTotal(tx)
Admits == tx.nonce = non /\ bal >= TxTotal(tx) /\ tx \notin Range(pool)

\* Append or refuse, and unlock.
CheckTx ==
  /\ apc = "check"
  /\ pool' = IF Admits THEN Append(pool, tx) ELSE pool
  /\ fresh' = fresh \cap Range(pool')
  /\ apc' = "idle" /\ tx' = NoTx /\ bal' = 0 /\ non' = 0
  /\ UNCHANGED <<db, chain, producer, handler, had, executed, lately, forgot, reorged, faults>>

-----------------------------------------------------------------------------
(* Blocks. *)

Ran(b) == {i \in DOMAIN b.txs : Executes(balance, b.txs, i)}

\* The balances after the i-th transaction; the credit of the next one, or of
\* the fees, is more than a word holds.
After(b, i) == Course(balance, b.txs)[i]
Overflows(b, i) == After(b, i-1)[b.txs[i].to] + b.txs[i].amount > MaxUint
FeesOverflow(b) == After(b, Len(b.txs))[b.validator] + Fees(b.txs)[Len(b.txs)] > MaxUint

\* State.ApplyBlock.  It looks at no transaction's nonce.
ApplyBlock(b) ==
  /\ balance' = BlockOn(balance, b)
  /\ nonce' = NonceOn(balance, nonce, b)
  /\ UNCHANGED list
  /\ LET spenders == {b.txs[i].from : i \in Ran(b)}
         wrapped  == {b.txs[i].to : i \in {j \in Ran(b) : Overflows(b, j)}}
                     \cup {x \in {b.validator} : FeesOverflow(b)}
     IN  /\ fresh' = {t \in fresh : t.from \notin spenders \cup wrapped}
         /\ forgot' = forgot \cup {a \in spenders : nonce'[a] <= nonce[a]}

\* Mempool.Remove.
NotIn(included) == Drop(pool, Range(included))

Leads == MayProduce(list, (height + 1) % Cycle, Self)

\* One turn of the ticker takes the oldest transactions; Pending and Remove
\* wait for m.mu.
Oldest == SubSeq(pool, 1, IF MaxPending > Len(pool) THEN Len(pool) ELSE MaxPending)
ProduceFullBlocks ==
  /\ BlockMuFree /\ readable /\ Leads /\ apc = "idle" /\ Len(pool) >= MaxPending
  /\ ppc' = "apply" /\ txs' = Oldest
  /\ UNCHANGED <<db, chain, pool, adder, handler, history>>
Produce ==
  /\ BlockMuFree /\ readable /\ Leads /\ apc = "idle" /\ pool # <<>>
  /\ ppc' = "apply" /\ txs' = Oldest
  /\ UNCHANGED <<db, chain, pool, adder, handler, history>>

OwnBlock == [validator |-> Self, txs |-> txs]

ProducerApply ==
  /\ ppc = "apply"
  /\ ApplyBlock(OwnBlock)
  /\ lately' = {txs[i] : i \in Ran(OwnBlock)}
  /\ ppc' = "append"
  /\ UNCHANGED <<chain, pool, adder, txs, handler, had, executed, reorged, faults>>

AppendBlock ==
  /\ ppc = "append"
  /\ height' = (height + 1) % Cycle /\ saved' = height'
  /\ executed' = executed \cup lately /\ lately' = {}
  /\ ppc' = "remove"
  /\ UNCHANGED <<db, readable, pool, adder, txs, handler, had, fresh, forgot, reorged, faults>>

\* A mistake: Remove does not wait for an Add that is reading the state.
RemoveDuringAdd ==
  /\ ppc = "remove"
  /\ pool' = NotIn(txs)
  /\ fresh' = fresh \cap Range(pool')
  /\ ppc' = "idle" /\ txs' = <<>>
  /\ UNCHANGED <<db, chain, adder, handler, had, executed, lately, forgot, reorged, faults>>
RemoveIncluded ==
  /\ ppc = "remove" /\ apc = "idle"
  /\ pool' = NotIn(txs)
  /\ fresh' = fresh \cap Range(pool')
  /\ ppc' = "idle" /\ txs' = <<>>
  /\ UNCHANGED <<db, chain, adder, handler, had, executed, lately, forgot, reorged, faults>>

-----------------------------------------------------------------------------
(* Messages from peers. *)

\* A block that extends the tip is accepted: it is applied, its transactions
\* stay in the pool.  It claims a height, which nobody compares with the tip's,
\* and must name the leader of that height.  An error of WriteBlock is ignored.
NewBlock(b) ==
  /\ BlockMuFree /\ readable /\ b \notin had
  /\ list # <<>> => b.validator \in Range(list)
  /\ ApplyBlock(b)
  /\ hpc' = "stuck" /\ had' \in {had, had \cup {b}}
  /\ UNCHANGED <<chain, pool, adder, producer, todo, executed, lately, reorged, faults>>

\* Two blocks for one height that name the same validator.
Slash(v) ==
  /\ BlockMuFree /\ v \in Range(list)
  /\ list' = Without(list, v)
  /\ UNCHANGED <<balance, nonce, chain, pool, adder, producer, handler, history>>

\* The database will not go on from here.
Rewinds == reorged' = TRUE /\ executed' = {} /\ forgot' = {}

\* A longer chain: its files are rewritten, ResetAndReplay comes next.
Blocks(c) ==
  /\ BlockMuFree /\ readable
  /\ hpc' = "reset" /\ todo' = c
  /\ had' = had \cup Range(c)
  /\ Rewinds
  /\ UNCHANGED <<db, chain, pool, adder, producer, lately, fresh, faults>>

Reset ==
  /\ hpc = "reset"
  /\ balance' = Zeros /\ nonce' = Zeros /\ list' = <<>> /\ fresh' = {}
  /\ hpc' = "genesis"
  /\ UNCHANGED <<chain, pool, adder, producer, todo,
                 had, executed, lately, forgot, reorged, faults>>

\* Genesis, over whatever the database holds.
WriteGenesis ==
  /\ balance' = Allocate(balance) /\ nonce' = ZeroAllocated(nonce)
  /\ list' = IF Validators = <<>> THEN list ELSE Validators
  /\ fresh' = {}

ReplayGenesis ==
  /\ hpc = "genesis"
  /\ WriteGenesis
  /\ hpc' = "replay"
  /\ UNCHANGED <<chain, pool, adder, producer, todo,
                 had, executed, lately, forgot, reorged, faults>>

ReplayBlock ==
  /\ hpc = "replay"
  /\ ApplyBlock(Head(todo))
  /\ todo' = Tail(todo)
  /\ hpc' = IF Len(todo) = 1 THEN "stuck" ELSE "replay"
  /\ UNCHANGED <<chain, pool, adder, producer, had, executed, lately, reorged, faults>>

\* Blocks from genesis on, and the tip cannot be read: genesis is applied to
\* the database the node has, and its block, which is empty.
SyncGenesis ==
  /\ BlockMuFree /\ ~readable
  /\ WriteGenesis
  /\ hpc' = "stuck"
  /\ Rewinds
  /\ UNCHANGED <<chain, pool, adder, producer, todo, had, lately, faults>>

-----------------------------------------------------------------------------
(* Failures. *)

Fault ==
  /\ faults < MaxFaults
  /\ faults' = faults + 1

\* ApplyBlock or AppendBlock returns an error: the producer unlocks and the
\* transactions stay in the pool.  AppendBlock may have moved the tip.
ProducerFails ==
  /\ ppc \in {"apply", "append"}
  /\ Fault
  /\ \/ UNCHANGED height
     \/ ppc = "append" /\ height' = (height + 1) % Cycle
  /\ ppc' = "idle" /\ txs' = <<>> /\ lately' = {}
  /\ UNCHANGED <<db, saved, readable, pool, adder, handler, had, executed, fresh, forgot, reorged>>

\* ResetAndReplay returns an error, possibly after one of WriteBlock, ignored,
\* that cost the file of the tip.
HandlerFails ==
  /\ hpc \in {"reset", "genesis", "replay"}
  /\ Fault
  /\ hpc' = "idle" /\ todo' = <<>>
  /\ readable' \in BOOLEAN
  /\ UNCHANGED <<db, height, saved, pool, adder, producer,
                 had, executed, lately, fresh, forgot, reorged>>

\* An error of ApplyGenesis is ignored; one of ApplyBlock ends the message when
\* genesis is already in the database.
SyncFails ==
  /\ BlockMuFree /\ ~readable
  /\ Fault
  /\ \/ UNCHANGED <<db, fresh, readable>> /\ hpc' = "stuck"
     \/ WriteGenesis /\ readable' \in BOOLEAN /\ UNCHANGED hpc
  /\ Rewinds
  /\ UNCHANGED <<height, saved, pool, adder, producer, todo, had, lately>>

\* The process dies and starts again: the pool is gone, the tip is the one in
\* chain.json.  A rewrite of the files may have left it unreadable.
Crash ==
  /\ Fault
  /\ pool' = <<>> /\ fresh' = {}
  /\ apc' = "idle" /\ tx' = NoTx /\ bal' = 0 /\ non' = 0
  /\ ppc' = "idle" /\ txs' = <<>> /\ hpc' = "idle" /\ todo' = <<>>
  /\ executed' = executed \cup lately /\ lately' = {}
  /\ height' = saved
  /\ readable' \in IF reorged THEN BOOLEAN ELSE {readable}
  /\ UNCHANGED <<db, saved, had, forgot, reorged>>

ProducerStep == Produce \/ ProducerApply \/ AppendBlock \/ RemoveIncluded
AddStep == ReadNonce \/ CheckTx
HandlerStep == Reset \/ ReplayGenesis \/ ReplayBlock

Next ==
  \/ \E t \in Tx : Add(t)
  \/ AddStep
  \/ ProducerStep
  \/ \E b \in PeerBlock : NewBlock(b)
  \/ \E v \in Addr : Slash(v)
  \/ \E c \in Chain : Blocks(c)
  \/ SyncGenesis
  \/ HandlerStep
  \/ ProducerFails \/ HandlerFails \/ SyncFails \/ Crash

Spec == Init /\ [][Next]_vars

\* A call of Add and a replay run to their ends.  The producer gets m.mu and
\* blockMu although Add and the handlers take them again and again: a blocked
\* Lock keeps new holders of a Go mutex out.
FairSpec == Spec /\ WF_vars(AddStep) /\ WF_vars(HandlerStep) /\ SF_vars(ProducerStep)

-----------------------------------------------------------------------------
(* Properties. *)

TypeOK ==
  /\ balance \in [Addr -> Word] /\ nonce \in [Addr -> Word] /\ list \in Seq(Addr)
  /\ height \in 0 .. Cycle - 1 /\ saved \in 0 .. Cycle - 1 /\ readable \in BOOLEAN
  /\ pool \in Seq(Tx) /\ Len(pool) <= MaxPool /\ IsInjective(pool)
  /\ apc \in {"idle", "nonce", "check"} /\ tx \in Tx \cup {NoTx} /\ bal \in Word /\ non \in Word
  /\ ppc \in {"idle", "apply", "append", "remove"} /\ txs \in Seq(Tx)
  /\ hpc \in {"idle", "reset", "genesis", "replay", "stuck"} /\ todo \in Seq(PeerBlock)
  /\ had \subseteq PeerBlock /\ executed \subseteq Tx /\ lately \subseteq Tx /\ fresh \subseteq Tx
  /\ forgot \subseteq Addr /\ reorged \in BOOLEAN /\ faults \in 0 .. MaxFaults

\* ApplyBlock does not look at nonces, so a transaction executed twice is kept
\* out by Add alone, whose reads race with the producer and with copies of
\* the transaction that peers relay.  Add succeeds at that: what a block of the
\* producer has executed, no later one executes again, crash or not.  Three
\* exceptions: a block that could not be appended, whose transactions are still
\* in the pool; a sender whose nonce did not grow when they spent; and a
\* database that has been reset or given genesis a second time.  What a peer's
\* block has executed does not count: if that was before its turn, Add will
\* still admit it.
NoReplay ==
  [][ppc = "apply" /\ ppc' = "append" /\ ~reorged =>
       \A i \in Ran(OwnBlock) : txs[i].from \in forgot \/ txs[i] \notin executed]_vars

\* "Block application may skip invalid txs but mempool only holds valid ones"
\* (docs/ARCHITECTURE.md), as far as it is true: a pooled transaction that the
\* producer's block skips had its sender spend since Add read the balance, in
\* an earlier block or earlier in this one, or receive more than a uint64 holds.
SkipJustified ==
  [][ppc = "apply" /\ ppc' = "append" =>
       \A i \in DOMAIN txs \ Ran(OwnBlock) :
         \/ txs[i] \notin fresh
         \/ \E j \in Ran(OwnBlock) :
              /\ j < i
              /\ txs[i].from = txs[j].from \/ (txs[i].from = txs[j].to /\ Overflows(OwnBlock, j))]_vars

\* No transaction stays in the pool for ever: it leaves, executed or not, unless
\* the node stops producing, because a peer's block has stopped it, another
\* validator's turn has come or the file of the tip is damaged.
PoolDrains ==
  \A t \in Signed : []<>(t \notin Range(pool) \/ Stuck \/ ~Leads \/ ~readable)
=============================================================================
