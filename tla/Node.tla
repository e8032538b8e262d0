-------------------------------- MODULE Node --------------------------------
(***************************************************************************)
(* One node: the block producer, the handlers of the blocks that peers     *)
(* send, and the files and database they share (cmd/node/main.go with      *)
(* core/chain.go).                                                         *)
(*                                                                         *)
(* The producer and the handlers exclude each other through blockMu, which *)
(* is held exactly while one of them is past its first step; requests for  *)
(* blocks and new transactions need no blockMu and interleave with both.   *)
(* Each step is one write to a file or one database batch, so that a crash *)
(* or a failed write can fall between any two.  The process may die, the   *)
(* operating system does not: what was written stays written.              *)
(*                                                                         *)
(* A block is its own hash, and its field prev is its parent.  The account *)
(* database is abstracted to the list of blocks applied to it, headed by   *)
(* Genesis for the genesis batch; module Ledger has the accounts.          *)
(*                                                                         *)
(* An unused operator just before the one it resembles is a mistake the    *)
(* code might have made; the properties must tell the two apart.           *)
(***************************************************************************)
EXTENDS Consensus, FiniteSets, Functions

CONSTANTS
  Addr, Self,    \* addresses, and the node's own
  Validators,    \* genesis validators in order, those below MinStake left out
  Tx,            \* transactions
  Block,         \* bound: the blocks [height, prev, validator, txs, time] there are
  Genesis,       \* the genesis block
  ZeroHash,      \* its prev
  Valid,         \* blocks whose hash and Merkle root are right
  Deliver,       \* blocks peers announce
  Batch,         \* block sequences peers send in a Blocks message
  MaxPending,    \* transactions per block, 100 in the code
  MaxPool,       \* Mempool.max
  MaxFaults,     \* bound: crashes and failed writes
  Torn           \* content of chain.json between truncation and write

ASSUME BlockAssumption ==
  /\ \A b \in Block : b.height \in Nat /\ b.validator \in Addr /\ b.txs \in Seq(Tx)
  /\ Genesis \in Block /\ Genesis.height = 0 /\ Genesis.prev = ZeroHash /\ Genesis.txs = <<>>
  /\ Torn \notin Block /\ ZeroHash \notin Block
  /\ Valid \subseteq Block /\ Deliver \subseteq Block
  /\ Batch \subseteq Seq(Block) /\ <<>> \notin Batch
\* A block holds the hash of its predecessor, so it is not its own ancestor.
ASSUME ChainAssumption == \A S \in SUBSET Block : S # {} => \E b \in S : b.prev \notin S
ASSUME NodeAssumption ==
  /\ Self \in Addr /\ Validators \in Seq(Addr)
  /\ MaxPending \in Nat \ {0} /\ MaxPool \in Nat /\ MaxFaults \in Nat

VARIABLES
  \* disk: readable block files; the tip in chain.json; the blocks applied to
  \* the state database and its validator list
  files, meta, applied, validatorList,
  \* memory: Chain.LastHash, the mempool, doubleSignCheck (first block seen
  \* for each height and validator)
  up, tip, pool, seen,
  \* the producer and the block it is making
  ppc, pb,
  \* the handler holding blockMu: the validator set it captured, the message
  \* and the blocks of it still to be handled
  hpc, set, batch, todo,
  \* history: own blocks broadcast, blocks sent on request, blocks
  \* received, validators slashed, whether a replay has begun, faults so far
  announced, served, received, slashed, reorged, faults

disk     == <<files, meta, applied, validatorList>>
memory   == <<tip, pool, seen>>
producer == <<ppc, pb>>
handler  == <<hpc, set, batch, todo>>
history  == <<announced, served, received, slashed, reorged, faults>>
vars     == <<disk, up, memory, producer, handler, history>>

-----------------------------------------------------------------------------
\* blockMu is free.  The producer broadcasts after releasing it.
BlockMuFree == ppc \in {"idle", "bcast"} /\ hpc = "idle"

\* SetTip never returns (see there) and holds Chain.mu, which every read of
\* the chain needs.
ChainMuFree == hpc # "stuck"

HasBlock(b) == b \in files
ValidateBlock(b) == b \in Valid

\* Chain.LastBlock returns a block.
LastReadable == HasBlock(tip)

Pending(n) == SubSeq(pool, 1, IF n > Len(pool) THEN Len(pool) ELSE n)
NotIn(txs) == Drop(pool, Range(txs))

\* ApplyBlock on the list of applied blocks.  A block without transactions
\* (the genesis block is one) leaves the accounts as they are.
Apply(list, b) == IF b.txs = <<>> THEN list ELSE Append(list, b)

AcceptableFromAnyone(b, list) == ValidateBlock(b) /\ ~HasBlock(b)
Acceptable(b, list) == ValidateBlock(b) /\ ~HasBlock(b) /\ VerifyBlockValidator(list, b)

SeenBefore(b) == \E s \in seen : s.height = b.height /\ s.validator = b.validator
Equivocates(b) ==
  \E s \in seen : s.height = b.height /\ s.validator = b.validator /\ s # b

\* The blocks from genesis to b, along PreviousHash.
PathTo[b \in Block] == IF b.prev \in Block THEN Append(PathTo[b.prev], b) ELSE <<b>>

\* The heights along the chain to b count its blocks.  Those of blocks the node
\* makes do; of a received block main.go does not compare it with its parent's.
Counted(b) == \A i \in DOMAIN PathTo[b] : PathTo[b][i].height = i - 1

\* After -init: the genesis block is on disk and applied.
Init ==
  /\ files = {Genesis} /\ meta = Genesis /\ applied = <<Genesis>>
  /\ validatorList = Validators
  /\ up = TRUE /\ tip = Genesis /\ pool = <<>> /\ seen = {}
  /\ ppc = "idle" /\ pb = Genesis
  /\ hpc = "idle" /\ set = <<>> /\ batch = <<>> /\ todo = <<>>
  /\ announced = {} /\ served = {} /\ received = {} /\ slashed = {}
  /\ reorged = FALSE /\ faults = 0

-----------------------------------------------------------------------------
(* Transactions and requests. *)

\* Mempool.Add takes a transaction: there is room, its nonce is not stale (it
\* is once a block that holds the transaction is applied), it is not there yet.
\* Tx stands for transactions that execute when included and whose senders
\* keep their nonces; module Ledger has the others.
AddsDuplicate(t) ==
  Len(pool) < MaxPool /\ \A i \in DOMAIN applied : t \notin Range(applied[i].txs)
Admits(t) ==
  /\ Len(pool) < MaxPool
  /\ \A i \in DOMAIN applied : t \notin Range(applied[i].txs)
  /\ t \notin Range(pool)

\* A transaction from HTTP or a peer.
AddTx(t) ==
  /\ up
  /\ Admits(t)
  /\ pool' = Append(pool, t)
  /\ UNCHANGED <<disk, up, tip, seen, producer, handler, history>>

\* A peer asks for the blocks from a height on and gets them, if every file
\* Chain.GetBlocksFrom meets on its walk down from the tip can be read.
GetBlocks(from) ==
  /\ up /\ ChainMuFree
  /\ LET sent == {b \in Range(PathTo[tip]) : b.height >= from}
     IN  sent \subseteq files /\ served' = served \cup sent
  /\ UNCHANGED <<disk, up, memory, producer, handler,
                 announced, received, slashed, reorged, faults>>

-----------------------------------------------------------------------------
(* The producer loop: one turn of the ticker. *)

Produce ==
  /\ up /\ ppc = "idle" /\ hpc = "idle"
  /\ LastReadable
  /\ MayProduce(validatorList, tip.height + 1, Self)
  /\ pool # <<>>
  /\ \E b \in Block :
       /\ b.height = tip.height + 1 /\ b.prev = tip
       /\ b.validator = Self /\ b.txs = Pending(MaxPending)
       /\ pb' = b
  /\ ppc' = "apply"
  /\ UNCHANGED <<disk, up, memory, handler, history>>

\* A mistake: an error of ApplyBlock is ignored.
AppendsUnapplied ==
  /\ ppc = "apply"
  /\ ppc' = "append"
  /\ UNCHANGED <<disk, up, memory, pb, handler, history>>
ProducerApply ==
  /\ ppc = "apply"
  /\ applied' = Apply(applied, pb)
  /\ ppc' = "append"
  /\ UNCHANGED <<files, meta, validatorList, up, memory, pb, handler, history>>

\* Two mistakes: no Save, and a block file that never gets its name.
AppendBlockNoSave ==
  /\ ppc = "append"
  /\ files' = files \cup {pb} /\ tip' = pb /\ ppc' = "remove"
  /\ UNCHANGED <<meta, applied, validatorList, up, pool, seen, pb, handler, history>>
AppendBlockNoRename ==
  /\ ppc = "append"
  /\ tip' = pb /\ ppc' = "truncate"
  /\ UNCHANGED <<disk, up, pool, seen, pb, handler, history>>

\* AppendBlock up to its Unlock: the block file appears by rename, then the
\* tip moves in memory.
AppendBlock ==
  /\ ppc = "append"
  /\ files' = files \cup {pb}
  /\ tip' = pb
  /\ ppc' = "truncate"
  /\ UNCHANGED <<meta, applied, validatorList, up, pool, seen, pb, handler, history>>

\* Save: os.WriteFile truncates chain.json and then writes it.
SaveTruncate ==
  /\ ppc = "truncate"
  /\ meta' = Torn
  /\ ppc' = "save"
  /\ UNCHANGED <<files, applied, validatorList, up, memory, pb, handler, history>>

SaveWrite ==
  /\ ppc = "save"
  /\ meta' = tip
  /\ ppc' = "remove"
  /\ UNCHANGED <<files, applied, validatorList, up, memory, pb, handler, history>>

RemoveIncluded ==
  /\ ppc = "remove"
  /\ pool' = NotIn(pb.txs)
  /\ ppc' = "bcast"
  /\ UNCHANGED <<disk, up, tip, seen, pb, handler, history>>

Announce ==
  /\ ppc = "bcast"
  /\ announced' = announced \cup {pb}
  /\ ppc' = "idle" /\ pb' = Genesis
  /\ UNCHANGED <<disk, up, memory, handler, served, received, slashed, reorged, faults>>

-----------------------------------------------------------------------------
(* Blocks from peers. *)

\* With no list in the database nothing is written.
SlashValidator(v) ==
  /\ validatorList' = Without(validatorList, v)
  /\ slashed' = IF validatorList = <<>> THEN slashed ELSE slashed \cup {v}

NewBlock(b) ==
  /\ up /\ BlockMuFree
  /\ received' = received \cup {b}
  /\ \/ /\ ~Acceptable(b, validatorList)
        /\ UNCHANGED <<validatorList, slashed, seen, hpc, batch, todo>>
     \/ /\ Acceptable(b, validatorList) /\ Equivocates(b)
        /\ SlashValidator(b.validator)
        /\ UNCHANGED <<seen, hpc, batch, todo>>
     \/ /\ Acceptable(b, validatorList) /\ ~Equivocates(b)
        /\ seen' = seen \cup {b}
        /\ IF LastReadable /\ b.prev = tip
           THEN hpc' = "open" /\ batch' = <<b>> /\ todo' = <<b>>
           ELSE UNCHANGED <<hpc, batch, todo>>
        /\ UNCHANGED <<validatorList, slashed>>
  /\ UNCHANGED <<files, meta, applied, up, tip, pool, producer, set,
                 announced, served, reorged, faults>>

\* The block that a message would make the tip.
Newest(bs) == bs[Len(bs)]

Linked(bs) == \A i \in 2 .. Len(bs) : bs[i].prev = bs[i-1] /\ ValidateBlock(bs[i])
FromGenesis(bs) == Head(bs).height = 0 /\ Head(bs).prev = ZeroHash

\* The three branches of the Blocks handler, and the case none applies (the
\* answer GetBlocks(0) changes nothing here).
Extends(bs)  == LastReadable /\ Head(bs).prev = tip
FirstSync(bs) == ~LastReadable /\ FromGenesis(bs) /\ ValidateBlock(Head(bs))
Longer(bs)   == /\ LastReadable /\ ~Extends(bs) /\ Linked(bs) /\ FromGenesis(bs)
                /\ Newest(bs).height > tip.height

Blocks(bs) ==
  /\ up /\ BlockMuFree
  /\ received' = received \cup Range(bs)
  /\ \/ Extends(bs) /\ hpc' = "sync" /\ set' = validatorList /\ batch' = bs /\ todo' = bs
     \/ /\ FirstSync(bs)
        /\ hpc' = "regenesis" /\ batch' = <<Head(bs)>> /\ todo' = batch'
        /\ UNCHANGED set
     \/ Longer(bs) /\ hpc' = "reopen" /\ batch' = bs /\ todo' = bs /\ UNCHANGED set
     \/ ~Extends(bs) /\ ~FirstSync(bs) /\ ~Longer(bs) /\ UNCHANGED handler
  /\ UNCHANGED <<disk, up, memory, producer, announced, served, slashed, reorged, faults>>

\* The message is done with: unlock.
Release == hpc' = "idle" /\ set' = <<>> /\ batch' = <<>> /\ todo' = <<>>

\* One turn of the loop over a batch that extends the tip.  The set is the
\* one captured before the loop.
SyncStep ==
  /\ hpc = "sync"
  /\ \/ /\ todo = <<>>
        /\ Release
        /\ UNCHANGED <<validatorList, slashed, seen>>
     \/ /\ todo # <<>> /\ ~Acceptable(Head(todo), set)
        /\ todo' = Tail(todo)
        /\ UNCHANGED <<validatorList, slashed, seen, hpc, set, batch>>
     \/ /\ todo # <<>> /\ Acceptable(Head(todo), set) /\ Equivocates(Head(todo))
        /\ SlashValidator(Head(todo).validator)
        /\ todo' = Tail(todo)
        /\ UNCHANGED <<seen, hpc, set, batch>>
     \/ /\ todo # <<>> /\ Acceptable(Head(todo), set) /\ ~Equivocates(Head(todo))
        /\ seen' = seen \cup {Head(todo)}
        /\ IF Head(todo).prev = tip
           THEN hpc' = "open" /\ batch' = <<Head(todo)>> /\ UNCHANGED <<set, todo>>
           ELSE Release
        /\ UNCHANGED <<validatorList, slashed>>
  /\ UNCHANGED <<files, meta, applied, up, tip, pool, producer,
                 announced, served, received, reorged, faults>>

\* Second branch: genesis is written over whatever the database holds.
ReapplyGenesis ==
  /\ hpc = "regenesis"
  /\ applied' = Append(applied, Genesis)
  /\ validatorList' = IF Validators = <<>> THEN validatorList ELSE Validators
  /\ hpc' = "open"
  /\ reorged' = TRUE
  /\ UNCHANGED <<files, meta, up, memory, producer, set, batch, todo,
                 announced, served, received, slashed, faults>>

\* WriteBlock truncates the file, if there is one, and writes it.
WriteOpen ==
  /\ hpc \in {"open", "reopen"}
  /\ files' = files \ {Head(todo)}
  /\ hpc' = IF hpc = "open" THEN "write" ELSE "rewrite"
  /\ reorged' = (reorged \/ hpc = "reopen")
  /\ UNCHANGED <<meta, applied, validatorList, up, memory, producer, set, batch, todo,
                 announced, served, received, slashed, faults>>

\* A block that extends the tip is applied next; a longer chain is written
\* as a whole first.
AfterWrite ==
  \/ hpc \in {"open", "write"} /\ hpc' = "apply" /\ UNCHANGED todo
  \/ /\ hpc \in {"reopen", "rewrite"}
     /\ hpc' = IF Len(todo) = 1 THEN "reset" ELSE "reopen"
     /\ todo' = IF Len(todo) = 1 THEN batch ELSE Tail(todo)

WriteBlock ==
  /\ hpc \in {"write", "rewrite"}
  /\ files' = files \cup {Head(todo)}
  /\ AfterWrite
  /\ UNCHANGED <<meta, applied, validatorList, up, memory, producer, set, batch, history>>

ApplyBlock ==
  /\ hpc = "apply"
  /\ applied' = Apply(applied, Head(todo))
  /\ hpc' = "setTip"
  /\ UNCHANGED <<files, meta, validatorList, up, memory, producer, set, batch, todo, history>>

\* ResetAndReplay: the database is emptied, genesis is applied, then each
\* block in order.
ResetNothing ==
  /\ hpc = "reset"
  /\ hpc' = "genesis"
  /\ UNCHANGED <<disk, up, memory, producer, set, batch, todo, history>>
Reset ==
  /\ hpc = "reset"
  /\ applied' = <<>> /\ validatorList' = <<>>
  /\ hpc' = "genesis"
  /\ UNCHANGED <<files, meta, up, memory, producer, set, batch, todo, history>>

ReplayGenesis ==
  /\ hpc = "genesis"
  /\ applied' = Append(applied, Genesis) /\ validatorList' = Validators
  /\ hpc' = "replay"
  /\ UNCHANGED <<files, meta, up, memory, producer, set, batch, todo, history>>

ReplayBlock ==
  /\ hpc = "replay"
  /\ applied' = Apply(applied, Head(todo))
  /\ todo' = Tail(todo)
  /\ hpc' = IF Len(todo) = 1 THEN "setTip" ELSE "replay"
  /\ UNCHANGED <<files, meta, validatorList, up, memory, producer, set, batch, history>>

\* SetTip takes Chain.mu, moves the tip in memory and calls Save, which waits
\* for the same mutex.  The handler never gets further: chain.json is not
\* written, Chain.mu and blockMu stay held.
SetTip ==
  /\ hpc = "setTip"
  /\ tip' = Newest(batch)
  /\ hpc' = "stuck"
  /\ UNCHANGED <<disk, up, pool, seen, producer, set, batch, todo, history>>

-----------------------------------------------------------------------------
(* Failures. *)

Fault ==
  /\ faults < MaxFaults
  /\ faults' = faults + 1
  /\ UNCHANGED <<announced, served, received, slashed>>

SaveErrorIgnored ==
  /\ ppc \in {"truncate", "save"}
  /\ ppc' = "remove"
  /\ Fault
  /\ UNCHANGED <<disk, up, memory, pb, handler, reorged>>

\* ApplyBlock, AppendBlock or Save returns an error: the producer gives up
\* this block and unlocks.
ProducerFails ==
  /\ ppc \in {"apply", "append", "truncate", "save"}
  /\ ppc' = "idle" /\ pb' = Genesis
  /\ Fault
  /\ UNCHANGED <<disk, up, memory, handler, reorged>>

\* An error of WriteBlock is ignored.
WriteFails ==
  /\ AfterWrite
  /\ Fault
  /\ reorged' = (reorged \/ hpc = "reopen")
  /\ UNCHANGED <<disk, up, memory, producer, set, batch>>

\* An error of ApplyGenesis is ignored too: the handler goes on to the block.
GenesisFails ==
  /\ hpc = "regenesis"
  /\ hpc' = "open"
  /\ Fault
  /\ reorged' = TRUE
  /\ UNCHANGED <<disk, up, memory, producer, set, batch, todo>>

\* An error of ApplyBlock or ResetAndReplay ends the handling of the message.
HandlerFails ==
  /\ hpc \in {"apply", "reset", "genesis", "replay"}
  /\ Release
  /\ Fault
  /\ UNCHANGED <<disk, up, memory, producer, reorged>>

\* The process dies.
Crash ==
  /\ up /\ up' = FALSE
  /\ tip' = Genesis /\ pool' = <<>> /\ seen' = {}
  /\ ppc' = "idle" /\ pb' = Genesis /\ Release
  /\ Fault
  /\ UNCHANGED <<disk, reorged>>

RestartReapplies ==
  /\ ~up /\ up' = TRUE
  /\ meta # Torn
  /\ tip' = meta /\ applied' = Apply(applied, meta)
  /\ UNCHANGED <<files, meta, validatorList, pool, seen, producer, handler, history>>

\* NewChain reads the tip from chain.json, and fails if it cannot.
Restart ==
  /\ ~up /\ up' = TRUE
  /\ meta # Torn
  /\ tip' = meta
  /\ UNCHANGED <<disk, pool, seen, producer, handler, history>>

-----------------------------------------------------------------------------
ProducerStep ==
  \/ Produce \/ ProducerApply \/ AppendBlock \/ SaveTruncate \/ SaveWrite
  \/ RemoveIncluded \/ Announce

HandlerStep ==
  \/ SyncStep \/ ReapplyGenesis \/ WriteOpen \/ WriteBlock \/ ApplyBlock
  \/ Reset \/ ReplayGenesis \/ ReplayBlock \/ SetTip

\* Everything that changes the node itself.
WriterStep ==
  \/ \E t \in Tx : AddTx(t)
  \/ ProducerStep
  \/ \E b \in Deliver : NewBlock(b)
  \/ \E bs \in Batch : Blocks(bs)
  \/ HandlerStep
  \/ ProducerFails \/ WriteFails \/ GenesisFails \/ HandlerFails \/ Crash \/ Restart

Next == WriterStep \/ \E from \in 0 .. tip.height : GetBlocks(from)

Spec == Init /\ [][Next]_vars

\* The ticker fires again and again, and a handler that can run does.
FairSpec == Spec /\ WF_vars(ProducerStep) /\ WF_vars(HandlerStep)

-----------------------------------------------------------------------------
(* Properties. *)

TypeOK ==
  /\ files \in SUBSET Block /\ meta \in Block \cup {Torn}
  /\ applied \in Seq(Block) /\ validatorList \in Seq(Addr)
  /\ up \in BOOLEAN /\ tip \in Block /\ pool \in Seq(Tx) /\ IsInjective(pool)
  /\ seen \in SUBSET Block
  /\ ppc \in {"idle", "apply", "append", "truncate", "save", "remove", "bcast"}
  /\ pb \in Block
  /\ hpc \in {"idle", "sync", "regenesis", "open", "write", "apply", "reopen", "rewrite",
              "reset", "genesis", "replay", "setTip", "stuck"}
  /\ set \in Seq(Addr) /\ batch \in Seq(Block) /\ todo \in Seq(Block)
  /\ announced \in SUBSET Block /\ served \in SUBSET Block /\ received \in SUBSET Block
  /\ slashed \in SUBSET Addr /\ reorged \in BOOLEAN /\ faults \in Nat

Conflict(b, c) == b # c /\ b.height = c.height /\ b.validator = c.validator

\* Over all its lives the node broadcasts at most one block of its own per
\* height: the producer broadcasts only after chain.json holds the block, so
\* a crash cannot make it fill the same height again.
AnnouncedOnce == \A b, c \in announced : b.height = c.height => b = c

\* The state the chain to b should leave: genesis, then its blocks in order.
StateOf[b \in Block] == Apply(IF b.prev \in Block THEN StateOf[b.prev] ELSE <<Genesis>>, b)

\* "Genesis ... Applied once; then blocks applied in order" (docs/SPEC.md):
\* when no message or block is half done, and also once SetTip has been
\* called, the database holds exactly the blocks of the chain to the tip,
\* unless a crash or a failed write came between two steps of one of them.
StateIsChain ==
  faults = 0 /\ up /\ (BlockMuFree \/ hpc = "stuck") => applied = StateOf[tip]

\* A broadcast block is part of the chain the node will restart with, whatever
\* fails afterwards.
AnnouncedDurable ==
  meta # Torn => announced \subseteq Range(PathTo[meta])

MidWrite == IF hpc \in {"write", "rewrite"} THEN 1 ELSE 0

\* How much of the chain in chain.json a restart can fail to read.  Appending
\* never costs a block file, whatever fails.  A reorganisation rewrites files in
\* place, without the rename AppendBlock uses: each crash or failed write costs
\* at most the one file it hits, and a rewrite that goes through costs none.
DamageBounded ==
  meta # Torn =>
    Cardinality(Range(PathTo[meta]) \ files) <= IF reorged THEN faults + MidWrite ELSE 0

InFlight == IF ppc \in {"append", "truncate", "save"} \/ hpc \in {"setTip", "stuck"} THEN 1 ELSE 0

\* Unless a replay has begun, no block of the chain is missing from the
\* state, and each crash or failed write puts the state at most one block
\* ahead of the chain in chain.json.
DriftBounded ==
  ~reorged /\ meta # Torn =>
    /\ Range(StateOf[meta]) \subseteq Range(applied)
    /\ Len(applied) <= Len(StateOf[meta]) + faults + InFlight

\* Blocks delivered twice, out of order or in batches never get a validator
\* slashed: only two different received blocks of one height that both name the
\* validator do (no signature of theirs is checked).
SlashJustified ==
  \A v \in slashed : \E b, c \in received : Conflict(b, c) /\ b.validator = v

\* While nobody has been slashed and no chain replayed, every applied block
\* names the leader of its height in ValidatorAddress.  That is all the code
\* compares: no handler checks Block.Signature, which docs/SPEC.md asks for.
AppliedInTurn ==
  slashed = {} /\ ~reorged =>
    \A i \in 2 .. Len(applied) : VerifyBlockValidator(Validators, applied[i])

\* README.md: a slashed validator "is removed from the set".  Once slashed, a
\* validator gets no block in any more, except in the message that got them
\* slashed, whose handler goes on with the set it captured, and after the last
\* validator has been slashed, when there is no set to check.  A reorganisation
\* brings the genesis validators back.
SlashedShutOut ==
  ~reorged /\ hpc \in {"open", "write", "apply"} /\ validatorList # <<>> =>
    Head(todo).validator \notin slashed \/ Head(todo).validator \in Range(set)

\* The abstract specification of what the node broadcasts: every block is
\* higher than all those before it, across crashes and restarts.
Log == INSTANCE HeightLog
ClimbsSpec == Log!Spec

-----------------------------------------------------------------------------
(* What the documentation says and the code does not do. *)

\* core/chain.go: "SetTip updates chain tip to the given block (for reorg)."
\* A handler that has applied a block gets its hash into chain.json.
TipSaved == \A b \in Block : (hpc = "setTip" /\ Newest(batch) = b) ~> meta = b

\* README.md, of a validator: "Produce at most one block per height; never
\* sign conflicting blocks."  Peers never see two blocks of the node for one
\* height, broadcast or sent on request.
ShownOnce ==
  \A b, c \in announced \cup served : b.validator = Self => ~Conflict(b, c)
=============================================================================
