----------------------------- MODULE NodeProofs -----------------------------
(***************************************************************************)
(* Types, broadcasts, slashing and the state of the node, for every set of *)
(* blocks, every behaviour of the peers and any number of crashes and      *)
(* failed writes.                                                          *)
(*                                                                         *)
(* TypeInv, the types together with where the two threads can be, is the   *)
(* ground the other proofs stand on.  Broadcasts are argued by height: no  *)
(* block the node has broadcast is higher than the tip it works on or the  *)
(* tip it would restart with, and a block it is making is higher than all  *)
(* of them; a crash needs the second half, that chain.json already holds a *)
(* block when it is broadcast.  Leaders and slashed validators are argued  *)
(* by what the handler has in hand between a check and the application,    *)
(* and so is the state: as long as nothing failed it is that of the tip,   *)
(* but for what the step at hand has already done.                         *)
(***************************************************************************)
EXTENDS Node, Recursion, SequenceTheorems

-----------------------------------------------------------------------------
(* Chains. *)

\* The path to a block is the path to its predecessor and the block itself.
LEMMA PathUnfold ==
  /\ PathTo \in [Block -> Seq(Block)]
  /\ \A b \in Block : PathTo[b] = IF b.prev \in Block THEN Append(PathTo[b.prev], b) ELSE <<b>>
  <1> DEFINE parent == [b \in Block |-> b.prev]
             V == Seq(Block)
             base == [b \in Block |-> <<b>>]
             step == [x \in V \X Block |-> Append(x[1], x[2])]
             Eq(f) == f = [b \in Block |-> IF b.prev \in Block THEN Append(f[b.prev], b) ELSE <<b>>]
  <1>1. Grounded(Block, parent)
    BY Zenon, ChainAssumption DEF Grounded
  <1>2. base \in [Block -> V] /\ step \in [V \X Block -> V]
    OBVIOUS
  <1>3. PICK f \in [Block -> V] : Recursive(Block, parent, base, step, f)
    <2> HIDE DEF parent, V, base, step
    <2> QED BY Zenon, <1>1, <1>2, RecursionExists
  <1>4. Eq(f)
    BY Zenon, <1>3 DEF Recursive
  <1>5. Eq(PathTo)
    <2>1. PathTo = CHOOSE g : Eq(g)
      BY DEF PathTo
    <2> HIDE DEF Eq
    <2> QED BY <1>4, <2>1
  <1>6. \A b \in Block : PathTo[b] = IF b.prev \in Block THEN Append(PathTo[b.prev], b) ELSE <<b>>
    BY Zenon, <1>5
  <1>7. ASSUME NEW b \in Block PROVE PathTo[b] = f[b]
    <2> DEFINE T == {c \in Block : PathTo[c] # f[c]}
    <2> SUFFICES ASSUME T # {} PROVE FALSE
      BY <1>7
    <2>1. PICK c \in T : c.prev \notin T
      BY Zenon, ChainAssumption
    <2> QED BY Zenon, <2>1, <1>6, <1>4
  <1>8. PathTo \in [Block -> V]
    <2>1. PathTo = [b \in Block |-> PathTo[b]]
      BY <1>5
    <2>2. \A b \in Block : PathTo[b] \in V
      BY <1>7
    <2> QED BY <2>1, <2>2
  <1> QED BY <1>6, <1>8

\* What Append does to the set of elements.
LEMMA RangeOfAppend ==
  ASSUME NEW S, NEW p \in Seq(S), NEW e \in S PROVE Range(Append(p, e)) = Range(p) \cup {e}
  <1>1. /\ DOMAIN Append(p, e) = 1 .. Len(p) + 1 /\ DOMAIN p = 1 .. Len(p) /\ Len(p) \in Nat
        /\ \A i \in 1 .. Len(p) : Append(p, e)[i] = p[i]
        /\ Append(p, e)[Len(p) + 1] = e
    OBVIOUS
  <1>2. Range(Append(p, e)) \subseteq Range(p) \cup {e}
    BY <1>1 DEF Range
  <1>3. Range(p) \cup {e} \subseteq Range(Append(p, e))
    BY <1>1 DEF Range
  <1> QED BY <1>2, <1>3

\* The sequences of blocks that the steps put together.
LEMMA SeqFacts ==
  /\ <<>> \in Seq(Block) /\ <<>> \in Seq(Addr) /\ <<>> \in Seq(Tx)
  /\ \A b \in Block : <<b>> \in Seq(Block) /\ <<b>> # <<>>
  /\ \A q \in Seq(Block) : \A b \in Block : Append(q, b) \in Seq(Block)
  /\ \A q \in Seq(Block) : q # <<>> =>
       /\ Head(q) \in Block /\ Newest(q) \in Block /\ Tail(q) \in Seq(Block)
       /\ Len(q) # 1 => Tail(q) # <<>>
  <1>1. /\ <<>> \in Seq(Block) /\ <<>> \in Seq(Addr) /\ <<>> \in Seq(Tx)
        /\ \A b \in Block : <<b>> \in Seq(Block) /\ <<b>> # <<>>
        /\ \A q \in Seq(Block) : \A b \in Block : Append(q, b) \in Seq(Block)
    OBVIOUS
  <1>2. ASSUME NEW q \in Seq(Block), q # <<>>
        PROVE  /\ Head(q) \in Block /\ Newest(q) \in Block /\ Tail(q) \in Seq(Block)
               /\ Len(q) # 1 => Tail(q) # <<>>
    <2>1. Head(q) \in Block /\ Tail(q) \in Seq(Block) /\ Len(q) \in Nat /\ Len(q) # 0
      BY <1>2
    <2>2. Newest(q) \in Block
      BY <2>1 DEF Newest
    <2>3. Len(Tail(q)) = Len(q) - 1 /\ Len(<<>>) = 0
      BY <1>2
    <2>4. Len(q) # 1 => Len(Tail(q)) # 0
      BY <2>1, <2>3
    <2> QED BY Zenon, <2>1, <2>2, <2>3, <2>4
  <1> QED BY <1>1, <1>2

\* What a path holds, and that a child's path has one block more.
LEMMA PathFacts ==
  /\ \A b \in Block : Range(PathTo[b]) \subseteq Block /\ b \in Range(PathTo[b])
  /\ \A b \in Block : b.prev \in Block => Range(PathTo[b]) = Range(PathTo[b.prev]) \cup {b}
  <1>1. ASSUME NEW b \in Block, b.prev \in Block
        PROVE  Range(PathTo[b]) = Range(PathTo[b.prev]) \cup {b}
    <2>1. PathTo[b] = Append(PathTo[b.prev], b) /\ PathTo[b.prev] \in Seq(Block)
      BY <1>1, PathUnfold
    <2> QED BY <2>1, RangeOfAppend
  <1>2. ASSUME NEW b \in Block, b.prev \notin Block PROVE b \in Range(PathTo[b])
    <2>1. PathTo[b] = <<b>>
      BY <1>2, PathUnfold
    <2> QED BY <2>1 DEF Range
  <1>3. ASSUME NEW b \in Block PROVE Range(PathTo[b]) \subseteq Block
    <2>1. PathTo[b] \in Seq(Block)
      BY PathUnfold
    <2> QED BY <2>1 DEF Range
  <1> QED BY SMTT(30), <1>1, <1>2, <1>3

-----------------------------------------------------------------------------
(* Types, and where the two threads can be. *)

\* Where the two threads can be together, and what each has in hand there.
ControlInv ==
  /\ ~up => ppc = "idle" /\ hpc = "idle"
  /\ ppc \notin {"idle", "bcast"} => hpc = "idle"
  /\ ppc \in {"apply", "append"} => pb.prev = tip /\ pb.txs # <<>>
  /\ ppc \in {"truncate", "save", "remove"} => tip = pb
  /\ ppc = "bcast" /\ hpc # "stuck" => tip = pb
  /\ ppc \in {"remove", "bcast"} => meta = pb
  /\ hpc \notin {"idle", "sync"} => batch # <<>>
  /\ hpc \notin {"idle", "sync", "setTip", "stuck"} => todo # <<>>
  /\ hpc \in {"rewrite", "reset", "genesis", "replay"} => reorged

TypeInv == TypeOK /\ ControlInv

LEMMA TypeInit == Init => TypeInv
  <1> SUFFICES ASSUME Init PROVE TypeInv
    OBVIOUS
  <1>1. IsInjective(<<>>)
    BY DEF IsInjective
  <1>2. <<Genesis>> \in Seq(Block)
    BY BlockAssumption
  <1>3. TypeOK
    BY Zenon, <1>1, <1>2, SeqFacts, BlockAssumption, NodeAssumption DEF Init, TypeOK
  <1>4. ControlInv
    BY DEF Init, ControlInv
  <1> QED BY <1>3, <1>4 DEF TypeInv

\* A block that is produced is not empty.
LEMMA PendingOf ==
  ASSUME pool \in Seq(Tx), pool # <<>> PROVE Pending(MaxPending) # <<>>
  <1> DEFINE n == IF MaxPending > Len(pool) THEN Len(pool) ELSE MaxPending
  <1>1. n \in Nat /\ n >= 1 /\ n <= Len(pool)
    BY NodeAssumption
  <1>2. Len(SubSeq(pool, 1, n)) = n
    <2> HIDE DEF n
    <2> QED BY <1>1
  <1> QED BY <1>1, <1>2 DEF Pending

LEMMA TypeStep == TypeInv /\ [Next]_vars => TypeInv'
  <1> SUFFICES ASSUME TypeInv, [Next]_vars PROVE TypeInv'
    OBVIOUS
  <1>1. ASSUME NEW t \in Tx, AddTx(t) PROVE TypeInv'
    <2>1. pool' = Append(pool, t) /\ t \notin Range(pool)
      BY <1>1 DEF AddTx, Admits
    <2>2. pool' \in Seq(Tx) /\ IsInjective(pool')
      BY SMTT(30), <2>1 DEF IsInjective, Range, TypeInv, TypeOK
    <2> QED BY <1>1, <2>2 DEF AddTx, disk, producer, handler, history, TypeInv, TypeOK, ControlInv
  <1>2. ASSUME NEW from \in 0 .. tip.height, GetBlocks(from) PROVE TypeInv'
    <2>1. served' \subseteq served \cup Range(PathTo[tip])
      BY <1>2 DEF GetBlocks
    <2> QED BY <1>2, <2>1, PathFacts
       DEF GetBlocks, disk, memory, producer, handler, TypeInv, TypeOK, ControlInv
  <1>3. CASE Produce
    <2>1. Pending(MaxPending) # <<>>
      BY <1>3, PendingOf DEF Produce, TypeInv, TypeOK
    <2> QED BY <1>3, <2>1 DEF Produce, disk, memory, handler, history, TypeInv, TypeOK, ControlInv
  <1>4. CASE ProducerApply
    BY <1>4 DEF ProducerApply, Apply, memory, handler, history, TypeInv, TypeOK, ControlInv
  <1>5. CASE AppendBlock
    BY <1>5 DEF AppendBlock, handler, history, TypeInv, TypeOK, ControlInv
  <1>6. CASE SaveTruncate \/ SaveWrite
    BY <1>6 DEF SaveTruncate, SaveWrite, memory, handler, history, TypeInv, TypeOK, ControlInv
  <1>7. CASE RemoveIncluded
    <2>1. pool' \in Seq(Tx) /\ IsInjective(pool')
      BY <1>7, DropFacts DEF RemoveIncluded, NotIn, TypeInv, TypeOK
    <2> QED BY <1>7, <2>1 DEF RemoveIncluded, disk, handler, history, TypeInv, TypeOK, ControlInv
  <1>8. CASE Announce
    BY Zenon, <1>8, BlockAssumption
       DEF Announce, disk, memory, handler, TypeInv, TypeOK, ControlInv
  <1>s. ASSUME NEW v \in Addr, SlashValidator(v)
        PROVE  validatorList' \in Seq(Addr) /\ slashed' \in SUBSET Addr
    BY <1>s, DropFacts DEF SlashValidator, Without, TypeInv, TypeOK
  <1>9. ASSUME NEW b \in Deliver, NewBlock(b) PROVE TypeInv'
    <2>1. b \in Block /\ b.validator \in Addr
      BY BlockAssumption
    <2>2. validatorList' \in Seq(Addr) /\ slashed' \in SUBSET Addr
      BY <1>9, <2>1, <1>s DEF NewBlock, TypeInv, TypeOK
    <2>3. /\ seen' \in SUBSET Block /\ received' \in SUBSET Block
          /\ \/ hpc' = "open" /\ batch' = <<b>> /\ todo' = <<b>>
             \/ UNCHANGED <<hpc, batch, todo>>
      BY <1>9, <2>1 DEF NewBlock, TypeInv, TypeOK
    <2>4. <<b>> \in Seq(Block) /\ <<b>> # <<>>
      BY <2>1, SeqFacts
    <2>5. /\ up /\ hpc = "idle" /\ ppc \in {"idle", "bcast"}
          /\ UNCHANGED <<files, meta, applied, up, tip, pool, ppc, pb, set,
                         announced, served, reorged, faults>>
      BY <1>9 DEF NewBlock, BlockMuFree, producer
    <2>t. TypeOK'
      BY Zenon, <2>1, <2>2, <2>3, <2>4, <2>5 DEF TypeInv, TypeOK
    <2>c. ControlInv'
      BY Zenon, <2>1, <2>2, <2>3, <2>4, <2>5 DEF TypeInv, ControlInv
    <2> QED BY <2>t, <2>c DEF TypeInv
  <1>10. ASSUME NEW bs \in Batch, Blocks(bs) PROVE TypeInv'
    <2>1. bs \in Seq(Block) /\ bs # <<>> /\ Range(bs) \subseteq Block /\ Head(bs) \in Block
      BY BlockAssumption DEF Range
    <2>4. <<Head(bs)>> \in Seq(Block) /\ <<Head(bs)>> # <<>>
      BY <2>1, SeqFacts
    <2>2. /\ up /\ hpc = "idle" /\ ppc \in {"idle", "bcast"} /\ received' \in SUBSET Block
          /\ UNCHANGED <<files, meta, applied, validatorList, up, tip, pool, seen, ppc, pb,
                         announced, served, slashed, reorged, faults>>
      BY <1>10, <2>1 DEF Blocks, BlockMuFree, disk, memory, producer, TypeInv, TypeOK
    <2>3. \/ hpc' = "sync" /\ set' = validatorList /\ batch' = bs /\ todo' = bs
          \/ hpc' = "regenesis" /\ batch' = <<Head(bs)>> /\ todo' = <<Head(bs)>> /\ set' = set
          \/ hpc' = "reopen" /\ batch' = bs /\ todo' = bs /\ set' = set
          \/ UNCHANGED <<hpc, set, batch, todo>>
      BY <1>10 DEF Blocks, handler
    <2>t. TypeOK'
      BY Zenon, <2>1, <2>2, <2>3, <2>4 DEF TypeInv, TypeOK
    <2>c. ControlInv'
      BY Zenon, <2>1, <2>2, <2>3, <2>4 DEF TypeInv, ControlInv
    <2> QED BY <2>t, <2>c DEF TypeInv
  <1>11. CASE SyncStep
    <2>1. hpc = "sync" /\ UNCHANGED <<files, meta, applied, up, tip, pool, ppc, pb,
                                      announced, served, received, reorged, faults>>
      BY <1>11 DEF SyncStep, producer
    <2>2. CASE todo = <<>>
      BY <1>11, <2>1, <2>2 DEF SyncStep, Release, TypeInv, TypeOK, ControlInv
    <2>3. CASE todo # <<>>
      <3>1. Head(todo) \in Block /\ Tail(todo) \in Seq(Block) /\ Head(todo).validator \in Addr
        BY <2>3, SeqFacts, BlockAssumption DEF TypeInv, TypeOK
      <3>4. <<Head(todo)>> \in Seq(Block) /\ <<Head(todo)>> # <<>> /\ <<>> \in Seq(Block)
            /\ <<>> \in Seq(Addr)
        BY <3>1, SeqFacts
      <3>2. validatorList' \in Seq(Addr) /\ slashed' \in SUBSET Addr
        BY Zenon, <1>11, <2>3, <3>1, <1>s DEF SyncStep, TypeInv, TypeOK
      <3>3. /\ seen' \in SUBSET Block
            /\ \/ hpc' = "idle" /\ set' = <<>> /\ batch' = <<>> /\ todo' = <<>>
               \/ hpc' = "open" /\ batch' = <<Head(todo)>> /\ UNCHANGED <<set, todo>>
               \/ todo' = Tail(todo) /\ UNCHANGED <<hpc, set, batch>>
        BY Zenon, <1>11, <2>3, <3>1 DEF SyncStep, Release, TypeInv, TypeOK
      <3>t. TypeOK'
        BY Zenon, <2>1, <3>1, <3>2, <3>3, <3>4 DEF TypeInv, TypeOK
      <3>c. ControlInv'
        BY <2>1, <2>3, <3>3, <3>4 DEF TypeInv, ControlInv
      <3> QED BY <3>t, <3>c DEF TypeInv
    <2> QED BY <2>2, <2>3
  <1>12. CASE ReapplyGenesis
    <2>1. applied' \in Seq(Block) /\ validatorList' \in Seq(Addr)
      BY <1>12, SeqFacts, BlockAssumption, NodeAssumption DEF ReapplyGenesis, TypeInv, TypeOK
    <2> QED BY <1>12, <2>1 DEF ReapplyGenesis, memory, producer, TypeInv, TypeOK, ControlInv
  <1>13. CASE WriteOpen
    BY Zenon, <1>13 DEF WriteOpen, memory, producer, TypeInv, TypeOK, ControlInv
  <1>w. ASSUME AfterWrite
        PROVE  /\ hpc \in {"open", "write", "reopen", "rewrite"}
               /\ hpc' \in {"apply", "reset", "reopen"}
               /\ hpc' = "reset" => hpc \in {"reopen", "rewrite"}
               /\ todo' \in Seq(Block) /\ todo' # <<>>
    BY Zenon, <1>w, SeqFacts DEF AfterWrite, TypeInv, TypeOK, ControlInv
  <1>14. CASE WriteBlock
    <2>1. Head(todo) \in Block
      BY <1>14 DEF WriteBlock, TypeInv, TypeOK, ControlInv
    <2>2. TypeOK'
      BY Zenon, <1>14, <1>w, <2>1 DEF WriteBlock, memory, producer, history, TypeInv, TypeOK
    <2>3. ControlInv'
      BY Zenon, <1>14, <1>w DEF WriteBlock, memory, producer, history, TypeInv, ControlInv
    <2> QED BY Zenon, <2>2, <2>3 DEF TypeInv
  <1>15. CASE ApplyBlock
    BY <1>15 DEF ApplyBlock, Apply, memory, producer, history, TypeInv, TypeOK, ControlInv
  <1>16. CASE Reset \/ ReplayGenesis
    <2>1. applied' \in Seq(Block) /\ validatorList' \in Seq(Addr)
      BY Zenon, <1>16, SeqFacts, BlockAssumption, NodeAssumption
         DEF Reset, ReplayGenesis, TypeInv, TypeOK
    <2> QED BY Zenon, <1>16, <2>1
       DEF Reset, ReplayGenesis, memory, producer, history, TypeInv, TypeOK, ControlInv
  <1>17. CASE ReplayBlock
    <2>1. Head(todo) \in Block /\ Tail(todo) \in Seq(Block) /\ (Len(todo) # 1 => Tail(todo) # <<>>)
      BY Zenon, <1>17, SeqFacts DEF ReplayBlock, TypeInv, TypeOK, ControlInv
    <2>2. applied' \in Seq(Block)
      BY <1>17, <2>1 DEF ReplayBlock, Apply, TypeInv, TypeOK
    <2>3. /\ UNCHANGED <<files, meta, validatorList, up, tip, pool, seen, ppc, pb, set, batch,
                        announced, served, received, slashed, reorged, faults>>
          /\ hpc = "replay" /\ hpc' \in {"replay", "setTip"} /\ todo' = Tail(todo)
          /\ hpc' = "replay" => Len(todo) # 1
      BY <1>17 DEF ReplayBlock, memory, producer, history
    <2>4. TypeOK'
      BY Zenon, <2>1, <2>2, <2>3 DEF TypeInv, TypeOK
    <2>5. ControlInv'
      BY <2>1, <2>3 DEF TypeInv, ControlInv
    <2> QED BY <2>4, <2>5 DEF TypeInv
  <1>18. CASE SetTip
    BY Zenon, <1>18, SeqFacts DEF SetTip, disk, producer, history, TypeInv, TypeOK, ControlInv
  <1>19. CASE ProducerFails
    <2>1. faults' \in Nat
      BY <1>19 DEF ProducerFails, Fault, TypeInv, TypeOK
    <2> QED BY Zenon, <1>19, <2>1, BlockAssumption
       DEF ProducerFails, Fault, disk, memory, handler, TypeInv, TypeOK, ControlInv
  <1>20. CASE WriteFails
    <2>1. faults' \in Nat /\ reorged' \in BOOLEAN /\ (reorged => reorged')
      BY <1>20 DEF WriteFails, Fault, TypeInv, TypeOK
    <2>2. hpc = "reopen" => reorged'
      <3>1. reorged' = (reorged \/ hpc = "reopen")
        BY Zenon, <1>20 DEF WriteFails
      <3> QED BY Zenon, <3>1
    <2>3. TypeOK'
      BY Zenon, <1>20, <1>w, <2>1 DEF WriteFails, Fault, disk, memory, producer, TypeInv, TypeOK
    <2>4. ControlInv'
      BY Zenon, <1>20, <1>w, <2>1, <2>2
         DEF WriteFails, disk, memory, producer, TypeInv, ControlInv
    <2> QED BY Zenon, <2>3, <2>4 DEF TypeInv
  <1>gf. CASE GenesisFails
    <2>1. faults' \in Nat
      BY <1>gf DEF GenesisFails, Fault, TypeInv, TypeOK
    <2> QED BY Zenon, <1>gf, <2>1
       DEF GenesisFails, Fault, disk, memory, producer, TypeInv, TypeOK, ControlInv
  <1>21. CASE HandlerFails
    <2>1. faults' \in Nat
      BY <1>21 DEF HandlerFails, Fault, TypeInv, TypeOK
    <2> QED BY Zenon, <1>21, <2>1, SeqFacts
       DEF HandlerFails, Release, Fault, disk, memory, producer, TypeInv, TypeOK, ControlInv
  <1>22. CASE Crash
    <2>1. IsInjective(<<>>)
      BY DEF IsInjective
    <2>2. /\ tip' = Genesis /\ pool' = <<>> /\ seen' = {} /\ ppc' = "idle" /\ pb' = Genesis
          /\ hpc' = "idle" /\ set' = <<>> /\ batch' = <<>> /\ todo' = <<>> /\ up' = FALSE
          /\ UNCHANGED <<files, meta, applied, validatorList, announced, served, received,
                         slashed, reorged>>
          /\ faults' = faults + 1
      BY <1>22 DEF Crash, Release, Fault, disk
    <2>3. Genesis \in Block /\ faults' \in Nat
      BY <2>2, BlockAssumption DEF TypeInv, TypeOK
    <2>t. TypeOK'
      BY Zenon, <2>1, <2>2, <2>3, SeqFacts DEF TypeInv, TypeOK
    <2>c. ControlInv'
      BY <2>2 DEF ControlInv
    <2> QED BY <2>t, <2>c DEF TypeInv
  <1>23. CASE Restart
    BY <1>23 DEF Restart, disk, producer, handler, history, TypeInv, TypeOK, ControlInv
  <1>24. CASE UNCHANGED vars
    BY <1>24 DEF vars, disk, memory, producer, handler, history, TypeInv, TypeOK, ControlInv
  <1> QED
    BY <1>gf, <1>1, <1>2, <1>3, <1>4, <1>5, <1>6, <1>7, <1>8, <1>9, <1>10, <1>11, <1>12,
       <1>13, <1>14, <1>15, <1>16, <1>17, <1>18, <1>19, <1>20, <1>21, <1>22, <1>23, <1>24
    DEF Next, WriterStep, ProducerStep, HandlerStep

\* Every variable keeps its type, and no transaction is in the pool twice.
THEOREM TypeCorrect == Spec => []TypeOK
  <1>1. TypeInv => TypeOK
    BY DEF TypeInv
  <1> QED BY <1>1, TypeInit, TypeStep, PTL DEF Spec

-----------------------------------------------------------------------------
(* One broadcast per height. *)

\* Every block broadcast so far is below height n, or at most there.
Below(n)  == \A b \in announced : b.height < n
UpTo(n)   == \A b \in announced : b.height <= n

HeightType ==
  /\ meta \in Block \cup {Torn} /\ pb \in Block /\ announced \in SUBSET Block
  /\ hpc # "stuck" => tip \in Block

\* While SetTip holds the chain nobody reads the tip, and a restart forgets it.
HeightInv ==
  /\ HeightType
  /\ AnnouncedOnce
  /\ meta # Torn => UpTo(meta.height)
  /\ up /\ hpc # "stuck" => UpTo(tip.height)
  /\ ~up => ppc = "idle" /\ hpc = "idle"
  /\ ppc \notin {"idle", "bcast"} => hpc = "idle"
  /\ ppc # "idle" => Below(pb.height)
  /\ ppc \in {"truncate", "save", "remove"} => tip = pb
  /\ ppc = "bcast" /\ hpc # "stuck" => tip = pb
  /\ ppc \in {"remove", "bcast"} => meta = pb
  /\ ppc \in {"idle", "apply", "append", "truncate", "save", "remove", "bcast"}

LEMMA HeightOfBlock == \A b \in Block : b.height \in Nat
  BY BlockAssumption

LEMMA HeightInit == Init => HeightInv
  BY BlockAssumption DEF Init, HeightInv, HeightType, AnnouncedOnce, UpTo, Below

LEMMA HeightStep == HeightInv /\ [Next]_vars => HeightInv'
  <1> SUFFICES ASSUME HeightInv, [Next]_vars PROVE HeightInv'
    OBVIOUS
  <1> USE DEF HeightInv, HeightType
  <1>1. ASSUME NEW t \in Tx, AddTx(t) PROVE HeightInv'
    BY <1>1 DEF AddTx, disk, producer, handler, history, UpTo, Below, AnnouncedOnce
  <1>2. ASSUME NEW from \in 0 .. tip.height, GetBlocks(from) PROVE HeightInv'
    BY Zenon, <1>2 DEF GetBlocks, disk, memory, producer, handler, UpTo, Below, AnnouncedOnce
  <1>3. CASE Produce
    <2>1. pb' \in Block /\ pb'.height = tip.height + 1 /\ ppc' = "apply" /\ up
      BY <1>3 DEF Produce
    <2>2. UNCHANGED <<meta, tip, announced, up, hpc>> /\ hpc = "idle"
      BY <1>3 DEF Produce, disk, memory, handler, history
    <2>3. Below(tip.height + 1)
      BY <2>1, <2>2, HeightOfBlock DEF UpTo, Below
    <2> QED BY <2>1, <2>2, <2>3 DEF UpTo, Below, AnnouncedOnce
  <1>4. CASE ProducerApply
    BY <1>4 DEF ProducerApply, memory, handler, history, UpTo, Below, AnnouncedOnce
  <1>5. CASE AppendBlock
    <2>1. Below(pb.height) => UpTo(pb.height)
      BY HeightOfBlock DEF UpTo, Below
    <2> QED BY <1>5, <2>1 DEF AppendBlock, handler, history, UpTo, Below, AnnouncedOnce
  <1>6. CASE SaveTruncate
    BY <1>6 DEF SaveTruncate, memory, handler, history, UpTo, Below, AnnouncedOnce
  <1>7. CASE SaveWrite
    <2>1. Below(pb.height) => UpTo(pb.height)
      BY HeightOfBlock DEF UpTo, Below
    <2> QED BY <1>7, <2>1 DEF SaveWrite, memory, handler, history, UpTo, Below, AnnouncedOnce
  <1>8. CASE RemoveIncluded
    BY <1>8 DEF RemoveIncluded, disk, handler, history, UpTo, Below, AnnouncedOnce
  <1>9. CASE Announce
    <2>1. /\ ppc = "bcast" /\ ppc' = "idle" /\ pb' = Genesis
          /\ announced' = announced \cup {pb}
          /\ UNCHANGED <<meta, tip, up, hpc>>
      BY <1>9 DEF Announce, disk, memory, handler
    <2>2. AnnouncedOnce'
      BY <2>1, HeightOfBlock DEF AnnouncedOnce, Below
    <2>3. \A b \in announced' : b.height <= pb.height
      BY <2>1, HeightOfBlock DEF Below
    <2> QED BY Zenon, <2>1, <2>2, <2>3, BlockAssumption DEF UpTo
  <1>10. ASSUME NEW b \in Deliver, NewBlock(b) PROVE HeightInv'
    <2>1. /\ UNCHANGED <<meta, tip, up, announced, ppc, pb>>
          /\ hpc' \in {"idle", "open"} /\ hpc = "idle" /\ up /\ ppc \in {"idle", "bcast"}
      BY Zenon, <1>10 DEF NewBlock, producer, BlockMuFree
    <2> QED BY <2>1 DEF UpTo, Below, AnnouncedOnce
  <1>11. ASSUME NEW bs \in Batch, Blocks(bs) PROVE HeightInv'
    <2>1. /\ UNCHANGED <<meta, tip, up, announced, ppc, pb>>
          /\ hpc' # "stuck" /\ hpc = "idle" /\ up /\ ppc \in {"idle", "bcast"}
      BY <1>11 DEF Blocks, disk, memory, producer, handler, BlockMuFree
    <2> QED BY <2>1 DEF UpTo, Below, AnnouncedOnce
  \* Past its first step a handler touches neither chain.json nor the
  \* producer, and moves the tip only when it wedges.
  <1>h. ASSUME hpc \notin {"idle", "stuck"}, hpc' # "stuck" => tip' = tip,
               UNCHANGED <<meta, announced, up, ppc, pb>>
        PROVE  HeightInv'
    BY <1>h DEF UpTo, Below, AnnouncedOnce
  <1>12. CASE SyncStep
    BY Zenon, <1>12, <1>h DEF SyncStep, producer
  <1>13. CASE ReapplyGenesis
    BY Zenon, <1>13, <1>h DEF ReapplyGenesis, memory, producer
  <1>14. CASE WriteOpen
    BY Zenon, <1>14, <1>h DEF WriteOpen, memory, producer
  <1>15. CASE WriteBlock
    BY Zenon, <1>15, <1>h DEF WriteBlock, memory, producer, history
  <1>16. CASE ApplyBlock
    BY Zenon, <1>16, <1>h DEF ApplyBlock, memory, producer, history
  <1>17. CASE Reset
    BY Zenon, <1>17, <1>h DEF Reset, memory, producer, history
  <1>18. CASE ReplayGenesis
    BY Zenon, <1>18, <1>h DEF ReplayGenesis, memory, producer, history
  <1>19. CASE ReplayBlock
    BY Zenon, <1>19, <1>h DEF ReplayBlock, memory, producer, history
  <1>20. CASE SetTip
    BY Zenon, <1>20, <1>h DEF SetTip, disk, producer, history
  <1>21. CASE ProducerFails
    BY Zenon, <1>21, BlockAssumption
       DEF ProducerFails, Fault, disk, memory, handler, UpTo, AnnouncedOnce
  <1>22. CASE WriteFails
    BY Zenon, <1>22, <1>h DEF WriteFails, AfterWrite, Fault, disk, memory, producer
  <1>gf. CASE GenesisFails
    BY Zenon, <1>gf, <1>h DEF GenesisFails, Fault, disk, memory, producer
  <1>23. CASE HandlerFails
    BY Zenon, <1>23, <1>h DEF HandlerFails, Release, Fault, disk, memory, producer
  <1>24. CASE Crash
    BY Zenon, <1>24, BlockAssumption DEF Crash, Release, Fault, disk, UpTo, AnnouncedOnce
  <1>25. CASE Restart
    <2>1. /\ meta # Torn /\ tip' = meta /\ up' = TRUE /\ ~up
          /\ UNCHANGED <<meta, announced, ppc, pb, hpc>>
      BY <1>25 DEF Restart, disk, producer, handler, history
    <2> QED BY <2>1 DEF UpTo, AnnouncedOnce
  <1>26. CASE UNCHANGED vars
    BY Zenon, <1>26 DEF vars, disk, memory, producer, handler, history, UpTo, Below, AnnouncedOnce
  <1> QED
    BY Zenon, <1>gf, <1>1, <1>2, <1>3, <1>4, <1>5, <1>6, <1>7, <1>8, <1>9, <1>10, <1>11, <1>12,
       <1>13, <1>14, <1>15, <1>16, <1>17, <1>18, <1>19, <1>20, <1>21, <1>22, <1>23,
       <1>24, <1>25, <1>26
    DEF Next, WriterStep, ProducerStep, HandlerStep

\* Across any number of crashes, failed writes and restarts, the node never
\* broadcasts two blocks of its own for one height.
THEOREM AnnouncedCorrect == Spec => []AnnouncedOnce
  <1>1. HeightInv => AnnouncedOnce
    BY DEF HeightInv
  <1> QED BY <1>1, HeightInit, HeightStep, PTL DEF Spec

-----------------------------------------------------------------------------
(* The broadcasts implement HeightLog. *)

\* Only Announce adds to the blocks broadcast.
LEMMA OnlyAnnounces == [Next]_vars => Announce \/ UNCHANGED announced
  <1> SUFFICES ASSUME [Next]_vars, ~Announce PROVE UNCHANGED announced
    OBVIOUS
  <1>1. CASE UNCHANGED vars
    BY <1>1 DEF vars, history
  <1>2. ASSUME NEW t \in Tx, AddTx(t) PROVE UNCHANGED announced
    BY <1>2 DEF AddTx, history
  <1>3. ASSUME NEW from \in 0 .. tip.height, GetBlocks(from) PROVE UNCHANGED announced
    BY <1>3 DEF GetBlocks
  <1>4. CASE ProducerStep
    BY Zenon, <1>4 DEF ProducerStep, Produce, ProducerApply, AppendBlock, SaveTruncate, SaveWrite,
                RemoveIncluded, history
  <1>5. ASSUME NEW b \in Deliver, NewBlock(b) PROVE UNCHANGED announced
    BY <1>5 DEF NewBlock
  <1>6. ASSUME NEW bs \in Batch, Blocks(bs) PROVE UNCHANGED announced
    BY <1>6 DEF Blocks
  <1>7. CASE HandlerStep
    BY Zenon, <1>7 DEF HandlerStep, SyncStep, ReapplyGenesis, WriteOpen, WriteBlock, ApplyBlock,
                Reset, ReplayGenesis, ReplayBlock, SetTip, history
  <1>8. CASE ProducerFails \/ WriteFails \/ GenesisFails \/ HandlerFails \/ Crash
    BY Zenon, <1>8 DEF ProducerFails, WriteFails, GenesisFails, HandlerFails, Crash, Fault
  <1>9. CASE Restart
    BY <1>9 DEF Restart, history
  <1> QED BY <1>1, <1>2, <1>3, <1>4, <1>5, <1>6, <1>7, <1>8, <1>9 DEF Next, WriterStep

LEMMA ClimbStep == HeightInv /\ [Next]_vars => [Log!Next]_announced
  <1> SUFFICES ASSUME HeightInv, [Next]_vars PROVE [Log!Next]_announced
    OBVIOUS
  <1>1. CASE Announce
    <2>1. ppc = "bcast" /\ announced' = announced \cup {pb} /\ pb \in Block
      BY <1>1 DEF Announce, HeightInv, HeightType
    <2>2. \A c \in announced : c.height < pb.height
      BY <2>1 DEF HeightInv, Below
    <2>3. Log!Announce(pb)
      BY <2>1, <2>2 DEF Log!Announce
    <2> QED BY <2>1, <2>3 DEF Log!Next
  <1>2. CASE UNCHANGED announced
    BY <1>2
  <1> QED BY <1>1, <1>2, OnlyAnnounces

\* Whatever crashes, fails or arrives, the blocks the node broadcasts climb: the
\* node implements the log of HeightLog.
THEOREM ClimbsCorrect == Spec => ClimbsSpec
  <1>1. Init => Log!Init
    BY DEF Init, Log!Init
  <1> QED BY <1>1, HeightInit, HeightStep, ClimbStep, PTL DEF Spec, ClimbsSpec, Log!Spec

-----------------------------------------------------------------------------
(* Slashing. *)

\* What a slash compares has been received: the blocks remembered, and those
\* of the message at hand.
SlashInv ==
  /\ SlashJustified
  /\ seen \subseteq received
  /\ hpc = "sync" => todo \in Seq(received)

\* A slash in the code: b is at hand and differs from a block remembered for
\* the same height and validator.
LEMMA SlashHasEvidence ==
  ASSUME SlashInv, NEW b \in received', received \subseteq received', Equivocates(b),
         SlashValidator(b.validator)
  PROVE  SlashJustified'
  <1>1. PICK c \in seen : c.height = b.height /\ c.validator = b.validator /\ c # b
    BY DEF Equivocates
  <1>2. slashed' \subseteq slashed \cup {b.validator}
    BY DEF SlashValidator
  <1>3. c \in received' /\ Conflict(b, c)
    BY <1>1 DEF SlashInv, Conflict
  <1> QED BY <1>2, <1>3 DEF SlashInv, SlashJustified

LEMMA SlashInit == Init => SlashInv
  BY DEF Init, SlashInv, SlashJustified

LEMMA SlashStep == SlashInv /\ [Next]_vars => SlashInv'
  <1> SUFFICES ASSUME SlashInv, [Next]_vars PROVE SlashInv'
    OBVIOUS
  \* Most steps touch none of the four, or leave the loop or the memory behind.
  <1>q. ASSUME UNCHANGED <<slashed, received>>, seen' \subseteq seen,
               hpc' = "sync" => hpc = "sync" /\ todo' = todo
        PROVE  SlashInv'
    BY <1>q DEF SlashInv, SlashJustified
  <1>1. CASE UNCHANGED vars
    BY <1>1, <1>q DEF vars, memory, handler, history
  <1>2. ASSUME NEW t \in Tx, AddTx(t) PROVE SlashInv'
    BY <1>2, <1>q DEF AddTx, handler, history
  <1>3. ASSUME NEW from \in 0 .. tip.height, GetBlocks(from) PROVE SlashInv'
    BY <1>3, <1>q DEF GetBlocks, memory, handler
  <1>4. CASE ProducerStep
    BY Zenon, <1>4, <1>q DEF ProducerStep, Produce, ProducerApply, AppendBlock, SaveTruncate,
                      SaveWrite, RemoveIncluded, Announce, memory, handler, history
  <1>5. ASSUME NEW b \in Deliver, NewBlock(b) PROVE SlashInv'
    <2>1. received' = received \cup {b} /\ hpc = "idle" /\ hpc' \in {"idle", "open"}
      BY Zenon, <1>5 DEF NewBlock, BlockMuFree
    <2>2. seen' \subseteq received'
      BY Zenon, <1>5, <2>1 DEF NewBlock, SlashInv
    <2>3. CASE UNCHANGED slashed
      BY <2>1, <2>2, <2>3 DEF SlashInv, SlashJustified
    <2>4. CASE Equivocates(b) /\ SlashValidator(b.validator)
      BY <2>1, <2>2, <2>4, SlashHasEvidence DEF SlashInv
    <2> QED BY Zenon, <1>5, <2>3, <2>4 DEF NewBlock
  <1>6. ASSUME NEW bs \in Batch, Blocks(bs) PROVE SlashInv'
    <2>1. /\ received' = received \cup Range(bs) /\ UNCHANGED <<slashed, seen>>
          /\ hpc' = "sync" => todo' = bs
      BY Zenon, <1>6 DEF Blocks, BlockMuFree, memory, handler
    <2>2. bs \in Seq(received')
      BY <2>1, BlockAssumption DEF Range
    <2> QED BY <2>1, <2>2 DEF SlashInv, SlashJustified
  <1>7. CASE SyncStep
    <2>1. hpc = "sync" /\ UNCHANGED received /\ todo \in Seq(received)
      BY Zenon, <1>7 DEF SyncStep, SlashInv
    <2>2. CASE todo = <<>>
      BY Zenon, <1>7, <2>1, <2>2, <1>q DEF SyncStep, Release
    <2>3. CASE todo # <<>>
      <3>1. Head(todo) \in received /\ Tail(todo) \in Seq(received)
        BY <2>1, <2>3
      <3>2. seen' \subseteq received' /\ (hpc' = "sync" => todo' = Tail(todo))
        BY Zenon, <1>7, <2>1, <2>3, <3>1 DEF SyncStep, Release, SlashInv
      <3>3. CASE UNCHANGED slashed
        BY Zenon, <2>1, <3>1, <3>2, <3>3 DEF SlashInv, SlashJustified
      <3>4. CASE Equivocates(Head(todo)) /\ SlashValidator(Head(todo).validator)
        BY Zenon, <2>1, <3>1, <3>2, <3>4, SlashHasEvidence DEF SlashInv
      <3> QED BY Zenon, <1>7, <2>3, <3>3, <3>4 DEF SyncStep
    <2> QED BY <2>2, <2>3
  <1>8. CASE ReapplyGenesis \/ WriteOpen \/ WriteBlock \/ ApplyBlock
    BY Zenon, <1>8, <1>q DEF ReapplyGenesis, WriteOpen, WriteBlock, AfterWrite, ApplyBlock, memory, history
  <1>9. CASE Reset \/ ReplayGenesis \/ ReplayBlock \/ SetTip
    BY Zenon, <1>9, <1>q DEF Reset, ReplayGenesis, ReplayBlock, SetTip, memory, history
  <1>10. CASE ProducerFails \/ WriteFails \/ HandlerFails
    BY Zenon, <1>10, <1>q DEF ProducerFails, WriteFails, AfterWrite, HandlerFails, Release, Fault,
                       memory, handler
  <1>gf. CASE GenesisFails
    BY Zenon, <1>gf, <1>q DEF GenesisFails, Fault, memory, handler
  <1>11. CASE Crash \/ Restart
    BY <1>11, <1>q DEF Crash, Restart, Release, Fault, handler, history
  <1> QED
    BY <1>gf, <1>1, <1>2, <1>3, <1>4, <1>5, <1>6, <1>7, <1>8, <1>9, <1>10, <1>11
    DEF Next, WriterStep, HandlerStep

\* Nobody is slashed unless the node has received two different blocks of one
\* height that both name them as their validator.
THEOREM SlashCorrect == Spec => []SlashJustified
  <1>1. SlashInv => SlashJustified
    BY DEF SlashInv
  <1> QED BY <1>1, SlashInit, SlashStep, PTL DEF Spec

-----------------------------------------------------------------------------
(* Blocks that name the leader only, and none that names the slashed. *)

\* What SlashValidator leaves of the list.
LEMMA SlashFacts ==
  ASSUME validatorList \in Seq(Addr), NEW v \in Addr, SlashValidator(v)
  PROVE  /\ validatorList' \in Seq(Addr) /\ Range(validatorList') = Range(validatorList) \ {v}
         /\ validatorList = <<>> => validatorList' = <<>> /\ slashed' = slashed
         /\ validatorList # <<>> => slashed' = slashed \cup {v}
  <1>1. /\ validatorList' \in Seq(Addr) /\ Len(validatorList') <= Len(validatorList)
        /\ Range(validatorList') = Range(validatorList) \ {v}
    BY DropFacts DEF SlashValidator, Without
  <1>2. validatorList = <<>> => validatorList' = <<>>
    BY <1>1
  <1> QED BY <1>1, <1>2 DEF SlashValidator

\* After the genesis block, only blocks of the leaders of their heights.
ByLeader(list) == \A i \in 2 .. Len(list) : VerifyBlockValidator(Validators, list[i])

\* Where the handler has a single block in hand that it checked.
Writing == {"open", "write", "apply"}

\* The state holds leaders' blocks only, and so do the hands of both threads:
\* a block is checked against the list, which is the configured one, before it
\* is written, and stays in hand until it is applied.
LeaderInv ==
  slashed = {} /\ ~reorged =>
    /\ ByLeader(applied) /\ Len(applied) >= 1
    /\ validatorList = Validators
    /\ hpc = "sync" => set = Validators
    /\ ppc = "apply" => VerifyBlockValidator(Validators, pb)
    /\ hpc \in Writing => VerifyBlockValidator(Validators, Head(todo))

\* Applying a leader's block keeps the state so.
LEMMA LeaderApply ==
  ASSUME NEW list \in Seq(Block), Len(list) >= 1, ByLeader(list),
         NEW b \in Block, VerifyBlockValidator(Validators, b)
  PROVE  ByLeader(Apply(list, b)) /\ Len(Apply(list, b)) >= 1
  <1>1. CASE b.txs = <<>>
    BY Zenon, <1>1 DEF Apply
  <1>2. CASE b.txs # <<>>
    <2>1. Apply(list, b) = Append(list, b)
      BY <1>2 DEF Apply
    <2>2. /\ Len(Append(list, b)) = Len(list) + 1 /\ Append(list, b)[Len(list) + 1] = b
          /\ \A i \in 1 .. Len(list) : Append(list, b)[i] = list[i]
      OBVIOUS
    <2>3. ByLeader(Append(list, b))
      <3> SUFFICES ASSUME NEW i \in 2 .. Len(list) + 1
                   PROVE  VerifyBlockValidator(Validators, Append(list, b)[i])
        BY Zenon, <2>2 DEF ByLeader
      <3>1. CASE i = Len(list) + 1
        BY Zenon, <2>2, <3>1
      <3>2. CASE i \in 2 .. Len(list)
        <4>1. Append(list, b)[i] = list[i]
          BY <2>2, <3>2
        <4> QED BY Zenon, <4>1, <3>2 DEF ByLeader
      <3> QED BY <3>1, <3>2
    <2> QED BY <2>1, <2>2, <2>3
  <1> QED BY Zenon, <1>1, <1>2

LEMMA LeaderInit == Init => LeaderInv
  <1> SUFFICES ASSUME Init PROVE LeaderInv
    OBVIOUS
  <1>1. applied = <<Genesis>> /\ validatorList = Validators /\ hpc = "idle" /\ ppc = "idle"
    BY DEF Init
  <1>2. Len(<<Genesis>>) = 1
    OBVIOUS
  <1> QED BY <1>1, <1>2 DEF LeaderInv, ByLeader, Writing

LEMMA LeaderStep == TypeInv /\ LeaderInv /\ [Next]_vars => LeaderInv'
  <1> SUFFICES ASSUME TypeInv, LeaderInv, [Next]_vars PROVE LeaderInv'
    OBVIOUS
  <1>t. TypeOK /\ ControlInv
    BY DEF TypeInv
  \* Steps that apply nothing and pick no new block.
  <1>q. ASSUME UNCHANGED <<applied, validatorList, slashed>>, reorged => reorged',
               hpc' = "sync" => hpc = "sync" /\ set' = set,
               ppc' = "apply" => ppc = "apply" /\ pb' = pb,
               hpc' \in Writing => hpc \in Writing /\ Head(todo') = Head(todo)
        PROVE  LeaderInv'
    BY <1>q DEF LeaderInv
  \* Once a replay has begun nothing is claimed.
  <1>r. ASSUME reorged' PROVE LeaderInv'
    BY <1>r DEF LeaderInv
  <1>1. ASSUME NEW t \in Tx, AddTx(t) PROVE LeaderInv'
    BY <1>1, <1>q DEF AddTx, disk, producer, handler, history
  <1>2. ASSUME NEW from \in 0 .. tip.height, GetBlocks(from) PROVE LeaderInv'
    BY Zenon, <1>2, <1>q DEF GetBlocks, disk, producer, handler
  <1>3. CASE Produce
    <2>1. /\ MayProduce(validatorList, tip.height + 1, Self)
          /\ pb'.height = tip.height + 1 /\ pb'.validator = Self
          /\ hpc = "idle"
          /\ UNCHANGED <<applied, validatorList, slashed, reorged, hpc, set, todo>>
      BY Zenon, <1>3 DEF Produce, disk, handler, history
    <2>2. validatorList = Validators => VerifyBlockValidator(Validators, pb')
      BY <2>1 DEF VerifyBlockValidator
    <2> QED BY <2>1, <2>2 DEF LeaderInv, Writing
  <1>4. CASE ProducerApply
    <2>1. /\ ppc = "apply" /\ ppc' = "append" /\ applied' = Apply(applied, pb)
          /\ UNCHANGED <<validatorList, slashed, reorged, hpc, set, todo>>
      BY <1>4 DEF ProducerApply, handler, history
    <2>2. applied \in Seq(Block) /\ pb \in Block
      BY <1>t DEF TypeOK
    <2>3. slashed = {} /\ ~reorged => ByLeader(applied') /\ Len(applied') >= 1
      BY <2>1, <2>2, LeaderApply DEF LeaderInv
    <2> QED BY <2>1, <2>3 DEF LeaderInv
  <1>5. CASE AppendBlock \/ SaveTruncate \/ SaveWrite \/ RemoveIncluded \/ Announce
    <2>1. UNCHANGED <<applied, validatorList, slashed, reorged, hpc, set, todo>>
      BY Zenon, <1>5 DEF AppendBlock, SaveTruncate, SaveWrite, RemoveIncluded, Announce,
                         disk, handler, history
    <2>2. ppc' # "apply"
      BY <1>5 DEF AppendBlock, SaveTruncate, SaveWrite, RemoveIncluded, Announce
    <2> QED BY Zenon, <2>1, <2>2, <1>q
  \* A slash either adds to the slashed or finds no list.
  <1>s. ASSUME NEW v \in Addr, SlashValidator(v), UNCHANGED <<applied, reorged, ppc, pb, hpc, set>>,
               hpc \in {"idle", "sync"}
        PROVE  LeaderInv'
    <2>1. slashed' = {} => validatorList' = validatorList /\ slashed = {}
      BY Zenon, <1>s, <1>t, SlashFacts DEF TypeOK
    <2> QED BY <1>s, <2>1 DEF LeaderInv, Writing
  <1>6. ASSUME NEW b \in Deliver, NewBlock(b) PROVE LeaderInv'
    <2>1. UNCHANGED <<applied, reorged, ppc, pb, set>> /\ hpc = "idle" /\ b.validator \in Addr
      BY Zenon, <1>6, BlockAssumption DEF NewBlock, BlockMuFree, producer
    <2>2. CASE UNCHANGED <<validatorList, slashed, hpc, todo>>
      BY <2>1, <2>2, <1>q
    <2>3. CASE SlashValidator(b.validator) /\ UNCHANGED hpc
      BY <2>1, <2>3, <1>s
    <2>4. CASE /\ Acceptable(b, validatorList) /\ hpc' = "open" /\ todo' = <<b>>
               /\ UNCHANGED <<validatorList, slashed>>
      <3>1. VerifyBlockValidator(validatorList, b) /\ Head(todo') = b
        BY <2>4 DEF Acceptable
      <3> QED BY Zenon, <2>1, <2>4, <3>1 DEF LeaderInv
    <2> QED BY Zenon, <1>6, <2>2, <2>3, <2>4 DEF NewBlock
  <1>7. ASSUME NEW bs \in Batch, Blocks(bs) PROVE LeaderInv'
    <2>1. /\ UNCHANGED <<applied, validatorList, slashed, reorged, ppc, pb>> /\ hpc = "idle"
          /\ hpc' = "sync" => set' = validatorList
          /\ hpc' \notin Writing
      BY Zenon, <1>7 DEF Blocks, BlockMuFree, disk, producer, handler, Writing
    <2> QED BY Zenon, <2>1 DEF LeaderInv
  <1>8. CASE SyncStep
    <2>1. hpc = "sync" /\ UNCHANGED <<applied, reorged, ppc, pb>> /\ todo \in Seq(Block)
      BY Zenon, <1>8, <1>t DEF SyncStep, producer, TypeOK
    <2>2. CASE UNCHANGED <<validatorList, slashed, hpc, set>>
      BY <2>1, <2>2, <1>q DEF Writing
    <2>3. CASE hpc' = "idle" /\ UNCHANGED <<validatorList, slashed>>
      BY <2>1, <2>3, <1>q DEF Writing
    <2>4. CASE todo # <<>> /\ SlashValidator(Head(todo).validator) /\ UNCHANGED <<hpc, set>>
      <3>1. Head(todo).validator \in Addr
        BY Zenon, <2>1, <2>4, SeqFacts, BlockAssumption
      <3> QED BY Zenon, <2>1, <2>4, <3>1, <1>s
    <2>5. CASE /\ Acceptable(Head(todo), set) /\ hpc' = "open"
               /\ UNCHANGED <<validatorList, slashed, set, todo>>
      <3>1. VerifyBlockValidator(set, Head(todo))
        BY <2>5 DEF Acceptable
      <3> QED BY Zenon, <2>1, <2>5, <3>1 DEF LeaderInv
    <2> QED BY Zenon, <1>8, <2>2, <2>3, <2>4, <2>5 DEF SyncStep, Release
  <1>9. CASE ReapplyGenesis
    BY <1>9, <1>r DEF ReapplyGenesis
  <1>10. CASE WriteOpen
    BY Zenon, <1>10, <1>q DEF WriteOpen, producer, Writing
  <1>11. CASE WriteBlock \/ WriteFails
    <2>1. \/ hpc \in Writing /\ hpc' = "apply" /\ todo' = todo
          \/ hpc' \in {"reset", "reopen"}
      BY Zenon, <1>11 DEF WriteBlock, WriteFails, AfterWrite, Writing
    <2>2. UNCHANGED <<applied, validatorList, slashed, ppc, pb>> /\ (reorged => reorged')
      BY Zenon, <1>11, <1>t DEF WriteBlock, WriteFails, Fault, disk, producer, history, TypeOK
    <2> QED BY <2>1, <2>2, <1>q DEF Writing
  <1>12. CASE ApplyBlock
    <2>1. /\ hpc = "apply" /\ hpc' = "setTip" /\ applied' = Apply(applied, Head(todo))
          /\ UNCHANGED <<validatorList, slashed, reorged, ppc, pb>>
      BY <1>12 DEF ApplyBlock, producer, history
    <2>2. applied \in Seq(Block) /\ Head(todo) \in Block
      BY Zenon, <2>1, <1>t, SeqFacts DEF TypeOK, ControlInv
    <2>3. slashed = {} /\ ~reorged => ByLeader(applied') /\ Len(applied') >= 1
      BY Zenon, <2>1, <2>2, LeaderApply DEF LeaderInv, Writing
    <2> QED BY Zenon, <2>1, <2>3 DEF LeaderInv, Writing
  <1>13. CASE Reset \/ ReplayGenesis \/ ReplayBlock
    BY Zenon, <1>13, <1>t, <1>r DEF Reset, ReplayGenesis, ReplayBlock, ControlInv, history
  <1>14. CASE SetTip \/ ProducerFails \/ HandlerFails
    BY <1>14, <1>q DEF SetTip, ProducerFails, HandlerFails, Release, Fault, disk, producer,
                       handler, history, Writing
  <1>gf. CASE GenesisFails
    BY Zenon, <1>gf, <1>r DEF GenesisFails
  <1>15. CASE Crash \/ Restart
    BY <1>15, <1>q DEF Crash, Restart, Release, Fault, disk, producer, handler, history, Writing
  <1>16. CASE UNCHANGED vars
    BY Zenon, <1>16, <1>q DEF vars, disk, producer, handler, history
  <1> QED
    BY Zenon, <1>gf, <1>1, <1>2, <1>3, <1>4, <1>5, <1>6, <1>7, <1>8, <1>9, <1>10, <1>11, <1>12,
       <1>13, <1>14, <1>15, <1>16
    DEF Next, WriterStep, ProducerStep, HandlerStep

\* Until a validator is slashed or a chain replayed, whatever peers send and
\* whatever fails, the state holds only blocks that name the leader of their
\* height as their validator.
THEOREM LeaderCorrect == Spec => []AppliedInTurn
  <1>1. LeaderInv => AppliedInTurn
    BY DEF LeaderInv, ByLeader, AppliedInTurn
  <1> QED BY <1>1, TypeInit, TypeStep, LeaderInit, LeaderStep, PTL DEF Spec

\* A slashed validator is not in the list; the set captured for a message is
\* empty only if there is no list.
ShutInv ==
  /\ SlashedShutOut
  /\ ~reorged => /\ slashed \cap Range(validatorList) = {}
                 /\ hpc = "sync" /\ set = <<>> => validatorList = <<>>

LEMMA ShutInit == Init => ShutInv
  BY Zenon DEF Init, ShutInv, SlashedShutOut

\* A block that passes the check against a list was made by a member of it.
LEMMA CheckedIsMember ==
  ASSUME NEW list \in Seq(Addr), list # <<>>, NEW b \in Block, VerifyBlockValidator(list, b)
  PROVE  b.validator \in Range(list)
  <1>1. b.height \in Nat /\ Len(list) \in Nat \ {0} /\ DOMAIN list = 1 .. Len(list)
    BY BlockAssumption
  <1>2. (b.height % Len(list)) + 1 \in 1 .. Len(list)
    BY <1>1
  <1>3. b.validator = list[(b.height % Len(list)) + 1]
    BY DEF VerifyBlockValidator, MayProduce, ValidatorForHeight
  <1> QED BY <1>1, <1>2, <1>3 DEF Range

LEMMA ShutStep == TypeInv /\ ShutInv /\ [Next]_vars => ShutInv'
  <1> SUFFICES ASSUME TypeInv, ShutInv, [Next]_vars PROVE ShutInv'
    OBVIOUS
  <1>t. TypeOK /\ ControlInv
    BY DEF TypeInv
  \* Steps that slash nobody and pick no new block.
  <1>q. ASSUME UNCHANGED <<validatorList, slashed>>, reorged => reorged',
               hpc' = "sync" => hpc = "sync" /\ set' = set,
               hpc' \in Writing => hpc \in Writing /\ set' = set /\ Head(todo') = Head(todo)
        PROVE  ShutInv'
    BY Zenon, <1>q DEF ShutInv, SlashedShutOut, Writing
  <1>r. ASSUME reorged' PROVE ShutInv'
    BY Zenon, <1>r DEF ShutInv, SlashedShutOut
  <1>1. ASSUME NEW t \in Tx, AddTx(t) PROVE ShutInv'
    BY Zenon, <1>1, <1>q DEF AddTx, disk, handler, history
  <1>2. ASSUME NEW from \in 0 .. tip.height, GetBlocks(from) PROVE ShutInv'
    BY Zenon, <1>2, <1>q DEF GetBlocks, disk, handler
  <1>3. CASE ProducerStep \/ ProducerFails
    <2>1. UNCHANGED <<validatorList, slashed, reorged, hpc, set, todo>>
      BY Zenon, <1>3 DEF ProducerStep, Produce, ProducerApply, AppendBlock, SaveTruncate, SaveWrite,
                  RemoveIncluded, Announce, ProducerFails, Fault, disk, handler, history
    <2> QED BY <2>1, <1>q
  <1>s. ASSUME NEW v \in Addr, SlashValidator(v), UNCHANGED <<reorged, hpc, set>>,
               hpc \in {"idle", "sync"}
        PROVE  ShutInv'
    <2>1. /\ Range(validatorList') = Range(validatorList) \ {v}
          /\ slashed' \subseteq slashed \cup {v}
          /\ validatorList = <<>> => validatorList' = <<>>
      BY Zenon, <1>s, <1>t, SlashFacts DEF TypeOK
    <2> QED BY Zenon, <1>s, <2>1 DEF ShutInv, SlashedShutOut
  <1>4. ASSUME NEW b \in Deliver, NewBlock(b) PROVE ShutInv'
    <2>1. UNCHANGED <<reorged, set>> /\ hpc = "idle" /\ b \in Block /\ b.validator \in Addr
      BY Zenon, <1>4, BlockAssumption DEF NewBlock, BlockMuFree
    <2>2. CASE UNCHANGED <<validatorList, slashed, hpc, todo>>
      BY <2>1, <2>2, <1>q
    <2>3. CASE SlashValidator(b.validator) /\ UNCHANGED hpc
      BY <2>1, <2>3, <1>s
    <2>4. CASE /\ Acceptable(b, validatorList) /\ hpc' = "open" /\ todo' = <<b>>
               /\ UNCHANGED <<validatorList, slashed>>
      <3>1. VerifyBlockValidator(validatorList, b) /\ Head(todo') = b
        BY <2>4 DEF Acceptable
      <3>2. validatorList # <<>> => b.validator \in Range(validatorList)
        BY Zenon, <2>1, <3>1, <1>t, CheckedIsMember DEF TypeOK
      <3> QED BY Zenon, <2>1, <2>4, <3>1, <3>2 DEF ShutInv, SlashedShutOut
    <2> QED BY <1>4, <2>2, <2>3, <2>4 DEF NewBlock
  <1>5. ASSUME NEW bs \in Batch, Blocks(bs) PROVE ShutInv'
    <2>1. /\ UNCHANGED <<validatorList, slashed, reorged>> /\ hpc = "idle"
          /\ hpc' = "sync" => set' = validatorList
          /\ hpc' \notin Writing
      BY Zenon, <1>5 DEF Blocks, BlockMuFree, disk, handler, Writing
    <2> QED BY Zenon, <2>1 DEF ShutInv, SlashedShutOut, Writing
  <1>6. CASE SyncStep
    <2>1. hpc = "sync" /\ UNCHANGED reorged /\ todo \in Seq(Block) /\ set \in Seq(Addr)
      BY Zenon, <1>6, <1>t DEF SyncStep, TypeOK
    <2>2. CASE UNCHANGED <<validatorList, slashed, hpc, set>>
      BY <2>1, <2>2, <1>q DEF Writing
    <2>3. CASE hpc' = "idle" /\ UNCHANGED <<validatorList, slashed>>
      BY <2>1, <2>3, <1>q DEF Writing
    <2>4. CASE todo # <<>> /\ SlashValidator(Head(todo).validator) /\ UNCHANGED <<hpc, set>>
      <3>1. Head(todo).validator \in Addr
        BY Zenon, <2>1, <2>4, SeqFacts, BlockAssumption
      <3> QED BY Zenon, <2>1, <2>4, <3>1, <1>s
    <2>5. CASE /\ todo # <<>> /\ Acceptable(Head(todo), set) /\ hpc' = "open"
               /\ UNCHANGED <<validatorList, slashed, set, todo>>
      <3>1. VerifyBlockValidator(set, Head(todo)) /\ Head(todo) \in Block
        BY <2>1, <2>5, SeqFacts DEF Acceptable
      <3>2. set # <<>> => Head(todo).validator \in Range(set)
        BY Zenon, <2>1, <3>1, CheckedIsMember
      <3> QED BY Zenon, <2>1, <2>5, <3>2 DEF ShutInv, SlashedShutOut
    <2> QED BY Zenon, <1>6, <2>2, <2>3, <2>4, <2>5 DEF SyncStep, Release
  <1>7. CASE ReapplyGenesis
    BY <1>7, <1>r DEF ReapplyGenesis
  <1>8. CASE WriteOpen
    BY Zenon, <1>8, <1>q DEF WriteOpen, Writing
  <1>9. CASE WriteBlock \/ WriteFails
    <2>1. \/ hpc \in Writing /\ hpc' = "apply" /\ todo' = todo
          \/ hpc' \in {"reset", "reopen"}
      BY <1>9 DEF WriteBlock, WriteFails, AfterWrite, Writing
    <2>2. UNCHANGED <<validatorList, slashed, set>> /\ (reorged => reorged')
      BY Zenon, <1>9, <1>t DEF WriteBlock, WriteFails, Fault, disk, history, TypeOK
    <2> QED BY <2>1, <2>2, <1>q DEF Writing
  <1>10. CASE Reset \/ ReplayGenesis \/ ReplayBlock
    BY <1>10, <1>t, <1>r DEF Reset, ReplayGenesis, ReplayBlock, ControlInv, history
  <1>11. CASE ApplyBlock \/ SetTip \/ HandlerFails
    BY <1>11, <1>q DEF ApplyBlock, SetTip, HandlerFails, Release, Fault, disk, history, Writing
  <1>gf. CASE GenesisFails
    BY Zenon, <1>gf, <1>r DEF GenesisFails
  <1>12. CASE Crash \/ Restart
    BY <1>12, <1>q DEF Crash, Restart, Release, Fault, disk, handler, history, Writing
  <1>13. CASE UNCHANGED vars
    BY Zenon, <1>13, <1>q DEF vars, disk, handler, history
  <1> QED
    BY Zenon, <1>gf, <1>1, <1>2, <1>3, <1>4, <1>5, <1>6, <1>7, <1>8, <1>9, <1>10, <1>11, <1>12, <1>13
    DEF Next, WriterStep, HandlerStep

\* A slashed validator gets no block in, in whatever order blocks, batches and
\* crashes come, up to the two exceptions SlashedShutOut names.
THEOREM ShutCorrect == Spec => []SlashedShutOut
  <1>1. ShutInv => SlashedShutOut
    BY DEF ShutInv
  <1> QED BY <1>1, TypeInit, TypeStep, ShutInit, ShutStep, PTL DEF Spec

-----------------------------------------------------------------------------
(* Broadcast blocks stay on the chain. *)

\* Not only the chain a restart would find, the one at hand has them too.
AnnounceInv ==
  /\ AnnouncedDurable
  /\ up /\ hpc # "stuck" => announced \subseteq Range(PathTo[tip])

LEMMA AnnounceInit == Init => AnnounceInv
  BY Zenon DEF Init, AnnounceInv, AnnouncedDurable

LEMMA AnnounceStep == TypeInv /\ AnnounceInv /\ [Next]_vars => AnnounceInv'
  <1> SUFFICES ASSUME TypeInv, AnnounceInv, [Next]_vars PROVE AnnounceInv'
    OBVIOUS
  <1>t. TypeOK /\ ControlInv
    BY DEF TypeInv
  \* Most steps leave chain.json and the broadcasts alone, and move the tip
  \* only where no one can read it.
  <1>q. ASSUME UNCHANGED <<meta, announced>>,
               up' /\ hpc' # "stuck" => up /\ hpc # "stuck" /\ tip' = tip
        PROVE  AnnounceInv'
    BY <1>q DEF AnnounceInv, AnnouncedDurable
  <1>1. ASSUME NEW t \in Tx, AddTx(t) PROVE AnnounceInv'
    BY <1>1, <1>q DEF AddTx, disk, handler, history
  <1>2. ASSUME NEW from \in 0 .. tip.height, GetBlocks(from) PROVE AnnounceInv'
    BY Zenon, <1>2, <1>q DEF GetBlocks, disk, memory, handler
  <1>3. CASE Produce \/ ProducerApply \/ RemoveIncluded
    <2>1. UNCHANGED <<meta, announced, up, hpc, tip>>
      BY Zenon, <1>3 DEF Produce, ProducerApply, RemoveIncluded, disk, memory, handler, history
    <2> QED BY Zenon, <2>1, <1>q
  <1>4. CASE AppendBlock
    <2>1. /\ ppc = "append" /\ tip' = pb /\ UNCHANGED <<meta, announced, up, hpc>>
      BY Zenon, <1>4 DEF AppendBlock, handler, history
    <2>2. pb.prev = tip /\ tip \in Block /\ pb \in Block
      BY Zenon, <2>1, <1>t DEF TypeOK, ControlInv
    <2>3. Range(PathTo[pb]) = Range(PathTo[tip]) \cup {pb}
      BY <2>2, PathFacts
    <2> QED BY Zenon, <2>1, <2>3 DEF AnnounceInv, AnnouncedDurable
  <1>5. CASE SaveTruncate
    <2>1. meta' = Torn /\ UNCHANGED <<announced, up, hpc, tip>>
      BY Zenon, <1>5 DEF SaveTruncate, memory, handler, history
    <2> QED BY <2>1 DEF AnnounceInv, AnnouncedDurable
  <1>6. CASE SaveWrite
    <2>1. ppc = "save" /\ meta' = tip /\ UNCHANGED <<announced, up, hpc, tip>>
      BY Zenon, <1>6 DEF SaveWrite, memory, handler, history
    <2>2. up /\ hpc = "idle"
      BY Zenon, <2>1, <1>t DEF ControlInv, TypeOK
    <2> QED BY <2>1, <2>2 DEF AnnounceInv, AnnouncedDurable
  <1>7. CASE Announce
    <2>1. ppc = "bcast" /\ announced' = announced \cup {pb} /\ UNCHANGED <<meta, up, hpc, tip>>
      BY Zenon, <1>7 DEF Announce, disk, memory, handler
    <2>2. meta = pb /\ (hpc # "stuck" => tip = pb) /\ pb \in Block
      BY Zenon, <2>1, <1>t DEF ControlInv, TypeOK
    <2>3. pb \in Range(PathTo[pb])
      BY <2>2, PathFacts
    <2> QED BY Zenon, <2>1, <2>2, <2>3 DEF AnnounceInv, AnnouncedDurable
  <1>8. ASSUME NEW b \in Deliver, NewBlock(b) PROVE AnnounceInv'
    BY Zenon, <1>8, <1>q DEF NewBlock, BlockMuFree
  <1>9. ASSUME NEW bs \in Batch, Blocks(bs) PROVE AnnounceInv'
    BY Zenon, <1>9, <1>q DEF Blocks, BlockMuFree, disk, memory
  <1>10. CASE SyncStep \/ ReapplyGenesis \/ WriteOpen
    <2>1. hpc # "stuck" /\ UNCHANGED <<meta, announced, up, tip>>
      BY Zenon, <1>10 DEF SyncStep, ReapplyGenesis, WriteOpen, memory, disk, history
    <2> QED BY Zenon, <2>1, <1>q
  <1>11. CASE WriteBlock \/ ApplyBlock \/ Reset \/ ReplayGenesis \/ ReplayBlock
    <2>1. hpc # "stuck" /\ UNCHANGED <<meta, announced, up, tip>>
      BY Zenon, <1>11 DEF WriteBlock, ApplyBlock, Reset, ReplayGenesis, ReplayBlock,
                   disk, memory, history
    <2> QED BY Zenon, <2>1, <1>q
  <1>s. CASE SetTip
    BY Zenon, <1>s, <1>q DEF SetTip, disk, memory, history
  <1>12. CASE ProducerFails \/ WriteFails \/ HandlerFails
    <2>1. UNCHANGED <<meta, announced, up, tip>>
      BY Zenon, <1>12 DEF ProducerFails, WriteFails, HandlerFails, Fault, disk, memory
    <2>2. hpc' = hpc \/ hpc # "stuck"
      BY <1>12 DEF ProducerFails, WriteFails, AfterWrite, HandlerFails, handler
    <2> QED BY Zenon, <2>1, <2>2, <1>q
  <1>gf. CASE GenesisFails
    <2>1. hpc # "stuck" /\ UNCHANGED <<meta, announced, up, tip>>
      BY <1>gf DEF GenesisFails, Fault, memory, disk
    <2> QED BY Zenon, <2>1, <1>q
  <1>13. CASE Crash
    BY Zenon, <1>13, <1>q DEF Crash, Fault, disk
  <1>14. CASE Restart
    <2>1. meta # Torn /\ tip' = meta /\ UNCHANGED <<meta, announced>>
      BY <1>14 DEF Restart, disk, history
    <2> QED BY <2>1 DEF AnnounceInv, AnnouncedDurable
  <1>15. CASE UNCHANGED vars
    BY Zenon, <1>15, <1>q DEF vars, disk, memory, handler, history
  <1> QED
    BY Zenon, <1>gf, <1>1, <1>2, <1>3, <1>4, <1>5, <1>6, <1>7, <1>8, <1>9, <1>10, <1>11, <1>s, <1>12,
       <1>13, <1>14, <1>15
    DEF Next, WriterStep, ProducerStep, HandlerStep

\* Whatever fails and whenever the process dies, a broadcast block is on the
\* chain the node restarts with.
THEOREM DurableCorrect == Spec => []AnnouncedDurable
  <1>1. AnnounceInv => AnnouncedDurable
    BY DEF AnnounceInv
  <1> QED BY <1>1, TypeInit, TypeStep, AnnounceInit, AnnounceStep, PTL DEF Spec

-----------------------------------------------------------------------------
(* The state is what the chain says. *)

\* The state a block is applied to.
Before(b) == IF b.prev \in Block THEN StateOf[b.prev] ELSE <<Genesis>>

\* The state of a chain is that of its predecessor with the block applied.
LEMMA StateUnfold ==
  /\ StateOf \in [Block -> Seq(Block)]
  /\ \A b \in Block : StateOf[b] = Apply(Before(b), b)
  <1> DEFINE parent == [b \in Block |-> b.prev]
             V == Seq(Block)
             base == [b \in Block |-> Apply(<<Genesis>>, b)]
             step == [x \in V \X Block |-> Apply(x[1], x[2])]
             Eq(f) == f = [b \in Block |->
                            Apply(IF b.prev \in Block THEN f[b.prev] ELSE <<Genesis>>, b)]
  <1>1. Grounded(Block, parent)
    BY SMTT(30), ChainAssumption DEF Grounded
  <1>a. \A list \in Seq(Block) : \A b \in Block : Apply(list, b) \in Seq(Block)
    BY Zenon, SeqFacts DEF Apply
  <1>g. <<Genesis>> \in Seq(Block)
    BY BlockAssumption
  <1>2. base \in [Block -> V] /\ step \in [V \X Block -> V]
    BY Zenon, <1>a, <1>g
  <1>3. PICK f \in [Block -> V] : Recursive(Block, parent, base, step, f)
    <2> HIDE DEF parent, V, base, step
    <2> QED BY Zenon, <1>1, <1>2, RecursionExists
  <1>4. Eq(f)
    BY Zenon, <1>3 DEF Recursive
  <1>5. Eq(StateOf)
    <2>1. StateOf = CHOOSE g : Eq(g)
      BY DEF StateOf
    <2> HIDE DEF Eq
    <2> QED BY <1>4, <2>1
  <1>6. \A b \in Block : StateOf[b] = Apply(Before(b), b)
    BY <1>5 DEF Before
  <1>7. ASSUME NEW b \in Block PROVE StateOf[b] = f[b]
    <2> DEFINE T == {c \in Block : StateOf[c] # f[c]}
    <2> SUFFICES ASSUME T # {} PROVE FALSE
      BY <1>7
    <2>1. PICK c \in T : c.prev \notin T
      BY Zenon, ChainAssumption
    <2> QED BY Zenon, <2>1, <1>6, <1>4 DEF Before
  <1>8. StateOf \in [Block -> V]
    <2>1. StateOf = [b \in Block |-> StateOf[b]]
      BY <1>5
    <2>2. \A b \in Block : StateOf[b] \in V
      BY <1>7
    <2> QED BY <2>1, <2>2
  <1> QED BY <1>6, <1>8

\* Each block is the child of the one before it.
Joined(bs) == \A i \in 1 .. Len(bs) - 1 : bs[i+1].prev = bs[i]

\* What the message at hand is made of: one block that is written and applied,
\* or a whole chain, written first and then replayed.
MessageInv ==
  /\ hpc \in Writing \cup {"regenesis"} => batch = <<Head(todo)>>
  /\ hpc \in {"reopen", "rewrite", "reset", "genesis"} =>
       Joined(batch) /\ Head(batch).prev \notin Block
  /\ hpc \in {"reset", "genesis"} => todo = batch
  /\ hpc = "replay" => Joined(todo) /\ Newest(todo) = Newest(batch)

LEMMA MessageInit == Init => MessageInv
  BY Zenon DEF Init, MessageInv, Writing

\* A chain without its first block still ends where it did.
LEMMA JoinedTail ==
  ASSUME NEW bs \in Seq(Block), bs # <<>>, Len(bs) # 1, Joined(bs)
  PROVE  /\ Joined(Tail(bs)) /\ Newest(Tail(bs)) = Newest(bs)
         /\ Head(Tail(bs)).prev = Head(bs)
  <1>1. /\ Len(bs) \in Nat /\ Len(bs) >= 2 /\ Tail(bs) \in Seq(Block)
        /\ Len(Tail(bs)) = Len(bs) - 1
        /\ \A i \in 1 .. Len(bs) - 1 : Tail(bs)[i] = bs[i+1]
    <2>1. Len(bs) \in Nat /\ Len(bs) # 0
      OBVIOUS
    <2>2. /\ Tail(bs) \in Seq(Block) /\ Len(Tail(bs)) = Len(bs) - 1
          /\ \A i \in 1 .. Len(bs) - 1 : Tail(bs)[i] = bs[i+1]
      BY HeadTailProperties
    <2> QED BY <2>1, <2>2
  <1>2. Joined(Tail(bs))
    <2> SUFFICES ASSUME NEW i \in 1 .. Len(bs) - 2 PROVE Tail(bs)[i+1].prev = Tail(bs)[i]
      BY <1>1 DEF Joined
    <2>1. Tail(bs)[i] = bs[i+1] /\ Tail(bs)[i+1] = bs[i+2]
      BY <1>1
    <2>2. bs[(i+1)+1].prev = bs[i+1]
      BY <1>1 DEF Joined
    <2> QED BY <2>1, <2>2, <1>1
  <1>3. Newest(Tail(bs)) = Newest(bs)
    BY <1>1 DEF Newest
  <1>4. Head(Tail(bs)).prev = Head(bs)
    <2>1. Head(Tail(bs)) = Tail(bs)[1] /\ Head(bs) = bs[1]
      BY <1>1
    <2>2. 1 \in 1 .. Len(bs) - 1
      BY <1>1
    <2>3. Tail(bs)[1] = bs[1+1] /\ bs[1+1].prev = bs[1]
      BY <1>1, <2>2 DEF Joined
    <2> QED BY Zenon, <2>1, <2>3
  <1> QED BY Zenon, <1>2, <1>3, <1>4

\* The check of main.go on a longer chain is what makes it one.
LEMMA LinkedIsJoined ==
  ASSUME NEW bs \in Seq(Block), Linked(bs) PROVE Joined(bs)
  <1> SUFFICES ASSUME NEW i \in 1 .. Len(bs) - 1 PROVE bs[i+1].prev = bs[i]
    BY Zenon DEF Joined
  <1>1. i + 1 \in 2 .. Len(bs) /\ (i + 1) - 1 = i
    OBVIOUS
  <1>2. bs[i+1].prev = bs[(i + 1) - 1]
    BY <1>1 DEF Linked
  <1> QED BY Zenon, <1>1, <1>2

LEMMA MessageStep == TypeInv /\ MessageInv /\ [Next]_vars => MessageInv'
  <1> SUFFICES ASSUME TypeInv, MessageInv, [Next]_vars PROVE MessageInv'
    OBVIOUS
  <1>t. TypeOK /\ ControlInv
    BY DEF TypeInv
  <1>q. ASSUME \/ UNCHANGED <<hpc, batch, todo>>
               \/ hpc' \in {"idle", "sync", "setTip", "stuck"}
        PROVE  MessageInv'
    BY Zenon, <1>q DEF MessageInv, Writing
  <1>1. ASSUME NEW t \in Tx, AddTx(t) PROVE MessageInv'
    BY <1>1, <1>q DEF AddTx, handler
  <1>2. ASSUME NEW from \in 0 .. tip.height, GetBlocks(from) PROVE MessageInv'
    BY <1>2, <1>q DEF GetBlocks, handler
  <1>3. CASE ProducerStep \/ ProducerFails
    BY Zenon, <1>3, <1>q DEF ProducerStep, Produce, ProducerApply, AppendBlock, SaveTruncate, SaveWrite,
                      RemoveIncluded, Announce, ProducerFails, handler
  <1>4. ASSUME NEW b \in Deliver, NewBlock(b) PROVE MessageInv'
    <2>1. \/ UNCHANGED <<hpc, batch, todo>>
          \/ hpc' = "open" /\ batch' = <<b>> /\ todo' = <<b>>
      BY Zenon, <1>4 DEF NewBlock
    <2>2. Head(<<b>>) = b
      OBVIOUS
    <2> QED BY Zenon, <2>1, <2>2, <1>q DEF MessageInv, Writing
  <1>5. ASSUME NEW bs \in Batch, Blocks(bs) PROVE MessageInv'
    <2>1. CASE hpc' = "sync" \/ UNCHANGED handler
      BY <2>1, <1>q DEF handler
    <2>2. CASE hpc' = "regenesis" /\ batch' = <<Head(bs)>> /\ todo' = batch'
      <3>1. Head(<<Head(bs)>>) = Head(bs)
        OBVIOUS
      <3> QED BY Zenon, <2>2, <3>1 DEF MessageInv, Writing
    <2>3. CASE Longer(bs) /\ hpc' = "reopen" /\ batch' = bs /\ todo' = bs
      <3>1. bs \in Seq(Block) /\ Linked(bs) /\ Head(bs).prev = ZeroHash
        BY Zenon, <2>3, BlockAssumption DEF Longer, FromGenesis
      <3>2. Joined(bs) /\ Head(bs).prev \notin Block
        BY Zenon, <3>1, LinkedIsJoined, BlockAssumption
      <3> QED BY Zenon, <2>3, <3>2 DEF MessageInv, Writing
    <2> QED BY Zenon, <1>5, <2>1, <2>2, <2>3 DEF Blocks
  <1>6. CASE SyncStep
    <2>1. CASE hpc' \in {"idle", "sync"}
      BY <2>1, <1>q
    <2>2. CASE hpc' = "open" /\ batch' = <<Head(todo)>> /\ todo' = todo
      BY Zenon, <2>2 DEF MessageInv, Writing
    <2> QED BY Zenon, <1>6, <2>1, <2>2 DEF SyncStep, Release
  <1>7. CASE ReapplyGenesis
    BY Zenon, <1>7 DEF ReapplyGenesis, MessageInv, Writing
  <1>8. CASE WriteOpen
    BY Zenon, <1>8 DEF WriteOpen, MessageInv, Writing
  <1>9. CASE WriteBlock \/ WriteFails
    <2>1. AfterWrite /\ batch' = batch
      BY <1>9 DEF WriteBlock, WriteFails
    <2>2. CASE hpc \in {"open", "write"}
      <3>1. hpc' = "apply" /\ todo' = todo
        BY <2>1, <2>2 DEF AfterWrite
      <3> QED BY Zenon, <2>1, <2>2, <3>1 DEF MessageInv, Writing
    <2>3. CASE hpc \in {"reopen", "rewrite"} /\ Len(todo) = 1
      <3>1. hpc' = "reset" /\ todo' = batch
        BY <2>1, <2>3 DEF AfterWrite
      <3> QED BY Zenon, <2>1, <2>3, <3>1 DEF MessageInv, Writing
    <2>4. CASE hpc \in {"reopen", "rewrite"} /\ Len(todo) # 1
      <3>1. hpc' = "reopen"
        BY <2>1, <2>4 DEF AfterWrite
      <3> QED BY Zenon, <2>1, <2>4, <3>1 DEF MessageInv, Writing
    <2> QED BY <2>1, <2>2, <2>3, <2>4 DEF AfterWrite
  <1>10. CASE ApplyBlock \/ SetTip \/ HandlerFails
    BY Zenon, <1>10, <1>q DEF ApplyBlock, SetTip, HandlerFails, Release
  <1>11. CASE Reset \/ ReplayGenesis
    <2>1. /\ UNCHANGED <<batch, todo>> /\ hpc \in {"reset", "genesis"}
          /\ hpc' \in {"genesis", "replay"}
      BY Zenon, <1>11 DEF Reset, ReplayGenesis
    <2> QED BY Zenon, <2>1 DEF MessageInv, Writing
  <1>12. CASE ReplayBlock
    <2>1. /\ hpc = "replay" /\ todo' = Tail(todo) /\ batch' = batch
          /\ todo \in Seq(Block) /\ todo # <<>>
      BY Zenon, <1>12, <1>t DEF ReplayBlock, TypeOK, ControlInv
    <2>2. CASE Len(todo) = 1
      BY Zenon, <1>12, <2>2, <1>q DEF ReplayBlock
    <2>3. CASE Len(todo) # 1
      <3>1. hpc' = "replay"
        BY <1>12, <2>3 DEF ReplayBlock
      <3>2. Joined(todo') /\ Newest(todo') = Newest(batch')
        BY Zenon, <2>1, <2>3, JoinedTail DEF MessageInv
      <3> QED BY Zenon, <3>1, <3>2 DEF MessageInv, Writing
    <2> QED BY <2>2, <2>3
  <1>gf. CASE GenesisFails
    BY Zenon, <1>gf DEF GenesisFails, MessageInv, Writing
  <1>13. CASE Crash \/ Restart
    BY Zenon, <1>13, <1>q DEF Crash, Restart, Release, handler
  <1>14. CASE UNCHANGED vars
    BY <1>14, <1>q DEF vars, handler
  <1> QED
    BY Zenon, <1>gf, <1>1, <1>2, <1>3, <1>4, <1>5, <1>6, <1>7, <1>8, <1>9, <1>10, <1>11, <1>12,
       <1>13, <1>14
    DEF Next, WriterStep, HandlerStep

\* As long as nothing has failed, the node has never gone down, its tip can be
\* read whenever a message starts, and the state is that of the chain at hand:
\* up to the tip, to the block being made, or to the block replayed last.
SoundInv ==
  faults = 0 =>
    /\ up /\ hpc # "regenesis"
    /\ hpc \in {"idle", "sync"} => tip \in files
    /\ hpc \in Writing => Head(todo).prev = tip
    /\ hpc \in {"idle", "sync"} \cup Writing =>
         applied = IF ppc = "append" THEN StateOf[pb] ELSE StateOf[tip]
    /\ hpc = "genesis" => applied = <<>>
    /\ hpc = "replay" => applied = Before(Head(todo))
    /\ hpc = "setTip" => applied = StateOf[Newest(batch)]
    /\ hpc = "stuck" => applied = StateOf[tip]

LEMMA SoundInit == Init => SoundInv
  <1> SUFFICES ASSUME Init PROVE SoundInv
    OBVIOUS
  <1>1. Genesis \in Block /\ Genesis.prev \notin Block /\ Genesis.txs = <<>>
    BY BlockAssumption
  <1>2. StateOf[Genesis] = <<Genesis>>
    BY <1>1, StateUnfold DEF Before, Apply
  <1> QED BY Zenon, <1>2 DEF Init, SoundInv, Writing

LEMMA SoundStep == TypeInv /\ MessageInv /\ SoundInv /\ [Next]_vars => SoundInv'
  <1> SUFFICES ASSUME TypeInv, MessageInv, SoundInv, [Next]_vars PROVE SoundInv'
    OBVIOUS
  <1>t. TypeOK /\ ControlInv
    BY DEF TypeInv
  \* A fault ends the claim.
  <1>f. ASSUME Fault PROVE SoundInv'
    <2>1. faults' # 0
      BY <1>f, <1>t DEF Fault, TypeOK
    <2> QED BY Zenon, <2>1 DEF SoundInv
  <1>q. ASSUME UNCHANGED <<faults, up, tip, applied, hpc, todo, batch>>, files \subseteq files',
               (ppc' = "append") = (ppc = "append"), ppc = "append" => pb' = pb
        PROVE  SoundInv'
    BY Zenon, <1>q DEF SoundInv
  <1>1. ASSUME NEW t \in Tx, AddTx(t) PROVE SoundInv'
    BY Zenon, <1>1, <1>q DEF AddTx, disk, producer, handler, history
  <1>2. ASSUME NEW from \in 0 .. tip.height, GetBlocks(from) PROVE SoundInv'
    BY Zenon, <1>2, <1>q DEF GetBlocks, disk, memory, producer, handler
  <1>3. CASE Produce \/ SaveTruncate \/ SaveWrite \/ RemoveIncluded \/ Announce
    BY Zenon, <1>3, <1>q DEF Produce, SaveTruncate, SaveWrite, RemoveIncluded, Announce,
                      disk, memory, producer, handler, history
  <1>4. CASE ProducerApply
    <2>1. /\ ppc = "apply" /\ ppc' = "append" /\ applied' = Apply(applied, pb)
          /\ UNCHANGED <<faults, files, up, tip, hpc, todo, batch, pb>>
      BY Zenon, <1>4 DEF ProducerApply, memory, handler, history
    <2>2. hpc = "idle" /\ pb \in Block /\ pb.prev = tip /\ tip \in Block
      BY Zenon, <2>1, <1>t DEF ControlInv, TypeOK
    <2>3. StateOf[pb] = Apply(StateOf[tip], pb)
      BY <2>2, StateUnfold DEF Before
    <2> QED BY Zenon, <2>1, <2>2, <2>3 DEF SoundInv, Writing
  <1>5. CASE AppendBlock
    <2>1. /\ ppc = "append" /\ ppc' = "truncate" /\ tip' = pb /\ files' = files \cup {pb}
          /\ UNCHANGED <<faults, up, applied, hpc, todo, batch>>
      BY Zenon, <1>5 DEF AppendBlock, handler, history
    <2>2. hpc = "idle"
      BY Zenon, <2>1, <1>t DEF ControlInv
    <2> QED BY Zenon, <2>1, <2>2 DEF SoundInv, Writing
  <1>6. ASSUME NEW b \in Deliver, NewBlock(b) PROVE SoundInv'
    <2>1. /\ UNCHANGED <<faults, files, up, applied, tip, ppc, pb>>
          /\ hpc = "idle" /\ ppc # "append"
      BY Zenon, <1>6 DEF NewBlock, BlockMuFree, producer
    <2>2. CASE UNCHANGED <<hpc, todo, batch>>
      BY Zenon, <2>1, <2>2, <1>q
    <2>3. CASE hpc' = "open" /\ todo' = <<b>> /\ b.prev = tip
      <3>1. Head(todo') = b
        BY <2>3
      <3> QED BY Zenon, <2>1, <2>3, <3>1 DEF SoundInv, Writing
    <2> QED BY Zenon, <1>6, <2>2, <2>3 DEF NewBlock
  <1>7. ASSUME NEW bs \in Batch, Blocks(bs) PROVE SoundInv'
    <2>1. /\ UNCHANGED <<faults, files, up, applied, tip, ppc, pb>>
          /\ hpc = "idle" /\ ppc # "append"
      BY Zenon, <1>7 DEF Blocks, BlockMuFree, disk, memory, producer
    <2>2. CASE FirstSync(bs)
      <3>1. tip \notin files
        BY <2>2 DEF FirstSync, LastReadable, HasBlock
      <3> QED BY Zenon, <2>1, <3>1 DEF SoundInv
    <2>3. CASE ~FirstSync(bs)
      <3>1. hpc' \in {"idle", "sync", "reopen"}
        BY Zenon, <1>7, <2>1, <2>3 DEF Blocks, handler
      <3> QED BY Zenon, <2>1, <3>1 DEF SoundInv, Writing
    <2> QED BY <2>2, <2>3
  <1>8. CASE SyncStep
    <2>1. hpc = "sync" /\ UNCHANGED <<faults, files, up, applied, tip, ppc, pb>>
      BY Zenon, <1>8 DEF SyncStep, producer
    <2>2. CASE hpc' \in {"idle", "sync"}
      BY Zenon, <2>1, <2>2 DEF SoundInv, Writing
    <2>3. CASE hpc' = "open" /\ todo' = todo /\ Head(todo).prev = tip
      BY Zenon, <2>1, <2>3 DEF SoundInv, Writing
    <2> QED BY Zenon, <1>8, <2>2, <2>3 DEF SyncStep, Release
  <1>9. CASE ReapplyGenesis
    BY Zenon, <1>9 DEF ReapplyGenesis, SoundInv
  <1>10. CASE WriteOpen
    <2>1. /\ UNCHANGED <<faults, up, applied, tip, ppc, pb, todo, batch>>
          /\ \/ hpc = "open" /\ hpc' = "write"
             \/ hpc = "reopen" /\ hpc' = "rewrite"
      BY Zenon, <1>10 DEF WriteOpen, memory, producer
    <2> QED BY Zenon, <2>1 DEF SoundInv, Writing
  <1>11. CASE WriteBlock
    <2>1. /\ UNCHANGED <<faults, up, applied, tip, ppc, pb, batch>>
          /\ \/ hpc = "write" /\ hpc' = "apply" /\ todo' = todo
             \/ hpc' \in {"reset", "reopen"}
      BY Zenon, <1>11 DEF WriteBlock, AfterWrite, memory, producer, history
    <2> QED BY Zenon, <2>1, <1>t DEF SoundInv, Writing, ControlInv, TypeOK
  <1>12. CASE ApplyBlock
    <2>1. /\ hpc = "apply" /\ hpc' = "setTip" /\ applied' = Apply(applied, Head(todo))
          /\ UNCHANGED <<faults, up, tip, ppc, pb, todo, batch>>
      BY Zenon, <1>12 DEF ApplyBlock, memory, producer, history
    <2>2. Head(todo) \in Block /\ tip \in Block /\ ppc # "append"
      BY Zenon, <2>1, <1>t, SeqFacts DEF ControlInv, TypeOK
    <2>3. batch = <<Head(todo)>>
      BY Zenon, <2>1 DEF MessageInv, Writing
    <2>5. Newest(<<Head(todo)>>) = Head(todo)
      BY DEF Newest
    <2>4. Head(todo).prev = tip => StateOf[Head(todo)] = Apply(StateOf[tip], Head(todo))
      BY <2>2, StateUnfold DEF Before
    <2> QED BY Zenon, <2>1, <2>2, <2>3, <2>4, <2>5 DEF SoundInv, Writing
  <1>13. CASE Reset
    <2>1. hpc' = "genesis" /\ applied' = <<>> /\ UNCHANGED <<faults, up>>
      BY Zenon, <1>13 DEF Reset, history
    <2> QED BY Zenon, <2>1 DEF SoundInv, Writing
  <1>14. CASE ReplayGenesis
    <2>1. /\ hpc = "genesis" /\ hpc' = "replay" /\ applied' = Append(applied, Genesis)
          /\ UNCHANGED <<faults, up, todo>>
      BY Zenon, <1>14 DEF ReplayGenesis, history
    <2>2. Head(todo).prev \notin Block
      BY Zenon, <2>1 DEF MessageInv
    <2>3. Append(<<>>, Genesis) = <<Genesis>>
      OBVIOUS
    <2> QED BY Zenon, <2>1, <2>2, <2>3 DEF SoundInv, Writing, Before
  <1>15. CASE ReplayBlock
    <2>1. /\ hpc = "replay" /\ applied' = Apply(applied, Head(todo)) /\ todo' = Tail(todo)
          /\ hpc' = IF Len(todo) = 1 THEN "setTip" ELSE "replay"
          /\ UNCHANGED <<faults, up, batch>>
      BY Zenon, <1>15 DEF ReplayBlock, history
    <2>2. todo \in Seq(Block) /\ todo # <<>> /\ Head(todo) \in Block
      BY Zenon, <2>1, <1>t, SeqFacts DEF ControlInv, TypeOK
    <2>3. Joined(todo) /\ Newest(todo) = Newest(batch)
      BY Zenon, <2>1 DEF MessageInv
    <2>4. faults = 0 => applied' = StateOf[Head(todo)]
      BY Zenon, <2>1, <2>2, StateUnfold DEF SoundInv
    <2>5. CASE Len(todo) = 1
      <3>1. Newest(todo) = Head(todo)
        BY <2>2, <2>5 DEF Newest
      <3> QED BY Zenon, <2>1, <2>3, <2>4, <2>5, <3>1 DEF SoundInv, Writing
    <2>6. CASE Len(todo) # 1
      <3>1. Head(todo').prev = Head(todo)
        BY Zenon, <2>1, <2>2, <2>3, <2>6, JoinedTail
      <3>2. Before(Head(todo')) = StateOf[Head(todo)]
        BY Zenon, <2>2, <3>1 DEF Before
      <3> QED BY Zenon, <2>1, <2>4, <2>6, <3>2 DEF SoundInv, Writing
    <2> QED BY <2>5, <2>6
  <1>16. CASE SetTip
    <2>1. /\ hpc = "setTip" /\ hpc' = "stuck" /\ tip' = Newest(batch)
          /\ UNCHANGED <<faults, up, applied>>
      BY Zenon, <1>16 DEF SetTip, disk, history
    <2> QED BY Zenon, <2>1 DEF SoundInv, Writing
  <1>17. CASE ProducerFails \/ WriteFails \/ GenesisFails \/ HandlerFails \/ Crash
    BY Zenon, <1>17, <1>f DEF ProducerFails, WriteFails, GenesisFails, HandlerFails, Crash
  <1>18. CASE Restart
    BY Zenon, <1>18 DEF Restart, SoundInv, history
  <1>19. CASE UNCHANGED vars
    BY Zenon, <1>19, <1>q DEF vars, disk, memory, producer, handler, history
  <1> QED
    BY Zenon, <1>1, <1>2, <1>3, <1>4, <1>5, <1>6, <1>7, <1>8, <1>9, <1>10, <1>11, <1>12,
       <1>13, <1>14, <1>15, <1>16, <1>17, <1>18, <1>19
    DEF Next, WriterStep, ProducerStep, HandlerStep

\* Whatever peers send, in whatever order, and wherever a reorganisation
\* stands, a node on which nothing has failed holds the state of its chain
\* whenever a message or a block is done with.
THEOREM StateCorrect == Spec => []StateIsChain
  <1>1. TypeInv /\ SoundInv => StateIsChain
    BY Zenon DEF SoundInv, StateIsChain, BlockMuFree, Writing
  <1> QED BY <1>1, TypeInit, TypeStep, MessageInit, MessageStep, SoundInit, SoundStep, PTL
          DEF Spec
=============================================================================
