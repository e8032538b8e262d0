---------------------------- MODULE ChainProofs ----------------------------
(***************************************************************************)
(* What the node's chain, its block files and its state have to do with    *)
(* each other when writes fail and processes die, for every set of blocks, *)
(* every behaviour of the peers and any number of faults: what one fault   *)
(* costs, in entries of the state and in block files, and which chains are *)
(* there to be read.                                                       *)
(*                                                                         *)
(* chain.json is written from the tip in memory, so each of these needs    *)
(* the same statement of the tip; and the tip moves last, so each needs    *)
(* to say what is already done while it has not moved.                     *)
(***************************************************************************)
EXTENDS NodeProofs, FiniteSetTheorems

-----------------------------------------------------------------------------
(* How far a failure lets the state and the chain drift apart. *)

\* The list holds every block of the state of b, and at most n entries more.
Holds(list, b, n) ==
  Range(StateOf[b]) \subseteq Range(list) /\ Len(list) <= Len(StateOf[b]) + n

\* A block has been applied and the tip in memory not yet moved.
Ahead == IF ppc = "append" \/ hpc = "setTip" THEN 1 ELSE 0

\* The bound for chain.json needs one for the tip, which Save copies there.
DriftInv ==
  ~reorged =>
    /\ meta # Torn => Holds(applied, meta, faults + InFlight)
    /\ up /\ hpc # "stuck" => Holds(applied, tip, faults + Ahead)
    /\ ppc = "append" => pb \in Range(applied)

\* A larger allowance.
LEMMA HoldsMore ==
  ASSUME NEW list \in Seq(Block), NEW b \in Block, NEW m \in Nat, NEW n \in Nat, m <= n,
         Holds(list, b, m)
  PROVE  Holds(list, b, n)
  <1>1. StateOf[b] \in Seq(Block)
    BY StateUnfold
  <1> QED BY <1>1 DEF Holds

\* An application adds at most one entry.
LEMMA HoldsApply ==
  ASSUME NEW list \in Seq(Block), NEW b \in Block, NEW c \in Block, NEW n \in Nat,
         Holds(list, b, n)
  PROVE  Holds(Apply(list, c), b, n + 1)
  <1>1. StateOf[b] \in Seq(Block)
    BY StateUnfold
  <1>2. CASE c.txs = <<>>
    BY <1>1, <1>2 DEF Holds, Apply
  <1>3. CASE c.txs # <<>>
    <2>1. Apply(list, c) = Append(list, c)
      BY <1>3 DEF Apply
    <2>2. Range(Append(list, c)) = Range(list) \cup {c}
      BY RangeOfAppend
    <2>3. Len(Append(list, c)) = Len(list) + 1 /\ Len(list) \in Nat /\ Len(StateOf[b]) \in Nat
      BY <1>1
    <2>4. Len(list) <= Len(StateOf[b]) + n /\ Range(StateOf[b]) \subseteq Range(list)
      BY DEF Holds
    <2>5. Len(Append(list, c)) <= Len(StateOf[b]) + (n + 1)
      <3>1. \A x, y \in Nat : x <= y + n => x + 1 <= y + (n + 1)
        OBVIOUS
      <3> QED BY Zenon, <2>3, <2>4, <3>1
    <2> QED BY Zenon, <2>1, <2>2, <2>4, <2>5 DEF Holds
  <1> QED BY <1>2, <1>3

\* Once the tip moves to the block applied, the entry it added is no excess.
LEMMA HoldsChild ==
  ASSUME NEW list \in Seq(Block), NEW b \in Block, NEW c \in Block, NEW n \in Nat,
         c.prev = b, c.txs # <<>>, c \in Range(list), Holds(list, b, n + 1)
  PROVE  Holds(list, c, n)
  <1>1. StateOf[b] \in Seq(Block) /\ StateOf[c] = Append(StateOf[b], c)
    <2>1. StateOf[b] \in Seq(Block) /\ StateOf[c] = Apply(Before(c), c)
      BY Zenon, StateUnfold
    <2>2. Before(c) = StateOf[b]
      BY Zenon DEF Before
    <2> QED BY Zenon, <2>1, <2>2 DEF Apply
  <1>2. Range(StateOf[c]) = Range(StateOf[b]) \cup {c}
    BY <1>1, RangeOfAppend
  <1>3. Len(StateOf[c]) = Len(StateOf[b]) + 1 /\ Len(list) \in Nat /\ Len(StateOf[b]) \in Nat
    BY <1>1
  <1> QED BY <1>2, <1>3 DEF Holds

LEMMA DriftInit == Init => DriftInv
  <1> SUFFICES ASSUME Init PROVE DriftInv
    OBVIOUS
  <1>1. Genesis \in Block /\ Genesis.prev \notin Block /\ Genesis.txs = <<>>
    BY BlockAssumption
  <1>2. StateOf[Genesis] = <<Genesis>>
    BY <1>1, StateUnfold DEF Before, Apply
  <1>3. Holds(<<Genesis>>, Genesis, 0)
    BY <1>2 DEF Holds
  <1>4. /\ applied = <<Genesis>> /\ meta = Genesis /\ tip = Genesis /\ ppc = "idle"
        /\ hpc = "idle" /\ faults = 0
    BY DEF Init
  <1>5. faults + InFlight = 0 /\ faults + Ahead = 0
    BY <1>4 DEF InFlight, Ahead
  <1> QED BY <1>3, <1>4, <1>5 DEF DriftInv

LEMMA DriftStep == TypeInv /\ DriftInv /\ [Next]_vars => DriftInv'
  <1> SUFFICES ASSUME TypeInv, DriftInv, [Next]_vars PROVE DriftInv'
    OBVIOUS
  <1>t. TypeOK /\ ControlInv
    BY DEF TypeInv
  <1>a. applied \in Seq(Block) /\ meta \in Block \cup {Torn} /\ tip \in Block /\ pb \in Block
        /\ faults \in Nat
    BY <1>t DEF TypeOK
  <1>n. faults + InFlight \in Nat /\ faults + Ahead \in Nat
    BY <1>a DEF InFlight, Ahead
  \* Steps that change neither the state nor the two tips, and make up for an
  \* unfinished block by a fault.
  <1>q. ASSUME UNCHANGED <<applied, meta>>, reorged => reorged',
               up' /\ hpc' # "stuck" => up /\ hpc # "stuck" /\ tip' = tip,
               faults' \in Nat, (faults + InFlight) <= (faults + InFlight)',
               (faults + Ahead) <= (faults + Ahead)',
               ppc' = "append" => ppc = "append" /\ pb' = pb
        PROVE  DriftInv'
    <2>1. (faults + InFlight)' \in Nat /\ (faults + Ahead)' \in Nat
      <3>1. (InFlight' = 0 \/ InFlight' = 1) /\ (Ahead' = 0 \/ Ahead' = 1)
        BY DEF InFlight, Ahead
      <3> QED BY <1>q, <3>1
    <2>2. ASSUME ~reorged', meta' # Torn PROVE Holds(applied, meta, (faults + InFlight)')
      BY <2>1, <2>2, <1>q, <1>a, <1>n, HoldsMore DEF DriftInv
    <2>3. ASSUME ~reorged', up', hpc' # "stuck" PROVE Holds(applied, tip, (faults + Ahead)')
      BY <2>1, <2>3, <1>q, <1>a, <1>n, HoldsMore DEF DriftInv
    <2> QED BY <2>2, <2>3, <1>q DEF DriftInv
  <1>r. ASSUME reorged' PROVE DriftInv'
    BY <1>r DEF DriftInv
  <1>1. ASSUME NEW t \in Tx, AddTx(t) PROVE DriftInv'
    BY <1>1, <1>q, <1>a, <1>n DEF AddTx, disk, producer, handler, history, InFlight, Ahead
  <1>2. ASSUME NEW from \in 0 .. tip.height, GetBlocks(from) PROVE DriftInv'
    BY <1>2, <1>q, <1>a, <1>n DEF GetBlocks, disk, memory, producer, handler, InFlight, Ahead
  <1>3. CASE Produce
    <2>1. /\ UNCHANGED <<applied, meta, reorged, up, hpc, tip, faults>>
          /\ ppc = "idle" /\ ppc' = "apply"
      BY <1>3 DEF Produce, disk, memory, handler, history
    <2> QED BY <2>1, <1>q, <1>a, <1>n DEF InFlight, Ahead
  <1>4. CASE ProducerApply
    <2>1. /\ ppc = "apply" /\ ppc' = "append" /\ applied' = Apply(applied, pb)
          /\ UNCHANGED <<meta, reorged, up, hpc, tip, faults, pb>>
      BY <1>4 DEF ProducerApply, memory, handler, history
    <2>2. hpc = "idle" /\ pb.txs # <<>>
      BY <2>1, <1>t DEF ControlInv
    <2>3. /\ faults + InFlight = faults /\ (faults + InFlight)' = faults + 1
          /\ faults + Ahead = faults /\ (faults + Ahead)' = faults + 1
      BY <2>1, <2>2, <1>a DEF InFlight, Ahead
    <2>4. pb \in Range(applied')
      BY <2>1, <2>2, <1>a, RangeOfAppend DEF Apply
    <2>5. ASSUME ~reorged, meta # Torn PROVE Holds(applied', meta, faults + 1)
      BY <2>1, <2>3, <2>5, <1>a, HoldsApply DEF DriftInv
    <2>6. ASSUME ~reorged, up PROVE Holds(applied', tip, faults + 1)
      BY <2>1, <2>2, <2>3, <2>6, <1>a, HoldsApply DEF DriftInv
    <2> QED BY <2>1, <2>3, <2>4, <2>5, <2>6 DEF DriftInv
  <1>5. CASE AppendBlock
    <2>1. /\ ppc = "append" /\ ppc' = "truncate" /\ tip' = pb
          /\ UNCHANGED <<applied, meta, reorged, up, hpc, faults>>
      BY <1>5 DEF AppendBlock, handler, history
    <2>2. hpc = "idle" /\ pb.prev = tip /\ pb.txs # <<>>
      BY <2>1, <1>t DEF ControlInv
    <2>3. /\ (faults + InFlight)' = faults + InFlight
          /\ faults + Ahead = faults + 1 /\ (faults + Ahead)' = faults
      BY <2>1, <2>2, <1>a DEF InFlight, Ahead
    <2>4. ASSUME ~reorged, up PROVE Holds(applied, pb, faults)
      BY <2>1, <2>2, <2>3, <2>4, <1>a, HoldsChild DEF DriftInv
    <2> QED BY <2>1, <2>2, <2>3, <2>4 DEF DriftInv
  <1>6. CASE SaveTruncate
    <2>1. /\ ppc = "truncate" /\ ppc' = "save" /\ meta' = Torn
          /\ UNCHANGED <<applied, tip, reorged, up, hpc, faults>>
      BY <1>6 DEF SaveTruncate, memory, handler, history
    <2>2. (faults + Ahead)' = faults + Ahead
      BY <2>1, <1>a DEF Ahead
    <2> QED BY <2>1, <2>2 DEF DriftInv
  <1>7. CASE SaveWrite
    <2>1. /\ ppc = "save" /\ ppc' = "remove" /\ meta' = tip
          /\ UNCHANGED <<applied, tip, reorged, up, hpc, faults>>
      BY <1>7 DEF SaveWrite, memory, handler, history
    <2>2. hpc = "idle" /\ up
      BY <2>1, <1>t DEF ControlInv, TypeOK
    <2>3. (faults + InFlight)' = faults /\ faults + Ahead = faults /\ (faults + Ahead)' = faults
      BY <2>1, <2>2, <1>a DEF InFlight, Ahead
    <2> QED BY <2>1, <2>2, <2>3 DEF DriftInv
  <1>8. CASE RemoveIncluded \/ Announce
    <2>1. /\ UNCHANGED <<applied, meta, tip, reorged, up, hpc, faults>>
          /\ ppc \in {"remove", "bcast"} /\ ppc' \in {"bcast", "idle"}
      BY <1>8 DEF RemoveIncluded, Announce, disk, memory, handler, history
    <2> QED BY <2>1, <1>q, <1>a, <1>n DEF InFlight, Ahead
  <1>9. ASSUME NEW b \in Deliver, NewBlock(b) PROVE DriftInv'
    <2>1. /\ UNCHANGED <<applied, meta, tip, reorged, up, faults, ppc, pb>>
          /\ hpc = "idle" /\ hpc' \in {"idle", "open"}
      BY <1>9 DEF NewBlock, BlockMuFree, producer
    <2> QED BY <2>1, <1>q, <1>a, <1>n DEF InFlight, Ahead
  <1>10. ASSUME NEW bs \in Batch, Blocks(bs) PROVE DriftInv'
    <2>1. /\ UNCHANGED <<applied, meta, tip, reorged, up, faults, ppc, pb>>
          /\ hpc = "idle" /\ hpc' \in {"idle", "sync", "regenesis", "reopen"}
      BY <1>10 DEF Blocks, BlockMuFree, disk, memory, producer, handler
    <2> QED BY <2>1, <1>q, <1>a, <1>n DEF InFlight, Ahead
  <1>11. CASE SyncStep
    <2>1. /\ UNCHANGED <<applied, meta, tip, reorged, up, faults, ppc, pb>>
          /\ hpc = "sync" /\ hpc' \in {"idle", "sync", "open"}
      BY <1>11 DEF SyncStep, Release, producer
    <2> QED BY <2>1, <1>q, <1>a, <1>n DEF InFlight, Ahead
  <1>12. CASE ReapplyGenesis
    BY <1>12, <1>r DEF ReapplyGenesis
  <1>13. CASE WriteOpen \/ WriteBlock
    <2>1. /\ UNCHANGED <<applied, meta, tip, up, faults, ppc, pb>> /\ (reorged => reorged')
          /\ hpc \in {"open", "write", "reopen", "rewrite"}
          /\ hpc' \in {"write", "rewrite", "apply", "reset", "reopen"}
      BY <1>13, <1>t DEF WriteOpen, WriteBlock, AfterWrite, memory, producer, history, TypeOK
    <2> QED BY <2>1, <1>q, <1>a, <1>n DEF InFlight, Ahead
  <1>14. CASE ApplyBlock
    <2>1. /\ hpc = "apply" /\ hpc' = "setTip" /\ applied' = Apply(applied, Head(todo))
          /\ UNCHANGED <<meta, reorged, up, tip, faults, ppc, pb>>
      BY <1>14 DEF ApplyBlock, memory, producer, history
    <2>2. ppc \in {"idle", "bcast"} /\ Head(todo) \in Block
      BY <2>1, <1>t, SeqFacts DEF ControlInv, TypeOK
    <2>3. /\ faults + InFlight = faults /\ (faults + InFlight)' = faults + 1
          /\ faults + Ahead = faults /\ (faults + Ahead)' = faults + 1
      BY <2>1, <2>2, <1>a DEF InFlight, Ahead
    <2>4. ASSUME ~reorged, meta # Torn PROVE Holds(applied', meta, faults + 1)
      BY <2>1, <2>2, <2>3, <2>4, <1>a, HoldsApply DEF DriftInv
    <2>5. ASSUME ~reorged, up PROVE Holds(applied', tip, faults + 1)
      BY <2>1, <2>2, <2>3, <2>5, <1>a, HoldsApply DEF DriftInv
    <2> QED BY <2>1, <2>2, <2>3, <2>4, <2>5 DEF DriftInv
  <1>15. CASE Reset \/ ReplayGenesis \/ ReplayBlock
    BY <1>15, <1>t, <1>r DEF Reset, ReplayGenesis, ReplayBlock, ControlInv, history
  <1>16. CASE SetTip
    <2>1. /\ UNCHANGED <<applied, meta, reorged, up, faults, ppc, pb>>
          /\ hpc = "setTip" /\ hpc' = "stuck"
      BY <1>16 DEF SetTip, disk, producer, history
    <2>2. ppc # "append"
      BY <2>1, <1>t DEF ControlInv
    <2>3. (faults + InFlight)' = faults + InFlight
      BY <2>1, <1>a DEF InFlight
    <2> QED BY <2>1, <2>2, <2>3 DEF DriftInv
  \* A fault makes up for what was in flight.
  <1>f. ASSUME Fault, UNCHANGED <<applied, meta>>, reorged => reorged', ppc' # "append",
               up' /\ hpc' # "stuck" => up /\ hpc # "stuck" /\ tip' = tip
        PROVE  DriftInv'
    <2>1. faults' = faults + 1
      BY <1>f DEF Fault
    <2>2. /\ (InFlight = 0 \/ InFlight = 1) /\ (Ahead = 0 \/ Ahead = 1)
          /\ (InFlight' = 0 \/ InFlight' = 1) /\ (Ahead' = 0 \/ Ahead' = 1)
      BY DEF InFlight, Ahead
    <2>3. /\ faults' \in Nat /\ (faults + InFlight) <= (faults + InFlight)'
          /\ (faults + Ahead) <= (faults + Ahead)'
      <3>1. faults \in Nat /\ faults + InFlight <= faults + 1 /\ faults + Ahead <= faults + 1
        BY <2>2, <1>a
      <3>2. faults' + InFlight' >= faults + 1 /\ faults' + Ahead' >= faults + 1
        BY <2>1, <2>2, <1>a
      <3>3. faults' + InFlight' \in Nat /\ faults' + Ahead' \in Nat
        BY <2>1, <2>2, <1>a
      <3> QED BY <3>1, <3>2, <3>3, <1>n, <2>1
    <2> QED BY <2>3, <1>f, <1>q
  <1>17. CASE ProducerFails
    BY <1>17, <1>f DEF ProducerFails, disk, memory, handler
  <1>18. CASE WriteFails
    <2>1. /\ Fault /\ UNCHANGED <<applied, meta, tip, up, ppc>> /\ (reorged => reorged')
          /\ hpc \in {"open", "write", "reopen", "rewrite"}
      BY <1>18, <1>t DEF WriteFails, AfterWrite, disk, memory, producer, TypeOK
    <2>2. ppc # "append"
      BY <2>1, <1>t DEF ControlInv
    <2> QED BY <2>1, <2>2, <1>f
  <1>gf. CASE GenesisFails
    BY Zenon, <1>gf, <1>r DEF GenesisFails, disk
  <1>19. CASE HandlerFails
    <2>1. /\ Fault /\ UNCHANGED <<applied, meta, tip, up, ppc, reorged>>
          /\ hpc \in {"apply", "reset", "genesis", "replay"}
      BY <1>19 DEF HandlerFails, disk, memory, producer
    <2>2. ppc # "append"
      BY <2>1, <1>t DEF ControlInv
    <2> QED BY <2>1, <2>2, <1>f
  <1>20. CASE Crash
    BY <1>20, <1>f DEF Crash, disk
  <1>21. CASE Restart
    <2>1. meta # Torn /\ tip' = meta /\ UNCHANGED <<applied, meta, reorged, hpc, ppc, faults>>
      BY <1>21 DEF Restart, disk, producer, handler, history
    <2>2. ppc = "idle" /\ hpc = "idle"
      BY <1>21, <1>t DEF Restart, ControlInv
    <2>3. /\ faults + InFlight = faults /\ (faults + InFlight)' = faults
          /\ (faults + Ahead)' = faults
      BY <2>1, <2>2, <1>a DEF InFlight, Ahead
    <2> QED BY <2>1, <2>2, <2>3 DEF DriftInv
  <1>22. CASE UNCHANGED vars
    BY <1>22, <1>q, <1>a, <1>n DEF vars, disk, memory, producer, handler, history, InFlight, Ahead
  <1> QED
    BY <1>gf, <1>1, <1>2, <1>3, <1>4, <1>5, <1>6, <1>7, <1>8, <1>9, <1>10, <1>11, <1>12,
       <1>13, <1>14, <1>15, <1>16, <1>17, <1>18, <1>19, <1>20, <1>21, <1>22
    DEF Next, WriterStep, ProducerStep, HandlerStep

\* Until a replay has begun, every crash or failed write, at any point, puts the
\* state at most one block ahead of the chain a restart finds, and never behind.
THEOREM DriftCorrect == Spec => []DriftBounded
  <1>1. TypeInv /\ DriftInv => DriftBounded
    <2> SUFFICES ASSUME TypeInv, DriftInv, ~reorged, meta # Torn
                 PROVE  /\ Range(StateOf[meta]) \subseteq Range(applied)
                        /\ Len(applied) <= Len(StateOf[meta]) + faults + InFlight
      BY DEF DriftBounded
    <2>1. meta \in Block /\ faults \in Nat
      BY DEF TypeInv, TypeOK
    <2>2. Len(StateOf[meta]) \in Nat /\ InFlight \in Nat
      BY <2>1, StateUnfold DEF InFlight
    <2>3. Holds(applied, meta, faults + InFlight)
      BY DEF DriftInv
    <2>4. Len(StateOf[meta]) + faults + InFlight = Len(StateOf[meta]) + (faults + InFlight)
      <3>1. \A x, y, z \in Nat : x + y + z = x + (y + z)
        OBVIOUS
      <3> QED BY Zenon, <2>1, <2>2, <3>1
    <2> QED BY <2>3, <2>4 DEF Holds
  <1> QED BY <1>1, TypeInit, TypeStep, DriftInit, DriftStep, PTL DEF Spec

-----------------------------------------------------------------------------
(* How many block files a failure costs. *)

\* The files that can be read once the write at hand is through.
Readable == files \cup (IF hpc \in {"write", "rewrite"} THEN {Head(todo)} ELSE {})

\* Before a replay, r, the whole chain to b is among the files fs; afterwards at
\* most n blocks of it are not among the readable ones rs.
Within(b, r, fs, rs, n) ==
  IF r THEN Cardinality(Range(PathTo[b]) \ rs) <= n ELSE Range(PathTo[b]) \subseteq fs

\* The bound for chain.json needs one for the tip, which Save copies there; a
\* block about to be written for the first time is not among the files.
DamageInv ==
  /\ meta # Torn => Within(meta, reorged, files, Readable, faults)
  /\ up /\ hpc # "stuck" => Within(tip, reorged, files, Readable, faults)
  /\ ~reorged /\ hpc = "open" => Head(todo) \notin files

\* A chain has finitely many blocks.
LEMMA PathFinite == \A b \in Block : IsFiniteSet(Range(PathTo[b]))
  <1> SUFFICES ASSUME NEW b \in Block PROVE IsFiniteSet(Range(PathTo[b]))
    OBVIOUS
  <1> DEFINE p == PathTo[b]
             D == 1 .. Len(p)
  <1>1. p \in Seq(Block)
    BY PathUnfold
  <1>2. Len(p) \in Nat /\ p \in [D -> Range(p)] /\ \A x \in Range(p) : \E i \in D : p[i] = x
    BY <1>1 DEF Range
  <1>3. p \in Surjection(D, Range(p))
    BY Zenon, <1>2 DEF Surjection
  <1>4. IsFiniteSet(D)
    BY <1>2, FS_Interval
  <1> HIDE DEF p, D
  <1>5. IsFiniteSet(Range(p))
    BY <1>3, <1>4, FS_Surjection
  <1> QED BY <1>5 DEF p

\* Fewer readable files, more lost blocks; one file less costs one block.
LEMMA LostFacts ==
  ASSUME NEW b \in Block, NEW rs
  PROVE  /\ Cardinality(Range(PathTo[b]) \ rs) \in Nat
         /\ Range(PathTo[b]) \subseteq rs => Cardinality(Range(PathTo[b]) \ rs) = 0
         /\ \A ss : rs \subseteq ss =>
              Cardinality(Range(PathTo[b]) \ ss) <= Cardinality(Range(PathTo[b]) \ rs)
         /\ \A x : Cardinality(Range(PathTo[b]) \ rs) <=
                   Cardinality(Range(PathTo[b]) \ (rs \cup {x})) + 1
  <1> DEFINE R == Range(PathTo[b])
  <1>1. IsFiniteSet(R)
    BY PathFinite
  <1> HIDE DEF R
  <1>2. ASSUME NEW ss PROVE IsFiniteSet(R \ ss) /\ Cardinality(R \ ss) \in Nat
    <2>1. (R \ ss) \in SUBSET R
      OBVIOUS
    <2>2. IsFiniteSet(R \ ss)
      BY <1>1, <2>1, FS_Subset
    <2> QED BY <2>2, FS_CardinalityType
  <1>3. R \subseteq rs => Cardinality(R \ rs) = 0
    <2>1. R \subseteq rs => R \ rs = {}
      OBVIOUS
    <2> QED BY <2>1, FS_EmptySet
  <1>4. ASSUME NEW ss, rs \subseteq ss PROVE Cardinality(R \ ss) <= Cardinality(R \ rs)
    <2>1. (R \ ss) \in SUBSET (R \ rs) /\ IsFiniteSet(R \ rs)
      BY <1>2, <1>4
    <2> QED BY <2>1, FS_Subset
  <1>5. ASSUME NEW x PROVE Cardinality(R \ rs) <= Cardinality(R \ (rs \cup {x})) + 1
    <2> DEFINE Q == R \ (rs \cup {x})
    <2>1. IsFiniteSet(Q) /\ Cardinality(Q) \in Nat
      BY Zenon, <1>2
    <2>2. (R \ rs) \in SUBSET (Q \cup {x})
      OBVIOUS
    <2> HIDE DEF Q
    <2>3. /\ IsFiniteSet(Q \cup {x})
          /\ Cardinality(Q \cup {x}) = IF x \in Q THEN Cardinality(Q) ELSE Cardinality(Q) + 1
      BY <2>1, FS_AddElement
    <2>4. Cardinality(R \ rs) <= Cardinality(Q \cup {x})
      BY <2>2, <2>3, FS_Subset
    <2>5. Cardinality(R \ rs) \in Nat
      BY <1>2
    <2>6. Cardinality(R \ rs) <= Cardinality(Q) + 1
      BY <2>1, <2>3, <2>4, <2>5
    <2> QED BY <2>6 DEF Q
  <1> QED BY Zenon, <1>2, <1>3, <1>4, <1>5 DEF R

\* The bound survives anything that loses no file.
LEMMA WithinKept ==
  ASSUME NEW b \in Block, NEW r \in BOOLEAN, NEW q \in BOOLEAN, NEW fs, NEW rs, NEW gs, NEW ss,
         NEW m \in Nat, NEW n \in Nat, r => q, fs \subseteq gs, rs \subseteq ss, fs \subseteq ss,
         m <= n, Within(b, r, fs, rs, m)
  PROVE  Within(b, q, gs, ss, n)
  <1>1. CASE r
    <2>1. Cardinality(Range(PathTo[b]) \ rs) <= m
      BY <1>1 DEF Within
    <2>2. Cardinality(Range(PathTo[b]) \ ss) <= n
      <3>1. /\ Cardinality(Range(PathTo[b]) \ ss) \in Nat
            /\ Cardinality(Range(PathTo[b]) \ rs) \in Nat
            /\ Cardinality(Range(PathTo[b]) \ ss) <= Cardinality(Range(PathTo[b]) \ rs)
        BY Zenon, LostFacts
      <3>2. \A x, y \in Nat : x <= y /\ y <= m => x <= n
        OBVIOUS
      <3> QED BY <2>1, <3>1, <3>2
    <2> QED BY <2>2, <1>1 DEF Within
  <1>2. CASE ~r
    <2>1. Range(PathTo[b]) \subseteq fs
      BY <1>2 DEF Within
    <2>2. Range(PathTo[b]) \subseteq gs /\ Range(PathTo[b]) \subseteq ss
      BY <2>1
    <2>3. Cardinality(Range(PathTo[b]) \ ss) = 0
      BY Zenon, <2>2, LostFacts
    <2>4. Cardinality(Range(PathTo[b]) \ ss) <= n
      BY <2>3
    <2> QED BY <2>2, <2>4 DEF Within
  <1> QED BY <1>1, <1>2

\* A fault may cost the one file that was being written.
LEMMA WithinFault ==
  ASSUME NEW b \in Block, NEW r \in BOOLEAN, NEW q \in BOOLEAN, NEW fs, NEW x, NEW rs, NEW ss,
         NEW n \in Nat, r => q, rs \subseteq fs \cup {x}, fs \subseteq rs, fs \subseteq ss,
         Within(b, r, fs, rs, n)
  PROVE  Within(b, q, fs, ss, n + 1)
  <1>1. CASE r
    <2>1. Cardinality(Range(PathTo[b]) \ rs) <= n
      BY <1>1 DEF Within
    <2>2. Within(b, r, fs, fs, n + 1)
      <3>1. /\ Cardinality(Range(PathTo[b]) \ rs) \in Nat
            /\ Cardinality(Range(PathTo[b]) \ fs) \in Nat
            /\ Cardinality(Range(PathTo[b]) \ (fs \cup {x})) \in Nat
            /\ Cardinality(Range(PathTo[b]) \ (fs \cup {x})) <= Cardinality(Range(PathTo[b]) \ rs)
            /\ Cardinality(Range(PathTo[b]) \ fs) <=
                 Cardinality(Range(PathTo[b]) \ (fs \cup {x})) + 1
        BY Zenon, LostFacts
      <3>2. \A c, d, e \in Nat : c <= n /\ e <= c /\ d <= e + 1 => d <= n + 1
        OBVIOUS
      <3>3. Cardinality(Range(PathTo[b]) \ fs) <= n + 1
        BY <2>1, <3>1, <3>2
      <3> QED BY <3>3, <1>1 DEF Within
    <2> QED BY <2>2, WithinKept
  <1>2. CASE ~r
    <2>1. Within(b, r, fs, fs, n)
      BY <1>2 DEF Within
    <2> QED BY <2>1, WithinKept
  <1> QED BY <1>1, <1>2

LEMMA DamageInit == Init => DamageInv
  <1> SUFFICES ASSUME Init PROVE DamageInv
    OBVIOUS
  <1>1. Genesis \in Block /\ Genesis.prev \notin Block
    BY BlockAssumption
  <1>2. PathTo[Genesis] = <<Genesis>>
    BY <1>1, PathUnfold
  <1>3. Range(PathTo[Genesis]) = {Genesis}
    BY <1>2 DEF Range
  <1> QED BY <1>3 DEF Init, DamageInv, Within

LEMMA DamageStep == TypeInv /\ DamageInv /\ [Next]_vars => DamageInv'
  <1> SUFFICES ASSUME TypeInv, DamageInv, [Next]_vars PROVE DamageInv'
    OBVIOUS
  <1>t. TypeOK /\ ControlInv
    BY DEF TypeInv
  <1>a. meta \in Block \cup {Torn} /\ tip \in Block /\ pb \in Block /\ faults \in Nat
        /\ reorged \in BOOLEAN
    BY <1>t DEF TypeOK
  \* Steps that lose no file and move no tip that can be read.
  <1>q. ASSUME meta' = meta \/ meta' = Torn, faults' = faults, reorged' \in BOOLEAN,
               reorged => reorged', files \subseteq files' \/ reorged',
               Readable \subseteq Readable',
               up' /\ hpc' # "stuck" => up /\ hpc # "stuck" /\ tip' = tip,
               hpc' = "open" /\ ~reorged' => hpc = "open" /\ todo' = todo /\ files' = files
        PROVE  DamageInv'
    <2>1. files \subseteq Readable
      BY DEF Readable
    <2>2. ASSUME NEW b \in Block, Within(b, reorged, files, Readable, faults)
          PROVE  Within(b, reorged', files', Readable', faults)
      <3>1. CASE files \subseteq files'
        BY <2>1, <2>2, <3>1, <1>q, <1>a, WithinKept
      <3>2. CASE reorged'
        <4>1. Within(b, reorged', files, Readable', faults)
          BY <2>1, <2>2, <1>q, <1>a, WithinKept
        <4> QED BY <4>1, <3>2 DEF Within
      <3> QED BY <3>1, <3>2, <1>q
    <2>3. meta' # Torn => Within(meta', reorged', files', Readable', faults')
      BY Zenon, <2>2, <1>q, <1>a DEF DamageInv
    <2>4. up' /\ hpc' # "stuck" => Within(tip', reorged', files', Readable', faults')
      BY Zenon, <2>2, <1>q, <1>a DEF DamageInv
    <2> QED BY <2>3, <2>4, <1>q DEF DamageInv
  \* A fault leaves the files as they are.
  <1>f. ASSUME Fault, UNCHANGED <<files, meta>>, reorged' \in BOOLEAN, reorged => reorged',
               up' /\ hpc' # "stuck" => up /\ hpc # "stuck" /\ tip' = tip,
               hpc' # "open" \/ reorged'
        PROVE  DamageInv'
    <2>1. PICK x : /\ Readable \subseteq files \cup {x}
                   /\ files \subseteq Readable /\ files \subseteq Readable'
      BY <1>f DEF Readable
    <2>2. faults' = faults + 1
      BY <1>f DEF Fault
    <2>3. ASSUME NEW b \in Block, Within(b, reorged, files, Readable, faults)
          PROVE  Within(b, reorged', files, Readable', faults + 1)
      BY Zenon, <2>1, <2>3, <1>f, <1>a, WithinFault
    <2>4. meta' # Torn => Within(meta', reorged', files', Readable', faults')
      BY <2>2, <2>3, <1>f, <1>a DEF DamageInv
    <2>5. up' /\ hpc' # "stuck" => Within(tip', reorged', files', Readable', faults')
      BY Zenon, <2>2, <2>3, <1>f, <1>a DEF DamageInv
    <2> QED BY Zenon, <2>4, <2>5, <1>f DEF DamageInv
  <1>1. ASSUME NEW t \in Tx, AddTx(t) PROVE DamageInv'
    BY Zenon, <1>1, <1>q, <1>a DEF AddTx, disk, handler, history, Readable
  <1>2. ASSUME NEW from \in 0 .. tip.height, GetBlocks(from) PROVE DamageInv'
    BY Zenon, <1>2, <1>q, <1>a DEF GetBlocks, disk, memory, handler, Readable
  <1>3. CASE Produce \/ ProducerApply \/ SaveTruncate \/ RemoveIncluded \/ Announce
    <2>1. /\ meta' = meta \/ meta' = Torn
          /\ UNCHANGED <<files, faults, reorged, up, tip, hpc, todo>>
      BY Zenon, <1>3 DEF Produce, ProducerApply, SaveTruncate, RemoveIncluded, Announce,
                  disk, memory, handler, history
    <2> QED BY <2>1, <1>q, <1>a DEF Readable
  <1>4. CASE AppendBlock
    <2>1. /\ ppc = "append" /\ tip' = pb /\ files' = files \cup {pb}
          /\ UNCHANGED <<meta, faults, reorged, up, hpc, todo>>
      BY <1>4 DEF AppendBlock, handler, history
    <2>2. hpc = "idle" /\ pb.prev = tip
      BY <2>1, <1>t DEF ControlInv
    <2>3. Readable = files /\ Readable' = files \cup {pb}
      BY <2>1, <2>2 DEF Readable
    <2>4. ASSUME NEW b \in Block, Within(b, reorged, files, files, faults)
          PROVE  Within(b, reorged, files \cup {pb}, files \cup {pb}, faults)
      BY <2>4, <1>a, WithinKept
    <2>5. Range(PathTo[pb]) = Range(PathTo[tip]) \cup {pb}
      BY <2>2, <1>a, PathFacts
    <2>6. Range(PathTo[pb]) \ (files \cup {pb}) = Range(PathTo[tip]) \ (files \cup {pb})
      BY <2>5
    <2>7. Within(tip, reorged, files \cup {pb}, files \cup {pb}, faults) =>
            Within(pb, reorged, files \cup {pb}, files \cup {pb}, faults)
      BY <2>5, <2>6 DEF Within
    <2> QED BY Zenon, <2>1, <2>2, <2>3, <2>4, <2>7, <1>a DEF DamageInv
  <1>5. CASE SaveWrite
    <2>1. ppc = "save" /\ meta' = tip /\ UNCHANGED <<files, faults, reorged, up, tip, hpc, todo>>
      BY <1>5 DEF SaveWrite, memory, handler, history
    <2>2. up /\ hpc = "idle"
      BY Zenon, <2>1, <1>t DEF ControlInv, TypeOK
    <2> QED BY Zenon, <2>1, <2>2 DEF DamageInv, Readable
  <1>6. ASSUME NEW b \in Deliver, NewBlock(b) PROVE DamageInv'
    <2>1. UNCHANGED <<files, meta, faults, reorged, up, tip>> /\ hpc = "idle"
      BY Zenon, <1>6 DEF NewBlock, BlockMuFree
    <2>2. CASE UNCHANGED <<hpc, todo>>
      BY <2>1, <2>2, <1>q, <1>a DEF Readable
    <2>3. CASE hpc' = "open" /\ todo' = <<b>> /\ b \notin files
      <3>1. Head(todo') = b
        BY <2>3
      <3> QED BY Zenon, <2>1, <2>3, <3>1 DEF DamageInv, Readable
    <2> QED BY Zenon, <1>6, <2>2, <2>3 DEF NewBlock, Acceptable, HasBlock
  <1>7. ASSUME NEW bs \in Batch, Blocks(bs) PROVE DamageInv'
    <2>1. /\ UNCHANGED <<files, meta, faults, reorged, up, tip>> /\ hpc = "idle"
          /\ hpc' \in {"idle", "sync", "regenesis", "reopen"}
      BY Zenon, <1>7 DEF Blocks, BlockMuFree, disk, memory, handler
    <2> QED BY Zenon, <2>1, <1>q, <1>a DEF Readable
  <1>8. CASE SyncStep
    <2>1. UNCHANGED <<files, meta, faults, reorged, up, tip>> /\ hpc = "sync"
      BY Zenon, <1>8 DEF SyncStep
    <2>2. CASE hpc' \in {"idle", "sync"}
      BY Zenon, <2>1, <2>2, <1>q, <1>a DEF Readable
    <2>3. CASE hpc' = "open" /\ todo' = todo /\ Head(todo) \notin files
      BY <2>1, <2>3 DEF DamageInv, Readable
    <2> QED BY Zenon, <1>8, <2>2, <2>3 DEF SyncStep, Release, Acceptable, HasBlock
  <1>9. CASE ReapplyGenesis
    <2>1. /\ UNCHANGED <<files, meta, faults, up, tip>>
          /\ hpc = "regenesis" /\ hpc' = "open" /\ reorged'
      BY <1>9 DEF ReapplyGenesis, memory
    <2>2. reorged' \in BOOLEAN
      BY <1>9 DEF ReapplyGenesis
    <2> QED BY Zenon, <2>1, <2>2, <1>q, <1>a DEF Readable
  <1>10. CASE WriteOpen
    <2>1. /\ UNCHANGED <<meta, faults, up, tip, todo>> /\ files' = files \ {Head(todo)}
          /\ hpc \in {"open", "reopen"} /\ hpc' \in {"write", "rewrite"}
      BY Zenon, <1>10 DEF WriteOpen, memory
    <2>2. reorged' \in BOOLEAN /\ (reorged => reorged') /\ (hpc = "reopen" => reorged')
      BY Zenon, <1>10, <1>a DEF WriteOpen
    <2>3. files \subseteq files' \/ reorged'
      BY <2>1, <2>2 DEF DamageInv
    <2>4. Readable \subseteq Readable'
      BY <2>1 DEF Readable
    <2> QED BY Zenon, <2>1, <2>2, <2>3, <2>4, <1>q
  <1>11. CASE WriteBlock
    <2>1. /\ UNCHANGED <<meta, faults, up, tip, reorged>> /\ files' = files \cup {Head(todo)}
          /\ hpc \in {"write", "rewrite"} /\ hpc' \in {"apply", "reset", "reopen"}
      BY Zenon, <1>11 DEF WriteBlock, AfterWrite, memory, history
    <2>2. Readable \subseteq Readable'
      BY <2>1 DEF Readable
    <2> QED BY <2>1, <2>2, <1>q, <1>a
  <1>12. CASE ApplyBlock \/ Reset \/ ReplayGenesis \/ ReplayBlock
    <2>1. /\ UNCHANGED <<files, meta, faults, up, tip, reorged>>
          /\ hpc \in {"apply", "reset", "genesis", "replay"}
          /\ hpc' \in {"setTip", "genesis", "replay"}
      BY Zenon, <1>12 DEF ApplyBlock, Reset, ReplayGenesis, ReplayBlock, memory, history
    <2> QED BY Zenon, <2>1, <1>q, <1>a DEF Readable
  <1>13. CASE SetTip
    <2>1. UNCHANGED <<files, meta, faults, up, reorged>> /\ hpc = "setTip" /\ hpc' = "stuck"
      BY <1>13 DEF SetTip, disk, history
    <2> QED BY Zenon, <2>1, <1>q, <1>a DEF Readable
  <1>14. CASE ProducerFails
    <2>1. ppc \in {"apply", "append", "truncate", "save"} /\ Fault
          /\ UNCHANGED <<files, meta, up, tip, hpc, reorged>>
      BY <1>14 DEF ProducerFails, disk, memory, handler
    <2>2. hpc = "idle"
      BY <2>1, <1>t DEF ControlInv
    <2> QED BY <2>1, <2>2, <1>f, <1>a
  <1>15. CASE WriteFails
    <2>1. /\ Fault /\ UNCHANGED <<files, meta, up, tip>>
          /\ hpc \in {"open", "write", "reopen", "rewrite"}
          /\ hpc' \in {"apply", "reset", "reopen"}
      BY <1>15 DEF WriteFails, AfterWrite, disk, memory
    <2>2. reorged' \in BOOLEAN /\ (reorged => reorged')
      BY <1>15, <1>a DEF WriteFails
    <2> QED BY <2>1, <2>2, <1>f
  <1>gf. CASE GenesisFails
    <2>1. /\ Fault /\ UNCHANGED <<files, meta, up, tip>> /\ hpc = "regenesis" /\ hpc' = "open"
      BY <1>gf DEF GenesisFails, disk, memory
    <2>2. reorged' \in BOOLEAN /\ reorged'
      BY <1>gf DEF GenesisFails
    <2> QED BY <2>1, <2>2, <1>f
  <1>16. CASE HandlerFails
    <2>1. /\ Fault /\ UNCHANGED <<files, meta, up, tip, reorged>> /\ hpc # "stuck" /\ hpc' = "idle"
      BY <1>16 DEF HandlerFails, Release, disk, memory
    <2> QED BY <2>1, <1>f, <1>a
  <1>17. CASE Crash
    <2>1. Fault /\ UNCHANGED <<files, meta, reorged>> /\ ~up' /\ hpc' = "idle"
      BY <1>17 DEF Crash, Release, disk
    <2> QED BY <2>1, <1>f, <1>a
  <1>18. CASE Restart
    <2>1. meta # Torn /\ tip' = meta /\ UNCHANGED <<files, meta, faults, reorged, hpc, todo>>
      BY <1>18 DEF Restart, disk, handler, history
    <2> QED BY Zenon, <2>1 DEF DamageInv, Readable
  <1>19. CASE UNCHANGED vars
    BY Zenon, <1>19, <1>q, <1>a DEF vars, disk, memory, handler, history, Readable
  <1> QED
    BY Zenon, <1>gf, <1>1, <1>2, <1>3, <1>4, <1>5, <1>6, <1>7, <1>8, <1>9, <1>10, <1>11, <1>12,
       <1>13, <1>14, <1>15, <1>16, <1>17, <1>18, <1>19
    DEF Next, WriterStep, ProducerStep, HandlerStep

\* Whatever the chains and wherever the failures fall: without a reorganisation
\* no file of the chain in chain.json is ever lost, and with them each crash or
\* failed write costs at most one.
THEOREM DamageCorrect == Spec => []DamageBounded
  <1>1. TypeInv /\ DamageInv => DamageBounded
    <2> SUFFICES ASSUME TypeInv, DamageInv, meta # Torn
                 PROVE  Cardinality(Range(PathTo[meta]) \ files) <=
                          IF reorged THEN faults + MidWrite ELSE 0
      BY DEF DamageBounded
    <2>1. meta \in Block /\ faults \in Nat /\ Within(meta, reorged, files, Readable, faults)
      BY Zenon DEF TypeInv, TypeOK, DamageInv
    <2>2. CASE ~reorged
      <3>1. Range(PathTo[meta]) \subseteq files
        BY <2>1, <2>2 DEF Within
      <3>2. Cardinality(Range(PathTo[meta]) \ files) = 0
        BY Zenon, <2>1, <3>1, LostFacts
      <3> QED BY <2>2, <3>2
    <2>3. CASE reorged /\ hpc \in {"write", "rewrite"}
      <3>1. Readable = files \cup {Head(todo)} /\ MidWrite = 1
        BY <2>3 DEF Readable, MidWrite
      <3>2. Cardinality(Range(PathTo[meta]) \ (files \cup {Head(todo)})) <= faults
        BY <2>1, <2>3, <3>1 DEF Within
      <3>3. /\ Cardinality(Range(PathTo[meta]) \ (files \cup {Head(todo)})) \in Nat
            /\ Cardinality(Range(PathTo[meta]) \ files) \in Nat
            /\ Cardinality(Range(PathTo[meta]) \ files) <=
                 Cardinality(Range(PathTo[meta]) \ (files \cup {Head(todo)})) + 1
        BY Zenon, <2>1, LostFacts
      <3>4. \A c, d \in Nat : c <= faults /\ d <= c + 1 => d <= faults + 1
        BY <2>1
      <3> QED BY Zenon, <2>3, <3>1, <3>2, <3>3, <3>4
    <2>4. CASE reorged /\ hpc \notin {"write", "rewrite"}
      <3>1. Readable = files /\ MidWrite = 0
        BY <2>4 DEF Readable, MidWrite
      <3>2. faults + 0 = faults
        BY <2>1
      <3> QED BY <2>1, <2>4, <3>1, <3>2 DEF Within
    <2> QED BY <2>2, <2>3, <2>4
  <1> QED BY <1>1, TypeInit, TypeStep, DamageInit, DamageStep, PTL DEF Spec

-----------------------------------------------------------------------------
(* Places on a chain. *)

\* Places in a list, and in one with an entry more.
LEMMA OneAndNext ==
  /\ 1 \in Nat \ {0} /\ \A n \in Nat : n + 1 \in Nat \ {0}
  /\ \A i \in 1 .. 1 : i = 1
  /\ \A n \in Nat : \A i \in 1 .. n + 1 : i # n + 1 => i \in 1 .. n
  /\ \A n \in Nat : \A i \in 1 .. n : \A j \in 1 .. i : j \in 1 .. n
  OBVIOUS

LEMMA AppendPlaces ==
  \A q \in Seq(Block) : \A x \in Block :
    /\ Len(Append(q, x)) = Len(q) + 1 /\ Append(q, x)[Len(q) + 1] = x
    /\ \A i \in 1 .. Len(q) : Append(q, x)[i] = q[i]
  OBVIOUS

\* A path ends with its block, and cut after any of its blocks it is the path
\* to that one.
LEMMA PathPlaces ==
  ASSUME NEW b \in Block
  PROVE  /\ PathTo[b] \in Seq(Block) /\ Len(PathTo[b]) \in Nat \ {0}
         /\ PathTo[b][Len(PathTo[b])] = b
         /\ \A i \in 1 .. Len(PathTo[b]) :
              /\ PathTo[b][i] \in Block /\ Len(PathTo[PathTo[b][i]]) = i
              /\ \A j \in 1 .. i : PathTo[PathTo[b][i]][j] = PathTo[b][j]
  <1> DEFINE Ends(c) == Len(PathTo[c]) \in Nat \ {0} /\ PathTo[c][Len(PathTo[c])] = c
             Cuts(c) == \A i \in 1 .. Len(PathTo[c]) :
                          /\ PathTo[c][i] \in Block /\ Len(PathTo[PathTo[c][i]]) = i
                          /\ \A j \in 1 .. i : PathTo[PathTo[c][i]][j] = PathTo[c][j]
             T == {c \in Block : ~(Ends(c) /\ Cuts(c))}
  <1>1. ASSUME NEW c \in Block PROVE PathTo[c] \in Seq(Block)
    BY PathUnfold
  <1>2. T = {}
    <2> SUFFICES ASSUME T # {} PROVE FALSE
      BY Zenon
    <2>1. PICK c \in T : c.prev \notin T
      BY Zenon, ChainAssumption
    <2>2. CASE c.prev \notin Block
      <3>1. PathTo[c] = <<c>>
        BY Zenon, <2>1, <2>2, PathUnfold
      <3>2. Len(PathTo[c]) = 1 /\ PathTo[c][1] = c
        BY <3>1
      <3>3. Ends(c)
        BY Zenon, <3>2, OneAndNext
      <3>4. ASSUME NEW i \in 1 .. Len(PathTo[c])
            PROVE  /\ PathTo[c][i] \in Block /\ Len(PathTo[PathTo[c][i]]) = i
                   /\ \A j \in 1 .. i : PathTo[PathTo[c][i]][j] = PathTo[c][j]
        <4>1. i = 1
          BY Zenon, <3>2, OneAndNext
        <4> QED BY Zenon, <4>1, <3>2, <2>1
      <3> QED BY Zenon, <2>1, <3>3, <3>4
    <2>3. CASE c.prev \in Block
      <3> DEFINE d == c.prev
      <3>1. PathTo[c] = Append(PathTo[d], c) /\ PathTo[d] \in Seq(Block)
        BY Zenon, <2>1, <2>3, PathUnfold
      <3>2. Ends(d) /\ Cuts(d)
        BY Zenon, <2>1, <2>3
      <3>3. /\ Len(PathTo[c]) = Len(PathTo[d]) + 1 /\ PathTo[c][Len(PathTo[d]) + 1] = c
            /\ \A i \in 1 .. Len(PathTo[d]) : PathTo[c][i] = PathTo[d][i]
        <4>1. c \in Block
          BY Zenon, <2>1
        <4>2. PICK q \in Seq(Block) : q = PathTo[d]
          BY Zenon, <3>1
        <4>3. PathTo[c] = Append(q, c)
          BY Zenon, <3>1, <4>2
        <4>4. /\ Len(Append(q, c)) = Len(q) + 1 /\ Append(q, c)[Len(q) + 1] = c
              /\ \A i \in 1 .. Len(q) : Append(q, c)[i] = q[i]
          BY Zenon, <4>1, AppendPlaces
        <4> QED BY Zenon, <4>2, <4>3, <4>4
      <3>n. /\ Len(PathTo[d]) \in Nat \ {0}
            /\ Len(PathTo[c]) = Len(PathTo[d]) + 1 /\ PathTo[c][Len(PathTo[d]) + 1] = c
        BY Zenon, <3>2, <3>3
      <3>4. Ends(c)
        <4>1. Len(PathTo[d]) + 1 \in Nat \ {0}
          BY Zenon, <3>n, OneAndNext
        <4> QED BY Zenon, <3>n, <4>1
      <3>5. ASSUME NEW i \in 1 .. Len(PathTo[c])
            PROVE  /\ PathTo[c][i] \in Block /\ Len(PathTo[PathTo[c][i]]) = i
                   /\ \A j \in 1 .. i : PathTo[PathTo[c][i]][j] = PathTo[c][j]
        <4>1. CASE i = Len(PathTo[d]) + 1
          <5>1. PathTo[c][i] = c
            BY Zenon, <4>1, <3>3
          <5> QED BY Zenon, <5>1, <4>1, <3>3, <2>1
        <4>2. CASE i # Len(PathTo[d]) + 1
          <5>1. i \in 1 .. Len(PathTo[d]) /\ Len(PathTo[d]) \in Nat
            BY Zenon, <4>2, <3>n, OneAndNext
          <5>2. PathTo[c][i] = PathTo[d][i]
            BY Zenon, <5>1, <3>3
          <5>3. /\ PathTo[d][i] \in Block /\ Len(PathTo[PathTo[d][i]]) = i
                /\ \A j \in 1 .. i : PathTo[PathTo[d][i]][j] = PathTo[d][j]
            BY Zenon, <5>1, <3>2
          <5>4. \A j \in 1 .. i : PathTo[d][j] = PathTo[c][j]
            BY Zenon, <5>1, <3>3, OneAndNext
          <5> QED BY Zenon, <5>2, <5>3, <5>4
        <4> QED BY Zenon, <4>1, <4>2
      <3> QED BY Zenon, <2>1, <3>4, <3>5
    <2> QED BY Zenon, <2>2, <2>3
  <1> QED BY Zenon, <1>1, <1>2

\* The block before a block of a path is its predecessor; the first has none.
LEMMA PathPrev ==
  ASSUME NEW b \in Block, NEW i \in 1 .. Len(PathTo[b])
  PROVE  IF i = 1 THEN PathTo[b][i].prev \notin Block ELSE PathTo[b][i].prev = PathTo[b][i - 1]
  <1> DEFINE c == PathTo[b][i]
  <1>1. c \in Block /\ Len(PathTo[c]) = i /\ \A j \in 1 .. i : PathTo[c][j] = PathTo[b][j]
    BY Zenon, PathPlaces
  <1>n. i \in Nat /\ i >= 1
    BY PathPlaces
  <1> HIDE DEF c
  <1>2. ASSUME c.prev \in Block PROVE i # 1 /\ c.prev = PathTo[b][i - 1]
    <2>1. PathTo[c] = Append(PathTo[c.prev], c)
      BY Zenon, <1>1, <1>2, PathUnfold
    <2>2. /\ PathTo[c.prev] \in Seq(Block) /\ Len(PathTo[c.prev]) \in Nat \ {0}
          /\ PathTo[c.prev][Len(PathTo[c.prev])] = c.prev
      BY Zenon, <1>2, PathPlaces
    <2>3. /\ Len(PathTo[c]) = Len(PathTo[c.prev]) + 1
          /\ PathTo[c][Len(PathTo[c.prev])] = PathTo[c.prev][Len(PathTo[c.prev])]
      BY <2>1, <2>2, <1>1
    <2>4. Len(PathTo[c.prev]) = i - 1 /\ i # 1 /\ i - 1 \in 1 .. i
      BY <2>2, <2>3, <1>1, <1>n
    <2> QED BY Zenon, <2>2, <2>3, <2>4, <1>1
  <1>3. ASSUME c.prev \notin Block PROVE i = 1
    <2>1. PathTo[c] = <<c>>
      BY Zenon, <1>1, <1>3, PathUnfold
    <2> QED BY <2>1, <1>1
  <1> QED BY Zenon, <1>2, <1>3 DEF c

\* Heights go on counting when a block is one higher than its predecessor.
LEMMA CountedChild ==
  ASSUME NEW c \in Block, NEW b \in Block, b.prev = c, Counted(c), b.height = c.height + 1
  PROVE  Counted(b)
  <1>1. PathTo[b] = Append(PathTo[c], b)
    BY Zenon, PathUnfold
  <1>2. /\ PathTo[c] \in Seq(Block) /\ Len(PathTo[c]) \in Nat \ {0}
        /\ PathTo[c][Len(PathTo[c])] = c
    BY PathPlaces
  <1>3. /\ DOMAIN PathTo[b] = 1 .. Len(PathTo[c]) + 1 /\ DOMAIN PathTo[c] = 1 .. Len(PathTo[c])
        /\ PathTo[b][Len(PathTo[c]) + 1] = b
        /\ \A i \in 1 .. Len(PathTo[c]) : PathTo[b][i] = PathTo[c][i]
    BY <1>1, <1>2
  <1>4. c.height = Len(PathTo[c]) - 1
    BY <1>2, <1>3 DEF Counted
  <1>5. ASSUME NEW i \in DOMAIN PathTo[b] PROVE PathTo[b][i].height = i - 1
    <2>1. CASE i = Len(PathTo[c]) + 1
      BY <2>1, <1>2, <1>3, <1>4
    <2>2. CASE i # Len(PathTo[c]) + 1
      <3>1. i \in 1 .. Len(PathTo[c])
        BY <2>2, <1>2, <1>3
      <3> QED BY Zenon, <3>1, <1>3 DEF Counted
    <2> QED BY <2>1, <2>2
  <1> QED BY <1>5 DEF Counted

\* Where heights count, a block is at the place its height says.
LEMMA CountedPlace ==
  ASSUME NEW b \in Block, Counted(b)
  PROVE  /\ b.height = Len(PathTo[b]) - 1
         /\ \A c \in Range(PathTo[b]) : c.height + 1 \in 1 .. Len(PathTo[b])
                                       /\ PathTo[b][c.height + 1] = c
  <1>1. /\ PathTo[b] \in Seq(Block) /\ Len(PathTo[b]) \in Nat \ {0}
        /\ PathTo[b][Len(PathTo[b])] = b
    BY Zenon, PathPlaces
  <1>2. DOMAIN PathTo[b] = 1 .. Len(PathTo[b])
    BY <1>1
  <1>3. b.height = Len(PathTo[b]) - 1
    BY <1>1, <1>2 DEF Counted
  <1>4. ASSUME NEW c \in Range(PathTo[b])
        PROVE  c.height + 1 \in 1 .. Len(PathTo[b]) /\ PathTo[b][c.height + 1] = c
    <2>1. PICK i \in DOMAIN PathTo[b] : PathTo[b][i] = c
      BY DEF Range
    <2>2. c.height = i - 1 /\ i \in 1 .. Len(PathTo[b])
      BY <2>1, <1>2 DEF Counted
    <2>3. c.height + 1 = i
      BY <2>2, <1>1
    <2> QED BY Zenon, <2>1, <2>2, <2>3
  <1> QED BY Zenon, <1>3, <1>4

-----------------------------------------------------------------------------
(* What the node owes its readers. *)

\* The block the handler or the producer has in hand, on its way to be the tip.
Hand == (IF hpc \in Writing \cup {"setTip"} THEN {Newest(batch)} ELSE {})
        \cup IF ppc = "append" THEN {pb} ELSE {}

\* The blocks that are on the chain or about to be.
Known == Range(PathTo[tip]) \cup Hand

\* Chains that can be walked were made by the node itself, one height at a time:
\* a received block becomes the tip only in SetTip, and from then on no read
\* returns.  Until a chain is replaced the tip moves to its own children only,
\* and as long as nothing fails every block file is of the chain.
TipInv ==
  /\ meta # Torn => Counted(meta)
  /\ up /\ hpc # "stuck" => Counted(tip)
  /\ ppc \in {"apply", "append"} => pb.height = tip.height + 1
  /\ ~reorged /\ hpc \in Writing \cup {"setTip"} => Newest(batch).prev = tip
  /\ ~reorged /\ faults = 0 => up /\ Genesis \in Range(PathTo[tip]) /\ files \subseteq Known

\* What a step may do to what a reader has seen, while the process lives.
Moves ==
  up /\ up' =>
    /\ reorged => reorged'
    /\ hpc = "stuck" => hpc' = "stuck"
    /\ tip' = tip \/ tip'.prev = tip \/ (reorged' /\ hpc' = "stuck")
    /\ ~reorged' => Range(applied) \subseteq Range(applied')
    /\ ~reorged' /\ faults' = 0 => faults = 0 /\ Known \subseteq Known'

LEMMA TipInit == Init => TipInv
  <1> SUFFICES ASSUME Init PROVE TipInv
    OBVIOUS
  <1>1. Genesis \in Block /\ Genesis.prev \notin Block /\ Genesis.height = 0
    BY BlockAssumption
  <1>2. PathTo[Genesis] = <<Genesis>>
    BY Zenon, <1>1, PathUnfold
  <1>3. Counted(Genesis)
    BY <1>1, <1>2 DEF Counted
  <1>4. Range(PathTo[Genesis]) = {Genesis}
    BY <1>2 DEF Range
  <1> QED BY Zenon, <1>3, <1>4 DEF Init, TipInv, Writing, Known

\* An application loses no entry.
LEMMA ApplyKeeps ==
  ASSUME NEW list \in Seq(Block), NEW b \in Block PROVE Range(list) \subseteq Range(Apply(list, b))
  BY RangeOfAppend DEF Apply

LEMMA TipStep == TypeInv /\ MessageInv /\ TipInv /\ [Next]_vars => TipInv' /\ Moves
  <1> SUFFICES ASSUME TypeInv, MessageInv, TipInv, [Next]_vars PROVE TipInv' /\ Moves
    OBVIOUS
  <1> DEFINE W == Writing \cup {"setTip"}
  <1>t. TypeOK /\ ControlInv
    BY DEF TypeInv
  <1>a. applied \in Seq(Block) /\ meta \in Block \cup {Torn} /\ tip \in Block /\ pb \in Block
        /\ faults \in Nat /\ reorged \in BOOLEAN
    BY Zenon, <1>t DEF TypeOK
  \* Steps that leave the tip and the files alone, and a block in hand there.
  <1>q. ASSUME UNCHANGED <<tip, up>>, meta' = meta \/ meta' = Torn, files' \subseteq files,
               reorged => reorged', faults' = 0 => faults = 0,
               ppc' \in {"apply", "append"} => ppc \in {"apply", "append"} /\ pb' = pb,
               ppc = "append" => ppc' = "append" \/ faults' # 0,
               hpc = "stuck" => hpc' = "stuck",
               ~reorged' /\ hpc' \in W => hpc \in W /\ batch' = batch,
               ~reorged' /\ hpc \in W => hpc' \in W \/ faults' # 0,
               ~reorged' => Range(applied) \subseteq Range(applied')
        PROVE  TipInv' /\ Moves
    <2>1. ASSUME ~reorged', faults' = 0 PROVE Known \subseteq Known'
      BY Zenon, <1>q, <2>1 DEF Known, Hand
    <2>2. Moves
      BY Zenon, <1>q, <2>1 DEF Moves
    <2>3. /\ (meta # Torn => Counted(meta))' /\ (up /\ hpc # "stuck" => Counted(tip))'
          /\ (ppc \in {"apply", "append"} => pb.height = tip.height + 1)'
          /\ (~reorged /\ hpc \in W => Newest(batch).prev = tip)'
      BY Zenon, <1>q DEF TipInv, Counted, Newest
    <2>4. ASSUME ~reorged', faults' = 0
          PROVE  up' /\ Genesis \in Range(PathTo[tip'])  /\ files' \subseteq Known'
      BY Zenon, <2>1, <2>4, <1>q DEF TipInv
    <2> QED BY Zenon, <2>2, <2>3, <2>4 DEF TipInv
  <1> HIDE DEF W
  <1>1. ASSUME NEW t \in Tx, AddTx(t) PROVE TipInv' /\ Moves
    BY Zenon, <1>1, <1>q DEF AddTx, disk, producer, handler, history
  <1>2. ASSUME NEW from \in 0 .. tip.height, GetBlocks(from) PROVE TipInv' /\ Moves
    BY Zenon, <1>2, <1>q DEF GetBlocks, disk, memory, producer, handler
  <1>3. CASE SaveTruncate \/ RemoveIncluded \/ Announce
    <2>1. /\ UNCHANGED <<tip, up, files, reorged, faults, applied, hpc, batch>>
          /\ meta' = meta \/ meta' = Torn
      BY Zenon, <1>3 DEF SaveTruncate, RemoveIncluded, Announce, disk, memory, handler, history
    <2>2. ppc' \notin {"apply", "append"} /\ ppc # "append"
      BY <1>3 DEF SaveTruncate, RemoveIncluded, Announce
    <2> QED BY Zenon, <2>1, <2>2, <1>q
  <1>4. CASE ProducerApply
    BY Zenon, <1>4, <1>q, <1>a, ApplyKeeps DEF ProducerApply, memory, handler, history
  <1>5. CASE ProducerFails
    BY <1>5, <1>q, <1>a DEF ProducerFails, Fault, disk, memory, handler
  <1>6. ASSUME NEW bs \in Batch, Blocks(bs) PROVE TipInv' /\ Moves
    <2>1. /\ UNCHANGED <<tip, up, meta, files, reorged, faults, ppc, pb, applied>>
          /\ hpc = "idle" /\ hpc' \in {"idle", "sync", "regenesis", "reopen"}
      BY Zenon, <1>6 DEF Blocks, BlockMuFree, disk, memory, producer, handler
    <2>2. hpc \notin W /\ hpc' \notin W
      BY <2>1 DEF W, Writing
    <2> QED BY Zenon, <2>1, <2>2, <1>q
  <1>7. CASE ReapplyGenesis
    BY Zenon, <1>7, <1>q DEF ReapplyGenesis, memory, producer
  <1>8. CASE WriteOpen
    <2>1. /\ UNCHANGED <<tip, up, meta, faults, ppc, pb, applied, batch>> /\ files' \subseteq files
          /\ (reorged => reorged') /\ (reorged' \/ hpc = "open") /\ hpc # "stuck"
          /\ hpc = "open" => hpc' = "write"
      BY Zenon, <1>8 DEF WriteOpen, memory, producer
    <2>2. hpc = "open" => hpc \in W /\ hpc' \in W
      BY <2>1 DEF W, Writing
    <2> QED BY Zenon, <2>1, <2>2, <1>q
  <1>9. CASE ApplyBlock
    <2>1. /\ UNCHANGED <<tip, up, meta, files, reorged, faults, ppc, pb, batch>>
          /\ hpc = "apply" /\ hpc' = "setTip" /\ applied' = Apply(applied, Head(todo))
      BY Zenon, <1>9 DEF ApplyBlock, memory, producer, history
    <2>2. Head(todo) \in Block
      BY Zenon, <2>1, <1>t, SeqFacts DEF ControlInv, TypeOK
    <2>3. hpc \in W /\ hpc' \in W
      BY Zenon, <2>1 DEF W, Writing
    <2> QED BY Zenon, <2>1, <2>2, <2>3, <1>q, <1>a, ApplyKeeps
  <1>10. CASE Reset \/ ReplayGenesis \/ ReplayBlock
    <2>1. /\ UNCHANGED <<tip, up, meta, files, reorged, faults, ppc, pb>>
          /\ hpc \in {"reset", "genesis", "replay"}
      BY Zenon, <1>10 DEF Reset, ReplayGenesis, ReplayBlock, memory, producer, history
    <2>2. reorged /\ hpc # "stuck"
      BY Zenon, <2>1, <1>t DEF ControlInv
    <2> QED BY Zenon, <2>1, <2>2, <1>q
  <1>11. CASE WriteFails
    <2>1. /\ UNCHANGED <<tip, up, meta, files, ppc, pb, applied, batch>> /\ (reorged => reorged')
          /\ faults' = faults + 1 /\ hpc # "stuck"
          /\ \/ hpc \in {"open", "write"} /\ hpc' = "apply"
             \/ hpc = "rewrite" \/ reorged'
      BY Zenon, <1>11 DEF WriteFails, AfterWrite, Fault, disk, memory, producer
    <2>2. faults' # 0
      BY <2>1, <1>a
    <2>3. \/ hpc \in W /\ hpc' \in W
          \/ reorged'
      BY Zenon, <2>1, <1>t DEF ControlInv, W, Writing
    <2> QED BY Zenon, <2>1, <2>2, <2>3, <1>q
  <1>gf. CASE GenesisFails
    <2>1. /\ UNCHANGED <<tip, up, meta, files, ppc, pb>> /\ reorged' /\ hpc # "stuck"
          /\ faults' = faults + 1
      BY <1>gf DEF GenesisFails, Fault, disk, memory, producer
    <2>2. faults' # 0
      BY <2>1, <1>a
    <2> QED BY Zenon, <2>1, <2>2, <1>q
  <1>12. CASE HandlerFails
    <2>1. /\ UNCHANGED <<tip, up, meta, files, ppc, pb, applied, reorged>>
          /\ faults' = faults + 1 /\ hpc # "stuck" /\ hpc' = "idle"
      BY Zenon, <1>12 DEF HandlerFails, Release, Fault, disk, memory, producer
    <2>2. faults' # 0 /\ hpc' \notin W
      BY <2>1, <1>a DEF W, Writing
    <2> QED BY Zenon, <2>1, <2>2, <1>q
  <1>13. CASE Crash
    <2>1. /\ up' = FALSE /\ ppc' = "idle" /\ hpc' = "idle" /\ meta' = meta /\ faults' = faults + 1
      BY Zenon, <1>13 DEF Crash, Release, Fault, disk
    <2>2. faults' # 0
      BY <2>1, <1>a
    <2>3. Moves
      BY Zenon, <2>1 DEF Moves
    <2>4. (meta # Torn => Counted(meta))'
      BY Zenon, <2>1 DEF TipInv, Counted
    <2> QED BY Zenon, <2>1, <2>2, <2>3, <2>4 DEF TipInv, Writing
  <1>14. CASE Restart
    <2>1. /\ up' = TRUE /\ ~up /\ meta # Torn /\ tip' = meta
          /\ UNCHANGED <<meta, ppc, hpc, reorged, faults>>
      BY Zenon, <1>14 DEF Restart, disk, producer, handler, history
    <2>2. ppc = "idle" /\ hpc = "idle"
      BY Zenon, <2>1, <1>t DEF ControlInv
    <2>3. Moves
      BY Zenon, <2>1 DEF Moves
    <2>4. (meta # Torn => Counted(meta))' /\ (up /\ hpc # "stuck" => Counted(tip))'
      BY Zenon, <2>1 DEF TipInv, Counted
    <2>5. reorged \/ faults # 0
      BY Zenon, <2>1 DEF TipInv
    <2> QED BY Zenon, <2>1, <2>2, <2>3, <2>4, <2>5 DEF TipInv, Writing
  <1>15. CASE Produce
    <2>1. /\ UNCHANGED <<tip, up, meta, files, reorged, faults, hpc, batch, applied>>
          /\ pb'.height = tip.height + 1 /\ ppc = "idle" /\ ppc' = "apply"
      BY Zenon, <1>15 DEF Produce, disk, memory, handler, history
    <2>2. Known' = Known
      BY Zenon, <2>1 DEF Known, Hand
    <2>3. Moves
      BY Zenon, <2>1, <2>2 DEF Moves
    <2> QED BY Zenon, <2>1, <2>2, <2>3 DEF TipInv, Counted, Newest
  <1>16. CASE AppendBlock
    <2>1. /\ ppc = "append" /\ ppc' = "truncate" /\ tip' = pb /\ files' = files \cup {pb}
          /\ UNCHANGED <<up, meta, reorged, faults, hpc, batch, applied>>
      BY Zenon, <1>16 DEF AppendBlock, handler, history
    <2>2. hpc = "idle" /\ up /\ pb.prev = tip
      BY Zenon, <2>1, <1>t DEF ControlInv, TypeOK
    <2>3. Range(PathTo[pb]) = Range(PathTo[tip]) \cup {pb}
      BY Zenon, <2>2, <1>a, PathFacts
    <2>4. Known' = Known \cup {pb}
      BY Zenon, <2>1, <2>2, <2>3 DEF Known, Hand, Writing
    <2>5. Counted(pb)
      BY Zenon, <2>1, <2>2, <1>a, CountedChild DEF TipInv
    <2>6. Moves
      BY Zenon, <2>1, <2>2, <2>4 DEF Moves
    <2>7. (meta # Torn => Counted(meta))' /\ (up /\ hpc # "stuck" => Counted(tip))'
      BY Zenon, <2>1, <2>5 DEF TipInv, Counted
    <2>8. ASSUME ~reorged, faults = 0 PROVE Genesis \in Range(PathTo[pb]) /\ files' \subseteq Known'
      BY Zenon, <2>1, <2>3, <2>4, <2>8 DEF TipInv
    <2> QED BY Zenon, <2>1, <2>2, <2>6, <2>7, <2>8 DEF TipInv, Writing
  <1>17. CASE SaveWrite
    <2>1. /\ ppc = "save" /\ ppc' = "remove" /\ meta' = tip
          /\ UNCHANGED <<up, tip, files, reorged, faults, hpc, batch, applied>>
      BY Zenon, <1>17 DEF SaveWrite, memory, handler, history
    <2>2. hpc = "idle" /\ up
      BY Zenon, <2>1, <1>t DEF ControlInv, TypeOK
    <2>3. Known' = Known
      BY Zenon, <2>1 DEF Known, Hand
    <2>4. Moves
      BY Zenon, <2>1, <2>3 DEF Moves
    <2>5. (meta # Torn => Counted(meta))' /\ (up /\ hpc # "stuck" => Counted(tip))'
      BY Zenon, <2>1, <2>2 DEF TipInv, Counted
    <2> QED BY Zenon, <2>1, <2>2, <2>3, <2>4, <2>5 DEF TipInv, Writing
  \* A block that extends the tip is taken in hand.
  <1>h. ASSUME UNCHANGED <<up, tip, meta, files, reorged, faults, ppc, pb, applied>>,
               hpc \in {"idle", "sync"},
               \/ hpc' \in {"idle", "sync"}
               \/ hpc' = "open" /\ Newest(batch').prev = tip
        PROVE  TipInv' /\ Moves
    <2>1. hpc \notin W /\ hpc # "stuck" /\ hpc' # "stuck"
      BY <1>h DEF W, Writing
    <2>2. Known \subseteq Known'
      BY Zenon, <2>1, <1>h DEF Known, Hand, W
    <2>3. Moves
      BY Zenon, <1>h, <2>1, <2>2 DEF Moves
    <2>4. (~reorged /\ hpc \in W => Newest(batch).prev = tip)'
      BY Zenon, <1>h DEF W, Writing, Newest
    <2>5. /\ (meta # Torn => Counted(meta))' /\ (up /\ hpc # "stuck" => Counted(tip))'
          /\ (ppc \in {"apply", "append"} => pb.height = tip.height + 1)'
      BY Zenon, <1>h, <2>1 DEF TipInv, Counted
    <2>6. ASSUME ~reorged, faults = 0
          PROVE  up' /\ Genesis \in Range(PathTo[tip'])  /\ files' \subseteq Known'
      BY Zenon, <2>2, <2>6, <1>h DEF TipInv
    <2> QED BY Zenon, <2>3, <2>4, <2>5, <2>6, <1>h DEF TipInv, W
  <1>18. ASSUME NEW b \in Deliver, NewBlock(b) PROVE TipInv' /\ Moves
    <2>1. /\ UNCHANGED <<up, tip, meta, files, reorged, faults, ppc, pb, applied>> /\ hpc = "idle"
          /\ hpc' = "idle" \/ (hpc' = "open" /\ batch' = <<b>> /\ b.prev = tip)
      BY Zenon, <1>18 DEF NewBlock, BlockMuFree, producer
    <2>2. Newest(<<b>>) = b
      BY DEF Newest
    <2> QED BY Zenon, <2>1, <2>2, <1>h
  <1>19. CASE SyncStep
    <2>1. /\ UNCHANGED <<up, tip, meta, files, reorged, faults, ppc, pb, applied>> /\ hpc = "sync"
          /\ \/ hpc' \in {"idle", "sync"}
             \/ hpc' = "open" /\ batch' = <<Head(todo)>> /\ Head(todo).prev = tip
      BY Zenon, <1>19 DEF SyncStep, Release, producer
    <2>2. Newest(<<Head(todo)>>) = Head(todo)
      BY DEF Newest
    <2> QED BY Zenon, <2>1, <2>2, <1>h
  <1>20. CASE WriteBlock
    <2>1. /\ UNCHANGED <<up, tip, meta, reorged, faults, ppc, pb, applied, batch>>
          /\ hpc \in {"write", "rewrite"} /\ files' = files \cup {Head(todo)}
          /\ hpc = "write" => hpc' = "apply"
      BY Zenon, <1>20 DEF WriteBlock, AfterWrite, memory, producer, history
    <2>2. CASE hpc = "rewrite"
      <3>1. reorged
        BY <2>2, <1>t DEF ControlInv
      <3>2. Moves
        BY Zenon, <2>1, <2>2, <3>1 DEF Moves
      <3>3. hpc # "stuck"
        BY <2>2
      <3> QED BY Zenon, <2>1, <3>1, <3>2, <3>3 DEF TipInv, Counted
    <2>3. CASE hpc = "write"
      <3>1. batch = <<Head(todo)>> /\ hpc' = "apply"
        BY Zenon, <2>1, <2>3 DEF MessageInv, Writing
      <3>2. Newest(batch) = Head(todo)
        BY <3>1 DEF Newest
      <3>3. Head(todo) \in Known /\ Known' = Known
        BY Zenon, <2>1, <2>3, <3>1, <3>2 DEF Known, Hand, Writing
      <3>4. Moves
        BY Zenon, <2>1, <2>3, <3>3 DEF Moves
      <3>5. /\ (meta # Torn => Counted(meta))' /\ (up /\ hpc # "stuck" => Counted(tip))'
            /\ (~reorged /\ hpc \in Writing \cup {"setTip"} => Newest(batch).prev = tip)'
        BY Zenon, <2>1, <2>3 DEF TipInv, Counted, Newest, Writing
      <3> QED BY Zenon, <2>1, <3>3, <3>4, <3>5 DEF TipInv
    <2> QED BY Zenon, <2>1, <2>2, <2>3
  <1>21. CASE SetTip
    <2>1. /\ hpc = "setTip" /\ hpc' = "stuck" /\ tip' = Newest(batch)
          /\ UNCHANGED <<up, meta, files, reorged, faults, ppc, pb, applied, batch>>
      BY Zenon, <1>21 DEF SetTip, disk, producer, history
    <2>2. ppc \in {"idle", "bcast"} /\ Newest(batch) \in Block
      BY Zenon, <2>1, <1>t, SeqFacts DEF ControlInv, TypeOK
    <2>3. ASSUME ~reorged
          PROVE  tip'.prev = tip /\ Range(PathTo[tip']) = Range(PathTo[tip]) \cup {Newest(batch)}
      BY Zenon, <2>1, <2>2, <2>3, <1>a, PathFacts DEF TipInv
    <2>4. ~reorged => Known' = Known
      BY Zenon, <2>1, <2>3 DEF Known, Hand, Writing
    <2>5. Moves
      BY Zenon, <2>1, <2>3, <2>4 DEF Moves
    <2>6. (meta # Torn => Counted(meta))'
      BY Zenon, <2>1 DEF TipInv, Counted
    <2> QED BY Zenon, <2>1, <2>2, <2>3, <2>4, <2>5, <2>6 DEF TipInv, Writing
  <1>22. CASE UNCHANGED vars
    BY Zenon, <1>22, <1>q DEF vars, disk, memory, producer, handler, history
  <1> QED
    BY Zenon, <1>gf, <1>1, <1>2, <1>3, <1>4, <1>5, <1>6, <1>7, <1>8, <1>9, <1>10, <1>11, <1>12, <1>13,
       <1>14, <1>15, <1>16, <1>17, <1>18, <1>19, <1>20, <1>21, <1>22
    DEF Next, WriterStep, ProducerStep, HandlerStep
=============================================================================
