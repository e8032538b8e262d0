---------------------------- MODULE LedgerProofs ----------------------------
(***************************************************************************)
(* Theorems about Ledger, for every set of addresses, word size, genesis   *)
(* and set of blocks: what the tables sum up to, what the stakes and the   *)
(* nonces are, that the balances are what the committed blocks make of     *)
(* genesis, and that Ledger implements AtomicLedger.                       *)
(***************************************************************************)
EXTENDS LedgerReplay, Recursion, FiniteSetTheorems

-----------------------------------------------------------------------------
(* Facts about Supply, the sum of a table of balances. *)

Purse(x, n) == {x} \X (0 .. n - 1)

\* n coins of one owner are n coins.
LEMMA PurseSize ==
  ASSUME NEW x, NEW n \in Nat
  PROVE  IsFiniteSet(Purse(x, n)) /\ Cardinality(Purse(x, n)) = n
  <1> DEFINE S == {x}
             T == 0 .. n - 1
  <1>1. IsFiniteSet(S) /\ Cardinality(S) = 1
    BY FS_Singleton
  <1>2. IsFiniteSet(T) /\ Cardinality(T) = n
    BY FS_Interval
  <1>3. Purse(x, n) = S \X T
    BY DEF Purse
  <1> HIDE DEF S, T
  <1>4. IsFiniteSet(S \X T) /\ Cardinality(S \X T) = Cardinality(S) * Cardinality(T)
    BY <1>1, <1>2, FS_Product
  <1>5. Cardinality(S) * Cardinality(T) = n
    BY <1>1, <1>2
  <1> QED BY Zenon, <1>3, <1>4, <1>5

Others(f, x) == {c \in Coins(f) : c[1] # x}

\* A table's coins are one owner's coins and everybody else's.
LEMMA SplitSupply ==
  ASSUME NEW f \in [Addr -> Word], NEW x \in Addr
  PROVE  /\ IsFiniteSet(Others(f, x))
         /\ Cardinality(Others(f, x)) \in Nat
         /\ Supply(f) = Cardinality(Others(f, x)) + f[x]
  <1>1. f[x] \in Nat /\ f[x] <= MaxUint
    BY WordAssumption DEF Word
  <1>2. IsFiniteSet(Addr \X Word)
    <2>1. IsFiniteSet(Word)
      BY WordAssumption, FS_Interval DEF Word
    <2> QED BY <2>1, AddrAssumption, FS_Product
  <1>3. IsFiniteSet(Others(f, x)) /\ Cardinality(Others(f, x)) \in Nat
    <2>1. Others(f, x) \in SUBSET (Addr \X Word)
      BY DEF Others, Coins
    <2> QED BY <1>2, <2>1, FS_Subset, FS_CardinalityType
  <1>4. Coins(f) = Others(f, x) \cup Purse(x, f[x])
    <2>1. ASSUME NEW c \in Coins(f) PROVE c \in Others(f, x) \cup Purse(x, f[x])
      <3>1. PICK o \in Addr, k \in Word : c = <<o, k>> /\ k < f[o]
        BY <2>1 DEF Coins
      <3>2. CASE o = x
        BY <3>1, <3>2, <1>1, WordAssumption DEF Purse, Word
      <3>3. CASE o # x
        BY <2>1, <3>1, <3>3 DEF Others
      <3> QED BY <3>2, <3>3
    <2>2. ASSUME NEW c \in Purse(x, f[x]) PROVE c \in Coins(f)
      <3>1. PICK k \in 0 .. f[x] - 1 : c = <<x, k>>
        BY <2>2 DEF Purse
      <3>2. k \in Word /\ k < f[x]
        BY <3>1, <1>1, WordAssumption DEF Word
      <3> QED BY <3>1, <3>2 DEF Coins
    <2>3. Others(f, x) \subseteq Coins(f)
      BY DEF Others
    <2> QED BY <2>1, <2>2, <2>3
  <1>5. Others(f, x) \cap Purse(x, f[x]) = {}
    BY DEF Others, Purse
  <1>6. IsFiniteSet(Purse(x, f[x])) /\ Cardinality(Purse(x, f[x])) = f[x]
    BY <1>1, PurseSize
  <1>7. Cardinality(Coins(f)) = Cardinality(Others(f, x)) + f[x] - Cardinality({})
    BY <1>3, <1>4, <1>5, <1>6, FS_Union
  <1> QED BY <1>1, <1>3, <1>7, FS_EmptySet DEF Supply

\* The supply is a natural number and bounds every balance.
LEMMA SupplyBounds ==
  ASSUME NEW f \in [Addr -> Word]
  PROVE  Supply(f) \in Nat /\ \A x \in Addr : f[x] <= Supply(f)
  <1>1. \A x \in Addr : f[x] \in Nat
    BY WordAssumption DEF Word
  <1>2. \A x \in Addr : Supply(f) \in Nat /\ f[x] <= Supply(f)
    BY <1>1, SplitSupply
  <1> QED BY <1>2, AddrAssumption

\* A table with one entry changed.
Put(f, x, n) == [f EXCEPT ![x] = n]

\* Changing one balance changes the supply by the difference.
LEMMA SupplyUpdate ==
  ASSUME NEW f \in [Addr -> Word], NEW x \in Addr, NEW n \in Word
  PROVE  Put(f, x, n) \in [Addr -> Word] /\ Supply(Put(f, x, n)) = Supply(f) - f[x] + n
  <1> DEFINE g == Put(f, x, n)
  <1>1. g \in [Addr -> Word] /\ g[x] = n
    BY DEF Put
  <1>2. Others(g, x) = Others(f, x)
    BY DEF Others, Coins, Put
  <1> HIDE DEF g
  <1>3. Supply(g) = Cardinality(Others(f, x)) + n
    BY <1>1, <1>2, SplitSupply
  <1>4. Supply(f) = Cardinality(Others(f, x)) + f[x]
    BY SplitSupply
  <1>5. f[x] \in Nat /\ n \in Nat /\ Cardinality(Others(f, x)) \in Nat
    BY SplitSupply, WordAssumption DEF Word
  <1> QED BY <1>1, <1>3, <1>4, <1>5 DEF g

LEMMA SupplyOfZeros == Zeros \in [Addr -> Word] /\ Supply(Zeros) = 0
  <1>1. Zeros \in [Addr -> Word]
    BY WordAssumption DEF Zeros, Word
  <1>2. Coins(Zeros) = {}
    BY WordAssumption DEF Coins, Zeros, Word
  <1> QED BY <1>1, <1>2, FS_EmptySet DEF Supply

-----------------------------------------------------------------------------
(* Type correctness. *)

\* The writer in a replay has a block left to apply.
RestOK == pc \in {"reset", "replay"} => rest # <<>>

LEMMA BlockTyping == Block \subseteq BlockType /\ NoBlock \in BlockType
  <1>1. ASSUME NEW b \in Block PROVE b \in BlockType
    BY BlockAssumption DEF BlockType
  <1>2. NoBlock \in BlockType
    BY AddrAssumption DEF NoBlock, BlockType
  <1> QED BY <1>1, <1>2

\* The sum of two words, wrapped, is a word.
LEMMA WrapWord ==
  ASSUME NEW x \in Word, NEW y \in Word
  PROVE  Wrap(x + y) \in Word /\ x + y - Wrap(x + y) \in {0, MaxUint + 1}
  BY WordAssumption DEF Word, Wrap

LEMMA GenesisTyping ==
  /\ \A f \in [Addr -> Word] : Allocate(f) \in [Addr -> Word]
  /\ \A f \in [Addr -> Word] : ZeroAllocated(f) \in [Addr -> Word]
  /\ \A f \in [Addr -> Word], vs \in Validators : StakeGenesis(f, vs) \in [Addr -> Word]
  /\ \A vs \in Validators : Listed(vs) \in SUBSET Addr
  <1>1. \A f \in [Addr -> Word] : Allocate(f) \in [Addr -> Word]
    BY GenesisAssumption DEF Allocate
  <1>2. \A f \in [Addr -> Word] : ZeroAllocated(f) \in [Addr -> Word]
    BY WordAssumption DEF ZeroAllocated, Word
  <1>3. \A f \in [Addr -> Word], vs \in Validators : StakeGenesis(f, vs) \in [Addr -> Word]
    <2> SUFFICES ASSUME NEW f \in [Addr -> Word], NEW vs \in Validators,
                        NEW x \in Addr, x \in Listed(vs)
                 PROVE  (CHOOSE v \in Staked(vs) : v.address = x).stake \in Word
      BY DEF StakeGenesis
    <2>1. (CHOOSE v \in Staked(vs) : v.address = x) \in Staked(vs)
      BY DEF Listed
    <2> QED BY <2>1, GenesisAssumption DEF Staked
  <1>4. \A vs \in Validators : Listed(vs) \in SUBSET Addr
    BY GenesisAssumption DEF Listed, Staked
  <1> QED BY <1>1, <1>2, <1>3, <1>4

\* While a transaction is left, it is one of Tx and its total is a word.
LEMMA CurTxTyping ==
  ASSUME TypeOK, next <= Len(block.txs)
  PROVE  /\ CurTx.from \in Addr /\ CurTx.to \in Addr
         /\ CurTx.amount \in Word /\ CurTx.fee \in Word /\ Total \in Word
         /\ CurTx.amount + CurTx.fee - Total \in {0, MaxUint + 1}
  <1>1. CurTx \in Tx
    BY DEF TypeOK, CurTx, BlockType
  <1>2. /\ CurTx.from \in Addr /\ CurTx.to \in Addr
        /\ CurTx.amount \in Word /\ CurTx.fee \in Word
    BY <1>1, BlockAssumption
  <1> QED BY <1>2, WrapWord DEF Total

LEMMA TypeStep == TypeOK /\ RestOK /\ [Next]_vars => TypeOK' /\ RestOK'
  <1> SUFFICES ASSUME TypeOK, RestOK, [Next]_vars PROVE TypeOK' /\ RestOK'
    OBVIOUS
  <1>z. Zeros \in [Addr -> Word] /\ Zeros \in [Addr -> Nat] /\ 0 \in Word
    BY SupplyOfZeros, WordAssumption DEF Zeros, Word
  <1>e. <<>> \in Seq(Block) /\ <<>> \in Seq(BlockType)
    OBVIOUS
  <1>g. ASSUME NEW vs \in Validators, WriteGenesis(vs)
        PROVE  /\ balance' \in [Addr -> Word] /\ nonce' \in [Addr -> Word]
               /\ stake' \in [Addr -> Word] /\ validatorList' \in SUBSET Addr
               /\ base' \in [Addr -> Word] /\ log' \in Seq(BlockType)
               /\ issued' \in Nat /\ spends' \in [Addr -> Nat]
               /\ forgot' \in SUBSET Addr /\ dropped' \in SUBSET Addr
    <2>1. Allocate(balance) \in [Addr -> Word]
      BY Zenon, GenesisTyping DEF TypeOK
    <2>2. Supply(Allocate(balance)) \in Nat
      BY <2>1, SupplyBounds
    <2>3. spends' \in [Addr -> Nat]
      BY <1>g DEF WriteGenesis, TypeOK, ZeroAllocated
    <2> QED BY Zenon, <1>g, <1>e, <2>1, <2>2, <2>3, GenesisTyping DEF WriteGenesis, TypeOK
  <1>l. ASSUME NEW b \in Block, LoadMaps(b)
        PROVE  /\ block' \in BlockType /\ next' \in Nat \ {0}
               /\ balances' \in [Addr -> Word] /\ nonces' \in [Addr -> Word]
               /\ nonceKeys' \in SUBSET Addr /\ totalFees' \in Word
               /\ created' \in Nat /\ ran' \in [Addr -> Nat] /\ pc' = "txs"
    BY <1>l, <1>z, BlockTyping DEF LoadMaps, LoadedNonces, TypeOK, LoadsNonce
  <1>d. ASSUME DropMaps
        PROVE  /\ block' \in BlockType /\ next' \in Nat \ {0}
               /\ balances' \in [Addr -> Word] /\ nonces' \in [Addr -> Word]
               /\ nonceKeys' \in SUBSET Addr /\ totalFees' \in Word
               /\ created' \in Nat /\ ran' \in [Addr -> Nat]
    BY <1>d, <1>z, BlockTyping DEF DropMaps
  <1>1. CASE ApplyGenesis
    BY Zenon, <1>1, <1>g DEF ApplyGenesis, writer, TypeOK, RestOK
  <1>2. CASE Start
    BY <1>2 DEF Start, db, writer, history, TypeOK, RestOK
  <1>3. ASSUME NEW b \in Block, ApplyBlock(b) PROVE TypeOK' /\ RestOK'
    BY Zenon, <1>3, <1>l DEF ApplyBlock, db, history, TypeOK, RestOK
  <1>4. ASSUME CountFee
        PROVE  /\ next' \in Nat \ {0} /\ totalFees' \in Word /\ pc' = "txs"
               /\ CurTx.from \in Addr /\ CurTx.to \in Addr
               /\ CurTx.amount \in Word /\ CurTx.fee \in Word /\ Total \in Word
               /\ CurTx.amount + CurTx.fee - Total \in {0, MaxUint + 1}
    BY <1>4, CurTxTyping, WrapWord DEF CountFee, TypeOK
  <1>5. CASE SkipTx
    <2>0. CurTx.fee \in Nat
      BY <1>5, <1>4, WordAssumption DEF SkipTx, Word
    <2>1. created' \in Nat
      BY <1>5, <2>0 DEF SkipTx, TypeOK
    <2> QED BY Zenon, <1>5, <1>4, <2>1 DEF SkipTx, CountFee, db, history, TypeOK, RestOK
  <1>6. CASE ExecuteTx
    <2> DEFINE paid == [balances EXCEPT ![CurTx.from] = @ - Total]
    <2>a. CountFee
      BY <1>6 DEF ExecuteTx
    <2>b. balances[CurTx.from] \in Word /\ nonces[CurTx.from] \in Word
      BY <2>a, <1>4 DEF TypeOK
    <2>0. CountFee /\ Total <= balances[CurTx.from]
      BY <1>6, <2>a, <2>b, <1>4, WordAssumption DEF ExecuteTx, Covered, Word
    <2>1. balances[CurTx.from] - Total \in Word
      <3>1. \A x, y \in Word : y <= x => x - y \in Word
        BY WordAssumption DEF Word
      <3> QED BY <3>1, <2>0, <2>b, <1>4
    <2>2. paid \in [Addr -> Word]
      BY Zenon, <2>1 DEF TypeOK
    <2>3. Wrap(paid[CurTx.to] + CurTx.amount) \in Word
      BY <2>0, <2>2, <1>4, WrapWord
    <2>4. balances' \in [Addr -> Word]
      BY Zenon, <1>6, <2>2, <2>3 DEF ExecuteTx
    <2>5. nonces' \in [Addr -> Word] /\ nonceKeys' \in SUBSET Addr
      <3>1. Wrap(nonces[CurTx.from] + 1) \in Word
        <4>1. \A x \in Word : Wrap(x + 1) \in Word
          BY WordAssumption DEF Word, Wrap
        <4> QED BY <4>1, <2>b
      <3> QED BY Zenon, <1>6, <2>0, <1>4, <3>1 DEF ExecuteTx, TypeOK
    <2>6. created' \in Nat
      <3>1. CurTx.amount \in Nat /\ CurTx.fee \in Nat /\ Total \in Nat
        BY <2>a, <1>4, WordAssumption DEF Word
      <3>2. CurTx.amount + CurTx.fee - Total \in Nat
        BY <2>a, <1>4, WordAssumption
      <3>3. created \in Nat /\ created' = created + CurTx.amount + CurTx.fee - Total
        BY <1>6 DEF ExecuteTx, TypeOK
      <3> QED BY <3>1, <3>2, <3>3
    <2>7. ran' \in [Addr -> Nat]
      <3>1. ran \in [Addr -> Nat] /\ ran' = [ran EXCEPT ![CurTx.from] = @ + 1]
        BY Zenon, <1>6 DEF ExecuteTx, TypeOK
      <3> QED BY <3>1, <2>a, <1>4
    <2> QED BY Zenon, <2>0, <1>4, <2>4, <2>5, <2>6, <2>7
            DEF CountFee, db, history, TypeOK, RestOK
  <1>7. CASE Commit
    <2>1. balance' \in [Addr -> Word]
      <3>1. Wrap(balances[block.validator] + totalFees) \in Word
        BY WrapWord DEF TypeOK, BlockType
      <3> QED BY Zenon, <1>7, <3>1 DEF Commit, PayFees, TypeOK
    <2>2. nonce' \in [Addr -> Word] /\ issued' \in Nat /\ spends' \in [Addr -> Nat]
      BY <1>7 DEF Commit, TypeOK
    <2>3. log' \in Seq(BlockType)
      BY <1>7 DEF Commit, TypeOK
    <2>4. forgot' \in SUBSET Addr
      BY <1>7 DEF Commit, TypeOK
    <2> QED BY Zenon, <1>7, <1>d, <2>1, <2>2, <2>3, <2>4 DEF Commit, TypeOK, RestOK
  <1>8. ASSUME NEW v \in Addr, SlashValidator(v) PROVE TypeOK' /\ RestOK'
    BY Zenon, <1>8, <1>z DEF SlashValidator, writer, history, TypeOK, RestOK
  <1>9. ASSUME NEW blocks \in ReplayChain, ResetAndReplay(blocks) PROVE TypeOK' /\ RestOK'
    <2>1. rest' \in Seq(Block) /\ rest' # <<>>
      BY <1>9, BlockAssumption DEF ResetAndReplay
    <2> QED BY Zenon, <1>9, <2>1, <1>z, <1>e DEF ResetAndReplay, writer, TypeOK, RestOK
  <1>10. CASE ReplayGenesis
    BY Zenon, <1>10, <1>g DEF ReplayGenesis, writer, TypeOK, RestOK
  <1>11. CASE ReplayBlock
    <2>1. rest # <<>> /\ Head(rest) \in Block /\ Tail(rest) \in Seq(Block)
      BY <1>11 DEF ReplayBlock, TypeOK, RestOK
    <2>2. LoadMaps(Head(rest))
      BY <1>11 DEF ReplayBlock
    <2>3. /\ block' \in BlockType /\ next' \in Nat \ {0}
          /\ balances' \in [Addr -> Word] /\ nonces' \in [Addr -> Word]
          /\ nonceKeys' \in SUBSET Addr /\ totalFees' \in Word
          /\ created' \in Nat /\ ran' \in [Addr -> Nat] /\ pc' = "txs"
      BY <2>1, <2>2, <1>l
    <2> QED BY Zenon, <1>11, <2>1, <2>3 DEF ReplayBlock, db, history, TypeOK, RestOK
  <1>12. CASE Abort
    BY Zenon, <1>12, <1>d, <1>e DEF Abort, db, history, TypeOK, RestOK
  <1>13. CASE UNCHANGED vars
    BY Zenon, <1>13 DEF vars, db, writer, history, TypeOK, RestOK
  <1> QED BY <1>1, <1>2, <1>3, <1>5, <1>6, <1>7, <1>8, <1>9, <1>10, <1>11, <1>12, <1>13
          DEF Next

LEMMA TypeInit == Init => TypeOK /\ RestOK
  <1> SUFFICES ASSUME Init PROVE TypeOK /\ RestOK
    OBVIOUS
  <1>1. Zeros \in [Addr -> Word] /\ Zeros \in [Addr -> Nat] /\ 0 \in Word
    BY SupplyOfZeros, WordAssumption DEF Zeros, Word
  <1>2. <<>> \in Seq(Block) /\ <<>> \in Seq(BlockType)
    OBVIOUS
  <1>3. block \in BlockType
    BY BlockTyping DEF Init
  <1> QED BY <1>1, <1>2, <1>3 DEF Init, TypeOK, RestOK

\* Every value the store reads or writes has its type: in particular no
\* balance underflows when ApplyBlock debits a sender.
THEOREM TypeCorrect == Spec => []TypeOK
  <1>1. Spec => [](TypeOK /\ RestOK)
    BY TypeInit, TypeStep, PTL DEF Spec
  <1> QED BY <1>1, PTL

-----------------------------------------------------------------------------
(* Money.  Between two commits the database does not change, so the law is *)
(* carried through the loop by the maps: what they hold, together with the *)
(* fees set aside for the producer, is what the database holds plus what   *)
(* the block has created so far.                                           *)

SupplyInv ==
  /\ SupplyAccounted
  /\ pc = "txs" /\ issued + created <= MaxUint =>
       Supply(balances) + totalFees = issued + created

LEMMA SupplyStep == TypeOK /\ TypeOK' /\ SupplyInv /\ [Next]_vars => SupplyInv'
  <1> SUFFICES ASSUME TypeOK, TypeOK', SupplyInv, [Next]_vars PROVE SupplyInv'
    OBVIOUS
  <1>n. /\ issued \in Nat /\ created \in Nat /\ totalFees \in Nat /\ MaxUint \in Nat
        /\ Supply(balance) \in Nat /\ Supply(balances) \in Nat
        /\ balances \in [Addr -> Word]
    <2>1. /\ issued \in Nat /\ created \in Nat /\ totalFees \in Word
          /\ balance \in [Addr -> Word] /\ balances \in [Addr -> Word]
      BY Zenon DEF TypeOK
    <2>2. MaxUint \in Nat /\ totalFees \in Nat
      BY <2>1, WordAssumption DEF Word
    <2> QED BY Zenon, <2>1, <2>2, SupplyBounds
  <1>g. ASSUME NEW vs \in Validators, WriteGenesis(vs) PROVE SupplyAccounted'
    BY Zenon, <1>g DEF WriteGenesis, SupplyAccounted
  <1>l. ASSUME NEW b, LoadMaps(b), UNCHANGED <<balance, issued>> PROVE SupplyInv'
    BY <1>l, <1>n DEF LoadMaps, SupplyInv, SupplyAccounted
  <1>1. CASE ApplyGenesis
    BY <1>1, <1>g DEF ApplyGenesis, SupplyInv
  <1>2. CASE Start
    BY <1>2 DEF Start, SupplyInv, SupplyAccounted, db, writer, history
  <1>3. ASSUME NEW b \in Block, ApplyBlock(b) PROVE SupplyInv'
    BY <1>3, <1>l DEF ApplyBlock, db, history
  <1>4. ASSUME CountFee
        PROVE  /\ pc = "txs" /\ pc' = "txs" /\ balance' = balance /\ issued' = issued
               /\ totalFees' = Wrap(totalFees + CurTx.fee)
               /\ CurTx.from \in Addr /\ CurTx.to \in Addr
               /\ CurTx.amount \in Word /\ CurTx.fee \in Word /\ Total \in Word
               /\ CurTx.amount + CurTx.fee - Total \in {0, MaxUint + 1}
    BY <1>4, CurTxTyping DEF CountFee, db, history
  <1>5. CASE SkipTx
    <2>1. CountFee /\ created' = created + CurTx.fee /\ balances' = balances
      BY <1>5 DEF SkipTx
    <2>2. CurTx.fee \in Nat
      BY <2>1, <1>4, WordAssumption DEF Word
    <2>3. ASSUME issued' + created' <= MaxUint
          PROVE  Supply(balances') + totalFees' = issued' + created'
      <3>1. issued + created <= MaxUint
        BY <2>1, <2>2, <2>3, <1>4, <1>n
      <3>2. Supply(balances) + totalFees = issued + created
        BY <3>1, <2>1, <1>4 DEF SupplyInv
      <3>3. totalFees' = totalFees + CurTx.fee
        BY <2>1, <2>2, <2>3, <3>2, <1>4, <1>n DEF Wrap
      <3> QED BY <2>1, <2>2, <3>2, <3>3, <1>4, <1>n
    <2> QED BY <2>1, <2>3, <1>4 DEF SupplyInv, SupplyAccounted
  <1>6. CASE ExecuteTx
    <2> DEFINE paid == [balances EXCEPT ![CurTx.from] = @ - Total]
    <2>1. /\ CountFee /\ balances[CurTx.from] >= Total
          /\ created' = created + CurTx.amount + CurTx.fee - Total
          /\ balances' = [paid EXCEPT ![CurTx.to] = Wrap(@ + CurTx.amount)]
      BY <1>6 DEF ExecuteTx, Covered
    <2>2. /\ CurTx.fee \in Nat /\ CurTx.amount \in Nat /\ Total \in Nat
          /\ balances[CurTx.from] \in Word /\ balances[CurTx.from] \in Nat
      BY <2>1, <1>4, <1>n, WordAssumption DEF Word
    <2>3. balances[CurTx.from] - Total \in Word
      <3>1. \A x, y \in Word : y <= x => x - y \in Word
        BY WordAssumption DEF Word
      <3> QED BY Zenon, <3>1, <2>1, <2>2, <1>4
    <2>4. /\ paid \in [Addr -> Word] /\ paid[CurTx.to] \in Word
          /\ Supply(paid) = Supply(balances) - balances[CurTx.from] + (balances[CurTx.from] - Total)
      <3>1. PICK x \in Addr, n \in Word : x = CurTx.from /\ n = balances[CurTx.from] - Total
        BY Zenon, <2>1, <2>3, <1>4
      <3>2. paid = Put(balances, x, n)
        BY <3>1 DEF Put
      <3> HIDE DEF paid
      <3>3. paid \in [Addr -> Word] /\ Supply(paid) = Supply(balances) - balances[x] + n
        BY <3>2, <1>n, SupplyUpdate
      <3>4. CurTx.to \in Addr
        BY <2>1, <1>4
      <3> QED BY <3>1, <3>3, <3>4
    <2> HIDE DEF paid
    <2>5. /\ Supply(paid) = Supply(balances) - Total /\ Supply(paid) \in Nat
          /\ paid[CurTx.to] <= Supply(paid) /\ paid[CurTx.to] \in Nat
      <3>1. CurTx.to \in Addr /\ Supply(paid) \in Nat /\ paid[CurTx.to] <= Supply(paid)
        BY Zenon, <2>1, <2>4, <1>4, SupplyBounds
      <3>2. paid[CurTx.to] \in Nat
        BY <2>4, WordAssumption DEF Word
      <3> QED BY <3>1, <3>2, <2>2, <2>4, <1>n
    <2>6. ASSUME issued' + created' <= MaxUint
          PROVE  Supply(balances') + totalFees' = issued' + created'
      <3>1. created' = created /\ Total = CurTx.amount + CurTx.fee
        BY <2>1, <2>2, <2>6, <1>4, <1>n
      <3>2. Supply(balances) + totalFees = issued + created /\ issued + created <= MaxUint
        BY <3>1, <2>1, <2>6, <1>4 DEF SupplyInv
      <3>3. Wrap(paid[CurTx.to] + CurTx.amount) = paid[CurTx.to] + CurTx.amount
        BY <2>2, <2>5, <3>1, <3>2, <1>n DEF Wrap
      <3>4. Wrap(paid[CurTx.to] + CurTx.amount) \in Word
        BY Zenon, <2>1, <2>4, <1>4, WrapWord
      <3>5. Supply(balances') = Supply(paid) - paid[CurTx.to] + (paid[CurTx.to] + CurTx.amount)
        <4>1. PICK x \in Addr, n \in Word :
                x = CurTx.to /\ n = Wrap(paid[CurTx.to] + CurTx.amount)
          BY Zenon, <2>1, <3>4, <1>4
        <4>2. balances' = Put(paid, x, n)
          BY <2>1, <4>1 DEF Put
        <4>3. Supply(balances') = Supply(paid) - paid[x] + n
          BY Zenon, <4>2, <2>4, SupplyUpdate
        <4> QED BY <4>1, <4>3, <3>3
      <3>6. totalFees' = totalFees + CurTx.fee
        BY <2>1, <2>2, <2>5, <3>1, <3>2, <1>4, <1>n DEF Wrap
      <3> QED BY <2>1, <2>2, <2>5, <3>1, <3>2, <3>5, <3>6, <1>4, <1>n
    <2> QED BY <2>1, <2>6, <1>4 DEF SupplyInv, SupplyAccounted
  <1>7. CASE Commit
    <2>1. /\ pc = "txs" /\ pc' \in {"idle", "replay"} /\ issued' = issued + created
          /\ balance' = [balances EXCEPT ![block.validator] = Wrap(@ + totalFees)]
      BY Zenon, <1>7 DEF Commit, PayFees
    <2>2. /\ block.validator \in Addr /\ balances[block.validator] \in Word
          /\ balances[block.validator] \in Nat /\ totalFees \in Word
          /\ balances[block.validator] <= Supply(balances)
      <3>1. block.validator \in Addr /\ totalFees \in Word
        BY Zenon DEF TypeOK, BlockType
      <3>2. balances[block.validator] \in Word /\ balances[block.validator] <= Supply(balances)
        BY <3>1, <1>n, SupplyBounds
      <3> QED BY <3>1, <3>2, WordAssumption DEF Word
    <2>3. ASSUME issued' <= MaxUint PROVE Supply(balance') = issued'
      <3>1. Supply(balances) + totalFees = issued + created /\ issued + created <= MaxUint
        BY <2>1, <2>3 DEF SupplyInv
      <3>2. Wrap(balances[block.validator] + totalFees) = balances[block.validator] + totalFees
        BY <2>2, <3>1, <1>n DEF Wrap
      <3>3. balances[block.validator] + totalFees \in Word
        BY <2>2, <3>2, WrapWord
      <3>4. Supply(balance') = Supply(balances) - balances[block.validator]
                                 + (balances[block.validator] + totalFees)
        <4>1. PICK x \in Addr, n \in Word :
                x = block.validator /\ n = Wrap(balances[block.validator] + totalFees)
          BY <2>2, <3>2, <3>3
        <4>2. balance' = Put(balances, x, n)
          BY <2>1, <4>1 DEF Put
        <4>3. Supply(balance') = Supply(balances) - balances[x] + n
          BY <4>2, <1>n, SupplyUpdate
        <4> QED BY <4>1, <4>3, <3>2
      <3> QED BY <2>1, <2>2, <3>1, <3>4, <1>n
    <2> QED BY <2>1, <2>3 DEF SupplyInv, SupplyAccounted
  <1>8. ASSUME NEW v \in Addr, SlashValidator(v) PROVE SupplyInv'
    BY <1>8 DEF SlashValidator, SupplyInv, SupplyAccounted, writer, history
  <1>9. ASSUME NEW blocks \in ReplayChain, ResetAndReplay(blocks) PROVE SupplyInv'
    BY <1>9, SupplyOfZeros DEF ResetAndReplay, SupplyInv, SupplyAccounted
  <1>10. CASE ReplayGenesis
    BY <1>10, <1>g DEF ReplayGenesis, SupplyInv
  <1>11. CASE ReplayBlock
    BY <1>11, <1>l DEF ReplayBlock, db, history
  <1>12. CASE Abort
    BY <1>12 DEF Abort, SupplyInv, SupplyAccounted, db, history
  <1>13. CASE UNCHANGED vars
    BY <1>13 DEF vars, db, writer, history, SupplyInv, SupplyAccounted
  <1> QED BY <1>1, <1>2, <1>3, <1>5, <1>6, <1>7, <1>8, <1>9, <1>10, <1>11, <1>12, <1>13
          DEF Next

\* Money is accounted for: applying blocks, replaying them, crashing and
\* failing to write change the sum of all balances only by the fees of
\* transactions a block carried and did not execute.
THEOREM SupplyCorrect == Spec => []SupplyAccounted
  <1>1. Init => SupplyInv
    BY SupplyOfZeros DEF Init, SupplyInv, SupplyAccounted
  <1>2. Spec => [](TypeOK /\ RestOK)
    BY TypeInit, TypeStep, PTL DEF Spec
  <1>3. SupplyInv => SupplyAccounted
    BY DEF SupplyInv
  <1> QED BY <1>1, <1>2, <1>3, SupplyStep, PTL DEF Spec

-----------------------------------------------------------------------------
(* Money when sums wrap.  Every sum of the loop that exceeds a word loses  *)
(* MaxUint + 1, so the law of the loop survives as a law of remainders.    *)

Modulus == MaxUint + 1
Multiple(x) == \E k \in Int : x = k * Modulus

LEMMA MultipleDown ==
  ASSUME NEW x \in Int, Multiple(x), NEW d \in {0, Modulus}
  PROVE  Multiple(x - d)
  <1>1. PICK k \in Int : x = k * Modulus
    BY DEF Multiple
  <1>2. x - Modulus = (k - 1) * Modulus /\ x - 0 = k * Modulus
    BY <1>1, WordAssumption DEF Modulus
  <1>3. k - 1 \in Int
    OBVIOUS
  <1> QED BY <1>2, <1>3 DEF Multiple

LEMMA MultipleZero == Multiple(0)
  <1>1. 0 = 0 * Modulus
    BY WordAssumption DEF Modulus
  <1> QED BY <1>1 DEF Multiple

LEMMA MultipleRemainder ==
  ASSUME NEW x \in Int, Multiple(x)
  PROVE  x % (MaxUint + 1) = 0
  <1>1. PICK k \in Int : x = k * Modulus
    BY DEF Multiple
  <1>2. \A m \in Nat \ {0} : (k * m) % m = 0
    OBVIOUS
  <1> QED BY <1>1, <1>2, WordAssumption DEF Modulus

\* Adding to one entry of a table, with wrapping, adds to the supply the same
\* number or Modulus less.
LEMMA CreditSupply ==
  ASSUME NEW f \in [Addr -> Word], NEW x \in Addr, NEW n \in Word
  PROVE  \E d \in {0, Modulus} :
           Supply([f EXCEPT ![x] = Wrap(@ + n)]) = Supply(f) + n - d
  <1>1. f[x] \in Word /\ Wrap(f[x] + n) \in Word /\ f[x] + n - Wrap(f[x] + n) \in {0, Modulus}
    BY WrapWord DEF Modulus
  <1>2. [f EXCEPT ![x] = Wrap(@ + n)] = Put(f, x, Wrap(f[x] + n))
    BY DEF Put
  <1>3. Supply(Put(f, x, Wrap(f[x] + n))) = Supply(f) - f[x] + Wrap(f[x] + n)
    BY <1>1, SupplyUpdate
  <1>4. Supply(f) \in Nat /\ f[x] \in Nat /\ n \in Nat /\ Wrap(f[x] + n) \in Nat /\ Modulus \in Nat
    BY <1>1, SupplyBounds, WordAssumption DEF Word, Modulus
  <1> HIDE DEF Modulus
  <1> QED BY <1>1, <1>2, <1>3, <1>4

ModularInv ==
  /\ Multiple(Supply(balance) - issued)
  /\ pc = "txs" => Multiple(Supply(balances) + totalFees - issued - created)

LEMMA ModularStep == TypeOK /\ ModularInv /\ [Next]_vars => ModularInv'
  <1> SUFFICES ASSUME TypeOK, ModularInv, [Next]_vars PROVE ModularInv'
    OBVIOUS
  <1>n. /\ issued \in Nat /\ created \in Nat /\ totalFees \in Nat /\ totalFees \in Word
        /\ Supply(balance) \in Nat /\ Supply(balances) \in Nat /\ Modulus \in Nat
        /\ balances \in [Addr -> Word]
    BY SupplyBounds, WordAssumption DEF TypeOK, Word, Modulus
  <1>g. ASSUME NEW vs \in Validators, WriteGenesis(vs) PROVE Multiple(Supply(balance') - issued')
    <2>1. Allocate(balance) \in [Addr -> Word]
      BY Zenon, GenesisTyping DEF TypeOK
    <2>2. Supply(Allocate(balance)) \in Nat
      BY <2>1, SupplyBounds
    <2>3. Supply(balance') - issued' = 0
      BY <1>g, <2>2 DEF WriteGenesis
    <2> QED BY <2>3, MultipleZero
  <1>l. ASSUME NEW b, LoadMaps(b), UNCHANGED <<balance, issued>> PROVE ModularInv'
    <2>1. balances' = balance /\ totalFees' = 0 /\ created' = 0
      BY <1>l DEF LoadMaps
    <2>2. Supply(balances') + totalFees' - issued' - created' = Supply(balance) - issued
      BY <1>l, <2>1, <1>n
    <2> QED BY <1>l, <2>2 DEF ModularInv
  <1>4. ASSUME CountFee
        PROVE  /\ pc = "txs" /\ pc' = "txs" /\ balance' = balance /\ issued' = issued
               /\ CurTx.from \in Addr /\ CurTx.to \in Addr
               /\ CurTx.amount \in Word /\ CurTx.fee \in Nat /\ Total \in Word
               /\ \E d \in {0, Modulus} : totalFees' = totalFees + CurTx.fee - d
    <2>1. totalFees' = Wrap(totalFees + CurTx.fee) /\ CurTx.fee \in Word
      BY <1>4, CurTxTyping DEF CountFee
    <2>2. /\ totalFees + CurTx.fee - Wrap(totalFees + CurTx.fee) \in {0, Modulus}
          /\ Wrap(totalFees + CurTx.fee) \in Nat /\ CurTx.fee \in Nat
      <3>1. Wrap(totalFees + CurTx.fee) \in Word
        BY Zenon, <2>1, <1>n, WrapWord
      <3>2. totalFees + CurTx.fee - Wrap(totalFees + CurTx.fee) \in {0, Modulus}
        BY Zenon, <2>1, <1>n, WrapWord DEF Modulus
      <3> QED BY <2>1, <3>1, <3>2, WordAssumption DEF Word
    <2>3. \E d \in {0, Modulus} : totalFees' = totalFees + CurTx.fee - d
      BY <2>1, <2>2, <1>n
    <2> QED BY Zenon, <1>4, <2>2, <2>3, CurTxTyping DEF CountFee, db, history
  <1> HIDE DEF Modulus
  <1>1. CASE ApplyGenesis
    BY <1>1, <1>g DEF ApplyGenesis, ModularInv
  <1>2. CASE Start
    BY <1>2 DEF Start, ModularInv, db, writer, history
  <1>3. ASSUME NEW b \in Block, ApplyBlock(b) PROVE ModularInv'
    BY <1>3, <1>l DEF ApplyBlock, db, history
  <1>5. CASE SkipTx
    <2>1. CountFee /\ created' = created + CurTx.fee /\ balances' = balances
      BY <1>5 DEF SkipTx
    <2>2. PICK d \in {0, Modulus} : totalFees' = totalFees + CurTx.fee - d
      BY <2>1, <1>4
    <2>3. Supply(balances') + totalFees' - issued' - created'
            = (Supply(balances) + totalFees - issued - created) - d
      BY <2>1, <2>2, <1>4, <1>n
    <2>4. Multiple((Supply(balances) + totalFees - issued - created) - d)
      BY <2>1, <1>4, <1>n, MultipleDown DEF ModularInv
    <2> QED BY Zenon, <2>1, <2>3, <2>4, <1>4 DEF ModularInv
  <1>6. CASE ExecuteTx
    <2> DEFINE paid == [balances EXCEPT ![CurTx.from] = @ - Total]
    <2>1. /\ CountFee /\ balances[CurTx.from] >= Total
          /\ created' = created + CurTx.amount + CurTx.fee - Total
          /\ balances' = [paid EXCEPT ![CurTx.to] = Wrap(@ + CurTx.amount)]
      BY Zenon, <1>6 DEF ExecuteTx, Covered
    <2>2. /\ CurTx.amount \in Nat /\ Total \in Nat
          /\ balances[CurTx.from] \in Word /\ balances[CurTx.from] \in Nat
      BY <2>1, <1>4, <1>n, WordAssumption DEF Word
    <2>3. balances[CurTx.from] - Total \in Word
      <3>1. \A x, y \in Word : y <= x => x - y \in Word
        BY WordAssumption DEF Word
      <3> QED BY Zenon, <3>1, <2>1, <2>2, <1>4
    <2>4. paid \in [Addr -> Word] /\ Supply(paid) = Supply(balances) - Total
      <3>1. PICK x \in Addr, n \in Word : x = CurTx.from /\ n = balances[CurTx.from] - Total
        BY Zenon, <2>1, <2>3, <1>4
      <3>2. paid = Put(balances, x, n)
        BY <3>1 DEF Put
      <3> HIDE DEF paid
      <3>3. paid \in [Addr -> Word] /\ Supply(paid) = Supply(balances) - balances[x] + n
        BY <3>2, <1>n, SupplyUpdate
      <3> QED BY <3>1, <3>3, <2>2, <1>n
    <2> HIDE DEF paid
    <2>5. PICK c \in {0, Modulus} : Supply(balances') = Supply(paid) + CurTx.amount - c
      BY Zenon, <2>1, <2>4, <1>4, CreditSupply
    <2>6. PICK d \in {0, Modulus} : totalFees' = totalFees + CurTx.fee - d
      BY <2>1, <1>4
    <2>7. CurTx.fee \in Nat /\ issued' = issued
      BY <2>1, <1>4
    <2>8. Supply(balances') + totalFees' - issued' - created'
            = ((Supply(balances) + totalFees - issued - created) - d) - c
      BY <2>1, <2>2, <2>4, <2>5, <2>6, <2>7, <1>n
    <2>9. Multiple(((Supply(balances) + totalFees - issued - created) - d) - c)
      <3>1. Multiple((Supply(balances) + totalFees - issued - created) - d)
        BY <2>1, <1>4, <1>n, MultipleDown DEF ModularInv
      <3>2. (Supply(balances) + totalFees - issued - created) - d \in Int
        BY <1>n
      <3> QED BY <3>1, <3>2, MultipleDown
    <2> QED BY Zenon, <2>1, <2>8, <2>9, <1>4 DEF ModularInv
  <1>7. CASE Commit
    <2>1. /\ pc = "txs" /\ pc' # "txs" /\ issued' = issued + created
          /\ balance' = [balances EXCEPT ![block.validator] = Wrap(@ + totalFees)]
      BY Zenon, <1>7 DEF Commit, PayFees
    <2>2. block.validator \in Addr
      BY DEF TypeOK, BlockType
    <2>3. PICK d \in {0, Modulus} : Supply(balance') = Supply(balances) + totalFees - d
      BY Zenon, <2>1, <2>2, <1>n, CreditSupply
    <2>4. Supply(balance') - issued' = (Supply(balances) + totalFees - issued - created) - d
      BY <2>1, <2>3, <1>n
    <2>5. Multiple((Supply(balances) + totalFees - issued - created) - d)
      BY <2>1, <1>n, MultipleDown DEF ModularInv
    <2> QED BY <2>1, <2>4, <2>5 DEF ModularInv
  <1>8. ASSUME NEW v \in Addr, SlashValidator(v) PROVE ModularInv'
    BY <1>8 DEF SlashValidator, ModularInv, writer, history
  <1>9. ASSUME NEW blocks \in ReplayChain, ResetAndReplay(blocks) PROVE ModularInv'
    <2>1. Supply(balance') - issued' = 0 /\ pc' = "reset"
      BY <1>9, SupplyOfZeros DEF ResetAndReplay
    <2> QED BY <2>1, MultipleZero DEF ModularInv
  <1>10. CASE ReplayGenesis
    BY <1>10, <1>g DEF ReplayGenesis, ModularInv
  <1>11. CASE ReplayBlock
    BY <1>11, <1>l DEF ReplayBlock, db, history
  <1>12. CASE Abort
    BY <1>12 DEF Abort, ModularInv, db, history
  <1>13. CASE UNCHANGED vars
    BY <1>13 DEF vars, db, writer, history, ModularInv
  <1> QED BY <1>1, <1>2, <1>3, <1>5, <1>6, <1>7, <1>8, <1>9, <1>10, <1>11, <1>12, <1>13
          DEF Next

\* Whatever amounts blocks carry, the sum of all balances and the coins
\* accounted for differ by a multiple of 2^64: wrapping is the only way in
\* which ApplyBlock, replays and crashes lose or create anything else.
THEOREM ModularCorrect == Spec => []SupplyModular
  <1>1. Init => ModularInv
    <2> SUFFICES ASSUME Init PROVE ModularInv
      OBVIOUS
    <2>1. Supply(balance) - issued = 0 /\ pc = "empty"
      BY SupplyOfZeros DEF Init
    <2> QED BY <2>1, MultipleZero DEF ModularInv
  <1>2. TypeOK /\ ModularInv => SupplyModular
    <2> SUFFICES ASSUME TypeOK, ModularInv PROVE SupplyModular
      OBVIOUS
    <2>1. balance \in [Addr -> Word] /\ issued \in Nat
      BY DEF TypeOK
    <2>2. Supply(balance) - issued \in Int
      BY <2>1, SupplyBounds, AddrAssumption
    <2> QED BY <2>2, MultipleRemainder DEF ModularInv, SupplyModular
  <1> QED BY <1>1, <1>2, ModularStep, TypeCorrect, PTL DEF Spec

-----------------------------------------------------------------------------
(* Validators.  Genesis replaces the list, and of the stakes only those of *)
(* the validators it lists; what the old list held besides is in dropped.  *)

LEMMA StakeStep == TypeOK /\ StakeMatchesList /\ [Next]_vars => StakeMatchesList'
  <1> SUFFICES ASSUME TypeOK, StakeMatchesList, [Next]_vars PROVE StakeMatchesList'
    OBVIOUS
  <1>g. ASSUME NEW vs \in Validators, WriteGenesis(vs) PROVE StakeMatchesList'
    <2>1. validatorList' \cup dropped' = validatorList \cup dropped \cup Listed(vs)
      BY <1>g DEF WriteGenesis
    <2>2. ASSUME NEW x \in Addr, x \in Listed(vs) PROVE stake'[x] >= MinStake
      <3>1. (CHOOSE v \in Staked(vs) : v.address = x) \in Staked(vs)
        BY <2>2 DEF Listed
      <3>2. stake'[x] = (CHOOSE v \in Staked(vs) : v.address = x).stake
        BY Zenon, <2>2, <1>g DEF WriteGenesis, StakeGenesis
      <3> QED BY <3>1, <3>2 DEF Staked
    <2>3. ASSUME NEW x \in Addr, x \notin Listed(vs) PROVE stake'[x] = stake[x]
      BY Zenon, <2>3, <1>g DEF WriteGenesis, StakeGenesis
    <2> QED BY Zenon, <2>1, <2>2, <2>3 DEF StakeMatchesList
  <1>1. CASE ApplyGenesis
    BY <1>1, <1>g DEF ApplyGenesis
  <1>2. CASE Start
    BY <1>2 DEF Start, db, history, StakeMatchesList
  <1>3. ASSUME NEW b \in Block, ApplyBlock(b) PROVE StakeMatchesList'
    BY Zenon, <1>3 DEF ApplyBlock, LoadMaps, db, history, StakeMatchesList
  <1>4. CASE SkipTx
    BY Zenon, <1>4 DEF SkipTx, CountFee, db, history, StakeMatchesList
  <1>5. CASE ExecuteTx
    BY Zenon, <1>5 DEF ExecuteTx, CountFee, db, history, StakeMatchesList
  <1>6. CASE Commit
    BY Zenon, <1>6 DEF Commit, StakeMatchesList
  <1>7. ASSUME NEW v \in Addr, SlashValidator(v) PROVE StakeMatchesList'
    BY Zenon, <1>7 DEF SlashValidator, TypeOK, StakeMatchesList
  <1>8. ASSUME NEW blocks \in ReplayChain, ResetAndReplay(blocks) PROVE StakeMatchesList'
    BY Zenon, <1>8 DEF ResetAndReplay, Zeros, StakeMatchesList
  <1>9. CASE ReplayGenesis
    BY <1>9, <1>g DEF ReplayGenesis
  <1>10. CASE ReplayBlock
    <2>1. LoadMaps(Head(rest)) /\ UNCHANGED <<db, history>>
      BY <1>10 DEF ReplayBlock
    <2> QED BY <2>1 DEF LoadMaps, db, history, StakeMatchesList
  <1>11. CASE Abort
    BY <1>11 DEF Abort, db, history, StakeMatchesList
  <1>12. CASE UNCHANGED vars
    BY Zenon, <1>12 DEF vars, db, history, StakeMatchesList
  <1> QED BY <1>1, <1>2, <1>3, <1>4, <1>5, <1>6, <1>7, <1>8, <1>9, <1>10, <1>11, <1>12
          DEF Next

\* The list of validators and their stakes agree, wherever genesis, slashing,
\* a replay, a crash or a failed write leaves the store, but for validators
\* that a later genesis has dropped.
THEOREM StakeCorrect == Spec => []StakeMatchesList
  <1>1. Init => StakeMatchesList
    BY DEF Init, Zeros, StakeMatchesList
  <1> QED BY <1>1, StakeStep, TypeCorrect, PTL DEF Spec

-----------------------------------------------------------------------------
(* Nonces.  In the loop an entry of the nonces map is what it started from *)
(* (the database, or 0 when the nonce was not read) plus the transactions  *)
(* of the block its account has executed.                                  *)

Base(x) == IF x \in LoadsNonce(block.txs) THEN nonce[x] ELSE 0

NonceLoop ==
  \A x \in Addr :
    /\ nonces[x] <= Base(x) + ran[x]
    /\ Base(x) + ran[x] <= MaxUint => nonces[x] = Base(x) + ran[x]
    /\ x \notin nonceKeys => ran[x] = 0 /\ x \notin LoadsNonce(block.txs)

NonceInv ==
  /\ NonceAccounted
  /\ pc = "txs" => NonceLoop

LEMMA NonceStep == TypeOK /\ NonceInv /\ [Next]_vars => NonceInv'
  <1> SUFFICES ASSUME TypeOK, NonceInv, [Next]_vars PROVE NonceInv'
    OBVIOUS
  <1>n. ASSUME NEW x \in Addr
        PROVE  /\ nonce[x] \in Nat /\ nonces[x] \in Nat /\ nonces[x] <= MaxUint
               /\ ran[x] \in Nat /\ spends[x] \in Nat /\ Base(x) \in Nat
               /\ Base(x) <= nonce[x] /\ MaxUint \in Nat
    BY WordAssumption DEF TypeOK, Word, Base
  <1>g. ASSUME NEW vs \in Validators, WriteGenesis(vs) PROVE NonceAccounted'
    <2> SUFFICES ASSUME NEW x \in Addr
                 PROVE  /\ nonce'[x] <= spends'[x]
                        /\ x \notin forgot' /\ spends'[x] <= MaxUint => nonce'[x] = spends'[x]
      BY DEF NonceAccounted
    <2>1. /\ nonce' = ZeroAllocated(nonce) /\ spends' = ZeroAllocated(spends)
          /\ forgot' = forgot \ DOMAIN Allocation
      BY Zenon, <1>g DEF WriteGenesis
    <2>2. CASE x \in DOMAIN Allocation
      <3>1. nonce'[x] = 0 /\ spends'[x] = 0
        BY <2>1, <2>2 DEF ZeroAllocated
      <3> QED BY <3>1
    <2>3. CASE x \notin DOMAIN Allocation
      <3>1. nonce'[x] = nonce[x] /\ spends'[x] = spends[x] /\ (x \in forgot' <=> x \in forgot)
        BY <2>1, <2>3 DEF ZeroAllocated
      <3> QED BY Zenon, <3>1 DEF NonceInv, NonceAccounted
    <2> QED BY Zenon, <2>2, <2>3
  <1>l. ASSUME NEW b, LoadMaps(b), UNCHANGED <<nonce, spends, forgot>> PROVE NonceInv'
    <2>1. \A x \in Addr : ran'[x] = 0 /\ nonces'[x] = Base(x)' /\ Base(x)' \in Nat
      BY Zenon, <1>l, <1>n DEF LoadMaps, LoadedNonces, Zeros, Base
    <2>2. nonceKeys' = LoadsNonce(block'.txs)
      BY <1>l DEF LoadMaps
    <2>3. NonceLoop'
      BY <2>1, <2>2 DEF NonceLoop
    <2> QED BY Zenon, <1>l, <2>3 DEF LoadMaps, NonceInv, NonceAccounted
  <1>1. CASE ApplyGenesis
    BY <1>1, <1>g DEF ApplyGenesis, NonceInv
  <1>2. CASE Start
    BY Zenon, <1>2 DEF Start, db, history, NonceInv, NonceAccounted
  <1>3. ASSUME NEW b \in Block, ApplyBlock(b) PROVE NonceInv'
    BY <1>3, <1>l DEF ApplyBlock, db, history
  <1>4. CASE SkipTx
    BY Zenon, <1>4 DEF SkipTx, CountFee, db, history, NonceInv, NonceAccounted, NonceLoop, Base
  <1>5. CASE ExecuteTx
    <2>1. /\ pc = "txs" /\ pc' = "txs" /\ nonce' = nonce /\ spends' = spends
          /\ forgot' = forgot /\ block' = block /\ next <= Len(block.txs)
      BY Zenon, <1>5 DEF ExecuteTx, CountFee, db, history
    <2>2. CurTx.from \in Addr
      BY Zenon, <2>1, CurTxTyping
    <2>3. /\ nonces' = [nonces EXCEPT ![CurTx.from] = Wrap(@ + 1)]
          /\ nonceKeys' = nonceKeys \cup {CurTx.from}
          /\ ran' = [ran EXCEPT ![CurTx.from] = @ + 1]
      BY Zenon, <1>5 DEF ExecuteTx
    <2>4. ASSUME NEW x \in Addr
          PROVE  /\ nonces'[x] <= Base(x)' + ran'[x]
                 /\ Base(x)' + ran'[x] <= MaxUint => nonces'[x] = Base(x)' + ran'[x]
                 /\ x \notin nonceKeys' => ran'[x] = 0 /\ x \notin LoadsNonce(block'.txs)
      <3>1. Base(x)' = Base(x)
        BY <2>1 DEF Base
      <3>2. /\ nonces[x] <= Base(x) + ran[x]
            /\ Base(x) + ran[x] <= MaxUint => nonces[x] = Base(x) + ran[x]
            /\ x \notin nonceKeys => ran[x] = 0 /\ x \notin LoadsNonce(block.txs)
        BY Zenon, <2>1 DEF NonceInv, NonceLoop
      <3>3. CASE x = CurTx.from
        <4>1. nonces'[x] = Wrap(nonces[x] + 1) /\ ran'[x] = ran[x] + 1 /\ x \in nonceKeys'
          BY Zenon, <2>2, <2>3, <3>3 DEF TypeOK
        <4> QED BY <3>1, <3>2, <4>1, <1>n DEF Wrap
      <3>4. CASE x # CurTx.from
        <4>1. nonces'[x] = nonces[x] /\ ran'[x] = ran[x] /\ (x \in nonceKeys' <=> x \in nonceKeys)
          BY Zenon, <2>3, <3>4 DEF TypeOK
        <4> QED BY Zenon, <2>1, <3>1, <3>2, <4>1
      <3> QED BY Zenon, <3>3, <3>4
    <2>5. NonceLoop'
      BY Zenon, <2>4 DEF NonceLoop
    <2> QED BY Zenon, <2>1, <2>5 DEF NonceInv, NonceAccounted
  <1>6. CASE Commit
    <2>1. /\ pc = "txs" /\ pc' \in {"idle", "replay"}
          /\ nonce' = [x \in Addr |-> IF x \in nonceKeys THEN nonces[x] ELSE nonce[x]]
          /\ spends' = [x \in Addr |-> spends[x] + ran[x]]
          /\ forgot' = forgot \cup {x \in nonceKeys \ LoadsNonce(block.txs) : nonce[x] # 0}
      BY Zenon, <1>6 DEF Commit
    <2>2. ASSUME NEW x \in Addr
          PROVE  /\ nonce'[x] <= spends'[x]
                 /\ x \notin forgot' /\ spends'[x] <= MaxUint => nonce'[x] = spends'[x]
      <3>1. /\ nonces[x] <= Base(x) + ran[x]
            /\ Base(x) + ran[x] <= MaxUint => nonces[x] = Base(x) + ran[x]
            /\ x \notin nonceKeys => ran[x] = 0
        BY Zenon, <2>1 DEF NonceInv, NonceLoop
      <3>2. /\ nonce[x] <= spends[x]
            /\ x \notin forgot /\ spends[x] <= MaxUint => nonce[x] = spends[x]
        BY DEF NonceInv, NonceAccounted
      <3>3. x \notin forgot' => x \notin forgot /\ (x \in nonceKeys => Base(x) = nonce[x])
        BY Zenon, <2>1 DEF Base
      <3>4. spends'[x] = spends[x] + ran[x]
        BY Zenon, <2>1
      <3>5. CASE x \in nonceKeys
        <4>1. nonce'[x] = nonces[x]
          BY Zenon, <2>1, <3>5
        <4> QED BY <3>1, <3>2, <3>3, <3>4, <3>5, <4>1, <1>n
      <3>6. CASE x \notin nonceKeys
        <4>1. nonce'[x] = nonce[x]
          BY Zenon, <2>1, <3>6
        <4>2. spends'[x] = spends[x]
          BY <3>1, <3>4, <3>6, <1>n
        <4> QED BY Zenon, <3>2, <3>3, <4>1, <4>2
      <3> QED BY Zenon, <3>5, <3>6
    <2> QED BY Zenon, <2>1, <2>2 DEF NonceInv, NonceAccounted
  <1>7. ASSUME NEW v \in Addr, SlashValidator(v) PROVE NonceInv'
    BY Zenon, <1>7 DEF SlashValidator, history, NonceInv, NonceAccounted
  <1>8. ASSUME NEW blocks \in ReplayChain, ResetAndReplay(blocks) PROVE NonceInv'
    BY <1>8 DEF ResetAndReplay, Zeros, NonceInv, NonceAccounted
  <1>9. CASE ReplayGenesis
    BY <1>9, <1>g DEF ReplayGenesis, NonceInv
  <1>10. CASE ReplayBlock
    <2>1. /\ LoadMaps(Head(rest)) /\ UNCHANGED <<nonce, spends, forgot>>
      BY <1>10 DEF ReplayBlock, db, history
    <2> QED BY <2>1, <1>l
  <1>11. CASE Abort
    BY Zenon, <1>11 DEF Abort, db, history, NonceInv, NonceAccounted
  <1>12. CASE UNCHANGED vars
    BY Zenon, <1>12 DEF vars, db, writer, history, NonceInv, NonceAccounted, NonceLoop, Base
  <1> QED BY <1>1, <1>2, <1>3, <1>4, <1>5, <1>6, <1>7, <1>8, <1>9, <1>10, <1>11, <1>12
          DEF Next

\* An account's nonce never runs ahead of the transactions it has executed,
\* and equals their number unless ApplyBlock restarted it.
THEOREM NonceCorrect == Spec => []NonceAccounted
  <1>1. Init => NonceInv
    BY DEF Init, Zeros, NonceInv, NonceAccounted
  <1>2. NonceInv => NonceAccounted
    BY DEF NonceInv
  <1> QED BY <1>1, <1>2, NonceStep, TypeCorrect, PTL DEF Spec

-----------------------------------------------------------------------------
(* What the committed blocks make of genesis, and whole operations.  Both  *)
(* rest on LoopInv: half-way through a block, ApplyBlock's in-memory maps  *)
(* hold what the transactions so far make of the tables on disk.           *)

(* Remainders. *)

\* Division with remainder.
LEMMA Remainder ==
  ASSUME NEW m \in Nat \ {0}, NEW q \in Nat, NEW r \in 0 .. m - 1
  PROVE  (m * q + r) % m = r
  OBVIOUS

\* Every number has a quotient and a remainder.
LEMMA Division ==
  ASSUME NEW m \in Nat \ {0}, NEW x \in Nat
  PROVE  \E q \in Nat, r \in 0 .. m - 1 : x = m * q + r
  <1> DEFINE P == {y \in Nat : \E q \in Nat, r \in 0 .. m - 1 : y = m * q + r}
  <1>1. 0 \in P
    <2>1. 0 = m * 0 + 0 /\ 0 \in 0 .. m - 1
      OBVIOUS
    <2> QED BY <2>1
  <1>2. ASSUME NEW i \in 1 .. x, i - 1 \in P PROVE i \in P
    <2>1. PICK q \in Nat, r \in 0 .. m - 1 : i - 1 = m * q + r
      BY <1>2
    <2>2. CASE r + 1 = m
      <3>1. i = m * (q + 1) + 0 /\ q + 1 \in Nat /\ 0 \in 0 .. m - 1
        BY <2>1, <2>2
      <3> QED BY <3>1
    <2>3. CASE r + 1 # m
      <3>1. i = m * q + (r + 1) /\ r + 1 \in 0 .. m - 1
        BY <2>1, <2>3
      <3> QED BY <3>1
    <2> QED BY <2>2, <2>3
  <1>3. 0 .. x \subseteq P
    <2>1. P \in SUBSET Nat
      OBVIOUS
    <2> HIDE DEF P
    <2> QED BY <1>1, <1>2, <2>1, Climb
  <1>4. x \in P
    BY <1>3
  <1> QED BY <1>4

\* One more, counted modulo a word.
LEMMA CountOn ==
  ASSUME NEW x \in Nat
  PROVE  /\ (x + 1) % (MaxUint + 1) = Wrap((x % (MaxUint + 1)) + 1)
         /\ x \in Word => x % (MaxUint + 1) = x
  <1> DEFINE m == MaxUint + 1
  <1>0. m \in Nat \ {0}
    BY WordAssumption
  <1>1. PICK q \in Nat, r \in 0 .. m - 1 : x = m * q + r
    BY Zenon, <1>0, Division
  <1>2. x % m = r
    BY <1>0, <1>1, Remainder
  <1>3. (x + 1) % m = IF r + 1 = m THEN 0 ELSE r + 1
    <2>1. CASE r + 1 = m
      <3>1. x + 1 = m * (q + 1) + 0 /\ q + 1 \in Nat /\ 0 \in 0 .. m - 1
        BY <1>0, <1>1, <2>1
      <3>2. (m * (q + 1) + 0) % m = 0
        BY <1>0, <3>1, Remainder
      <3> QED BY <2>1, <3>1, <3>2
    <2>2. CASE r + 1 # m
      <3>1. x + 1 = m * q + (r + 1) /\ r + 1 \in 0 .. m - 1
        BY <1>0, <1>1, <2>2
      <3>2. (m * q + (r + 1)) % m = r + 1
        BY <1>0, <3>1, Remainder
      <3> QED BY <2>2, <3>1, <3>2
    <2> QED BY <2>1, <2>2
  <1>4. Wrap(r + 1) = IF r + 1 = m THEN 0 ELSE r + 1
    BY <1>0, WordAssumption DEF Wrap
  <1>5. x \in Word => x % m = x
    <2>1. x \in Word => x = m * 0 + x /\ x \in 0 .. m - 1
      BY <1>0, WordAssumption DEF Word
    <2> HIDE DEF m
    <2> QED BY <1>0, <2>1, Remainder
  <1> QED BY <1>2, <1>3, <1>4, <1>5

-----------------------------------------------------------------------------
(* What one transaction, one block and a list of blocks do to a table. *)

\* A table of balances.
Table == [Addr -> Word]

\* A transfer makes a table of words of one.
LEMMA TransferType ==
  ASSUME NEW f \in Table, NEW t \in Tx
  PROVE  TransferOn(f, t) \in Table
  <1>1. t.from \in Addr /\ t.to \in Addr /\ t.amount \in Word /\ t.fee \in Word
    BY BlockAssumption
  <1>2. TxTotal(t) \in Word
    BY <1>1, WrapWord DEF TxTotal
  <1>3. CASE f[t.from] < TxTotal(t)
    BY <1>3 DEF TransferOn
  <1>4. CASE ~(f[t.from] < TxTotal(t))
    <2> DEFINE paid == [f EXCEPT ![t.from] = @ - TxTotal(t)]
    <2>1. f[t.from] - TxTotal(t) \in Word
      BY <1>1, <1>2, <1>4, WordAssumption DEF Word, Table
    <2>2. paid \in Table
      BY Zenon, <2>1 DEF Table
    <2>3. TransferOn(f, t) = [paid EXCEPT ![t.to] = Wrap(@ + t.amount)]
      BY Zenon, <1>4 DEF TransferOn
    <2> HIDE DEF paid
    <2>4. Wrap(paid[t.to] + t.amount) \in Word
      BY <1>1, <2>2, WrapWord DEF Table
    <2> QED BY Zenon, <2>2, <2>3, <2>4 DEF Table
  <1> QED BY Zenon, <1>3, <1>4

\* The balances after each transaction, by their recursion.
LEMMA CourseUnfold ==
  ASSUME NEW f \in Table, NEW txs \in Seq(Tx)
  PROVE  /\ Course(f, txs) \in [0 .. Len(txs) -> Table]
         /\ Course(f, txs)[0] = f
         /\ \A i \in 1 .. Len(txs) : Course(f, txs)[i] = TransferOn(Course(f, txs)[i-1], txs[i])
  <1> DEFINE n == Len(txs)
             D == 0 .. n
             step == [x \in Table \X (1 .. n) |-> TransferOn(x[1], txs[x[2]])]
             Eq(g) == g = [i \in D |-> IF i = 0 THEN f ELSE TransferOn(g[i-1], txs[i])]
  <1>0. n \in Nat /\ \A i \in 1 .. n : txs[i] \in Tx
    OBVIOUS
  <1>1. PICK g \in [D -> Table] : Scans(n, f, step, g)
    <2>1. step \in [Table \X (1 .. n) -> Table]
      BY <1>0, TransferType
    <2> HIDE DEF step, n
    <2> QED BY Zenon, <1>0, <2>1, ScanExists
  <1>2. Eq(g)
    <2>1. g[0] = f
      BY <1>1 DEF Scans
    <2>2. ASSUME NEW i \in 1 .. n PROVE g[i] = TransferOn(g[i-1], txs[i])
      <3>1. g[i] = step[<<g[i-1], i>>]
        BY Zenon, <1>1 DEF Scans
      <3>2. g[i-1] \in Table
        BY <1>1
      <3> QED BY <3>1, <3>2
    <2>3. \A i \in D : i = 0 \/ i \in 1 .. n
      OBVIOUS
    <2>4. g = [i \in D |-> g[i]]
      BY <1>1
    <2> HIDE DEF D
    <2> QED BY Zenon, <2>1, <2>2, <2>3, <2>4
  <1>3. Eq(Course(f, txs))
    <2>1. Course(f, txs) = CHOOSE h : Eq(h)
      BY DEF Course
    <2> HIDE DEF Eq
    <2> QED BY <1>2, <2>1
  <1>4. ASSUME NEW k, Eq(k)
        PROVE  /\ k[0] = f /\ k = [i \in D |-> k[i]]
               /\ \A i \in 1 .. n : k[i] = TransferOn(k[i-1], txs[i])
    <2>1. 0 \in D /\ \A i \in 1 .. n : i \in D /\ i # 0
      OBVIOUS
    <2> HIDE DEF D
    <2> QED BY Zenon, <1>4, <2>1
  <1>5. ASSUME NEW k, Eq(k) PROVE k \in [0 .. n -> Table]
    <2>1. \A i \in 1 .. n : k[i-1] \in Table => k[i] \in Table
      BY Zenon, <1>0, <1>4, <1>5, TransferType
    <2>2. k[0] \in Table /\ k = [i \in 0 .. n |-> k[i]]
      BY <1>0, <1>4, <1>5
    <2> HIDE DEF Eq, n
    <2> QED BY Zenon, <1>0, <2>1, <2>2, ScanTyped
  <1> HIDE DEF Eq
  <1> QED BY <1>3, <1>4, <1>5

\* The fees after each transaction, likewise.
LEMMA FeesUnfold ==
  ASSUME NEW txs \in Seq(Tx)
  PROVE  /\ Fees(txs) \in [0 .. Len(txs) -> Word]
         /\ Fees(txs)[0] = 0
         /\ \A i \in 1 .. Len(txs) : Fees(txs)[i] = Wrap(Fees(txs)[i-1] + txs[i].fee)
  <1> DEFINE n == Len(txs)
             D == 0 .. n
             step == [x \in Word \X (1 .. n) |-> Wrap(x[1] + txs[x[2]].fee)]
             Eq(g) == g = [i \in D |-> IF i = 0 THEN 0 ELSE Wrap(g[i-1] + txs[i].fee)]
  <1>0. n \in Nat /\ 0 \in Word /\ \A i \in 1 .. n : txs[i].fee \in Word
    <2>1. n \in Nat /\ \A i \in 1 .. n : txs[i] \in Tx
      OBVIOUS
    <2> QED BY <2>1, BlockAssumption, WordAssumption DEF Word
  <1>w. \A x, y \in Word : Wrap(x + y) \in Word
    BY WrapWord
  <1>1. PICK g \in [D -> Word] : Scans(n, 0, step, g)
    <2>1. step \in [Word \X (1 .. n) -> Word]
      BY <1>0, <1>w
    <2> HIDE DEF step, n
    <2> QED BY Zenon, <1>0, <2>1, ScanExists
  <1>2. Eq(g)
    <2>1. g[0] = 0
      BY <1>1 DEF Scans
    <2>2. ASSUME NEW i \in 1 .. n PROVE g[i] = Wrap(g[i-1] + txs[i].fee)
      <3>1. g[i] = step[<<g[i-1], i>>]
        BY Zenon, <1>1 DEF Scans
      <3>2. g[i-1] \in Word
        BY SMTT(30), <1>1
      <3> QED BY Zenon, <3>1, <3>2
    <2>3. \A i \in D : i = 0 \/ i \in 1 .. n
      OBVIOUS
    <2>4. g = [i \in D |-> g[i]]
      BY Zenon, <1>1
    <2> HIDE DEF D
    <2> QED BY Zenon, <2>1, <2>2, <2>3, <2>4
  <1>3. Eq(Fees(txs))
    <2>1. Fees(txs) = CHOOSE h : Eq(h)
      BY DEF Fees
    <2> HIDE DEF Eq
    <2> QED BY <1>2, <2>1
  <1>4. ASSUME NEW k, Eq(k)
        PROVE  /\ k[0] = 0 /\ k = [i \in D |-> k[i]]
               /\ \A i \in 1 .. n : k[i] = Wrap(k[i-1] + txs[i].fee)
    <2>1. 0 \in D /\ \A i \in 1 .. n : i \in D /\ i # 0
      OBVIOUS
    <2> HIDE DEF D
    <2> QED BY Zenon, <1>4, <2>1
  <1>5. ASSUME NEW k, Eq(k) PROVE k \in [0 .. n -> Word]
    <2>1. \A i \in 1 .. n : k[i-1] \in Word => k[i] \in Word
      BY Zenon, <1>0, <1>4, <1>5, <1>w
    <2>2. k[0] \in Word /\ k = [i \in 0 .. n |-> k[i]]
      BY <1>0, <1>4, <1>5
    <2> HIDE DEF Eq, n
    <2> QED BY Zenon, <1>0, <2>1, <2>2, ScanTyped
  <1> HIDE DEF Eq
  <1> QED BY <1>3, <1>4, <1>5

\* A block makes a table of words of one.
LEMMA BlockOnType ==
  ASSUME NEW f \in Table, NEW b \in BlockType
  PROVE  BlockOn(f, b) \in Table
  <1>1. b.validator \in Addr /\ b.txs \in Seq(Tx) /\ Len(b.txs) \in 0 .. Len(b.txs)
    BY DEF BlockType
  <1>2. Course(f, b.txs)[Len(b.txs)] \in Table /\ Fees(b.txs)[Len(b.txs)] \in Word
    <2>1. Course(f, b.txs) \in [0 .. Len(b.txs) -> Table]
      BY Zenon, <1>1, CourseUnfold
    <2>2. Fees(b.txs) \in [0 .. Len(b.txs) -> Word]
      BY Zenon, <1>1, FeesUnfold
    <2> QED BY Zenon, <1>1, <2>1, <2>2
  <1>3. Wrap(Course(f, b.txs)[Len(b.txs)][b.validator] + Fees(b.txs)[Len(b.txs)]) \in Word
    BY Zenon, <1>1, <1>2, WrapWord DEF Table
  <1> QED BY Zenon, <1>1, <1>2, <1>3 DEF BlockOn, Table

\* The balances after each block, likewise.
LEMMA ReplayUnfold ==
  ASSUME NEW f \in Table, NEW bs \in Seq(BlockType)
  PROVE  /\ Replay(f, bs) \in [0 .. Len(bs) -> Table]
         /\ Replay(f, bs)[0] = f
         /\ \A i \in 1 .. Len(bs) : Replay(f, bs)[i] = BlockOn(Replay(f, bs)[i-1], bs[i])
  <1> DEFINE n == Len(bs)
             D == 0 .. n
             step == [x \in Table \X (1 .. n) |-> BlockOn(x[1], bs[x[2]])]
             Eq(g) == g = [i \in D |-> IF i = 0 THEN f ELSE BlockOn(g[i-1], bs[i])]
  <1>0. n \in Nat /\ \A i \in 1 .. n : bs[i] \in BlockType
    OBVIOUS
  <1>1. PICK g \in [D -> Table] : Scans(n, f, step, g)
    <2>1. step \in [Table \X (1 .. n) -> Table]
      BY <1>0, BlockOnType
    <2> HIDE DEF step, n
    <2> QED BY Zenon, <1>0, <2>1, ScanExists
  <1>2. Eq(g)
    <2>1. g[0] = f
      BY <1>1 DEF Scans
    <2>2. ASSUME NEW i \in 1 .. n PROVE g[i] = BlockOn(g[i-1], bs[i])
      <3>1. g[i] = step[<<g[i-1], i>>]
        BY Zenon, <1>1 DEF Scans
      <3>2. g[i-1] \in Table
        BY <1>1
      <3> QED BY Zenon, <3>1, <3>2
    <2>3. \A i \in D : i = 0 \/ i \in 1 .. n
      OBVIOUS
    <2>4. g = [i \in D |-> g[i]]
      BY <1>1
    <2> HIDE DEF D
    <2> QED BY Zenon, <2>1, <2>2, <2>3, <2>4
  <1>3. Eq(Replay(f, bs))
    <2>1. Replay(f, bs) = CHOOSE h : Eq(h)
      BY DEF Replay
    <2> HIDE DEF Eq
    <2> QED BY <1>2, <2>1
  <1>4. ASSUME NEW k, Eq(k)
        PROVE  /\ k[0] = f /\ k = [i \in D |-> k[i]]
               /\ \A i \in 1 .. n : k[i] = BlockOn(k[i-1], bs[i])
    <2>1. 0 \in D /\ \A i \in 1 .. n : i \in D /\ i # 0
      OBVIOUS
    <2> HIDE DEF D
    <2> QED BY Zenon, <1>4, <2>1
  <1>5. ASSUME NEW k, Eq(k) PROVE k \in [0 .. n -> Table]
    <2>1. \A i \in 1 .. n : k[i-1] \in Table => k[i] \in Table
      BY Zenon, <1>0, <1>4, <1>5, BlockOnType
    <2>2. k[0] \in Table /\ k = [i \in 0 .. n |-> k[i]]
      BY <1>0, <1>4, <1>5
    <2> HIDE DEF Eq, n
    <2> QED BY Zenon, <1>0, <2>1, <2>2, ScanTyped
  <1> HIDE DEF Eq
  <1> QED BY Zenon, <1>3, <1>4, <1>5

\* Blocks applied later do not change what came before.
LEMMA ReplayAppend ==
  ASSUME NEW f \in Table, NEW bs \in Seq(BlockType), NEW b \in BlockType
  PROVE  Replay(f, Append(bs, b))[Len(bs) + 1] = BlockOn(Replay(f, bs)[Len(bs)], b)
  <1> DEFINE cs == Append(bs, b)
             r == Replay(f, bs)
             s == Replay(f, cs)
             P == {i \in 0 .. Len(bs) : s[i] = r[i]}
  <1>1. /\ cs \in Seq(BlockType) /\ Len(cs) = Len(bs) + 1 /\ Len(bs) \in Nat
        /\ cs[Len(bs) + 1] = b /\ \A i \in 1 .. Len(bs) : cs[i] = bs[i]
    OBVIOUS
  <1>2. /\ r[0] = f /\ \A i \in 1 .. Len(bs) : r[i] = BlockOn(r[i-1], bs[i])
    BY ReplayUnfold
  <1>3. /\ s[0] = f /\ \A i \in 1 .. Len(cs) : s[i] = BlockOn(s[i-1], cs[i])
    BY Zenon, <1>1, ReplayUnfold
  <1> HIDE DEF cs, r, s
  <1>4. 0 .. Len(bs) \subseteq P
    <2>1. P \in SUBSET Nat /\ 0 \in P
      BY <1>1, <1>2, <1>3
    <2>2. \A i \in 1 .. Len(bs) : i - 1 \in P => i \in P
      BY <1>1, <1>2, <1>3
    <2> HIDE DEF P
    <2> QED BY Zenon, <1>1, <2>1, <2>2, Climb
  <1>5. s[Len(bs)] = r[Len(bs)]
    BY <1>1, <1>4
  <1>6. s[Len(bs) + 1] = BlockOn(s[Len(bs)], b)
    BY <1>1, <1>3
  <1> QED BY <1>5, <1>6 DEF cs, r, s

-----------------------------------------------------------------------------
(* The database is the blocks one by one. *)

\* The transactions of the block that the loop has executed, those of one
\* sender among them.
Done == {i \in 1 .. next - 1 : Executes(balance, block.txs, i)}
DoneBy(x) == {i \in Done : block.txs[i].from = x}

\* In the loop the maps hold what the transactions so far make of the tables.
LoopInv ==
  pc = "txs" =>
    /\ block \in Block /\ next - 1 \in 0 .. Len(block.txs)
    /\ balances = Course(balance, block.txs)[next - 1]
    /\ totalFees = Fees(block.txs)[next - 1]
    /\ nonceKeys = LoadsNonce(block.txs) \cup {block.txs[i].from : i \in Done}
    /\ \A x \in Addr :
         nonces[x] = (LoadedNonces(block.txs)[x] + Cardinality(DoneBy(x))) % (MaxUint + 1)

\* What is counted is finite.
LEMMA DoneFinite ==
  ASSUME NEW n \in Nat, NEW S \in SUBSET (1 .. n)
  PROVE  IsFiniteSet(S) /\ Cardinality(S) \in Nat
  <1>1. IsFiniteSet(1 .. n)
    BY FS_Interval
  <1>2. IsFiniteSet(S)
    BY Zenon, <1>1, FS_Subset
  <1> QED BY <1>2, FS_CardinalityType

LEMMA DoneCount ==
  ASSUME next - 1 \in Nat, NEW x
  PROVE  IsFiniteSet(DoneBy(x)) /\ Cardinality(DoneBy(x)) \in Nat
  <1>1. DoneBy(x) \in SUBSET (1 .. next - 1)
    BY DEF DoneBy, Done
  <1> QED BY Zenon, <1>1, DoneFinite

\* The first loop of ApplyBlock establishes LoopInv.
LEMMA LoopLoad ==
  ASSUME TypeOK, NEW b \in Block, LoadMaps(b), UNCHANGED <<balance, nonce>>
  PROVE  LoopInv'
  <1>1. /\ block' = b /\ next' = 1 /\ balances' = balance /\ totalFees' = 0
        /\ nonces' = LoadedNonces(b.txs) /\ nonceKeys' = LoadsNonce(b.txs)
    BY DEF LoadMaps
  <1>2. b.txs \in Seq(Tx) /\ balance \in Table
    BY Zenon, BlockAssumption DEF TypeOK, Table
  <1>3. next' - 1 = 0 /\ 0 \in 0 .. Len(b.txs) /\ 1 .. next' - 1 = {}
    BY <1>1, <1>2
  <1>4. Course(balance, b.txs)[0] = balance /\ Fees(b.txs)[0] = 0
    BY Zenon, <1>2, CourseUnfold, FeesUnfold
  <1>5. Done' = {}
    BY <1>3 DEF Done
  <1>6. ASSUME NEW x \in Addr
        PROVE  nonces'[x] = (LoadedNonces(b.txs)'[x] + Cardinality(DoneBy(x)')) % (MaxUint + 1)
    <2>1. DoneBy(x)' = {}
      BY <1>5 DEF DoneBy
    <2>2. Cardinality({}) = 0
      BY FS_EmptySet
    <2>3. LoadedNonces(b.txs)' = LoadedNonces(b.txs) /\ LoadedNonces(b.txs)[x] \in Word
      BY WordAssumption DEF LoadedNonces, TypeOK, Word
    <2>4. LoadedNonces(b.txs)[x] \in Nat
      BY <2>3, WordAssumption DEF Word
    <2>5. LoadedNonces(b.txs)[x] + 0 = LoadedNonces(b.txs)[x]
      BY <2>4
    <2>6. LoadedNonces(b.txs)[x] % (MaxUint + 1) = LoadedNonces(b.txs)[x]
      BY <2>3, <2>4, CountOn
    <2> QED BY Zenon, <1>1, <2>1, <2>2, <2>3, <2>5, <2>6
  <1> QED BY Zenon, <1>1, <1>2, <1>3, <1>4, <1>5, <1>6 DEF LoopInv

\* One turn of the loop, up to the nonces.
LEMMA LoopTurn ==
  ASSUME TypeOK, LoopInv, CountFee
  PROVE  /\ block' = block /\ block \in Block /\ next - 1 \in 0 .. Len(block.txs)
         /\ next \in 1 .. Len(block.txs) /\ next' - 1 = next
         /\ block.txs \in Seq(Tx) /\ CurTx \in Tx /\ CurTx.from \in Addr
         /\ pc = "txs" /\ pc' = "txs" /\ UNCHANGED <<balance, nonce>>
         /\ totalFees' = Fees(block.txs)[next]
         /\ Course(balance, block.txs)[next] = TransferOn(balances, CurTx)
         /\ Covered <=> Executes(balance, block.txs, next)
         /\ Done' = Done \cup (IF Covered THEN {next} ELSE {}) /\ next \notin Done
  <1>1. /\ pc = "txs" /\ pc' = "txs" /\ UNCHANGED <<balance, nonce>> /\ block' = block
        /\ next <= Len(block.txs) /\ next' = next + 1 /\ totalFees' = Wrap(totalFees + CurTx.fee)
    BY DEF CountFee, db
  <1>2. block \in Block /\ next \in Nat \ {0} /\ balance \in Table /\ block.txs \in Seq(Tx)
    BY Zenon, <1>1, BlockAssumption DEF LoopInv, TypeOK, Table
  <1>3. /\ next \in 1 .. Len(block.txs) /\ next' - 1 = next /\ next - 1 \in 0 .. Len(block.txs)
    BY <1>1, <1>2
  <1>4. CurTx = block.txs[next] /\ CurTx \in Tx
    BY <1>2, <1>3 DEF CurTx
  <1>5. CurTx.from \in Addr /\ CurTx.amount \in Word /\ CurTx.fee \in Word /\ Total \in Word
    BY <1>1, CurTxTyping
  <1>6. totalFees' = Fees(block.txs)[next]
    BY Zenon, <1>1, <1>2, <1>3, <1>4, FeesUnfold DEF LoopInv
  <1>7. Course(balance, block.txs)[next] = TransferOn(balances, CurTx)
    <2>1. balances = Course(balance, block.txs)[next - 1]
      BY Zenon, <1>1 DEF LoopInv
    <2>2. Course(balance, block.txs)[next] =
            TransferOn(Course(balance, block.txs)[next - 1], block.txs[next])
      <3>1. balance \in Table /\ block.txs \in Seq(Tx) /\ next \in 1 .. Len(block.txs)
        BY Zenon, <1>2, <1>3
      <3>2. \A i \in 1 .. Len(block.txs) :
              Course(balance, block.txs)[i] =
                TransferOn(Course(balance, block.txs)[i-1], block.txs[i])
        BY Zenon, <3>1, CourseUnfold
      <3> QED BY Zenon, <3>1, <3>2
    <2> QED BY Zenon, <2>1, <2>2, <1>4
  <1>8. TxTotal(CurTx) = Total
    BY DEF TxTotal, Total
  <1>9. Covered <=> Executes(balance, block.txs, next)
    BY Zenon, <1>1, <1>4, <1>8 DEF Covered, Executes, LoopInv
  <1>10. 1 .. next' - 1 = (1 .. next - 1) \cup {next} /\ next \notin 1 .. next - 1
    BY <1>2, <1>3
  <1>11. Done' = {i \in 1 .. next' - 1 : Executes(balance, block.txs, i)}
    BY <1>1 DEF Done
  <1>12. Done' = Done \cup (IF Covered THEN {next} ELSE {}) /\ next \notin Done
    BY Zenon, <1>9, <1>10, <1>11 DEF Done
  <1> QED BY Zenon, <1>1, <1>2, <1>3, <1>4, <1>5, <1>6, <1>7, <1>9, <1>12

LEMMA LoopSkip == TypeOK /\ LoopInv /\ SkipTx => LoopInv'
  <1> SUFFICES ASSUME TypeOK, LoopInv, SkipTx PROVE LoopInv'
    OBVIOUS
  <1>1. CountFee /\ ~Covered /\ UNCHANGED <<balances, nonces, nonceKeys>>
    BY DEF SkipTx
  <1>2. /\ block' = block /\ block \in Block /\ next \in 1 .. Len(block.txs) /\ next' - 1 = next
        /\ pc = "txs" /\ UNCHANGED <<balance, nonce>> /\ totalFees' = Fees(block.txs)[next]
        /\ Course(balance, block.txs)[next] = TransferOn(balances, CurTx)
        /\ Done' = Done /\ CurTx \in Tx /\ CurTx.from \in Addr
    BY Zenon, <1>1, LoopTurn
  <1>3. TransferOn(balances, CurTx) = balances
    <2>1. TxTotal(CurTx) = Total
      BY DEF TxTotal, Total
    <2>2. balances[CurTx.from] \in Int /\ Total \in Int
      <3>1. next <= Len(block.txs)
        BY <1>1 DEF CountFee
      <3>2. balances[CurTx.from] \in Word /\ Total \in Word
        BY Zenon, <1>2, <3>1, CurTxTyping DEF TypeOK
      <3> QED BY <3>2, WordAssumption DEF Word
    <2>3. balances[CurTx.from] < TxTotal(CurTx)
      BY <1>1, <2>1, <2>2 DEF Covered
    <2> QED BY Zenon, <2>3 DEF TransferOn
  <1>4. \A x : DoneBy(x)' = DoneBy(x)
    BY <1>2 DEF DoneBy
  <1>5. LoadedNonces(block.txs)' = LoadedNonces(block.txs)
    BY Zenon, <1>2 DEF LoadedNonces
  <1>6. next \in 0 .. Len(block.txs)
    BY <1>2
  <1> QED BY Zenon, <1>1, <1>2, <1>3, <1>4, <1>5, <1>6 DEF LoopInv

LEMMA LoopExecute == TypeOK /\ LoopInv /\ ExecuteTx => LoopInv'
  <1> SUFFICES ASSUME TypeOK, LoopInv, ExecuteTx PROVE LoopInv'
    OBVIOUS
  <1>1. /\ CountFee /\ Covered
        /\ nonces' = [nonces EXCEPT ![CurTx.from] = Wrap(@ + 1)]
        /\ nonceKeys' = nonceKeys \cup {CurTx.from}
    BY Zenon DEF ExecuteTx
  <1>2. /\ block' = block /\ block \in Block /\ next \in 1 .. Len(block.txs) /\ next' - 1 = next
        /\ pc = "txs" /\ UNCHANGED <<balance, nonce>> /\ totalFees' = Fees(block.txs)[next]
        /\ Course(balance, block.txs)[next] = TransferOn(balances, CurTx)
        /\ Done' = Done \cup {next} /\ next \notin Done /\ CurTx \in Tx /\ CurTx.from \in Addr
    BY Zenon, <1>1, LoopTurn
  <1>3. TransferOn(balances, CurTx) = balances'
    <2>1. TxTotal(CurTx) = Total
      BY DEF TxTotal, Total
    <2>2. balances[CurTx.from] \in Int /\ Total \in Int
      <3>1. next <= Len(block.txs)
        BY <1>1 DEF CountFee
      <3>2. balances[CurTx.from] \in Word /\ Total \in Word
        BY Zenon, <1>2, <3>1, CurTxTyping DEF TypeOK
      <3> QED BY <3>2, WordAssumption DEF Word
    <2>3. ~(balances[CurTx.from] < TxTotal(CurTx))
      BY <1>1, <2>1, <2>2 DEF Covered
    <2> QED BY Zenon, <2>1, <2>3 DEF TransferOn, ExecuteTx
  <1>4. CurTx = block.txs[next]
    BY DEF CurTx
  <1>5. nonceKeys' = LoadsNonce(block.txs) \cup {block.txs[i].from : i \in Done'}
    <2>1. nonceKeys = LoadsNonce(block.txs) \cup {block.txs[i].from : i \in Done}
      BY Zenon, <1>2 DEF LoopInv
    <2>2. nonceKeys' = nonceKeys \cup {block.txs[next].from} /\ Done' = Done \cup {next}
      BY Zenon, <1>1, <1>2, <1>4
    <2> QED BY Zenon, <2>1, <2>2
  <1>6. LoadedNonces(block.txs)' = LoadedNonces(block.txs)
    BY Zenon, <1>2 DEF LoadedNonces
  <1>7. ASSUME NEW x \in Addr
        PROVE  nonces'[x] = (LoadedNonces(block.txs)[x] + Cardinality(DoneBy(x)')) % (MaxUint + 1)
    <2>1. nonces[x] = (LoadedNonces(block.txs)[x] + Cardinality(DoneBy(x))) % (MaxUint + 1)
      BY Zenon, <1>2 DEF LoopInv
    <2>2. CASE x = CurTx.from
      <3>1. DoneBy(x)' = DoneBy(x) \cup {next} /\ next \notin DoneBy(x)
        BY Zenon, <1>2, <1>4, <2>2 DEF DoneBy
      <3>2. IsFiniteSet(DoneBy(x)) /\ Cardinality(DoneBy(x)) \in Nat
        <4>1. next - 1 \in Nat
          BY <1>2
        <4> QED BY Zenon, <4>1, DoneCount
      <3>3. Cardinality(DoneBy(x)') = Cardinality(DoneBy(x)) + 1
        BY <3>1, <3>2, FS_AddElement
      <3>4. LoadedNonces(block.txs)[x] \in Nat
        BY WordAssumption DEF LoadedNonces, TypeOK, Word
      <3>5. nonces'[x] = Wrap(nonces[x] + 1)
        BY Zenon, <1>1, <1>2, <2>2 DEF TypeOK
      <3> DEFINE c == LoadedNonces(block.txs)[x] + Cardinality(DoneBy(x))
      <3>6. c \in Nat /\ LoadedNonces(block.txs)[x] + Cardinality(DoneBy(x)') = c + 1
        BY <3>2, <3>3, <3>4
      <3>7. nonces[x] = c % (MaxUint + 1)
        BY Zenon, <2>1
      <3> HIDE DEF c
      <3>8. (c + 1) % (MaxUint + 1) = Wrap((c % (MaxUint + 1)) + 1)
        BY <3>6, CountOn
      <3> QED BY Zenon, <3>5, <3>6, <3>7, <3>8
    <2>3. CASE x # CurTx.from
      <3>1. DoneBy(x)' = DoneBy(x)
        BY Zenon, <1>2, <1>4, <2>3 DEF DoneBy
      <3>2. nonces'[x] = nonces[x]
        BY Zenon, <1>1, <2>3 DEF TypeOK
      <3> QED BY Zenon, <2>1, <3>1, <3>2
    <2> QED BY Zenon, <2>2, <2>3
  <1>8. next \in 0 .. Len(block.txs)
    BY <1>2
  <1>9. (balances = Course(balance, block.txs)[next - 1])'
    BY Zenon, <1>2, <1>3
  <1>10. (totalFees = Fees(block.txs)[next - 1])'
    BY Zenon, <1>2
  <1>11. (block \in Block /\ next - 1 \in 0 .. Len(block.txs))'
    BY Zenon, <1>2, <1>8
  <1>12. (nonceKeys = LoadsNonce(block.txs) \cup {block.txs[i].from : i \in Done})'
    BY Zenon, <1>2, <1>5
  <1>13. (\A x \in Addr : nonces[x] =
            (LoadedNonces(block.txs)[x] + Cardinality(DoneBy(x))) % (MaxUint + 1))'
    BY Zenon, <1>6, <1>7
  <1> QED BY Zenon, <1>9, <1>10, <1>11, <1>12, <1>13 DEF LoopInv

LEMMA LoopStep == TypeOK /\ RestOK /\ LoopInv /\ [Next]_vars => LoopInv'
  <1> SUFFICES ASSUME TypeOK, RestOK, LoopInv, [Next]_vars PROVE LoopInv'
    OBVIOUS
  <1>r. ASSUME pc' # "txs" PROVE LoopInv'
    BY Zenon, <1>r DEF LoopInv
  <1>1. CASE ApplyGenesis \/ Start \/ Commit \/ ReplayGenesis \/ Abort
    BY Zenon, <1>1, <1>r DEF ApplyGenesis, Start, Commit, ReplayGenesis, Abort
  <1>2. ASSUME NEW b \in Block, ApplyBlock(b) PROVE LoopInv'
    BY <1>2, LoopLoad DEF ApplyBlock, db
  <1>3. CASE SkipTx
    BY <1>3, LoopSkip
  <1>4. CASE ExecuteTx
    BY <1>4, LoopExecute
  <1>5. ASSUME NEW v \in Addr, SlashValidator(v) PROVE LoopInv'
    BY <1>5, <1>r DEF SlashValidator
  <1>6. ASSUME NEW blocks \in ReplayChain, ResetAndReplay(blocks) PROVE LoopInv'
    BY <1>6, <1>r DEF ResetAndReplay
  <1>7. CASE ReplayBlock
    <2>1. LoadMaps(Head(rest)) /\ UNCHANGED <<balance, nonce>> /\ pc = "replay"
      BY <1>7 DEF ReplayBlock, db
    <2>2. Head(rest) \in Block
      BY <2>1 DEF TypeOK, RestOK
    <2> QED BY <2>1, <2>2, LoopLoad
  <1>8. CASE UNCHANGED vars
    <2>1. UNCHANGED <<pc, block, next, balances, totalFees, nonceKeys, nonces, balance, nonce>>
      BY <1>8 DEF vars, db, writer
    <2> QED BY Zenon, <2>1 DEF LoopInv, Done, DoneBy, LoadedNonces
  <1> QED BY <1>1, <1>2, <1>3, <1>4, <1>5, <1>6, <1>7, <1>8 DEF Next

\* The batch that Commit writes holds what the block makes of the tables.
LEMMA CommitIsBlock ==
  ASSUME TypeOK, LoopInv, Commit
  PROVE  /\ block \in Block /\ balance' = BlockOn(balance, block)
         /\ nonce' = NonceOn(balance, nonce, block)
  <1>1. /\ pc = "txs" /\ next > Len(block.txs) /\ balance' = PayFees
        /\ nonce' = [a \in Addr |-> IF a \in nonceKeys THEN nonces[a] ELSE nonce[a]]
    BY Zenon DEF Commit
  <1>2. block \in Block /\ block.txs \in Seq(Tx) /\ next \in Nat /\ next - 1 \in 0 .. Len(block.txs)
    BY Zenon, <1>1, BlockAssumption DEF LoopInv, TypeOK
  <1>3. next - 1 = Len(block.txs) /\ 1 .. next - 1 = DOMAIN block.txs
    BY <1>1, <1>2
  <1>4. balance' = BlockOn(balance, block)
    BY Zenon, <1>1, <1>3 DEF LoopInv, PayFees, BlockOn
  <1> DEFINE Of(x) == {i \in DOMAIN block.txs :
                         block.txs[i].from = x /\ Executes(balance, block.txs, i)}
  <1>5. ASSUME NEW x \in Addr
        PROVE  /\ Of(x) = DoneBy(x) /\ Cardinality(Of(x)) \in Nat
               /\ x \notin nonceKeys => Cardinality(Of(x)) = 0
               /\ x \in nonceKeys \ LoadsNonce(block.txs) => Cardinality(Of(x)) > 0
               /\ nonces[x] = (LoadedNonces(block.txs)[x] + Cardinality(Of(x))) % (MaxUint + 1)
    <2>1. Of(x) = DoneBy(x)
      BY Zenon, <1>3 DEF DoneBy, Done
    <2>2. IsFiniteSet(Of(x)) /\ Cardinality(Of(x)) \in Nat
      <3>1. Len(block.txs) \in Nat /\ Of(x) \in SUBSET (1 .. Len(block.txs))
        BY <1>2
      <3> HIDE DEF Of
      <3> QED BY Zenon, <3>1, DoneFinite
    <2>3. nonceKeys = LoadsNonce(block.txs) \cup {block.txs[i].from : i \in Done}
      BY Zenon, <1>1 DEF LoopInv
    <2>4. x \notin nonceKeys => Of(x) = {}
      BY Zenon, <2>1, <2>3 DEF DoneBy
    <2>5. x \in nonceKeys \ LoadsNonce(block.txs) => Of(x) # {}
      BY Zenon, <2>1, <2>3 DEF DoneBy
    <2>6. nonces[x] = (LoadedNonces(block.txs)[x] + Cardinality(Of(x))) % (MaxUint + 1)
      BY Zenon, <1>1, <2>1 DEF LoopInv
    <2> HIDE DEF Of
    <2>7. Of(x) = {} <=> Cardinality(Of(x)) = 0
      BY <2>2, FS_EmptySet
    <2>8. Cardinality(Of(x)) # 0 => Cardinality(Of(x)) > 0
      BY <2>2
    <2> QED BY Zenon, <2>1, <2>2, <2>4, <2>5, <2>6, <2>7, <2>8
  <1>6. ASSUME NEW x \in Addr
        PROVE  (IF x \in nonceKeys THEN nonces[x] ELSE nonce[x]) =
                 IF x \in LoadsNonce(block.txs)
                 THEN (nonce[x] + Cardinality(Of(x))) % (MaxUint + 1)
                 ELSE IF Cardinality(Of(x)) > 0 THEN Cardinality(Of(x)) % (MaxUint + 1)
                 ELSE nonce[x]
    <2>1. LoadsNonce(block.txs) \subseteq nonceKeys
      BY Zenon, <1>1 DEF LoopInv
    <2>2. LoadedNonces(block.txs)[x] = IF x \in LoadsNonce(block.txs) THEN nonce[x] ELSE 0
      BY DEF LoadedNonces
    <2> HIDE DEF Of
    <2>3. /\ 0 + Cardinality(Of(x)) = Cardinality(Of(x))
          /\ Cardinality(Of(x)) = 0 => ~(Cardinality(Of(x)) > 0)
      <3>1. \A k \in Nat : 0 + k = k /\ (k = 0 => ~(k > 0))
        OBVIOUS
      <3> QED BY Zenon, <1>5, <3>1
    <2> QED BY Zenon, <1>5, <2>1, <2>2, <2>3
  <1>7. nonce' = NonceOn(balance, nonce, block)
    BY Zenon, <1>1, <1>6 DEF NonceOn
  <1> QED BY <1>2, <1>4, <1>7

\* The first half of the invariant is what a reader of the database sees.
ReplayInv == BalancesAreReplay /\ LoopInv

\* No block leaves the table as it is.
LEMMA ReplayOfNone == ASSUME NEW f \in Table PROVE f = Replay(f, <<>>)[Len(<<>>)]
  <1>1. <<>> \in Seq(BlockType) /\ Len(<<>>) = 0
    OBVIOUS
  <1> QED BY Zenon, <1>1, ReplayUnfold

LEMMA ReplayStep == TypeOK /\ RestOK /\ ReplayInv /\ [Next]_vars => ReplayInv'
  <1> SUFFICES ASSUME TypeOK, RestOK, ReplayInv, [Next]_vars PROVE BalancesAreReplay'
    BY LoopStep DEF ReplayInv
  <1>q. ASSUME UNCHANGED <<balance, base, log>> PROVE BalancesAreReplay'
    BY <1>q DEF ReplayInv, BalancesAreReplay
  <1>g. ASSUME NEW vs \in Validators, WriteGenesis(vs) PROVE BalancesAreReplay'
    <2>1. Allocate(balance) \in Table
      BY Zenon, GenesisTyping DEF TypeOK, Table
    <2>2. balance' = Allocate(balance) /\ base' = Allocate(balance) /\ log' = <<>>
      BY Zenon, <1>g DEF WriteGenesis
    <2> QED BY <2>1, <2>2, ReplayOfNone DEF BalancesAreReplay
  <1>1. CASE ApplyGenesis \/ ReplayGenesis
    BY <1>1, <1>g DEF ApplyGenesis, ReplayGenesis
  <1>2. CASE Start \/ SkipTx \/ ExecuteTx \/ ReplayBlock \/ Abort
    BY Zenon, <1>2, <1>q DEF Start, SkipTx, ExecuteTx, CountFee, ReplayBlock, Abort, db, history
  <1>3. ASSUME NEW b \in Block, ApplyBlock(b) PROVE BalancesAreReplay'
    BY Zenon, <1>3, <1>q DEF ApplyBlock, db, history
  <1>4. ASSUME NEW v \in Addr, SlashValidator(v) PROVE BalancesAreReplay'
    BY <1>4, <1>q DEF SlashValidator, history
  <1>5. CASE Commit
    <2>1. log' = Append(log, block) /\ base' = base /\ block \in BlockType
          /\ log \in Seq(BlockType) /\ base \in Table
      BY Zenon, <1>5 DEF Commit, TypeOK, Table
    <2>2. balance' = BlockOn(balance, block)
      BY <1>5, CommitIsBlock DEF ReplayInv
    <2>3. Len(log') = Len(log) + 1
      BY <2>1
    <2>4. Replay(base, Append(log, block))[Len(log) + 1] =
            BlockOn(Replay(base, log)[Len(log)], block)
      BY Zenon, <2>1, ReplayAppend
    <2> QED BY Zenon, <2>1, <2>2, <2>3, <2>4 DEF ReplayInv, BalancesAreReplay
  <1>6. ASSUME NEW blocks \in ReplayChain, ResetAndReplay(blocks) PROVE BalancesAreReplay'
    <2>1. balance' = Zeros /\ base' = Zeros /\ log' = <<>> /\ Zeros \in Table
      BY Zenon, <1>6, SupplyOfZeros DEF ResetAndReplay, Table
    <2> QED BY <2>1, ReplayOfNone DEF BalancesAreReplay
  <1>7. CASE UNCHANGED vars
    BY Zenon, <1>7, <1>q DEF vars, db, history
  <1> QED BY Zenon, <1>1, <1>2, <1>3, <1>4, <1>5, <1>6, <1>7 DEF Next

LEMMA ReplayInit == Init => ReplayInv
  <1> SUFFICES ASSUME Init PROVE ReplayInv
    OBVIOUS
  <1>1. balance = Zeros /\ base = Zeros /\ log = <<>> /\ pc = "empty" /\ Zeros \in Table
    BY Zenon, SupplyOfZeros DEF Init, Table
  <1> QED BY Zenon, <1>1, ReplayOfNone DEF ReplayInv, BalancesAreReplay, LoopInv

\* Whatever crashes, fails or is abandoned half-way, and for any accounts, word
\* size and blocks: the balances in the database are those that the committed
\* blocks, one by one, make of what genesis left.
THEOREM ReplayCorrect == Spec => []BalancesAreReplay
  <1>1. ReplayInv => BalancesAreReplay
    BY DEF ReplayInv
  <1> QED BY <1>1, TypeInit, TypeStep, ReplayInit, ReplayStep, PTL DEF Spec

-----------------------------------------------------------------------------
(* Ledger implements AtomicLedger. *)

LEMMA AtomicInit == Init => Atomic!Init
  BY Zenon DEF Init, Atomic!Init, Atomic!Empty, Zeros, Atomic!Zeros

\* The two modules mean the same by what a block does.
LEMMA SameBlock ==
  ASSUME NEW f, NEW b, Atomic!Course(f, b.txs) = Course(f, b.txs), Atomic!Fees(b.txs) = Fees(b.txs)
  PROVE  Atomic!BlockOn(f, b) = BlockOn(f, b)
  BY Zenon DEF Atomic!BlockOn, BlockOn, Atomic!Wrap, Wrap

LEMMA SameEffect ==
  ASSUME NEW f, NEW n, NEW b
  PROVE  Atomic!BlockOn(f, b) = BlockOn(f, b) /\ Atomic!NonceOn(f, n, b) = NonceOn(f, n, b)
  <1>1. \A txs : Atomic!Course(f, txs) = Course(f, txs)
    BY DEF Atomic!Course, Course, Atomic!TransferOn, TransferOn, Atomic!TxTotal, TxTotal,
           Atomic!Wrap, Wrap
  <1>2. \A txs : Atomic!Fees(txs) = Fees(txs)
    BY DEF Atomic!Fees, Fees, Atomic!Wrap, Wrap
  <1>3. Atomic!BlockOn(f, b) = BlockOn(f, b)
    BY Zenon, <1>1, <1>2, SameBlock
  <1>4. Atomic!LoadsNonce(b.txs) = LoadsNonce(b.txs)
    BY Zenon DEF Atomic!LoadsNonce, LoadsNonce
  <1>5. Atomic!NonceOn(f, n, b) = NonceOn(f, n, b)
    <2> DEFINE R(a) == {i \in DOMAIN b.txs : b.txs[i].from = a /\ Executes(f, b.txs, i)}
               S(a) == {i \in DOMAIN b.txs : b.txs[i].from = a /\ Atomic!Executes(f, b.txs, i)}
               At(a, L, k) == IF a \in L THEN (n[a] + k) % (MaxUint + 1)
                              ELSE IF k > 0 THEN k % (MaxUint + 1) ELSE n[a]
    <2>1. NonceOn(f, n, b) = [a \in Addr |-> At(a, LoadsNonce(b.txs), Cardinality(R(a)))]
      BY Zenon DEF NonceOn
    <2>2. Atomic!NonceOn(f, n, b) =
            [a \in Addr |-> At(a, Atomic!LoadsNonce(b.txs), Cardinality(S(a)))]
      BY Zenon DEF Atomic!NonceOn, Atomic!Cardinality, Cardinality
    <2>3. ASSUME NEW a \in Addr PROVE S(a) = R(a)
      BY Zenon, <1>1 DEF Atomic!Executes, Executes, Atomic!TxTotal, TxTotal, Atomic!Wrap, Wrap
    <2> HIDE DEF R, S, At
    <2> QED BY Zenon, <1>4, <2>1, <2>2, <2>3
  <1> QED BY Zenon, <1>3, <1>5

LEMMA AtomicStep == TypeOK /\ LoopInv /\ [Next]_vars => [Atomic!Next]_Atomic!vars
  <1> SUFFICES ASSUME TypeOK, LoopInv, [Next]_vars PROVE [Atomic!Next]_Atomic!vars
    OBVIOUS
  <1>q. ASSUME UNCHANGED db PROVE [Atomic!Next]_Atomic!vars
    BY <1>q DEF db, Atomic!vars
  <1>g. ASSUME NEW vs \in Validators, WriteGenesis(vs) PROVE [Atomic!Next]_Atomic!vars
    <2>1. balance' = Atomic!Over(balance, Allocation)
      BY Zenon, <1>g DEF WriteGenesis, Allocate, Atomic!Over
    <2>2. nonce' = Atomic!Over(nonce, [a \in DOMAIN Allocation |-> 0])
      BY Zenon, <1>g DEF WriteGenesis, ZeroAllocated, Atomic!Over
    <2>3. stake' = Atomic!Over(stake, StakeOf(vs))
      <3>1. /\ DOMAIN StakeOf(vs) = Listed(vs)
            /\ \A x \in Listed(vs) :
                 StakeOf(vs)[x] = (CHOOSE v \in Staked(vs) : v.address = x).stake
        BY DEF StakeOf
      <3>2. stake' = StakeGenesis(stake, vs)
        BY <1>g DEF WriteGenesis
      <3> DEFINE s == StakeOf(vs)
      <3>3. stake' = [a \in Addr |-> IF a \in DOMAIN s THEN s[a] ELSE stake[a]]
        <4> HIDE DEF s
        <4> QED BY <3>1, <3>2 DEF StakeGenesis, s
      <3> QED BY Zenon, <3>3 DEF Atomic!Over
    <2>4. validatorList' = IF DOMAIN StakeOf(vs) = {} THEN validatorList ELSE DOMAIN StakeOf(vs)
      <3>1. DOMAIN StakeOf(vs) = Listed(vs)
        BY DEF StakeOf
      <3> QED BY Zenon, <1>g, <3>1 DEF WriteGenesis
    <2>5. Atomic!Seed(StakeOf(vs))
      BY Zenon, <2>1, <2>2, <2>3, <2>4 DEF Atomic!Seed
    <2> QED BY <2>5 DEF Atomic!Next
  <1>1. CASE ApplyGenesis \/ ReplayGenesis
    BY <1>1, <1>g DEF ApplyGenesis, ReplayGenesis
  <1>2. CASE Start \/ SkipTx \/ ExecuteTx \/ ReplayBlock \/ Abort
    BY Zenon, <1>2, <1>q DEF Start, SkipTx, ExecuteTx, CountFee, ReplayBlock, Abort
  <1>3. ASSUME NEW b \in Block, ApplyBlock(b) PROVE [Atomic!Next]_Atomic!vars
    BY <1>3, <1>q DEF ApplyBlock
  <1>4. ASSUME NEW v \in Addr, SlashValidator(v) PROVE [Atomic!Next]_Atomic!vars
    <2>1. Atomic!Slash(v)
      BY <1>4 DEF SlashValidator, Atomic!Slash
    <2> QED BY <2>1 DEF Atomic!Next
  <1>5. CASE Commit
    <2>1. /\ block \in Block /\ balance' = Atomic!BlockOn(balance, block)
          /\ nonce' = Atomic!NonceOn(balance, nonce, block)
      BY Zenon, <1>5, CommitIsBlock, SameEffect
    <2>2. Atomic!Apply(block)
      BY Zenon, <1>5, <2>1 DEF Commit, Atomic!Apply
    <2> QED BY <2>1, <2>2 DEF Atomic!Next
  <1>6. ASSUME NEW blocks \in ReplayChain, ResetAndReplay(blocks) PROVE [Atomic!Next]_Atomic!vars
    <2>1. Atomic!Wipe
      BY <1>6 DEF ResetAndReplay, Atomic!Wipe, Atomic!Empty, Zeros, Atomic!Zeros
    <2> QED BY <2>1 DEF Atomic!Next
  <1>7. CASE UNCHANGED vars
    BY <1>7, <1>q DEF vars
  <1> QED BY <1>1, <1>2, <1>3, <1>4, <1>5, <1>6, <1>7 DEF Next

\* Whatever interrupts ApplyBlock, ApplyGenesis or ResetAndReplay, the database
\* changes by whole blocks, whole slashes and whole geneses: Ledger implements
\* AtomicLedger.
THEOREM AtomicCorrect == Spec => AtomicSpec
  <1>1. ReplayInv => LoopInv
    BY DEF ReplayInv
  <1> QED
    BY <1>1, TypeInit, TypeStep, ReplayInit, ReplayStep, AtomicInit, AtomicStep, PTL
    DEF Spec, AtomicSpec, Atomic!Spec
=============================================================================
