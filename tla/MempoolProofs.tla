--------------------------- MODULE MempoolProofs ---------------------------
(***************************************************************************)
(* The pool and the producer, for any accounts, transactions, blocks and   *)
(* chains of peers, pool size, word size and number of failures.           *)
(*                                                                         *)
(* The producer executes no transaction twice.  Nothing but Add keeps one  *)
(* from coming back, and Add judges it by a nonce that may be stale by     *)
(* then.  What saves it is in ReplayInv: a transaction the producer has    *)
(* executed has its nonce behind it, and an Add that read the nonce before *)
(* will find the transaction still in the pool, because Remove waits for   *)
(* it.                                                                     *)
(*                                                                         *)
(* The producer skips no transaction without cause.  FreshInv carries the  *)
(* balance that Add read on to the block, over all blocks in between: an   *)
(* account loses nothing but by spending or by wrapping around (NoLoss).   *)
(***************************************************************************)
EXTENDS Mempool, Recursion, FiniteSetTheorems

-----------------------------------------------------------------------------
(* Words and tables of words. *)

\* Remainders of words.
LEMMA WordRemainder ==
  /\ \A x \in Nat : x % (MaxUint + 1) \in Word
  /\ \A x \in Word : x \in Nat /\ (x + 0) % (MaxUint + 1) = x
  <1>1. \A m \in Nat \ {0}, x \in Nat : x % m \in 0 .. m - 1
    OBVIOUS
  <1>2. \A m \in Nat \ {0} : \A x \in 0 .. m - 1 : x \in Nat /\ (x + 0) % m = x
    OBVIOUS
  <1>3. MaxUint + 1 \in Nat \ {0} /\ Word = 0 .. (MaxUint + 1) - 1
    BY MempoolAssumption DEF Word
  <1> QED BY Zenon, <1>1, <1>2, <1>3

\* The transactions move words between addresses.
LEMMA PricedTx ==
  /\ MaxUint \in Nat
  /\ \A t \in Tx : t.from \in Addr /\ t.to \in Addr /\ t.amount \in Word /\ t.fee \in Word
  BY MempoolAssumption

\* The sum of two words is a word.
LEMMA WrapSum ==
  ASSUME NEW x \in Word, NEW y \in Word
  PROVE  Wrap(x + y) \in Word
  BY MempoolAssumption DEF Wrap, Word

\* A table of balances or nonces.
Table == [Addr -> Word]

\* A transfer makes a table of words of one.
LEMMA TransferTable ==
  ASSUME NEW f \in Table, NEW t \in Tx
  PROVE  TransferOn(f, t) \in Table
  <1>1. t.from \in Addr /\ t.to \in Addr /\ t.amount \in Word /\ t.fee \in Word
    BY MempoolAssumption
  <1>2. TxTotal(t) \in Word
    BY <1>1, WrapSum DEF TxTotal
  <1>3. CASE f[t.from] < TxTotal(t)
    BY <1>3 DEF TransferOn
  <1>4. CASE ~(f[t.from] < TxTotal(t))
    <2> DEFINE paid == [f EXCEPT ![t.from] = @ - TxTotal(t)]
    <2>1. f[t.from] - TxTotal(t) \in Word
      <3>1. \A x, y \in Word : ~(x < y) => x - y \in Word
        BY PricedTx DEF Word
      <3>2. f[t.from] \in Word
        BY Zenon, <1>1 DEF Table
      <3> QED BY Zenon, <3>1, <3>2, <1>2, <1>4
    <2>2. paid \in Table
      BY Zenon, <2>1 DEF Table
    <2>3. TransferOn(f, t) = [paid EXCEPT ![t.to] = Wrap(@ + t.amount)]
      BY <1>4 DEF TransferOn
    <2> HIDE DEF paid
    <2>4. Wrap(paid[t.to] + t.amount) \in Word
      BY <1>1, <2>2, WrapSum DEF Table
    <2> QED BY Zenon, <2>2, <2>3, <2>4 DEF Table
  <1> QED BY <1>3, <1>4

\* The balances after each transaction, by their recursion.
LEMMA CourseTable ==
  ASSUME NEW f \in Table, NEW s \in Seq(Tx)
  PROVE  /\ Course(f, s) \in [0 .. Len(s) -> Table]
         /\ Course(f, s)[0] = f
         /\ \A i \in 1 .. Len(s) : Course(f, s)[i] = TransferOn(Course(f, s)[i-1], s[i])
  <1> DEFINE n == Len(s)
             D == 0 .. n
             step == [x \in Table \X (1 .. n) |-> TransferOn(x[1], s[x[2]])]
             Eq(g) == g = [i \in D |-> IF i = 0 THEN f ELSE TransferOn(g[i-1], s[i])]
  <1>0. n \in Nat /\ \A i \in 1 .. n : s[i] \in Tx
    OBVIOUS
  <1>1. PICK g \in [D -> Table] : Scans(n, f, step, g)
    <2>1. step \in [Table \X (1 .. n) -> Table]
      BY <1>0, TransferTable
    <2> HIDE DEF step, n
    <2> QED BY Zenon, <1>0, <2>1, ScanExists
  <1>2. Eq(g)
    <2>1. g[0] = f
      BY <1>1 DEF Scans
    <2>2. ASSUME NEW i \in 1 .. n PROVE g[i] = TransferOn(g[i-1], s[i])
      <3>1. g[i] = step[<<g[i-1], i>>]
        BY Zenon, <1>1 DEF Scans
      <3>2. g[i-1] \in Table
        BY <1>1
      <3> QED BY <3>1, <3>2
    <2>3. \A i \in D : i = 0 \/ i \in 1 .. n
      OBVIOUS
    <2>4. g = [i \in D |-> g[i]]
      BY <1>1
    <2> HIDE DEF D
    <2> QED BY Zenon, <2>1, <2>2, <2>3, <2>4
  <1>3. Eq(Course(f, s))
    <2>1. Course(f, s) = CHOOSE h : Eq(h)
      BY DEF Course
    <2> HIDE DEF Eq
    <2> QED BY <1>2, <2>1
  <1>4. ASSUME NEW k, Eq(k)
        PROVE  /\ k[0] = f /\ k = [i \in D |-> k[i]]
               /\ \A i \in 1 .. n : k[i] = TransferOn(k[i-1], s[i])
    <2>1. 0 \in D /\ \A i \in 1 .. n : i \in D /\ i # 0
      OBVIOUS
    <2> HIDE DEF D
    <2> QED BY Zenon, <1>4, <2>1
  <1>5. ASSUME NEW k, Eq(k) PROVE k \in [0 .. n -> Table]
    <2>1. \A i \in 1 .. n : k[i-1] \in Table => k[i] \in Table
      BY Zenon, <1>0, <1>4, <1>5, TransferTable
    <2>2. k[0] \in Table /\ k = [i \in 0 .. n |-> k[i]]
      BY <1>0, <1>4, <1>5
    <2> HIDE DEF Eq, n
    <2> QED BY Zenon, <1>0, <2>1, <2>2, ScanTyped
  <1> HIDE DEF Eq
  <1> QED BY <1>3, <1>4, <1>5

\* The fees after each transaction, likewise.
LEMMA FeesTable ==
  ASSUME NEW s \in Seq(Tx)
  PROVE  /\ Fees(s) \in [0 .. Len(s) -> Word]
         /\ Fees(s)[0] = 0
         /\ \A i \in 1 .. Len(s) : Fees(s)[i] = Wrap(Fees(s)[i-1] + s[i].fee)
  <1> DEFINE n == Len(s)
             D == 0 .. n
             step == [x \in Word \X (1 .. n) |-> Wrap(x[1] + s[x[2]].fee)]
             Eq(g) == g = [i \in D |-> IF i = 0 THEN 0 ELSE Wrap(g[i-1] + s[i].fee)]
  <1>0. n \in Nat /\ 0 \in Word /\ \A i \in 1 .. n : s[i].fee \in Word
    <2>1. n \in Nat /\ \A i \in 1 .. n : s[i] \in Tx
      OBVIOUS
    <2>2. \A x \in Tx : x.fee \in Word
      BY MempoolAssumption
    <2>3. 0 \in Word
      BY MempoolAssumption DEF Word
    <2> QED BY Zenon, <2>1, <2>2, <2>3
  <1>w. \A x, y \in Word : Wrap(x + y) \in Word
    BY WrapSum
  <1>1. PICK g \in [D -> Word] : Scans(n, 0, step, g)
    <2>1. step \in [Word \X (1 .. n) -> Word]
      BY <1>0, <1>w
    <2> HIDE DEF step, n
    <2> QED BY Zenon, <1>0, <2>1, ScanExists
  <1>2. Eq(g)
    <2>1. g[0] = 0
      BY <1>1 DEF Scans
    <2>2. ASSUME NEW i \in 1 .. n PROVE g[i] = Wrap(g[i-1] + s[i].fee)
      <3>1. g[i] = step[<<g[i-1], i>>]
        BY Zenon, <1>1 DEF Scans
      <3>2. g[i-1] \in Word
        BY SMTT(30), <1>1
      <3> QED BY <3>1, <3>2
    <2>3. \A i \in D : i = 0 \/ i \in 1 .. n
      OBVIOUS
    <2>4. g = [i \in D |-> g[i]]
      BY <1>1
    <2> HIDE DEF D
    <2> QED BY Zenon, <2>1, <2>2, <2>3, <2>4
  <1>3. Eq(Fees(s))
    <2>1. Fees(s) = CHOOSE h : Eq(h)
      BY DEF Fees
    <2> HIDE DEF Eq
    <2> QED BY <1>2, <2>1
  <1>4. ASSUME NEW k, Eq(k)
        PROVE  /\ k[0] = 0 /\ k = [i \in D |-> k[i]]
               /\ \A i \in 1 .. n : k[i] = Wrap(k[i-1] + s[i].fee)
    <2>1. 0 \in D /\ \A i \in 1 .. n : i \in D /\ i # 0
      OBVIOUS
    <2> HIDE DEF D
    <2> QED BY Zenon, <1>4, <2>1
  <1>5. ASSUME NEW k, Eq(k) PROVE k \in [0 .. n -> Word]
    <2>1. \A i \in 1 .. n : k[i-1] \in Word => k[i] \in Word
      BY Zenon, <1>0, <1>4, <1>5, <1>w
    <2>2. k[0] \in Word /\ k = [i \in 0 .. n |-> k[i]]
      BY <1>0, <1>4, <1>5
    <2> HIDE DEF Eq, n
    <2> QED BY Zenon, <1>0, <2>1, <2>2, ScanTyped
  <1> HIDE DEF Eq
  <1> QED BY <1>3, <1>4, <1>5

\* A block makes a table of words of one.
LEMMA BlockTable ==
  ASSUME NEW f \in Table, NEW b, b.validator \in Addr, b.txs \in Seq(Tx)
  PROVE  BlockOn(f, b) \in Table
  <1> DEFINE n == Len(b.txs)
             c == Course(f, b.txs)[n]
             g == Fees(b.txs)[n]
  <1>1. n \in 0 .. n
    OBVIOUS
  <1>2. c \in Table /\ g \in Word
    BY Zenon, <1>1, CourseTable, FeesTable
  <1>3. BlockOn(f, b) = [c EXCEPT ![b.validator] = Wrap(@ + g)]
    BY Zenon DEF BlockOn
  <1> HIDE DEF c, g
  <1>4. Wrap(c[b.validator] + g) \in Word
    <2>1. c[b.validator] \in Word
      BY Zenon, <1>2 DEF Table
    <2> QED BY Zenon, <2>1, <1>2, WrapSum
  <1> QED BY Zenon, <1>2, <1>3, <1>4 DEF Table

\* An account that has not spent, and was not paid more than a word holds, has
\* what it had before the block.
LEMMA NoLoss ==
  ASSUME balance \in Table, NEW b, b.txs \in Seq(Tx), NEW x \in Addr, NEW n \in 0 .. Len(b.txs),
         \A j \in Ran(b) : j <= n => b.txs[j].from # x /\ ~(b.txs[j].to = x /\ Overflows(b, j))
  PROVE  balance[x] <= After(b, n)[x] /\ balance[x] \in Word /\ After(b, n)[x] \in Word
  <1> DEFINE c == Course(balance, b.txs)
             P == {i \in 0 .. n : balance[x] <= c[i][x]}
  <1>1. /\ n \in Nat /\ \A i \in 0 .. n : i \in Nat /\ i <= n /\ i \in 0 .. Len(b.txs)
        /\ \A i \in 1 .. n : i \in DOMAIN b.txs /\ i \in 1 .. Len(b.txs) /\ i <= n
    OBVIOUS
  <1>2. /\ c \in [0 .. Len(b.txs) -> Table] /\ c[0] = balance
        /\ \A i \in 1 .. Len(b.txs) : c[i] = TransferOn(c[i-1], b.txs[i])
    BY Zenon, CourseTable
  <1>3. \A i \in DOMAIN b.txs : i \in Ran(b) <=> c[i-1][b.txs[i].from] >= TxTotal(b.txs[i])
    BY Zenon DEF Ran, Executes
  <1>4. \A i \in DOMAIN b.txs : Overflows(b, i) <=> c[i-1][b.txs[i].to] + b.txs[i].amount > MaxUint
    BY Zenon DEF Overflows, After
  <1>5. balance[x] \in Word /\ \A i \in 0 .. n : c[i] \in Table /\ c[i][x] \in Word
    BY Zenon, <1>1, <1>2 DEF Table
  <1>w. Word \subseteq Nat
    BY PricedTx DEF Word
  <1> HIDE DEF c
  <1>6. ASSUME NEW i \in 1 .. n, balance[x] <= c[i-1][x] PROVE balance[x] <= c[i][x]
    <2> DEFINE t == b.txs[i]
               f == c[i-1]
    <2>0. i - 1 \in 0 .. n
      BY <1>1
    <2>1. t \in Tx /\ f \in Table /\ c[i] = TransferOn(f, t) /\ f[x] \in Word /\ i \in DOMAIN b.txs
      BY <1>1, <1>2, <1>5, <2>0
    <2>2. t.from \in Addr /\ t.to \in Addr /\ t.amount \in Word /\ t.fee \in Word
      BY Zenon, <2>1, PricedTx
    <2>3. TxTotal(t) \in Nat /\ f[t.from] \in Nat
      <3>1. TxTotal(t) \in Word
        BY Zenon, <2>2, WrapSum DEF TxTotal
      <3> QED BY Zenon, <3>1, <2>1, <2>2, <1>w DEF Table
    <2>4. i \in Ran(b) <=> f[t.from] >= TxTotal(t)
      BY Zenon, <1>3, <2>1
    <2>5. Overflows(b, i) <=> f[t.to] + t.amount > MaxUint
      BY Zenon, <1>4, <2>1
    <2>6. i <= n
      BY Zenon, <1>1
    <2> HIDE DEF t, f
    <2>7. CASE f[t.from] < TxTotal(t)
      <3>1. c[i] = f
        BY Zenon, <2>1, <2>7 DEF TransferOn
      <3> QED BY <3>1, <1>6 DEF f
    <2>8. CASE ~(f[t.from] < TxTotal(t))
      <3>1. f[t.from] >= TxTotal(t)
        BY <2>3, <2>8
      <3>2. i \in Ran(b)
        BY <2>4, <3>1
      <3>3. t.from # x /\ ~(t.to = x /\ f[t.to] + t.amount > MaxUint)
        BY Zenon, <2>5, <2>6, <3>2 DEF t
      <3> DEFINE paid == [f EXCEPT ![t.from] = @ - TxTotal(t)]
      <3>4. c[i] = [paid EXCEPT ![t.to] = Wrap(@ + t.amount)]
        BY Zenon, <2>1, <2>8 DEF TransferOn
      <3>5. DOMAIN paid = Addr /\ paid[x] = f[x]
        BY Zenon, <2>1, <3>3 DEF Table
      <3> HIDE DEF paid
      <3>6. c[i][x] = IF t.to = x THEN Wrap(f[x] + t.amount) ELSE f[x]
        BY Zenon, <3>4, <3>5
      <3>7. balance[x] <= f[x]
        BY <1>6 DEF f
      <3>8. f[x] \in Nat /\ t.amount \in Nat /\ balance[x] \in Nat /\ MaxUint \in Nat
        BY Zenon, <2>1, <2>2, <1>5, <1>w, PricedTx
      <3>9. CASE t.to = x
        <4>1. c[i][x] = Wrap(f[x] + t.amount) /\ ~(f[x] + t.amount > MaxUint)
          BY Zenon, <3>3, <3>6, <3>9
        <4>2. c[i][x] = f[x] + t.amount
          BY Zenon, <4>1 DEF Wrap
        <4> QED BY <4>2, <3>7, <3>8
      <3> QED BY Zenon, <3>6, <3>7, <3>9
    <2> QED BY <2>7, <2>8
  <1>7. 0 .. n \subseteq P
    <2>0. balance[x] \in Nat /\ c[0][x] = balance[x]
      BY Zenon, <1>2, <1>5, <1>w
    <2>1. P \in SUBSET Nat /\ 0 \in P
      <3>1. 0 \in 0 .. n /\ 0 .. n \subseteq Nat
        BY <1>1
      <3>2. balance[x] <= c[0][x]
        BY <2>0
      <3> QED BY Zenon, <3>1, <3>2
    <2>2. \A i \in 1 .. n : i - 1 \in P => i \in P
      BY <1>1, <1>6
    <2> HIDE DEF P
    <2> QED BY Zenon, <1>1, <2>1, <2>2, Climb
  <1>8. n \in P
    BY <1>1, <1>7
  <1> QED BY Zenon, <1>5, <1>8 DEF c, After

\* What a peer's block or the producer's leaves the senders of transactions
\* that are still fresh after it.
LEMMA FreshKeeps ==
  ASSUME balance \in Table, NEW b, b.validator \in Addr, b.txs \in Seq(Tx), ApplyBlock(b)
  PROVE  /\ balance' \in Table /\ fresh' \subseteq fresh
         /\ \A t \in fresh' \cap Tx : balance[t.from] <= balance'[t.from]
  <1> DEFINE n == Len(b.txs)
             c == After(b, n)
             g == Fees(b.txs)[n]
             spenders == {b.txs[i].from : i \in Ran(b)}
             wrapped  == {b.txs[i].to : i \in {j \in Ran(b) : Overflows(b, j)}}
                         \cup {x \in {b.validator} : FeesOverflow(b)}
  <1>1. balance' = BlockOn(balance, b) /\ fresh' = {t \in fresh : t.from \notin spenders \cup wrapped}
    BY Zenon DEF ApplyBlock
  <1>2. balance' \in Table
    BY Zenon, <1>1, BlockTable
  <1>3. n \in 0 .. n /\ g \in Word
    BY FeesTable
  <1>4. balance' = [c EXCEPT ![b.validator] = Wrap(@ + g)]
    BY Zenon, <1>1 DEF BlockOn, After
  <1>5. FeesOverflow(b) <=> c[b.validator] + g > MaxUint
    BY Zenon DEF FeesOverflow
  <1>6. c \in Table
    BY <1>3, CourseTable DEF After
  <1> HIDE DEF c, g
  <1>7. ASSUME NEW t \in fresh' \cap Tx PROVE balance[t.from] <= balance'[t.from]
    <2> DEFINE x == t.from
    <2>1. x \in Addr
      BY PricedTx
    <2>2. x \notin spenders /\ x \notin wrapped
      BY Zenon, <1>1
    <2>3. \A j \in Ran(b) : b.txs[j].from # x /\ ~(b.txs[j].to = x /\ Overflows(b, j))
      BY Zenon, <2>2
    <2>4. x = b.validator => ~(c[x] + g > MaxUint)
      BY Zenon, <2>2, <1>5
    <2> HIDE DEF x
    <2>5. balance[x] <= c[x] /\ balance[x] \in Word /\ c[x] \in Word
      BY Zenon, <1>3, <2>1, <2>3, NoLoss DEF c
    <2>6. balance[x] \in Nat /\ c[x] \in Nat /\ g \in Nat
      BY <2>5, <1>3, PricedTx DEF Word
    <2>7. balance'[x] = IF x = b.validator THEN Wrap(c[x] + g) ELSE c[x]
      BY <1>4, <1>6, <2>1 DEF Table
    <2>8. CASE x = b.validator
      <3>1. balance'[x] = c[x] + g
        BY <2>4, <2>7, <2>8 DEF Wrap
      <3> QED BY <3>1, <2>5, <2>6 DEF x
    <2> QED BY Zenon, <2>5, <2>7, <2>8 DEF x
  <1> QED BY Zenon, <1>1, <1>2, <1>7

-----------------------------------------------------------------------------
(* What a block does to the nonces. *)

\* The transactions of a block that are counted are finitely many.
LEMMA CountFinite ==
  ASSUME NEW s \in Seq(Tx), NEW S \in SUBSET (DOMAIN s)
  PROVE  IsFiniteSet(S) /\ Cardinality(S) \in Nat
  <1>1. Len(s) \in Nat /\ S \in SUBSET (1 .. Len(s))
    OBVIOUS
  <1>2. IsFiniteSet(1 .. Len(s))
    BY <1>1, FS_Interval
  <1>3. IsFiniteSet(S)
    BY <1>1, <1>2, FS_Subset
  <1> QED BY <1>3, FS_CardinalityType

\* Who does not spend keeps the nonce; who does is remembered unless it grows.
LEMMA NonceGrows ==
  ASSUME nonce \in Table, forgot \subseteq Addr, NEW b, b.txs \in Seq(Tx), ApplyBlock(b)
  PROVE  /\ nonce' \in Table /\ forgot \subseteq forgot' /\ forgot' \subseteq Addr
         /\ \A x \in Addr : x \notin forgot' => nonce[x] <= nonce'[x]
         /\ \A i \in Ran(b) : b.txs[i].from \notin forgot' =>
              nonce[b.txs[i].from] < nonce'[b.txs[i].from]
  <1> DEFINE R(x) == {i \in DOMAIN b.txs : b.txs[i].from = x /\ Executes(balance, b.txs, i)}
             At(x, k) == IF x \in LoadsNonce(b.txs) THEN (nonce[x] + k) % (MaxUint + 1)
                         ELSE IF k > 0 THEN k % (MaxUint + 1) ELSE nonce[x]
             spenders == {b.txs[i].from : i \in Ran(b)}
  <1>1. nonce' = [x \in Addr |-> At(x, Cardinality(R(x)))]
    BY DEF ApplyBlock, NonceOn
  <1>2. forgot' = forgot \cup {x \in spenders : nonce'[x] <= nonce[x]}
    BY DEF ApplyBlock
  <1>3. \A i \in Ran(b) : b.txs[i].from \in Addr /\ i \in R(b.txs[i].from)
    BY MempoolAssumption DEF Ran
  <1>4. \A x \in Addr : Cardinality(R(x)) \in Nat
    <2>1. \A x \in Addr : R(x) \in SUBSET (DOMAIN b.txs)
      OBVIOUS
    <2> HIDE DEF R
    <2> QED BY <2>1, CountFinite
  <1>5. \A x \in Addr \ spenders : Cardinality(R(x)) = 0
    <2>1. \A x \in Addr \ spenders : R(x) = {}
      BY DEF Ran
    <2> HIDE DEF R
    <2> QED BY Zenon, <2>1, FS_EmptySet
  <1> HIDE DEF R
  <1>n. \A x \in Addr : nonce[x] \in Word /\ nonce[x] \in Nat
    BY WordRemainder DEF Table
  <1>6. ASSUME NEW x \in Addr, NEW k \in Nat PROVE At(x, k) \in Word
    <2>1. nonce[x] + k \in Nat
      BY <1>n
    <2> QED BY <2>1, <1>n, WordRemainder
  <1>7. ASSUME NEW x \in Addr PROVE At(x, 0) = nonce[x]
    BY <1>n, WordRemainder
  <1> HIDE DEF At
  <1>8. nonce' \in Table
    BY <1>1, <1>4, <1>6 DEF Table
  <1>9. \A x \in Addr \ spenders : nonce'[x] = nonce[x]
    BY <1>1, <1>5, <1>7
  <1>m. \A x \in Addr : nonce'[x] \in Nat
    BY <1>8, WordRemainder DEF Table
  <1>10. \A x \in spenders : x \in Addr /\ (x \notin forgot' => nonce[x] < nonce'[x])
    <2> SUFFICES ASSUME NEW x \in spenders
                 PROVE  x \in Addr /\ (x \notin forgot' => nonce[x] < nonce'[x])
      OBVIOUS
    <2>1. x \in Addr
      BY <1>3
    <2>2. x \notin forgot' => ~(nonce'[x] <= nonce[x])
      BY <1>2
    <2> QED BY <2>1, <2>2, <1>n, <1>m
  <1>11. \A x \in Addr : x \notin forgot' => nonce[x] <= nonce'[x]
    <2> SUFFICES ASSUME NEW x \in Addr, x \notin forgot' PROVE nonce[x] <= nonce'[x]
      OBVIOUS
    <2>1. CASE x \in spenders
      <3>1. nonce[x] < nonce'[x]
        BY <2>1, <1>10
      <3> QED BY <3>1, <1>n, <1>m
    <2>2. CASE x \notin spenders
      BY <2>2, <1>9, <1>n
    <2> QED BY <2>1, <2>2
  <1>12. forgot \subseteq forgot' /\ forgot' \subseteq Addr
    BY <1>2, <1>10
  <1>13. \A i \in Ran(b) : b.txs[i].from \in spenders
    OBVIOUS
  <1> QED BY <1>8, <1>10, <1>11, <1>12, <1>13

\* A transaction whose turn has come; one whose turn is over; in both cases
\* unless its sender's nonce was restarted.
Due(t) == t.from \in forgot \/ t.nonce <= nonce[t.from]
Past(t) == t.from \in forgot \/ t.nonce < nonce[t.from]

\* Whatever a block does, what was due stays due, and what is past stays past.
LEMMA NonceOnward ==
  ASSUME nonce \in Table, forgot \subseteq Addr, NEW b, b.txs \in Seq(Tx), ApplyBlock(b)
  PROVE  /\ \A t \in Tx : (Due(t) => Due(t)') /\ (Past(t) => Past(t)')
         /\ \A x \in Addr, n \in Word : x \in forgot \/ n <= nonce[x] =>
              x \in forgot' \/ n <= nonce'[x]
  <1>1. /\ nonce' \in Table /\ forgot \subseteq forgot'
        /\ \A x \in Addr : x \notin forgot' => nonce[x] <= nonce'[x]
    BY NonceGrows
  <1>2. \A x \in Addr : nonce[x] \in Nat /\ nonce'[x] \in Nat
    BY <1>1, WordRemainder DEF Table
  <1>3. \A t \in Tx : t.from \in Addr /\ t.nonce \in Word
    BY MempoolAssumption
  <1>4. \A n \in Word : n \in Nat
    BY WordRemainder
  <1>5. ASSUME NEW x \in Addr, NEW n \in Word, x \notin forgot'
        PROVE  /\ n <= nonce[x] => n <= nonce'[x]
               /\ n < nonce[x] => n < nonce'[x]
    BY <1>1, <1>2, <1>4, <1>5
  <1>6. \A x \in Addr, n \in Word : x \in forgot \/ n <= nonce[x] =>
          x \in forgot' \/ n <= nonce'[x]
    BY Zenon, <1>1, <1>5
  <1>7. \A t \in Tx : Due(t) => Due(t)'
    BY Zenon, <1>3, <1>6 DEF Due
  <1>8. \A t \in Tx : Past(t) => Past(t)'
    BY Zenon, <1>1, <1>3, <1>5 DEF Past
  <1> QED BY Zenon, <1>6, <1>7, <1>8

-----------------------------------------------------------------------------
(* Types, one group of variables at a time. *)

DbType == balance \in Table /\ nonce \in Table /\ list \in Seq(Addr)
ChainType == height \in 0 .. Cycle - 1 /\ saved \in 0 .. Cycle - 1 /\ readable \in BOOLEAN

\* Add holds m.mu from its check for room to its end.
PoolType ==
  /\ pool \in Seq(Tx) /\ Len(pool) <= MaxPool /\ IsInjective(pool)
  /\ apc \in {"idle", "nonce", "check"} /\ tx \in Tx \cup {NoTx} /\ bal \in Word /\ non \in Word
  /\ apc # "idle" => tx \in Tx /\ Len(pool) < MaxPool
ProducerType == ppc \in {"idle", "apply", "append", "remove"} /\ txs \in Seq(Tx)

\* A chain is replayed only after reorged is set.
HandlerType ==
  /\ hpc \in {"idle", "reset", "genesis", "replay", "stuck"} /\ todo \in Seq(PeerBlock)
  /\ hpc \in {"reset", "genesis", "replay"} => reorged /\ todo # <<>>
HistoryType ==
  /\ had \subseteq PeerBlock /\ executed \subseteq Tx /\ lately \subseteq Tx /\ fresh \subseteq Tx
  /\ forgot \subseteq Addr /\ reorged \in BOOLEAN /\ faults \in 0 .. MaxFaults

TypeInv == DbType /\ ChainType /\ PoolType /\ ProducerType /\ HandlerType /\ HistoryType

\* Genesis makes tables of words of any.
LEMMA GenesisTyped ==
  /\ Zeros \in Table
  /\ \A f \in Table : Allocate(f) \in Table /\ ZeroAllocated(f) \in Table
  <1>1. 0 \in Word
    BY PricedTx DEF Word
  <1>2. \A a \in DOMAIN Allocation : Allocation[a] \in Word
    BY MempoolAssumption
  <1>3. Zeros \in Table
    BY <1>1 DEF Zeros, Table
  <1>4. ASSUME NEW f \in Table PROVE Allocate(f) \in Table /\ ZeroAllocated(f) \in Table
    BY <1>1, <1>2 DEF Allocate, ZeroAllocated, Table
  <1> QED BY <1>3, <1>4

\* The state a node starts with is typed.
LEMMA TypeInit == Init => TypeInv
  <1> SUFFICES ASSUME Init PROVE TypeInv
    OBVIOUS
  <1>1. DbType
    BY Zenon, GenesisTyped, MempoolAssumption DEF Init, DbType
  <1>2. ChainType
    <2>1. 0 \in 0 .. Cycle - 1
      BY MempoolAssumption
    <2> QED BY Zenon, <2>1 DEF Init, ChainType
  <1>3. PoolType
    <2>1. <<>> \in Seq(Tx) /\ Len(<<>>) <= MaxPool /\ 0 \in Word
      BY MempoolAssumption DEF Word
    <2>2. IsInjective(<<>>)
      BY DEF IsInjective
    <2> QED BY Zenon, <2>1, <2>2 DEF Init, PoolType
  <1>4. ProducerType /\ HandlerType
    BY DEF Init, ProducerType, HandlerType
  <1>5. HistoryType
    <2>1. 0 \in 0 .. MaxFaults
      BY MempoolAssumption
    <2> QED BY Zenon, <2>1 DEF Init, HistoryType
  <1> QED BY Zenon, <1>1, <1>2, <1>3, <1>4, <1>5 DEF TypeInv

\* A block keeps the types.
LEMMA BlockTyped ==
  ASSUME DbType, HistoryType, NEW b, b.validator \in Addr, b.txs \in Seq(Tx), ApplyBlock(b)
  PROVE  DbType' /\ fresh' \subseteq Tx /\ forgot' \subseteq Addr
  <1>1. balance \in Table /\ nonce \in Table /\ forgot \subseteq Addr /\ fresh \subseteq Tx
    BY Zenon DEF DbType, HistoryType
  <1>2. balance' \in Table /\ fresh' \subseteq fresh
    BY Zenon, <1>1, FreshKeeps
  <1>3. nonce' \in Table /\ forgot' \subseteq Addr
    BY Zenon, <1>1, NonceGrows
  <1>4. list' = list
    BY Zenon DEF ApplyBlock
  <1> QED BY Zenon, <1>1, <1>2, <1>3, <1>4 DEF DbType

\* Genesis keeps the tables typed, whatever they hold.
LEMMA WriteGenesisTyped ==
  ASSUME DbType, WriteGenesis PROVE DbType' /\ fresh' = {}
  <1>1. Validators \in Seq(Addr)
    BY Zenon, MempoolAssumption
  <1> QED BY Zenon, <1>1, GenesisTyped DEF WriteGenesis, DbType

\* The blocks of the producer and of peers.
LEMMA BlockShape ==
  /\ ProducerType => OwnBlock.validator \in Addr /\ OwnBlock.txs \in Seq(Tx) /\ OwnBlock.txs = txs
  /\ \A b \in PeerBlock : b.validator \in Addr /\ b.txs \in Seq(Tx)
  BY Zenon, MempoolAssumption DEF OwnBlock, ProducerType

\* What Add appends.
LEMMA AppendPool ==
  ASSUME PoolType, apc = "check", tx \notin Range(pool), pool' = Append(pool, tx)
  PROVE  /\ pool' \in Seq(Tx) /\ Len(pool') <= MaxPool /\ IsInjective(pool')
         /\ Range(pool') = Range(pool) \cup {tx}
  <1>1. pool \in Seq(Tx) /\ tx \in Tx /\ Len(pool) < MaxPool
    BY Zenon DEF PoolType
  <1>2. pool' \in Seq(Tx) /\ Len(pool') = Len(pool) + 1 /\ DOMAIN pool = 1 .. Len(pool)
        /\ Len(pool) \in Nat /\ DOMAIN pool' = 1 .. Len(pool) + 1
        /\ pool'[Len(pool) + 1] = tx /\ \A i \in 1 .. Len(pool) : pool'[i] = pool[i]
    BY <1>1
  <1>3. Range(pool') = Range(pool) \cup {tx}
    BY <1>2 DEF Range
  <1>4. IsInjective(pool')
    <2> SUFFICES ASSUME NEW i \in DOMAIN pool', NEW j \in DOMAIN pool', pool'[i] = pool'[j]
                 PROVE  i = j
      BY DEF IsInjective
    <2>1. \A k \in DOMAIN pool : pool[k] # tx
      BY DEF Range
    <2>2. \A k, l \in DOMAIN pool : pool[k] = pool[l] => k = l
      BY DEF PoolType, IsInjective
    <2> QED BY <1>2, <2>1, <2>2
  <1>5. Len(pool') <= MaxPool
    BY <1>1, <1>2, MempoolAssumption
  <1> QED BY Zenon, <1>2, <1>3, <1>4, <1>5

\* What Remove leaves, and what a replay has left after a block.
LEMMA DropRange ==
  ASSUME NEW q \in Seq(Tx), NEW S PROVE Range(Drop(q, S)) = Range(q) \ S
  BY Zenon, DropFacts

LEMMA RestOfChain ==
  ASSUME NEW c \in Seq(PeerBlock), c # <<>>
  PROVE  Head(c) \in PeerBlock /\ Tail(c) \in Seq(PeerBlock) /\ (Len(c) # 1 => Tail(c) # <<>>)
  <1>1. Head(c) \in PeerBlock /\ Tail(c) \in Seq(PeerBlock)
    OBVIOUS
  <1>2. Len(c) \in Nat /\ Len(Tail(c)) = Len(c) - 1
    OBVIOUS
  <1>3. Len(c) # 1 => Len(Tail(c)) # 0
    BY <1>2
  <1>4. Len(<<>>) = 0
    OBVIOUS
  <1>5. Len(c) # 1 => Tail(c) # <<>>
    BY Zenon, <1>3, <1>4
  <1> QED BY Zenon, <1>1, <1>5

\* Every step keeps the types.
LEMMA TypeStep == TypeInv /\ [Next]_vars => TypeInv'
  <1> SUFFICES ASSUME TypeInv, [Next]_vars PROVE TypeInv'
    OBVIOUS
  <1>t. DbType /\ ChainType /\ PoolType /\ ProducerType /\ HandlerType /\ HistoryType
    BY DEF TypeInv
  <1> USE DEF TypeInv
  <1>d. UNCHANGED db => DbType'
    BY Zenon, <1>t DEF db, DbType
  <1>c. UNCHANGED chain => ChainType'
    BY Zenon, <1>t DEF chain, ChainType
  <1>p. UNCHANGED <<pool, adder>> => PoolType'
    BY Zenon, <1>t DEF adder, PoolType
  <1>w. UNCHANGED producer => ProducerType'
    BY Zenon, <1>t DEF producer, ProducerType
  <1>h. UNCHANGED <<handler, reorged>> => HandlerType'
    BY <1>t DEF handler, HandlerType
  <1>y. UNCHANGED history => HistoryType'
    BY Zenon, <1>t DEF history, HistoryType
  <1>e. <<>> \in Seq(Tx) /\ <<>> \in Seq(PeerBlock) /\ 0 \in Word
    BY PricedTx DEF Word
  <1>f. Fault => faults' \in 0 .. MaxFaults
    BY <1>t, MempoolAssumption DEF Fault, HistoryType
  <1>g. (height + 1) % Cycle \in 0 .. Cycle - 1
    BY <1>t, MempoolAssumption DEF ChainType
  <1>1. ASSUME NEW t \in Tx, Add(t) PROVE TypeInv'
    <2>1. /\ UNCHANGED <<db, chain, pool, non, producer, handler, had, executed, lately, forgot, reorged, faults>>
          /\ apc' = "nonce" /\ tx' = t /\ bal' = balance[t.from] /\ Len(pool) < MaxPool
          /\ fresh' = IF t \in Range(pool) THEN fresh ELSE fresh \cup {t}
      BY Zenon, <1>1 DEF Add
    <2>2. balance[t.from] \in Word
      BY Zenon, <1>t, PricedTx DEF DbType, Table
    <2>3. PoolType'
      BY Zenon, <2>1, <2>2, <1>t DEF PoolType
    <2>4. HistoryType'
      BY Zenon, <2>1, <1>t DEF HistoryType
    <2> QED BY Zenon, <2>1, <2>3, <2>4, <1>d, <1>c, <1>w, <1>h
  <1>2. CASE ReadNonce
    <2>1. UNCHANGED <<db, chain, pool, tx, bal, producer, handler, history>>
          /\ apc = "nonce" /\ apc' = "check" /\ non' = nonce[tx.from]
      BY Zenon, <1>2 DEF ReadNonce
    <2>2. apc # "idle"
      BY <2>1
    <2>3. nonce[tx.from] \in Word
      BY Zenon, <2>2, <1>t, PricedTx DEF PoolType, DbType, Table
    <2>4. PoolType'
      BY Zenon, <2>1, <2>2, <2>3, <1>t DEF PoolType
    <2>5. reorged' = reorged
      BY Zenon, <2>1 DEF history
    <2> QED BY Zenon, <2>1, <2>4, <2>5, <1>d, <1>c, <1>w, <1>h, <1>y
  <1>3. CASE CheckTx
    <2>1. /\ UNCHANGED <<db, chain, producer, handler, had, executed, lately, forgot, reorged, faults>>
          /\ apc = "check" /\ apc' = "idle" /\ tx' = NoTx /\ bal' = 0 /\ non' = 0
          /\ fresh' = fresh \cap Range(pool')
          /\ pool' = pool \/ (pool' = Append(pool, tx) /\ tx \notin Range(pool))
      BY Zenon, <1>3 DEF CheckTx, Admits
    <2>2. pool' \in Seq(Tx) /\ Len(pool') <= MaxPool /\ IsInjective(pool')
      BY Zenon, <2>1, <1>t, AppendPool DEF PoolType
    <2>3. PoolType'
      BY Zenon, <2>1, <2>2, <1>e DEF PoolType
    <2>4. HistoryType'
      BY Zenon, <2>1, <1>t DEF HistoryType
    <2> QED BY Zenon, <2>1, <2>3, <2>4, <1>d, <1>c, <1>w, <1>h
  <1>4. CASE Produce
    <2>1. UNCHANGED <<db, chain, pool, adder, handler, history>> /\ ppc' = "apply" /\ txs' = Oldest
      BY Zenon, <1>4 DEF Produce
    <2>2. Oldest \in Seq(Tx)
      BY <1>t, MempoolAssumption DEF PoolType, Oldest
    <2>3. ProducerType'
      BY Zenon, <2>1, <2>2 DEF ProducerType
    <2>4. reorged' = reorged
      BY Zenon, <2>1 DEF history
    <2> QED BY Zenon, <2>1, <2>3, <2>4, <1>d, <1>c, <1>p, <1>h, <1>y
  <1>5. CASE ProducerApply
    <2>1. /\ UNCHANGED <<chain, pool, adder, txs, handler, had, executed, reorged, faults>>
          /\ ApplyBlock(OwnBlock) /\ ppc' = "append" /\ lately' = {txs[i] : i \in Ran(OwnBlock)}
      BY Zenon, <1>5 DEF ProducerApply
    <2>2. DbType' /\ fresh' \subseteq Tx /\ forgot' \subseteq Addr
      BY Zenon, <2>1, <1>t, BlockShape, BlockTyped
    <2>3. \A i \in Ran(OwnBlock) : txs[i] \in Tx
      BY <1>t DEF Ran, OwnBlock, ProducerType
    <2>4. HistoryType'
      BY Zenon, <2>1, <2>2, <2>3, <1>t DEF HistoryType
    <2>5. ProducerType'
      BY Zenon, <2>1, <1>t DEF ProducerType
    <2> QED BY Zenon, <2>1, <2>2, <2>4, <2>5, <1>c, <1>p, <1>h
  <1>6. CASE AppendBlock
    <2>1. /\ UNCHANGED <<db, readable, pool, adder, txs, handler, had, fresh, forgot, reorged, faults>>
          /\ height' = (height + 1) % Cycle /\ saved' = height'
          /\ executed' = executed \cup lately /\ lately' = {} /\ ppc' = "remove"
      BY Zenon, <1>6 DEF AppendBlock
    <2>2. ChainType'
      BY Zenon, <2>1, <1>g, <1>t DEF ChainType
    <2>3. HistoryType'
      BY Zenon, <2>1, <1>t DEF HistoryType
    <2>4. ProducerType'
      BY Zenon, <2>1, <1>t DEF ProducerType
    <2> QED BY Zenon, <2>1, <2>2, <2>3, <2>4, <1>d, <1>p, <1>h
  <1>7. CASE RemoveIncluded
    <2>1. /\ UNCHANGED <<db, chain, adder, handler, had, executed, lately, forgot, reorged, faults>>
          /\ apc = "idle" /\ pool' = Drop(pool, Range(txs)) /\ fresh' = fresh \cap Range(pool')
          /\ ppc' = "idle" /\ txs' = <<>>
      BY Zenon, <1>7 DEF RemoveIncluded, NotIn
    <2>2. pool \in Seq(Tx) /\ IsInjective(pool) /\ Len(pool) <= MaxPool
      BY Zenon, <1>t DEF PoolType
    <2>3. pool' \in Seq(Tx) /\ IsInjective(pool') /\ Len(pool') <= Len(pool)
      BY Zenon, <2>1, <2>2, DropFacts
    <2>4. Len(pool') <= MaxPool
      BY <2>2, <2>3, MempoolAssumption
    <2>5. PoolType'
      BY Zenon, <2>1, <2>3, <2>4, <1>t DEF PoolType, adder
    <2>6. HistoryType'
      BY Zenon, <2>1, <1>t DEF HistoryType
    <2>7. ProducerType'
      BY Zenon, <2>1, <1>e DEF ProducerType
    <2> QED BY Zenon, <2>1, <2>5, <2>6, <2>7, <1>d, <1>c, <1>h
  <1>8. ASSUME NEW b \in PeerBlock, NewBlock(b) PROVE TypeInv'
    <2>1. /\ UNCHANGED <<chain, pool, adder, producer, todo, executed, lately, reorged, faults>>
          /\ ApplyBlock(b) /\ hpc' = "stuck" /\ had' \subseteq had \cup {b}
      BY Zenon, <1>8 DEF NewBlock
    <2>2. DbType' /\ fresh' \subseteq Tx /\ forgot' \subseteq Addr
      BY Zenon, <2>1, <1>t, BlockShape, BlockTyped
    <2>3. HistoryType'
      BY Zenon, <2>1, <2>2, <1>t DEF HistoryType
    <2>4. HandlerType'
      BY <2>1, <1>t DEF HandlerType
    <2> QED BY Zenon, <2>1, <2>2, <2>3, <2>4, <1>c, <1>p, <1>w
  <1>9. ASSUME NEW v \in Addr, Slash(v) PROVE TypeInv'
    <2>1. UNCHANGED <<balance, nonce, chain, pool, adder, producer, handler, history>>
          /\ list' = Drop(list, {v})
      BY Zenon, <1>9 DEF Slash, Without
    <2>2. list' \in Seq(Addr)
      BY Zenon, <2>1, <1>t, DropFacts DEF DbType
    <2>3. DbType'
      BY Zenon, <2>1, <2>2, <1>t DEF DbType
    <2>4. reorged' = reorged
      BY Zenon, <2>1 DEF history
    <2> QED BY Zenon, <2>1, <2>3, <2>4, <1>c, <1>p, <1>w, <1>h, <1>y
  <1>10. ASSUME NEW k \in Chain, Blocks(k) PROVE TypeInv'
    <2>1. /\ UNCHANGED <<db, chain, pool, adder, producer, lately, fresh, faults>>
          /\ hpc' = "reset" /\ todo' = k /\ had' = had \cup Range(k)
          /\ reorged' = TRUE /\ executed' = {} /\ forgot' = {}
      BY Zenon, <1>10 DEF Blocks, Rewinds
    <2>2. k \in Seq(PeerBlock) /\ k # <<>>
      BY Zenon, MempoolAssumption
    <2>3. Range(k) \subseteq PeerBlock
      BY <2>2 DEF Range
    <2>4. HistoryType'
      BY Zenon, <2>1, <2>3, <1>t DEF HistoryType
    <2>5. HandlerType'
      BY Zenon, <2>1, <2>2 DEF HandlerType
    <2> QED BY Zenon, <2>1, <2>4, <2>5, <1>d, <1>c, <1>p, <1>w
  <1>11. CASE Reset
    <2>1. /\ UNCHANGED <<chain, pool, adder, producer, todo, had, executed, lately, forgot, reorged, faults>>
          /\ balance' = Zeros /\ nonce' = Zeros /\ list' = <<>> /\ fresh' = {}
          /\ hpc = "reset" /\ hpc' = "genesis"
      BY Zenon, <1>11 DEF Reset
    <2>2. DbType'
      <3>1. <<>> \in Seq(Addr)
        OBVIOUS
      <3> QED BY Zenon, <2>1, <3>1, GenesisTyped DEF DbType
    <2>3. HistoryType'
      BY Zenon, <2>1, <1>t DEF HistoryType
    <2>4. HandlerType'
      BY Zenon, <2>1, <1>t DEF HandlerType
    <2> QED BY Zenon, <2>1, <2>2, <2>3, <2>4, <1>c, <1>p, <1>w
  <1>12. CASE ReplayGenesis
    <2>1. /\ UNCHANGED <<chain, pool, adder, producer, todo, had, executed, lately, forgot, reorged, faults>>
          /\ WriteGenesis /\ hpc = "genesis" /\ hpc' = "replay"
      BY Zenon, <1>12 DEF ReplayGenesis
    <2>2. DbType' /\ fresh' = {}
      BY Zenon, <2>1, <1>t, WriteGenesisTyped
    <2>3. HistoryType'
      BY Zenon, <2>1, <2>2, <1>t DEF HistoryType
    <2>4. HandlerType'
      BY Zenon, <2>1, <1>t DEF HandlerType
    <2> QED BY Zenon, <2>1, <2>2, <2>3, <2>4, <1>c, <1>p, <1>w
  <1>13. CASE ReplayBlock
    <2>1. /\ UNCHANGED <<chain, pool, adder, producer, had, executed, lately, reorged, faults>>
          /\ ApplyBlock(Head(todo)) /\ todo' = Tail(todo) /\ hpc = "replay"
          /\ hpc' = IF Len(todo) = 1 THEN "stuck" ELSE "replay"
      BY Zenon, <1>13 DEF ReplayBlock
    <2>2. todo \in Seq(PeerBlock) /\ todo # <<>> /\ reorged
      BY Zenon, <2>1, <1>t DEF HandlerType
    <2>3. Head(todo) \in PeerBlock /\ todo' \in Seq(PeerBlock) /\ (Len(todo) # 1 => todo' # <<>>)
      BY Zenon, <2>1, <2>2, RestOfChain
    <2>4. DbType' /\ fresh' \subseteq Tx /\ forgot' \subseteq Addr
      BY Zenon, <2>1, <2>3, <1>t, BlockShape, BlockTyped
    <2>5. HistoryType'
      BY Zenon, <2>1, <2>4, <1>t DEF HistoryType
    <2>6. HandlerType'
      BY <2>1, <2>2, <2>3 DEF HandlerType
    <2> QED BY Zenon, <2>1, <2>4, <2>5, <2>6, <1>c, <1>p, <1>w
  <1>14. CASE SyncGenesis
    <2>1. /\ UNCHANGED <<chain, pool, adder, producer, todo, had, lately, faults>>
          /\ WriteGenesis /\ hpc' = "stuck" /\ reorged' = TRUE /\ executed' = {} /\ forgot' = {}
      BY Zenon, <1>14 DEF SyncGenesis, Rewinds
    <2>2. DbType' /\ fresh' = {}
      BY Zenon, <2>1, <1>t, WriteGenesisTyped
    <2>3. HistoryType'
      BY Zenon, <2>1, <2>2, <1>t DEF HistoryType
    <2>4. HandlerType'
      BY <2>1, <1>t DEF HandlerType
    <2> QED BY Zenon, <2>1, <2>2, <2>3, <2>4, <1>c, <1>p, <1>w
  <1>15. CASE ProducerFails
    <2>1. /\ UNCHANGED <<db, saved, readable, pool, adder, handler, had, executed, fresh, forgot, reorged>>
          /\ height' = height \/ height' = (height + 1) % Cycle
          /\ ppc' = "idle" /\ txs' = <<>> /\ lately' = {} /\ Fault
      BY Zenon, <1>15 DEF ProducerFails
    <2>2. ChainType'
      BY Zenon, <2>1, <1>g, <1>t DEF ChainType
    <2>3. HistoryType'
      BY Zenon, <2>1, <1>f, <1>t DEF HistoryType
    <2>4. ProducerType'
      BY Zenon, <2>1, <1>e DEF ProducerType
    <2> QED BY Zenon, <2>1, <2>2, <2>3, <2>4, <1>d, <1>p, <1>h
  <1>16. CASE HandlerFails
    <2>1. /\ UNCHANGED <<db, height, saved, pool, adder, producer, had, executed, lately, fresh, forgot, reorged>>
          /\ hpc' = "idle" /\ todo' = <<>> /\ readable' \in BOOLEAN /\ Fault
      BY Zenon, <1>16 DEF HandlerFails
    <2>2. ChainType'
      BY Zenon, <2>1, <1>t DEF ChainType
    <2>3. HistoryType'
      BY Zenon, <2>1, <1>f, <1>t DEF HistoryType
    <2>4. HandlerType'
      BY <2>1, <1>e DEF HandlerType
    <2> QED BY Zenon, <2>1, <2>2, <2>3, <2>4, <1>d, <1>p, <1>w
  <1>17. CASE SyncFails
    <2>1. /\ UNCHANGED <<height, saved, pool, adder, producer, todo, had, lately>> /\ hpc = "idle"
          /\ \/ UNCHANGED <<db, fresh, readable>> /\ hpc' = "stuck"
             \/ WriteGenesis /\ readable' \in BOOLEAN /\ hpc' = hpc
          /\ reorged' = TRUE /\ executed' = {} /\ forgot' = {} /\ Fault
      BY Zenon, <1>17 DEF SyncFails, Rewinds, BlockMuFree
    <2>2. DbType' /\ fresh' \subseteq Tx
      BY Zenon, <2>1, <1>d, <1>t, WriteGenesisTyped DEF HistoryType
    <2>3. ChainType'
      BY Zenon, <2>1, <1>t DEF ChainType
    <2>4. HistoryType'
      BY Zenon, <2>1, <2>2, <1>f, <1>t DEF HistoryType
    <2>5. HandlerType'
      BY <2>1, <1>t DEF HandlerType
    <2> QED BY Zenon, <2>1, <2>2, <2>3, <2>4, <2>5, <1>p, <1>w
  <1>18. CASE Crash
    <2>1. /\ UNCHANGED <<db, saved, had, forgot, reorged>> /\ Fault
          /\ pool' = <<>> /\ fresh' = {} /\ apc' = "idle" /\ tx' = NoTx /\ bal' = 0 /\ non' = 0
          /\ ppc' = "idle" /\ txs' = <<>> /\ hpc' = "idle" /\ todo' = <<>>
          /\ executed' = executed \cup lately /\ lately' = {} /\ height' = saved
      BY Zenon, <1>18 DEF Crash
    <2>2. readable' \in BOOLEAN
      BY Zenon, <1>18, <1>t DEF Crash, ChainType
    <2>3. ChainType'
      BY Zenon, <2>1, <2>2, <1>t DEF ChainType
    <2>4. HistoryType'
      BY Zenon, <2>1, <1>f, <1>t DEF HistoryType
    <2>5. HandlerType'
      BY <2>1, <1>e DEF HandlerType
    <2>6. ProducerType'
      BY Zenon, <2>1, <1>e DEF ProducerType
    <2>7. Len(<<>>) <= MaxPool
      BY MempoolAssumption
    <2>8. IsInjective(<<>>)
      BY DEF IsInjective
    <2>9. PoolType'
      BY Zenon, <2>1, <2>7, <2>8, <1>e DEF PoolType
    <2> QED BY Zenon, <2>1, <2>3, <2>4, <2>5, <2>6, <2>9, <1>d
  <1>19. CASE UNCHANGED vars
    <2>1. UNCHANGED <<db, chain, pool, adder, producer, handler, history>> /\ reorged' = reorged
      BY Zenon, <1>19 DEF vars, history
    <2> QED BY Zenon, <2>1, <1>d, <1>c, <1>p, <1>w, <1>h, <1>y
  <1> QED
    BY Zenon, <1>1, <1>2, <1>3, <1>4, <1>5, <1>6, <1>7, <1>8, <1>9, <1>10, <1>11, <1>12, <1>13, <1>14,
       <1>15, <1>16, <1>17, <1>18, <1>19
    DEF Next, AddStep, ProducerStep, HandlerStep

\* The types hold in every state.
LEMMA TypeInvariant == Spec => []TypeInv
  BY TypeInit, TypeStep, PTL DEF Spec

\* The pool never holds more than Mempool.max transactions nor one twice, and
\* the database holds words, whatever the interleaving of Add, the producer,
\* peers' blocks, replays and failures.
THEOREM PoolTypeCorrect == Spec => []TypeOK
  <1>1. TypeInv => TypeOK
    BY Zenon DEF TypeInv, DbType, ChainType, PoolType, ProducerType, HandlerType, HistoryType, TypeOK, Table
  <1> QED BY <1>1, TypeInvariant, PTL

-----------------------------------------------------------------------------
(* Nothing is executed twice. *)

\* What the producer has taken is still in the pool, and so is what it has
\* executed of that.
TakenInv ==
  /\ Range(txs) \subseteq Range(pool) /\ lately \subseteq Range(txs)
  /\ ppc # "append" => lately = {}

\* An executed transaction is in the pool only until it is removed, and is there
\* when an Add comes to judge it by an older nonce.
Out(t) ==
  t.from \in forgot \/
    /\ t \in Range(pool) => ppc = "remove" /\ t \in Range(txs)
    /\ apc = "check" /\ tx = t /\ t.nonce = non => t \in Range(pool)

\* As long as the database only goes forward, what is pooled was due, and what
\* the producer has executed is past.
ReplayInv ==
  /\ \A t \in Range(pool) : Due(t)
  /\ apc = "check" => tx.from \in forgot \/ non <= nonce[tx.from]
  /\ \A t \in executed \cup lately : Past(t)
  /\ \A t \in executed : Out(t)

PoolInv == TypeInv /\ TakenInv /\ (~reorged => ReplayInv)

\* A node starts with an empty pool and nothing executed.
LEMMA PoolInit == Init => PoolInv
  <1> SUFFICES ASSUME Init PROVE PoolInv
    OBVIOUS
  <1>1. Range(<<>>) = {}
    BY DEF Range
  <1>2. TakenInv
    BY Zenon, <1>1 DEF Init, TakenInv
  <1>3. ReplayInv
    BY <1>1 DEF Init, ReplayInv
  <1> QED BY Zenon, <1>2, <1>3, TypeInit DEF PoolInv

\* The producer takes part of the pool.
LEMMA OldestTaken ==
  ASSUME PoolType PROVE Range(Oldest) \subseteq Range(pool)
  <1> DEFINE k == IF MaxPending > Len(pool) THEN Len(pool) ELSE MaxPending
  <1>1. pool \in Seq(Tx) /\ Len(pool) \in Nat /\ k \in 0 .. Len(pool) /\ Oldest = SubSeq(pool, 1, k)
    BY MempoolAssumption DEF PoolType, Oldest
  <1> HIDE DEF k
  <1>2. DOMAIN Oldest = 1 .. k /\ \A i \in 1 .. k : Oldest[i] = pool[i] /\ i \in DOMAIN pool
    BY <1>1
  <1> QED BY Zenon, <1>2 DEF Range

\* Every step keeps what the producer has in hand.
LEMMA TakenStep ==
  ASSUME TypeInv, TakenInv, [Next]_vars PROVE TakenInv'
  <1>e. Range(<<>>) = {}
    BY DEF Range
  <1>t. PoolType /\ ProducerType
    BY Zenon DEF TypeInv
  <1>u. UNCHANGED <<pool, ppc, txs, lately>> => TakenInv'
    BY Zenon DEF TakenInv
  <1>1. CASE CheckTx
    <2>1. /\ UNCHANGED <<ppc, txs, lately>> /\ apc = "check"
          /\ pool' = pool \/ (pool' = Append(pool, tx) /\ tx \notin Range(pool))
      BY Zenon, <1>1 DEF CheckTx, Admits, producer
    <2>2. Range(pool) \subseteq Range(pool')
      BY Zenon, <2>1, <1>t, AppendPool
    <2> QED BY Zenon, <2>1, <2>2 DEF TakenInv
  <1>2. CASE Produce
    <2>1. /\ UNCHANGED <<pool, lately>> /\ txs' = Oldest /\ ppc = "idle"
      BY Zenon, <1>2 DEF Produce, BlockMuFree, history
    <2>2. lately = {}
      BY <2>1 DEF TakenInv
    <2> QED BY Zenon, <2>1, <2>2, <1>t, OldestTaken DEF TakenInv
  <1>3. CASE ProducerApply
    <2>1. UNCHANGED <<pool, txs>> /\ ppc' = "append" /\ lately' = {txs[i] : i \in Ran(OwnBlock)}
      BY Zenon, <1>3 DEF ProducerApply
    <2>2. Ran(OwnBlock) \subseteq DOMAIN txs
      BY DEF Ran, OwnBlock
    <2>3. lately' \subseteq Range(txs)
      BY Zenon, <2>1, <2>2 DEF Range
    <2> QED BY Zenon, <2>1, <2>3 DEF TakenInv
  <1>4. CASE AppendBlock
    BY Zenon, <1>4 DEF AppendBlock, TakenInv
  <1>5. CASE RemoveIncluded
    <2>1. txs' = <<>> /\ lately' = lately /\ ppc = "remove"
      BY Zenon, <1>5 DEF RemoveIncluded
    <2>2. lately = {}
      BY <2>1 DEF TakenInv
    <2> QED BY Zenon, <2>1, <2>2, <1>e DEF TakenInv
  <1>6. CASE ProducerFails \/ Crash
    BY Zenon, <1>6, <1>e DEF ProducerFails, Crash, TakenInv
  <1>7. ASSUME NEW t \in Tx, Add(t) PROVE TakenInv'
    BY Zenon, <1>7, <1>u DEF Add, producer
  <1>8. CASE ReadNonce
    BY Zenon, <1>8, <1>u DEF ReadNonce, producer, history
  <1>9. ASSUME NEW b \in PeerBlock, NewBlock(b) PROVE TakenInv'
    BY Zenon, <1>9, <1>u DEF NewBlock, producer
  <1>10. ASSUME NEW v \in Addr, Slash(v) PROVE TakenInv'
    BY Zenon, <1>10, <1>u DEF Slash, producer, history
  <1>11. ASSUME NEW k \in Chain, Blocks(k) PROVE TakenInv'
    BY Zenon, <1>11, <1>u DEF Blocks, producer
  <1>12. CASE HandlerStep
    BY Zenon, <1>12, <1>u DEF HandlerStep, Reset, ReplayGenesis, ReplayBlock, producer
  <1>13. CASE SyncGenesis \/ SyncFails \/ HandlerFails
    BY Zenon, <1>13, <1>u DEF SyncGenesis, SyncFails, HandlerFails, producer
  <1>14. CASE UNCHANGED vars
    BY Zenon, <1>14, <1>u DEF vars, producer, history
  <1> QED
    BY Zenon, <1>1, <1>2, <1>3, <1>4, <1>5, <1>6, <1>7, <1>8, <1>9, <1>10, <1>11, <1>12, <1>13, <1>14
    DEF Next, AddStep, ProducerStep

\* A step that leaves the nonces, the pool and what was executed alone, and
\* lets no Add come to its end.
LEMMA ReplayQuiet ==
  ASSUME ReplayInv, UNCHANGED <<nonce, pool, executed, lately, forgot, ppc, txs>>,
         apc' = "check" => UNCHANGED <<apc, tx, non>>
  PROVE  ReplayInv'
  <1>1. \A t : (Due(t)' <=> Due(t)) /\ (Past(t)' <=> Past(t)) /\ (Out(t) => Out(t)')
    BY Zenon DEF Due, Past, Out
  <1> QED BY Zenon, <1>1 DEF ReplayInv

\* What the producer has executed has its nonce behind it: Add will see it.
LEMMA ReplayReadNonce ==
  ASSUME TypeInv, ReplayInv, ReadNonce PROVE ReplayInv'
  <1>1. UNCHANGED <<nonce, pool, executed, lately, forgot, ppc, txs, tx>>
        /\ apc' = "check" /\ non' = nonce[tx.from] /\ apc = "nonce"
    BY Zenon DEF ReadNonce, db, producer, history
  <1>2. tx \in Tx
    <2>1. apc # "idle"
      BY <1>1
    <2> QED BY Zenon, <2>1 DEF TypeInv, PoolType
  <1>3. nonce[tx.from] \in Nat
    BY Zenon, <1>2, MempoolAssumption, WordRemainder DEF TypeInv, DbType, Table
  <1>4. \A t : (Due(t)' <=> Due(t)) /\ (Past(t)' <=> Past(t))
    BY Zenon, <1>1 DEF Due, Past
  <1>5. non' <= nonce'[tx'.from] /\ ~(non' < nonce[tx.from])
    BY <1>1, <1>3
  <1>6. ASSUME NEW t \in executed PROVE Out(t)'
    <2>1. Past(t) /\ Out(t)
      BY Zenon DEF ReplayInv
    <2>2. CASE t.from \in forgot
      BY Zenon, <2>2, <1>1 DEF Out
    <2>3. CASE t.from \notin forgot
      <3>1. t.nonce < nonce[t.from]
        BY Zenon, <2>1, <2>3 DEF Past
      <3>2. ~(tx = t /\ t.nonce = non')
        BY Zenon, <3>1, <1>5
      <3> QED BY Zenon, <2>1, <2>3, <3>2, <1>1 DEF Out
    <2> QED BY <2>2, <2>3
  <1> QED BY Zenon, <1>1, <1>4, <1>5, <1>6 DEF ReplayInv

\* Add appends what is due and was not executed.
LEMMA ReplayCheckTx ==
  ASSUME TypeInv, ReplayInv, CheckTx PROVE ReplayInv'
  <1>1. UNCHANGED <<nonce, executed, lately, forgot, ppc, txs>> /\ apc = "check" /\ apc' = "idle"
    BY Zenon DEF CheckTx, db, producer
  <1>2. apc' # "check"
    BY <1>1
  <1>3. CASE ~Admits
    BY Zenon, <1>1, <1>2, <1>3, ReplayQuiet DEF CheckTx
  <1>4. CASE Admits
    <2>1. pool' = Append(pool, tx) /\ tx.nonce = non /\ tx \notin Range(pool)
      BY Zenon, <1>4 DEF CheckTx, Admits
    <2>2. Range(pool') = Range(pool) \cup {tx}
      BY Zenon, <1>1, <2>1, AppendPool DEF TypeInv
    <2>3. \A t : (Due(t)' <=> Due(t)) /\ (Past(t)' <=> Past(t))
      BY Zenon, <1>1 DEF Due, Past
    <2>4. Due(tx)
      BY Zenon, <1>1, <2>1 DEF ReplayInv, Due
    <2>5. ASSUME NEW t \in executed PROVE Out(t)'
      <3>1. Out(t)
        BY Zenon DEF ReplayInv
      <3>2. t.from \in forgot \/ t # tx
        BY Zenon, <3>1, <1>1, <2>1 DEF Out
      <3> QED BY Zenon, <3>1, <3>2, <1>1, <1>2, <2>2 DEF Out
    <2> QED BY Zenon, <1>1, <1>2, <2>2, <2>3, <2>4, <2>5 DEF ReplayInv
  <1> QED BY <1>3, <1>4

\* Nothing that the producer takes has been executed: that is not in the pool
\* between two blocks.
LEMMA ReplayProduce ==
  ASSUME TypeInv, ReplayInv, Produce PROVE ReplayInv'
  <1>1. UNCHANGED <<nonce, pool, executed, lately, forgot, apc, tx, non>> /\ ppc = "idle"
    BY Zenon DEF Produce, BlockMuFree, db, adder, history
  <1>2. ppc # "remove"
    BY <1>1
  <1>3. \A t : (Due(t)' <=> Due(t)) /\ (Past(t)' <=> Past(t)) /\ (Out(t) => Out(t)')
    BY Zenon, <1>1, <1>2 DEF Due, Past, Out
  <1> QED BY Zenon, <1>1, <1>3 DEF ReplayInv

\* A block of the producer or of a peer moves nonces on.
LEMMA ReplayBlockApplied ==
  ASSUME TypeInv, ReplayInv, NEW b, b.txs \in Seq(Tx), ApplyBlock(b),
         UNCHANGED <<pool, apc, tx, non, executed, txs>>, ppc' = "remove" <=> ppc = "remove"
  PROVE  /\ \A t \in Range(pool') : Due(t)'
         /\ (apc = "check" => tx.from \in forgot \/ non <= nonce[tx.from])'
         /\ \A t \in executed \cup lately : Past(t)'
         /\ \A t \in executed' : Out(t)'
  <1>t. nonce \in Table /\ forgot \subseteq Addr /\ executed \cup lately \subseteq Tx /\ pool \in Seq(Tx)
        /\ non \in Word
    BY Zenon DEF TypeInv, DbType, HistoryType, PoolType
  <1>1. forgot \subseteq forgot'
    BY Zenon, <1>t, NonceGrows
  <1>2. /\ \A t \in Tx : (Due(t) => Due(t)') /\ (Past(t) => Past(t)')
        /\ \A x \in Addr, n \in Word : x \in forgot \/ n <= nonce[x] =>
             x \in forgot' \/ n <= nonce'[x]
    BY Zenon, <1>t, NonceOnward
  <1>3. \A t \in Range(pool) : t \in Tx
    BY <1>t DEF Range
  <1>4. apc = "check" => tx.from \in Addr
    <2>1. apc = "check" => apc # "idle"
      OBVIOUS
    <2> QED BY Zenon, <2>1, PricedTx DEF TypeInv, PoolType
  <1>5. \A t \in Range(pool') : Due(t)'
    BY Zenon, <1>2, <1>3 DEF ReplayInv
  <1>6. (apc = "check" => tx.from \in forgot \/ non <= nonce[tx.from])'
    BY Zenon, <1>2, <1>4, <1>t DEF ReplayInv
  <1>7. \A t \in executed \cup lately : Past(t)'
    BY Zenon, <1>2, <1>t DEF ReplayInv
  <1>8. \A t \in executed' : Out(t)'
    BY Zenon, <1>1 DEF ReplayInv, Out
  <1> QED BY Zenon, <1>5, <1>6, <1>7, <1>8

\* A peer's block keeps what the producer has executed behind its sender's nonce.
LEMMA ReplayNewBlock ==
  ASSUME TypeInv, ReplayInv, NEW b \in PeerBlock, NewBlock(b) PROVE ReplayInv'
  <1>1. UNCHANGED <<pool, apc, tx, non, ppc, txs, executed, lately>> /\ ApplyBlock(b)
    BY Zenon DEF NewBlock, adder, producer
  <1>2. b.txs \in Seq(Tx)
    BY Zenon, BlockShape
  <1>3. /\ \A t \in Range(pool') : Due(t)'
        /\ (apc = "check" => tx.from \in forgot \/ non <= nonce[tx.from])'
        /\ \A t \in executed \cup lately : Past(t)'
        /\ \A t \in executed' : Out(t)'
    BY Zenon, <1>1, <1>2, ReplayBlockApplied
  <1> QED BY Zenon, <1>1, <1>3 DEF ReplayInv

\* The producer executes what it has taken; each of those was due, and is now
\* past.
LEMMA ReplayApply ==
  ASSUME TypeInv, TakenInv, ReplayInv, ProducerApply PROVE ReplayInv'
  <1>1. /\ UNCHANGED <<pool, apc, tx, non, txs, executed>> /\ ApplyBlock(OwnBlock)
        /\ ppc = "apply" /\ ppc' = "append" /\ lately' = {txs[i] : i \in Ran(OwnBlock)}
    BY Zenon DEF ProducerApply, adder
  <1>2. OwnBlock.txs \in Seq(Tx) /\ OwnBlock.txs = txs /\ txs \in Seq(Tx)
    BY Zenon, BlockShape DEF TypeInv
  <1>3. ppc' = "remove" <=> ppc = "remove"
    BY <1>1
  <1>4. /\ \A t \in Range(pool') : Due(t)'
        /\ (apc = "check" => tx.from \in forgot \/ non <= nonce[tx.from])'
        /\ \A t \in executed \cup lately : Past(t)'
        /\ \A t \in executed' : Out(t)'
    BY Zenon, <1>1, <1>2, <1>3, ReplayBlockApplied
  <1>t. nonce \in Table /\ forgot \subseteq Addr
    BY Zenon DEF TypeInv, DbType, HistoryType
  <1>5. /\ nonce' \in Table /\ forgot \subseteq forgot'
        /\ \A i \in Ran(OwnBlock) : txs[i].from \notin forgot' =>
             nonce[txs[i].from] < nonce'[txs[i].from]
    BY Zenon, <1>1, <1>2, <1>t, NonceGrows
  <1>6. ASSUME NEW i \in Ran(OwnBlock) PROVE Past(txs[i])'
    <2> DEFINE t == txs[i]
    <2>1. i \in DOMAIN txs
      BY DEF Ran, OwnBlock
    <2>2. t \in Tx /\ t \in Range(txs)
      BY <1>2, <2>1 DEF Range
    <2>3. Due(t)
      BY Zenon, <2>2 DEF TakenInv, ReplayInv
    <2>4. t.from \in Addr /\ t.nonce \in Word
      BY <2>2, MempoolAssumption
    <2>5. t.nonce \in Nat /\ nonce[t.from] \in Nat /\ nonce'[t.from] \in Nat
      BY Zenon, <2>4, <1>t, <1>5, WordRemainder DEF Table
    <2>6. t.from \notin forgot' => t.nonce <= nonce[t.from] /\ nonce[t.from] < nonce'[t.from]
      BY Zenon, <2>3, <1>5 DEF Due
    <2>7. txs'[i] = t
      BY <1>1
    <2> HIDE DEF t
    <2>8. t.from \in forgot' \/ t.nonce < nonce'[t.from]
      BY <2>5, <2>6
    <2> QED BY Zenon, <2>7, <2>8 DEF Past
  <1>7. \A t \in lately' : Past(t)'
    BY Zenon, <1>1, <1>6
  <1> QED BY Zenon, <1>1, <1>4, <1>7 DEF ReplayInv

\* The block is stored; its transactions are still in the pool.
LEMMA ReplayAppend ==
  ASSUME TypeInv, TakenInv, ReplayInv, AppendBlock PROVE ReplayInv'
  <1>1. UNCHANGED <<nonce, pool, forgot, apc, tx, non, txs>> /\ ppc = "append" /\ ppc' = "remove"
        /\ executed' = executed \cup lately /\ lately' = {}
    BY Zenon DEF AppendBlock, db, adder
  <1>2. ppc # "remove"
    BY <1>1
  <1>3. \A t : (Due(t)' <=> Due(t)) /\ (Past(t)' <=> Past(t)) /\ (Out(t) => Out(t)')
    BY Zenon, <1>1, <1>2 DEF Due, Past, Out
  <1>4. \A t \in lately : Out(t)'
    BY Zenon, <1>1 DEF TakenInv, Out
  <1> QED BY Zenon, <1>1, <1>3, <1>4 DEF ReplayInv

\* What was executed leaves the pool while no Add is under way.
LEMMA ReplayRemove ==
  ASSUME TypeInv, ReplayInv, RemoveIncluded PROVE ReplayInv'
  <1>1. UNCHANGED <<nonce, executed, lately, forgot>> /\ apc' = "idle"
        /\ pool' = Drop(pool, Range(txs)) /\ pool \in Seq(Tx)
    BY Zenon DEF RemoveIncluded, NotIn, db, adder, TypeInv, PoolType
  <1>2. Range(pool') = Range(pool) \ Range(txs)
    <2>1. Range(Drop(pool, Range(txs))) = Range(pool) \ Range(txs)
      BY Zenon, <1>1, DropRange
    <2> QED BY Zenon, <2>1, <1>1
  <1>3. apc' # "check"
    BY <1>1
  <1>4. \A t : (Due(t)' <=> Due(t)) /\ (Past(t)' <=> Past(t)) /\ (Out(t) => Out(t)')
    BY Zenon, <1>1, <1>2, <1>3 DEF Due, Past, Out
  <1> QED BY Zenon, <1>1, <1>2, <1>3, <1>4 DEF ReplayInv

\* A block that was executed and could not be appended is not counted.
LEMMA ReplayFails ==
  ASSUME TypeInv, ReplayInv, ProducerFails PROVE ReplayInv'
  <1>1. UNCHANGED <<nonce, pool, executed, forgot, apc, tx, non>>
        /\ ppc \in {"apply", "append"} /\ lately' = {}
    BY Zenon DEF ProducerFails, db, adder
  <1>2. ppc # "remove"
    BY <1>1
  <1>3. \A t : (Due(t)' <=> Due(t)) /\ (Past(t)' <=> Past(t)) /\ (Out(t) => Out(t)')
    BY Zenon, <1>1, <1>2 DEF Due, Past, Out
  <1> QED BY Zenon, <1>1, <1>3 DEF ReplayInv

\* After a crash the pool is empty and no Add is under way.
LEMMA ReplayCrash ==
  ASSUME ReplayInv, Crash PROVE ReplayInv'
  <1>1. UNCHANGED <<nonce, forgot>> /\ pool' = <<>> /\ apc' = "idle"
        /\ executed' = executed \cup lately /\ lately' = {}
    BY Zenon DEF Crash, db
  <1>2. Range(<<>>) = {}
    BY DEF Range
  <1>3. apc' # "check"
    BY <1>1
  <1>4. \A t : (Past(t)' <=> Past(t)) /\ Out(t)'
    BY Zenon, <1>1, <1>2, <1>3 DEF Past, Out
  <1> QED BY Zenon, <1>1, <1>2, <1>3, <1>4 DEF ReplayInv

\* Every step of the pool, its clients, the producer and the handlers.
LEMMA PoolStep == PoolInv /\ [Next]_vars => PoolInv'
  <1> SUFFICES ASSUME PoolInv, [Next]_vars PROVE PoolInv'
    OBVIOUS
  <1>t. TypeInv /\ TakenInv /\ (~reorged => ReplayInv) /\ TypeInv' /\ TakenInv'
    BY Zenon, TypeStep, TakenStep DEF PoolInv
  <1> SUFFICES ASSUME ~reorged' PROVE ReplayInv'
    BY Zenon, <1>t DEF PoolInv
  <1>h. hpc \in {"reset", "genesis", "replay"} => reorged
    BY Zenon, <1>t DEF TypeInv, HandlerType
  <1>1. ASSUME NEW t \in Tx, Add(t) PROVE ReplayInv'
    <2>1. UNCHANGED <<nonce, pool, executed, lately, forgot, ppc, txs, reorged>> /\ apc' = "nonce"
      BY Zenon, <1>1 DEF Add, db, producer
    <2>2. apc' # "check"
      BY <2>1
    <2> QED BY Zenon, <2>1, <2>2, <1>t, ReplayQuiet
  <1>2. CASE ReadNonce
    BY Zenon, <1>2, <1>t, ReplayReadNonce DEF ReadNonce, history
  <1>3. CASE CheckTx
    BY Zenon, <1>3, <1>t, ReplayCheckTx DEF CheckTx
  <1>4. CASE Produce
    BY Zenon, <1>4, <1>t, ReplayProduce DEF Produce, history
  <1>5. CASE ProducerApply
    BY Zenon, <1>5, <1>t, ReplayApply DEF ProducerApply
  <1>6. CASE AppendBlock
    BY Zenon, <1>6, <1>t, ReplayAppend DEF AppendBlock
  <1>7. CASE RemoveIncluded
    BY Zenon, <1>7, <1>t, ReplayRemove DEF RemoveIncluded
  <1>8. ASSUME NEW b \in PeerBlock, NewBlock(b) PROVE ReplayInv'
    BY Zenon, <1>8, <1>t, ReplayNewBlock DEF NewBlock
  <1>9. ASSUME NEW v \in Addr, Slash(v) PROVE ReplayInv'
    BY Zenon, <1>9, <1>t, ReplayQuiet DEF Slash, adder, producer, history
  <1>10. ASSUME NEW k \in Chain, Blocks(k) PROVE ReplayInv'
    BY Zenon, <1>10 DEF Blocks, Rewinds
  <1>11. CASE HandlerStep \/ HandlerFails
    <2>1. reorged' = reorged /\ hpc \in {"reset", "genesis", "replay"}
      BY <1>11 DEF HandlerStep, Reset, ReplayGenesis, ReplayBlock, HandlerFails
    <2> QED BY Zenon, <2>1, <1>h
  <1>12. CASE SyncGenesis \/ SyncFails
    BY Zenon, <1>12 DEF SyncGenesis, SyncFails, Rewinds
  <1>13. CASE ProducerFails
    BY Zenon, <1>13, <1>t, ReplayFails DEF ProducerFails
  <1>14. CASE Crash
    BY Zenon, <1>14, <1>t, ReplayCrash DEF Crash
  <1>15. CASE UNCHANGED vars
    BY Zenon, <1>15, <1>t, ReplayQuiet DEF vars, db, adder, producer, history
  <1> QED
    BY Zenon, <1>1, <1>2, <1>3, <1>4, <1>5, <1>6, <1>7, <1>8, <1>9, <1>10, <1>11, <1>12, <1>13, <1>14,
       <1>15
    DEF Next, AddStep, ProducerStep

\* In the producer's turn nothing of its block has been executed by it before.
LEMMA NoReplayStep ==
  PoolInv /\ [Next]_vars =>
    [ppc = "apply" /\ ppc' = "append" /\ ~reorged =>
       \A i \in Ran(OwnBlock) : txs[i].from \in forgot \/ txs[i] \notin executed]_vars
  <1> SUFFICES ASSUME PoolInv, ppc = "apply", ~reorged, NEW i \in Ran(OwnBlock), txs[i] \in executed
               PROVE  txs[i].from \in forgot
    BY Zenon
  <1>1. i \in DOMAIN txs /\ ppc # "remove"
    BY DEF Ran, OwnBlock
  <1>2. txs[i] \in Range(pool)
    BY Zenon, <1>1 DEF PoolInv, TakenInv, Range
  <1>3. Out(txs[i])
    BY Zenon DEF PoolInv, ReplayInv
  <1> QED BY Zenon, <1>1, <1>2, <1>3 DEF Out

\* Add alone keeps executed transactions out of the producer's blocks, and its
\* stale reads, peers' blocks, slashings, failed writes and crashes do not
\* defeat it, as long as no chain is replayed.
THEOREM NoReplayCorrect == Spec => NoReplay
  BY PoolInit, PoolStep, NoReplayStep, PTL DEF Spec, NoReplay

-----------------------------------------------------------------------------
(* What Add's balance check is worth later. *)

\* The sender of a fresh transaction in the pool can pay for it, and what Add
\* has read of a balance is no more than the sender has.
FreshInv ==
  /\ \A t \in fresh \cap Range(pool) : balance[t.from] >= TxTotal(t)
  /\ apc # "idle" /\ tx \in fresh \ Range(pool) => bal <= balance[tx.from]

FundsInv == PoolInv /\ FreshInv

\* Add reads the balance.
LEMMA FreshAdd ==
  ASSUME TypeInv, FreshInv, NEW t \in Tx, Add(t) PROVE FreshInv'
  <1>1. UNCHANGED <<balance, pool>> /\ tx' = t /\ bal' = balance[t.from]
        /\ fresh' \cap Range(pool) = fresh \cap Range(pool)
    BY Zenon DEF Add, db
  <1>2. balance[t.from] \in Word
    BY Zenon, PricedTx DEF TypeInv, DbType, Table
  <1>3. balance[t.from] <= balance[t.from]
    BY <1>2, PricedTx DEF Word
  <1> QED BY Zenon, <1>1, <1>3 DEF FreshInv

\* What Add admits its sender can pay, unless it has spent since: then it is
\* not fresh any more.
LEMMA FreshCheckTx ==
  ASSUME TypeInv, FreshInv, CheckTx PROVE FreshInv'
  <1>1. balance' = balance /\ apc = "check" /\ apc' = "idle" /\ fresh' = fresh \cap Range(pool')
    BY Zenon DEF CheckTx, db
  <1>2. apc # "idle" /\ ~(apc' # "idle")
    BY <1>1
  <1>3. CASE ~Admits
    BY Zenon, <1>1, <1>2, <1>3 DEF CheckTx, FreshInv
  <1>4. CASE Admits
    <2>1. pool' = Append(pool, tx) /\ bal >= TxTotal(tx) /\ tx \notin Range(pool)
      BY Zenon, <1>4 DEF CheckTx, Admits
    <2>2. Range(pool') = Range(pool) \cup {tx}
      BY Zenon, <1>1, <2>1, AppendPool DEF TypeInv
    <2>3. tx \in fresh => balance[tx.from] >= TxTotal(tx)
      <3>1. tx \in Tx /\ bal \in Word
        BY Zenon, <1>2 DEF TypeInv, PoolType
      <3>2. tx.from \in Addr /\ TxTotal(tx) \in Word
        BY Zenon, <3>1, PricedTx, WrapSum DEF TxTotal
      <3>3. balance[tx.from] \in Word
        BY Zenon, <3>2 DEF TypeInv, DbType, Table
      <3>4. tx \in fresh => bal <= balance[tx.from]
        BY Zenon, <1>2, <2>1 DEF FreshInv
      <3>5. \A u, v, w \in Word : u >= v /\ u <= w => w >= v
        BY PricedTx DEF Word
      <3> QED BY Zenon, <2>1, <3>1, <3>2, <3>3, <3>4, <3>5
    <2>4. \A t \in fresh' \cap Range(pool') : t \in fresh /\ (t = tx \/ t \in Range(pool))
      BY Zenon, <1>1, <2>2
    <2> QED BY Zenon, <1>1, <1>2, <2>3, <2>4 DEF FreshInv
  <1> QED BY <1>3, <1>4

\* A block takes nothing from the senders of the transactions that stay fresh.
LEMMA FreshBlock ==
  ASSUME TypeInv, FreshInv, NEW b, b.validator \in Addr, b.txs \in Seq(Tx), ApplyBlock(b),
         UNCHANGED <<pool, apc, tx, bal>>
  PROVE  FreshInv'
  <1>1. /\ balance \in Table /\ bal \in Word /\ fresh \subseteq Tx
        /\ apc # "idle" => tx \in Tx
    BY Zenon DEF TypeInv, DbType, PoolType, HistoryType
  <1>2. /\ balance' \in Table /\ fresh' \subseteq fresh
        /\ \A t \in fresh' \cap Tx : balance[t.from] <= balance'[t.from]
    BY Zenon, <1>1, FreshKeeps
  <1>3. \A t \in Tx : balance[t.from] \in Word /\ balance'[t.from] \in Word /\ TxTotal(t) \in Word
    <2>1. \A t \in Tx : TxTotal(t) \in Word
      BY Zenon, PricedTx, WrapSum DEF TxTotal
    <2> QED BY Zenon, <1>1, <1>2, <2>1, PricedTx DEF Table
  <1>4. \A u, v, w \in Word : u <= v => (w <= u => w <= v) /\ (u >= w => v >= w)
    BY PricedTx DEF Word
  <1>5. \A t \in fresh' \cap Range(pool) : balance'[t.from] >= TxTotal(t)
    <2>1. \A t \in fresh' \cap Range(pool) : t \in Tx /\ t \in fresh' /\ balance[t.from] >= TxTotal(t)
      BY Zenon, <1>1, <1>2 DEF FreshInv
    <2> QED BY Zenon, <2>1, <1>2, <1>3, <1>4
  <1>6. apc # "idle" /\ tx \in fresh' \ Range(pool) => bal <= balance'[tx.from]
    <2>1. apc # "idle" /\ tx \in fresh' \ Range(pool) => tx \in Tx /\ bal <= balance[tx.from]
      BY Zenon, <1>1, <1>2 DEF FreshInv
    <2> QED BY Zenon, <2>1, <1>1, <1>2, <1>3, <1>4
  <1> QED BY Zenon, <1>5, <1>6 DEF FreshInv

\* Every step of the pool, its clients, the producer and the handlers.
LEMMA FundsStep == FundsInv /\ [Next]_vars => FundsInv'
  <1> SUFFICES ASSUME FundsInv, [Next]_vars PROVE FreshInv'
    BY Zenon, PoolStep DEF FundsInv
  <1>t. TypeInv /\ FreshInv /\ ProducerType
    BY Zenon DEF FundsInv, PoolInv, TypeInv
  <1>u. UNCHANGED <<balance, pool, apc, tx, bal, fresh>> => FreshInv'
    BY Zenon, <1>t DEF FreshInv
  <1>e. fresh' = {} => FreshInv'
    BY Zenon DEF FreshInv
  <1>1. ASSUME NEW t \in Tx, Add(t) PROVE FreshInv'
    BY Zenon, <1>1, <1>t, FreshAdd
  <1>2. CASE ReadNonce
    <2>1. UNCHANGED <<balance, pool, tx, bal, fresh>> /\ apc = "nonce"
      BY Zenon, <1>2 DEF ReadNonce, db, history
    <2>2. apc # "idle"
      BY <2>1
    <2> QED BY Zenon, <2>1, <2>2, <1>t DEF FreshInv
  <1>3. CASE CheckTx
    BY Zenon, <1>3, <1>t, FreshCheckTx
  <1>4. CASE Produce \/ AppendBlock \/ ProducerFails \/ HandlerFails
    BY Zenon, <1>4, <1>u DEF Produce, AppendBlock, ProducerFails, HandlerFails, db, adder, history
  <1>5. CASE ProducerApply
    <2>1. UNCHANGED <<pool, apc, tx, bal>> /\ ApplyBlock(OwnBlock)
      BY Zenon, <1>5 DEF ProducerApply, adder
    <2> QED BY Zenon, <2>1, <1>t, BlockShape, FreshBlock
  <1>6. CASE RemoveIncluded
    <2>1. balance' = balance /\ apc' = "idle" /\ fresh' = fresh \cap Range(pool')
          /\ pool' = Drop(pool, Range(txs)) /\ pool \in Seq(Tx)
      BY Zenon, <1>6, <1>t DEF RemoveIncluded, NotIn, db, adder, TypeInv, PoolType
    <2>2. Range(pool') = Range(pool) \ Range(txs)
      <3>1. Range(Drop(pool, Range(txs))) = Range(pool) \ Range(txs)
        BY Zenon, <2>1, DropRange
      <3> QED BY Zenon, <3>1, <2>1
    <2> QED BY Zenon, <2>1, <2>2, <1>t DEF FreshInv
  <1>7. ASSUME NEW b \in PeerBlock, NewBlock(b) PROVE FreshInv'
    <2>1. UNCHANGED <<pool, apc, tx, bal>> /\ ApplyBlock(b)
      BY Zenon, <1>7 DEF NewBlock, adder
    <2> QED BY Zenon, <2>1, <1>t, BlockShape, FreshBlock
  <1>8. CASE ReplayBlock
    <2>1. UNCHANGED <<pool, apc, tx, bal>> /\ ApplyBlock(Head(todo)) /\ hpc = "replay"
      BY Zenon, <1>8 DEF ReplayBlock, adder
    <2>2. todo \in Seq(PeerBlock) /\ todo # <<>>
      BY Zenon, <2>1, <1>t DEF TypeInv, HandlerType
    <2>3. Head(todo) \in PeerBlock
      BY <2>2
    <2> QED BY Zenon, <2>1, <2>3, <1>t, BlockShape, FreshBlock
  <1>9. ASSUME NEW v \in Addr, Slash(v) PROVE FreshInv'
    BY Zenon, <1>9, <1>u DEF Slash, adder, history
  <1>10. ASSUME NEW k \in Chain, Blocks(k) PROVE FreshInv'
    BY Zenon, <1>10, <1>u DEF Blocks, db, adder
  <1>11. CASE Reset \/ ReplayGenesis \/ SyncGenesis \/ Crash
    BY Zenon, <1>11, <1>e DEF Reset, ReplayGenesis, SyncGenesis, WriteGenesis, Crash
  <1>12. CASE SyncFails
    BY Zenon, <1>12, <1>e, <1>u DEF SyncFails, WriteGenesis, db, adder
  <1>13. CASE UNCHANGED vars
    BY Zenon, <1>13, <1>u DEF vars, db, adder, history
  <1> QED
    BY Zenon, <1>1, <1>2, <1>3, <1>4, <1>5, <1>6, <1>7, <1>8, <1>9, <1>10, <1>11, <1>12, <1>13
    DEF Next, AddStep, ProducerStep, HandlerStep

\* A node starts with an empty pool.
LEMMA FundsInvariant == Spec => []FundsInv
  <1>1. Init => FreshInv
    BY Zenon DEF Init, FreshInv
  <1>2. Init => FundsInv
    BY <1>1, PoolInit DEF FundsInv
  <1> QED BY <1>2, FundsStep, PTL DEF Spec

\* A transaction that the block skips cannot be paid for when its turn comes.
\* If it is fresh its sender could pay before the block, and an account that
\* did not spend and was not overpaid has lost nothing.
LEMMA SkipStep ==
  FundsInv /\ [Next]_vars =>
    [ppc = "apply" /\ ppc' = "append" =>
       \A i \in DOMAIN txs \ Ran(OwnBlock) :
         \/ txs[i] \notin fresh
         \/ \E j \in Ran(OwnBlock) :
              /\ j < i
              /\ txs[i].from = txs[j].from \/ (txs[i].from = txs[j].to /\ Overflows(OwnBlock, j))]_vars
  <1> SUFFICES ASSUME FundsInv, NEW i \in DOMAIN txs, i \notin Ran(OwnBlock), txs[i] \in fresh,
                      \A j \in Ran(OwnBlock) : j < i =>
                        /\ txs[j].from # txs[i].from
                        /\ ~(txs[j].to = txs[i].from /\ Overflows(OwnBlock, j))
               PROVE  FALSE
    BY Zenon
  <1> DEFINE x == txs[i].from
  <1>1. txs \in Seq(Tx) /\ OwnBlock.txs = txs /\ balance \in Table /\ txs[i] \in Tx
    <2>1. TypeInv /\ ProducerType
      BY Zenon DEF FundsInv, PoolInv, TypeInv
    <2>2. txs \in Seq(Tx) /\ OwnBlock.txs = txs /\ balance \in Table
      BY Zenon, <2>1, BlockShape DEF TypeInv, DbType
    <2> QED BY <2>2
  <1>2. txs[i] \in Range(pool)
    BY Zenon DEF FundsInv, PoolInv, TakenInv, Range
  <1>3. balance[x] >= TxTotal(txs[i])
    BY Zenon, <1>2 DEF FundsInv, FreshInv
  <1>4. x \in Addr /\ txs[i].amount \in Word /\ txs[i].fee \in Word
    BY Zenon, <1>1, PricedTx
  <1>5. i - 1 \in 0 .. Len(txs) /\ i \in Nat /\ \A j \in DOMAIN txs : j <= i - 1 => j < i
    BY <1>1
  <1>6. \A j \in Ran(OwnBlock) : j <= i - 1 =>
          OwnBlock.txs[j].from # x /\ ~(OwnBlock.txs[j].to = x /\ Overflows(OwnBlock, j))
    <2>1. \A j \in Ran(OwnBlock) : j \in DOMAIN txs
      BY Zenon, <1>1 DEF Ran
    <2> QED BY Zenon, <2>1, <1>1, <1>5
  <1>7. balance[x] <= After(OwnBlock, i-1)[x] /\ balance[x] \in Word
        /\ After(OwnBlock, i-1)[x] \in Word
    <2>1. OwnBlock.txs \in Seq(Tx) /\ i - 1 \in 0 .. Len(OwnBlock.txs)
      BY Zenon, <1>1, <1>5
    <2> HIDE DEF x
    <2> QED BY Zenon, <1>1, <1>4, <1>6, <2>1, NoLoss
  <1>8. ~(After(OwnBlock, i-1)[x] >= TxTotal(txs[i]))
    BY Zenon, <1>1 DEF Ran, Executes, After
  <1>9. TxTotal(txs[i]) \in Word
    BY Zenon, <1>4, WrapSum DEF TxTotal
  <1>10. \A u, v, w \in Word : u >= w /\ u <= v => v >= w
    BY PricedTx DEF Word
  <1> QED BY Zenon, <1>3, <1>7, <1>8, <1>9, <1>10

\* ApplyBlock, called by the producer, skips a pooled transaction only because
\* its sender spent, or was credited past the end of uint64, after Add had
\* read the balance: Add's race with the producer adds no other reason.
THEOREM SkipCorrect == Spec => SkipJustified
  BY FundsInvariant, SkipStep, PTL DEF Spec, SkipJustified
=============================================================================
