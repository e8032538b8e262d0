--------------------------- MODULE ExplorerProofs ---------------------------
(***************************************************************************)
(* What the readers of the chain are shown, for every set of blocks and    *)
(* addresses, every page size and any number of failures.                  *)
(*                                                                         *)
(* TipInv is why: SetTip keeps Chain.mu for good, so every chain a reader  *)
(* gets to walk is one the node made itself, and its heights count its     *)
(* blocks.  Those of received blocks need not, nobody compares them with   *)
(* their parents', and their files are listed before the tip moves.        *)
(* ReaderInv follows a request through the locks it takes and gives up:    *)
(* what it has collected stays on a chain that is readable until it ends.  *)
(***************************************************************************)
EXTENDS Explorer, ChainProofs

\* Facts about sequences that the proofs below use often.
LEMMA SeqDomain ==
  ASSUME NEW s \in Seq(Block)
  PROVE  Len(s) \in Nat /\ DOMAIN s = 1 .. Len(s) /\ \A i \in 1 .. Len(s) : s[i] \in Range(s)
  <1>1. Len(s) \in Nat /\ DOMAIN s = 1 .. Len(s)
    OBVIOUS
  <1> QED BY Zenon, <1>1 DEF Range

LEMMA SeqAlone ==
  ASSUME NEW s \in Seq(Block) PROVE Len(s) + Len(<<>>) = Len(s)
  OBVIOUS

\* Facts about places on a chain of n blocks, k of them behind a walk down.
LEMMA Squeezed == \A x, y \in Nat : x <= y /\ x >= y => x = y
  OBVIOUS

LEMMA FirstPlace == \A x \in Nat : x <= x /\ (0 >= x => x = 0)
  OBVIOUS

LEMMA PlaceBelow ==
  ASSUME NEW n \in Nat, NEW k \in Nat, k < n
  PROVE  n - k \in 1 .. n /\ (n - k # 1 => (n - k) - 1 \in 1 .. n)
  OBVIOUS

LEMMA PlaceAbove ==
  ASSUME NEW n \in Nat, NEW h \in Nat, NEW i \in 1 .. n, i >= h + 1
  PROVE  i \in Nat /\ i - 1 >= h
  OBVIOUS

LEMMA PlaceWithin ==
  ASSUME NEW f \in Nat, NEW d \in Nat, NEW j \in 1 .. d
  PROVE  f + j \in 1 .. f + d
  OBVIOUS

-----------------------------------------------------------------------------
(* GetBlocksFrom on one chain. *)

\* How many blocks of the chain to b an answer from height f on should have.
Due(b, f, m) == IF f + m > Len(PathTo[b]) THEN Len(PathTo[b]) - f ELSE m

\* The hashes of a walk down from b: its blocks from the end, all above height f.
Down(b, f, hs) ==
  /\ Len(hs) <= Len(PathTo[b])
  /\ \A i \in 1 .. Len(hs) :
       hs[i] = PathTo[b][Len(PathTo[b]) + 1 - i] /\ hs[i].height > f

\* The block that comes next on the walk, if it is one.
NextDown(b, hs, c) ==
  c \in Block => Len(hs) < Len(PathTo[b]) /\ c = PathTo[b][Len(PathTo[b]) - Len(hs)]

\* The hashes kept at the end: as many blocks as are due, from height f on.
Collected(b, f, m, ks) ==
  /\ Due(b, f, m) \in Nat \ {0} /\ f + Due(b, f, m) <= Len(PathTo[b])
  /\ ks \in Seq(Block) /\ Len(ks) = Due(b, f, m)
  /\ \A i \in 1 .. Len(ks) : ks[i] = PathTo[b][f + Due(b, f, m) + 1 - i]

\* The walk goes on.
LEMMA WalkOn ==
  ASSUME NEW b \in Block, NEW f \in Nat, NEW hs \in Seq(Block), NEW c \in Block,
         Down(b, f, hs), NextDown(b, hs, c), c.height > f
  PROVE  Down(b, f, Append(hs, c)) /\ NextDown(b, Append(hs, c), c.prev)
  <1> DEFINE p == PathTo[b]
             n == Len(PathTo[b])
             k == Len(hs)
             gs == Append(hs, c)
  <1>1. p \in Seq(Block) /\ n \in Nat \ {0} /\ k \in Nat /\ k < n /\ c = p[n - k]
    BY PathPlaces DEF NextDown
  <1>2. /\ gs \in Seq(Block) /\ Len(gs) = k + 1 /\ gs[k + 1] = c
        /\ \A i \in 1 .. k : gs[i] = hs[i]
    OBVIOUS
  <1> HIDE DEF p, n, k, gs
  <1>3. ASSUME NEW i \in 1 .. Len(gs) PROVE gs[i] = p[n + 1 - i] /\ gs[i].height > f
    <2>1. CASE i = k + 1
      <3>1. n + 1 - i = n - k
        BY <2>1, <1>1
      <3> QED BY <2>1, <3>1, <1>1, <1>2
    <2>2. CASE i # k + 1
      <3>1. i \in 1 .. k
        BY <2>2, <1>1, <1>2
      <3>2. hs[i] = p[n + 1 - i] /\ hs[i].height > f
        BY <3>1 DEF Down, p, n, k
      <3> QED BY <3>1, <3>2, <1>2
    <2> QED BY Zenon, <2>1, <2>2
  <1>4. Len(gs) <= n
    BY <1>1, <1>2
  <1>5. Down(b, f, gs)
    BY <1>3, <1>4 DEF Down, p, n
  <1>6. ASSUME c.prev \in Block PROVE Len(gs) < n /\ c.prev = p[n - Len(gs)]
    <2>1. n - k \in 1 .. n
      BY <1>1
    <2>2. n - k # 1 /\ c.prev = p[(n - k) - 1]
      BY Zenon, <2>1, <1>1, <1>6, PathPrev DEF p, n
    <2>3. k + 1 < n /\ (n - k) - 1 = n - (k + 1)
      BY <2>2, <1>1
    <2> QED BY <2>2, <2>3, <1>2
  <1> QED BY Zenon, <1>5, <1>6 DEF NextDown, p, n, gs

\* The walk ends: at the block of height f, and what is kept are the blocks due.
LEMMA WalkEnd ==
  ASSUME NEW b \in Block, Counted(b), NEW f \in Nat, NEW m \in Nat \ {0},
         NEW hs \in Seq(Block), NEW c \in Block, b.height >= f,
         Down(b, f, hs), NextDown(b, hs, c), c.height <= f \/ c.prev = ZeroHash,
         NEW ks, ks = KeepLowest(IF c.height < f THEN hs ELSE Append(hs, c), m)
  PROVE  Collected(b, f, m, ks)
  <1> DEFINE p == PathTo[b]
             n == Len(PathTo[b])
             k == Len(hs)
             gs == Append(hs, c)
             d == Due(b, f, m)
  <1>1. p \in Seq(Block) /\ n \in Nat \ {0} /\ k \in Nat /\ k < n /\ c = p[n - k]
    BY PathPlaces DEF NextDown
  <1>2. /\ gs \in Seq(Block) /\ Len(gs) = k + 1 /\ gs[k + 1] = c
        /\ \A i \in 1 .. k : gs[i] = hs[i]
    OBVIOUS
  <1>3. \A i \in 1 .. n : p[i].height = i - 1
    BY <1>1 DEF Counted
  <1>4. b.height = n - 1
    BY CountedPlace
  <1>5. d = IF f + m > n THEN n - f ELSE m
    BY DEF Due
  <1> HIDE DEF p, n, k, gs, d
  <1>6. c.height = n - k - 1
    <2>1. n - k \in 1 .. n
      BY <1>1
    <2> QED BY Zenon, <2>1, <1>1, <1>3
  <1>7. c.height = f
    <2>1. c.height >= f
      <3>1. CASE k = 0
        BY <3>1, <1>1, <1>4, <1>6
      <3>2. CASE k # 0
        <4>1. k \in 1 .. k /\ n + 1 - k \in 1 .. n
          BY <3>2, <1>1
        <4>2. hs[k] = p[n + 1 - k] /\ hs[k].height > f
          BY <4>1 DEF Down, p, n, k
        <4>3. hs[k].height = n - k
          BY <4>1, <4>2, <1>3, <1>1
        <4> QED BY <4>2, <4>3, <1>1, <1>6
      <3> QED BY <3>1, <3>2
    <2>2. CASE c.height <= f
      BY Zenon, <2>1, <2>2, HeightOfBlock, Squeezed
    <2>3. CASE c.prev = ZeroHash
      <3>1. n - k \in 1 .. n /\ c.prev \notin Block
        BY <2>3, <1>1, BlockAssumption
      <3>2. \A i \in 1 .. n : p[i] \in Block
        BY <1>1 DEF n, p
      <3>3. n - k = 1
        <4> SUFFICES ASSUME n - k # 1 PROVE FALSE
          BY Zenon
        <4>1. c.prev = p[(n - k) - 1] /\ (n - k) - 1 \in 1 .. n
          <5>1. c.prev = p[(n - k) - 1]
            BY Zenon, <3>1, <1>1, PathPrev DEF p, n
          <5>2. n \in Nat /\ k \in Nat /\ k < n
            BY Zenon, <1>1
          <5> QED BY Zenon, <5>1, <5>2, PlaceBelow
        <4> QED BY Zenon, <4>1, <3>1, <3>2
      <3>4. c.height = 0
        BY <3>3, <1>6
      <3> QED BY Zenon, <3>4, <2>1, FirstPlace
    <2> QED BY <2>2, <2>3
  <1>8. f = n - k - 1 /\ k + 1 = n - f
    BY <1>6, <1>7, <1>1
  <1>9. ASSUME NEW i \in 1 .. Len(gs) PROVE gs[i] = p[n + 1 - i]
    <2>1. CASE i = k + 1
      <3>1. n + 1 - i = n - k
        BY <2>1, <1>1
      <3> QED BY Zenon, <2>1, <3>1, <1>1, <1>2
    <2>2. CASE i # k + 1
      <3>1. i \in 1 .. k
        BY <2>2, <1>1, <1>2
      <3>2. hs[i] = p[n + 1 - i]
        BY Zenon, <3>1 DEF Down, p, n, k
      <3> QED BY Zenon, <3>1, <3>2, <1>2
    <2> QED BY Zenon, <2>1, <2>2
  <1>10. ks = KeepLowest(gs, m)
    BY <1>7 DEF gs
  <1>11. CASE Len(gs) > m
    <2>1. d = m /\ f + d <= n
      BY <1>11, <1>1, <1>2, <1>5, <1>8
    <2>2. ks = SubSeq(gs, Len(gs) - m + 1, Len(gs))
      BY Zenon, <1>10, <1>11 DEF KeepLowest
    <2>3. /\ ks \in Seq(Block) /\ Len(ks) = m
          /\ \A i \in 1 .. m : ks[i] = gs[(Len(gs) - m) + i]
      <3>1. gs \in Seq(Block) /\ Len(gs) \in Nat /\ m <= Len(gs)
        BY <1>11, <1>2, <1>1
      <3> DEFINE a == Len(gs) - m + 1
                 z == Len(gs)
      <3>2. a \in Int /\ z \in Int /\ a <= z /\ z - a + 1 = m /\ \A i \in a .. z : gs[i] \in Block
        BY <3>1
      <3>3. \A i \in 1 .. m : a + i - 1 = (Len(gs) - m) + i
        BY <3>1
      <3> HIDE DEF a, z
      <3>4. /\ SubSeq(gs, a, z) \in Seq(Block)
            /\ Len(SubSeq(gs, a, z)) = IF a <= z THEN z - a + 1 ELSE 0
            /\ \A i \in 1 .. z - a + 1 : SubSeq(gs, a, z)[i] = gs[a + i - 1]
        BY <3>2, SubSeqProperties
      <3>5. ks = SubSeq(gs, a, z)
        BY <2>2 DEF a, z
      <3> QED BY Zenon, <3>2, <3>3, <3>4, <3>5
    <2>4. ASSUME NEW i \in 1 .. Len(ks) PROVE ks[i] = p[f + d + 1 - i]
      <3>1. (Len(gs) - m) + i \in 1 .. Len(gs) /\ n + 1 - ((Len(gs) - m) + i) = f + d + 1 - i
        BY <2>1, <2>3, <1>11, <1>1, <1>2, <1>8
      <3>2. ks[i] = gs[(Len(gs) - m) + i]
        BY Zenon, <2>3
      <3> QED BY Zenon, <3>1, <3>2, <1>9
    <2> QED BY Zenon, <2>1, <2>3, <2>4 DEF Collected, p, n, d
  <1>12. CASE ~(Len(gs) > m)
    <2>1. d = n - f /\ f + d = n /\ d \in Nat \ {0} /\ Len(gs) = d
      <3>1. Len(gs) = k + 1
        BY <1>2
      <3>2. k + 1 <= m
        BY <3>1, <1>12, <1>1
      <3>3. f + m > n \/ m = n - f
        BY <3>2, <1>1, <1>8
      <3>4. d = n - f
        BY Zenon, <3>3, <1>5
      <3>5. n \in Nat /\ k \in Nat
        BY Zenon, <1>1
      <3>6. k + 1 \in Nat \ {0} /\ f + (k + 1) = n
        BY <3>5, <1>8
      <3>7. d = k + 1
        BY <3>4, <1>8
      <3> QED BY Zenon, <3>1, <3>4, <3>6, <3>7
    <2>2. ks = gs
      BY Zenon, <1>10, <1>12 DEF KeepLowest
    <2>3. ASSUME NEW i \in 1 .. Len(ks) PROVE ks[i] = p[f + d + 1 - i]
      BY Zenon, <2>1, <2>2, <1>9
    <2>4. ks \in Seq(Block) /\ Len(ks) = d /\ f + d <= n
      <3>1. n <= n
        BY Zenon, <1>1, FirstPlace
      <3> QED BY Zenon, <3>1, <2>1, <2>2, <1>2
    <2> QED BY Zenon, <2>1, <2>3, <2>4 DEF Collected, p, n, d
  <1> QED BY <1>11, <1>12

-----------------------------------------------------------------------------
(* A request and the chain beside it. *)

\* A request that walks the chain from start, or did and has an answer.
OnChain == rpc \in {"walk", "load"} \/ Answered({"peer", "latest"})

\* Requests, wherever the reader is.
RequestInv ==
  /\ rpc \in {"idle", "tip", "walk", "load", "scan", "done"}
  /\ rpc # "idle" => up
  /\ req.from \in Nat /\ req.max \in Nat
  /\ rpc \in {"tip", "walk", "load"} => req.kind \in {"peer", "latest"} /\ req.max # 0
  /\ rpc = "scan" => req.kind = "height"
  /\ rpc \in {"idle", "tip", "walk", "scan"} => out = <<>>
  /\ rpc \in {"idle", "tip"} => hashes = <<>>
  /\ first \in Block /\ start \in Block
  /\ hashes \in Seq(Block) /\ out \in Seq(Block) /\ left \in SUBSET [block : Block, tmp : BOOLEAN]

\* How far a walk is, and then what is loaded and what is left to load.
WalkInv ==
  /\ rpc = "walk" =>
       start.height >= req.from /\ Down(start, req.from, hashes) /\ NextDown(start, hashes, hash)
  /\ rpc = "load" \/ Answered({"peer", "latest"}) =>
       /\ Due(start, req.from, req.max) \in Nat \ {0}
       /\ req.from + Due(start, req.from, req.max) <= Len(PathTo[start])
       /\ Len(out) + Len(hashes) = Due(start, req.from, req.max)
       /\ \A i \in 1 .. Len(out) : out[i] = PathTo[start][req.from + i]
       /\ \A i \in 1 .. Len(hashes) :
            hashes[i] = PathTo[start][req.from + Due(start, req.from, req.max) + 1 - i]
  /\ Answered({"peer", "latest"}) => hashes = <<>>

\* The chain walked, against the chain and the state of the node.
ViewInv ==
  /\ OnChain => Counted(start)
  /\ OnChain /\ ~reorged => /\ Range(PathTo[start]) \subseteq Range(PathTo[tip])
                            /\ Range(StateOf[start]) \subseteq Range(applied)
  /\ req.kind = "latest" /\ (rpc = "tip" \/ OnChain) => req.from = FirstHeight(first, req.max)
  /\ req.kind = "latest" /\ rpc = "tip" /\ hpc # "stuck" => first \in Range(PathTo[tip])
  /\ req.kind = "latest" /\ OnChain => first \in Range(PathTo[start])

\* The files looked at for a height.
ScanInv ==
  /\ rpc = "scan" /\ ~reorged /\ faults = 0 => \A e \in left : e.block \in Known
  /\ Answered({"height"}) /\ ~reorged /\ faults = 0 => out[1] \in Known
  /\ rpc = "scan" => \A e \in left : e.block.height = req.from
  /\ Answered({"height"}) => Len(out) = 1 /\ out[1].height = req.from

ReaderInv == RequestInv /\ WalkInv /\ ViewInv /\ ScanInv

\* Between two requests there is nothing to say.
LEMMA IdleReader == ReaderIdle => ReaderInv
  <1> SUFFICES ASSUME ReaderIdle PROVE ReaderInv
    BY Zenon
  <1>1. Genesis \in Block
    BY BlockAssumption
  <1>2. RequestInv
    BY <1>1 DEF ReaderIdle, NoRequest, RequestInv
  <1>3. ~OnChain /\ rpc = "idle" /\ ~Answered({"height"})
    BY DEF ReaderIdle, OnChain, Answered
  <1>4. WalkInv /\ ViewInv /\ ScanInv
    BY Zenon, <1>3 DEF WalkInv, ViewInv, ScanInv, OnChain
  <1> QED BY <1>2, <1>4 DEF ReaderInv

LEMMA ForgetReader == Forget => ReaderInv'
  <1> SUFFICES ASSUME Forget PROVE ReaderInv'
    BY Zenon
  <1>1. Genesis \in Block
    BY BlockAssumption
  <1>2. RequestInv'
    BY <1>1 DEF Forget, NoRequest, RequestInv
  <1>3. ~OnChain' /\ rpc' = "idle" /\ ~Answered({"height"})'
    BY DEF Forget, OnChain, Answered
  <1>4. WalkInv' /\ ViewInv' /\ ScanInv'
    BY Zenon, <1>3 DEF WalkInv, ViewInv, ScanInv, OnChain
  <1> QED BY <1>2, <1>4 DEF ReaderInv

\* The node moves under a request.
LEMMA NodeReader ==
  ASSUME TypeInv, TypeInv', ReaderInv, Moves, UNCHANGED reader, up => up' PROVE ReaderInv'
  <1>a. tip \in Block /\ tip' \in Block /\ reorged \in BOOLEAN
    BY Zenon DEF TypeInv, TypeOK
  <1>u. UNCHANGED <<rpc, req, first, start, hash, hashes, left, out>>
    BY DEF reader
  <1>1. RequestInv'
    BY Zenon, <1>u DEF ReaderInv, RequestInv
  <1>2. WalkInv'
    BY Zenon, <1>u DEF ReaderInv, WalkInv, Answered
  <1>o. OnChain' = OnChain /\ Answered({"height"})' = Answered({"height"})
    BY <1>u DEF OnChain, Answered
  <1>3. CASE ~up
    <2>1. rpc = "idle"
      BY <1>3 DEF ReaderInv, RequestInv
    <2>2. ~OnChain /\ ~Answered({"height"})
      BY <2>1 DEF OnChain, Answered
    <2>3. ViewInv' /\ ScanInv'
      BY Zenon, <2>1, <2>2, <1>o, <1>u DEF ViewInv, ScanInv
    <2> QED BY <1>1, <1>2, <2>3 DEF ReaderInv
  <1>4. CASE up
    <2>1. /\ reorged => reorged'
          /\ hpc = "stuck" => hpc' = "stuck"
          /\ tip' = tip \/ tip'.prev = tip \/ (reorged' /\ hpc' = "stuck")
          /\ ~reorged' => Range(applied) \subseteq Range(applied')
          /\ ~reorged' /\ faults' = 0 => faults = 0 /\ Known \subseteq Known'
      BY Zenon, <1>4 DEF Moves
    <2>2. ~(reorged' /\ hpc' = "stuck") => Range(PathTo[tip]) \subseteq Range(PathTo[tip'])
      BY <2>1, <1>a, PathFacts
    <2>3. (OnChain => Counted(start))' /\ (OnChain /\ ~reorged =>
             Range(PathTo[start]) \subseteq Range(PathTo[tip])
             /\ Range(StateOf[start]) \subseteq Range(applied))'
      BY Zenon, <1>o, <1>u, <2>1, <2>2 DEF ReaderInv, ViewInv, Counted
    <2>4. /\ (req.kind = "latest" /\ (rpc = "tip" \/ OnChain) =>
                req.from = FirstHeight(first, req.max))'
          /\ (req.kind = "latest" /\ rpc = "tip" /\ hpc # "stuck" => first \in Range(PathTo[tip]))'
          /\ (req.kind = "latest" /\ OnChain => first \in Range(PathTo[start]))'
      BY Zenon, <1>o, <1>u, <2>1, <2>2 DEF ReaderInv, ViewInv, FirstHeight
    <2>5. ViewInv'
      BY Zenon, <2>3, <2>4 DEF ViewInv
    <2>6. ScanInv'
      BY Zenon, <1>o, <1>u, <2>1 DEF ReaderInv, ScanInv
    <2> QED BY <1>1, <1>2, <2>5, <2>6 DEF ReaderInv
  <1> QED BY <1>3, <1>4

\* An answer without a block says nothing.
LEMMA EmptyReader ==
  ASSUME ReaderInv, up', Empty, UNCHANGED <<start, left>>, first' \in Block,
         req'.from \in Nat, req'.max \in Nat, hashes' \in Seq(Block)
  PROVE  ReaderInv'
  <1>1. rpc' = "done" /\ out' = <<>>
    BY DEF Empty
  <1>2. ~OnChain' /\ ~Answered({"height"})' /\ ~Answered({"peer", "latest"})'
    BY <1>1 DEF OnChain, Answered
  <1>3. RequestInv'
    BY <1>1 DEF ReaderInv, RequestInv
  <1>4. WalkInv' /\ ViewInv' /\ ScanInv'
    BY Zenon, <1>1, <1>2 DEF WalkInv, ViewInv, ScanInv
  <1> QED BY <1>3, <1>4 DEF ReaderInv

LEMMA AskReader ==
  ASSUME TypeInv, MessageInv, TipInv, ReaderInv, UNCHANGED vars,
         \/ \E from \in 0 .. tip.height + 1, n \in 0 .. MaxLimit + 1 : AskFrom(from, n)
         \/ \E n \in 0 .. MaxLimit + 1 : AskLatest(n)
         \/ \E h \in 0 .. tip.height + 1 : AskHeight(h)
  PROVE  ReaderInv'
  <1>t. TypeOK /\ ControlInv
    BY DEF TypeInv
  <1>u. UNCHANGED <<up, tip, files, ppc, pb, hpc, batch, todo, reorged, faults, applied>>
    BY Zenon DEF vars, disk, memory, producer, handler, history
  <1>a. tip \in Block /\ tip.height \in Nat /\ files \subseteq Block /\ pb \in Block /\ reorged \in BOOLEAN
    BY Zenon, <1>t, HeightOfBlock DEF TypeOK
  <1>m. MaxLimit \in Nat /\ DefaultLimit \in Nat \ {0}
    BY ReaderAssumption
  <1>r. RequestInv
    BY DEF ReaderInv
  <1>k. Known' = Known
    BY Zenon, <1>u DEF Known, Hand
  <1>1. ASSUME NEW from \in 0 .. tip.height + 1, NEW n \in 0 .. MaxLimit + 1, AskFrom(from, n)
        PROVE  ReaderInv'
    <2>1. /\ up /\ rpc = "idle" /\ rpc' = "tip" /\ UNCHANGED <<first, start, hash, hashes, left, out>>
          /\ req'.kind = "peer" /\ req'.from = from /\ req'.max = PeerLimit(n)
      BY <1>1 DEF AskFrom
    <2>2. from \in Nat /\ PeerLimit(n) \in Nat \ {0}
      BY <1>a, <1>m DEF PeerLimit
    <2>3. RequestInv'
      BY Zenon, <2>1, <2>2, <1>r, <1>u DEF RequestInv
    <2>4. ~OnChain' /\ ~Answered({"height"})'
      BY Zenon, <2>1 DEF OnChain, Answered
    <2>5. WalkInv' /\ ViewInv' /\ ScanInv'
      BY Zenon, <2>1, <2>4 DEF WalkInv, ViewInv, ScanInv, OnChain
    <2> QED BY <2>3, <2>5 DEF ReaderInv
  <1>2. ASSUME NEW n \in 0 .. MaxLimit + 1, AskLatest(n) PROVE ReaderInv'
    <2> DEFINE m == HttpLimit(n)
    <2>1. /\ up /\ rpc = "idle" /\ first' = tip /\ UNCHANGED <<start, hash, hashes, left>>
          /\ req'.kind = "latest" /\ req'.from = FirstHeight(tip, m) /\ req'.max = m
          /\ (rpc' = "tip" /\ out' = out) \/ Empty
      BY Zenon, <1>2 DEF AskLatest
    <2>2. m \in Nat \ {0}
      BY <1>m DEF HttpLimit
    <2> HIDE DEF m
    <2>3. FirstHeight(tip, m) \in Nat
      BY <2>2, <1>a DEF FirstHeight
    <2>4. CASE Empty
      BY Zenon, <2>1, <2>2, <2>3, <2>4, <1>a, <1>r, <1>u, EmptyReader DEF RequestInv
    <2>5. CASE rpc' = "tip" /\ out' = out
      <3>1. RequestInv'
        BY Zenon, <2>1, <2>2, <2>3, <2>5, <1>r, <1>u, <1>a DEF RequestInv
      <3>2. ~OnChain' /\ ~Answered({"height"})'
        BY <2>5 DEF OnChain, Answered
      <3>3. tip \in Range(PathTo[tip])
        BY Zenon, <1>a, PathFacts
      <3>4. WalkInv' /\ ScanInv'
        BY Zenon, <2>5, <3>2 DEF WalkInv, ScanInv, OnChain
      <3>5. ViewInv'
        BY Zenon, <2>1, <3>2, <3>3, <1>u DEF ViewInv
      <3> QED BY <3>1, <3>4, <3>5 DEF ReaderInv
    <2> QED BY <2>1, <2>4, <2>5
  <1>3. ASSUME NEW h \in 0 .. tip.height + 1, AskHeight(h) PROVE ReaderInv'
    <2>1. /\ up /\ rpc = "idle" /\ UNCHANGED <<first, start, hash, hashes>>
          /\ req'.kind = "height" /\ req'.from = h /\ req'.max = 1
          /\ \/ h = 0 /\ out' = <<Genesis>> /\ rpc' = "done" /\ left' = left
             \/ left' = {e \in Listed : Matches(e.block, h)} /\ rpc' = "scan" /\ out' = out
      BY Zenon, <1>3 DEF AskHeight
    <2>2. h \in Nat
      BY <1>a
    <2>3. ~OnChain'
      BY Zenon, <2>1 DEF OnChain, Answered
    <2>4. WalkInv' /\ ViewInv'
      BY Zenon, <2>1, <2>3 DEF WalkInv, ViewInv, OnChain
    <2>5. CASE h = 0 /\ out' = <<Genesis>> /\ rpc' = "done" /\ left' = left
      <3>1. Genesis \in Block /\ Genesis.height = 0
        BY Zenon, BlockAssumption
      <3>2. out' \in Seq(Block) /\ Len(out') = 1 /\ out'[1] = Genesis
        BY <2>5, <3>1
      <3>3. RequestInv'
        BY <2>1, <2>2, <2>5, <3>2, <1>r, <1>u DEF RequestInv
      <3>4. ~reorged /\ faults = 0 => Genesis \in Known
        BY Zenon DEF TipInv, Known
      <3>5. ScanInv'
        BY Zenon, <2>1, <2>5, <3>1, <3>2, <3>4, <1>k, <1>u DEF ScanInv
      <3> QED BY Zenon, <2>4, <3>3, <3>5 DEF ReaderInv
    <2>6. CASE left' = {e \in Listed : Matches(e.block, h)} /\ rpc' = "scan" /\ out' = out
      <3>1. ASSUME hpc \in {"write", "rewrite"} PROVE Head(todo) \in Block
        BY Zenon, <3>1, <1>t, SeqFacts DEF ControlInv, TypeOK
      <3>2. Listed \subseteq [block : Block, tmp : BOOLEAN]
        <4>1. \A b \in Block, x \in BOOLEAN : Entry(b, x) \in [block : Block, tmp : BOOLEAN]
          BY DEF Entry
        <4> DEFINE F == files \cup IF hpc \in {"write", "rewrite"} THEN {Head(todo)} ELSE {}
        <4>2. F \subseteq Block
          BY Zenon, <3>1, <1>a
        <4>3. \A e \in Listed : (\E b \in F : e = Entry(b, FALSE)) \/ e = Entry(pb, TRUE)
          <5> HIDE DEF F
          <5>1. Listed = {Entry(b, FALSE) : b \in F} \cup IF ppc = "append" THEN {Entry(pb, TRUE)} ELSE {}
            BY Zenon DEF Listed, F
          <5> QED BY Zenon, <5>1
        <4> HIDE DEF F
        <4> QED BY Zenon, <4>1, <4>2, <4>3, <1>a
      <3>3. ASSUME ~reorged, faults = 0 PROVE \A e \in Listed : e.block \in Known
        <4>1. files \subseteq Known /\ hpc # "rewrite"
          BY Zenon, <3>3, <1>t DEF TipInv, ControlInv
        <4>2. ASSUME hpc = "write" PROVE Head(todo) \in Known
          <5>1. batch = <<Head(todo)>>
            BY <4>2 DEF MessageInv, Writing
          <5>2. Newest(batch) = Head(todo)
            BY <5>1 DEF Newest
          <5> QED BY Zenon, <5>2, <4>2 DEF Known, Hand, Writing
        <4>3. ppc = "append" => pb \in Known
          BY Zenon DEF Known, Hand
        <4> QED BY <4>1, <4>2, <4>3 DEF Listed, Entry
      <3>4. RequestInv'
        BY <2>1, <2>2, <2>6, <3>2, <1>r, <1>u DEF RequestInv
      <3>5. \A e \in left' : e.block.height = req'.from
        BY Zenon, <2>1, <2>6 DEF Matches
      <3>6. ~Answered({"height"})'
        BY Zenon, <2>6 DEF Answered
      <3>7. ScanInv'
        BY Zenon, <2>6, <3>3, <3>5, <3>6, <1>k, <1>u DEF ScanInv
      <3> QED BY <2>4, <3>4, <3>7 DEF ReaderInv
    <2> QED BY Zenon, <2>1, <2>5, <2>6
  <1> QED BY <1>1, <1>2, <1>3

LEMMA TipReader ==
  ASSUME TypeInv, DriftInv, TipInv, ReaderInv, UNCHANGED vars, ReadTip PROVE ReaderInv'
  <1>u. UNCHANGED <<up, tip, hpc, reorged, applied>>
    BY Zenon DEF vars, disk, memory, handler, history
  <1>a. tip \in Block /\ reorged \in BOOLEAN /\ tip.height \in Nat
    BY Zenon, HeightOfBlock DEF TypeInv, TypeOK
  <1>r. RequestInv
    BY DEF ReaderInv
  <1>1. /\ rpc = "tip" /\ hpc # "stuck" /\ start' = tip /\ hash' = tip
        /\ UNCHANGED <<req, first, hashes, left>>
        /\ \/ tip.height < req.from /\ Empty
           \/ ~(tip.height < req.from) /\ rpc' = "walk" /\ out' = out
    BY Zenon DEF ReadTip, ChainMuFree
  <1>2. up /\ hashes = <<>> /\ out = <<>> /\ req.from \in Nat
    BY Zenon, <1>1, <1>r DEF RequestInv
  <1>3. CASE Empty
    <2>1. rpc' = "done" /\ out' = <<>>
      BY <1>3 DEF Empty
    <2>2. ~OnChain' /\ ~Answered({"height"})' /\ ~Answered({"peer", "latest"})'
      BY <2>1 DEF OnChain, Answered
    <2>3. RequestInv'
      BY Zenon, <2>1, <1>1, <1>2, <1>a, <1>u, <1>r DEF RequestInv
    <2>4. WalkInv' /\ ViewInv' /\ ScanInv'
      BY Zenon, <2>1, <2>2 DEF WalkInv, ViewInv, ScanInv
    <2> QED BY <2>3, <2>4 DEF ReaderInv
  <1>4. CASE ~(tip.height < req.from) /\ rpc' = "walk" /\ out' = out
    <2>1. RequestInv'
      BY Zenon, <1>4, <1>1, <1>2, <1>a, <1>u, <1>r DEF RequestInv
    <2>2. ~Answered({"height"})' /\ ~Answered({"peer", "latest"})' /\ OnChain'
      BY <1>4 DEF OnChain, Answered
    <2>3. tip.height >= req.from
      BY <1>4, <1>2, <1>a
    <2>4. /\ Len(PathTo[tip]) \in Nat \ {0} /\ PathTo[tip][Len(PathTo[tip])] = tip
          /\ Len(hashes) = 0
      BY Zenon, <1>2, <1>a, PathPlaces
    <2>5. Down(tip, req.from, hashes) /\ NextDown(tip, hashes, tip)
      BY <2>4 DEF Down, NextDown
    <2>6. WalkInv'
      BY Zenon, <1>4, <1>1, <2>2, <2>3, <2>5 DEF WalkInv
    <2>7. Counted(tip)
      BY Zenon, <1>1, <1>2 DEF TipInv
    <2>8. ~reorged => Range(StateOf[tip]) \subseteq Range(applied)
      BY Zenon, <1>1, <1>2 DEF DriftInv, Holds
    <2>9. ViewInv'
      BY Zenon, <1>4, <1>1, <1>u, <2>7, <2>8 DEF ReaderInv, ViewInv, Counted
    <2>10. ScanInv'
      BY Zenon, <1>4, <2>2 DEF ScanInv
    <2> QED BY <2>1, <2>6, <2>9, <2>10 DEF ReaderInv
  <1> QED BY <1>1, <1>3, <1>4

LEMMA WalkReader ==
  ASSUME TypeInv, ReaderInv, UNCHANGED vars, Walk PROVE ReaderInv'
  <1>u. UNCHANGED <<up, tip, hpc, reorged, applied>>
    BY Zenon DEF vars, disk, memory, handler, history
  <1>r. RequestInv /\ WalkInv /\ ViewInv
    BY DEF ReaderInv
  <1>1. rpc = "walk" /\ UNCHANGED <<req, first, start, left>>
    BY Zenon DEF Walk
  <1>2. /\ up /\ req.from \in Nat /\ req.max \in Nat \ {0} /\ req.kind \in {"peer", "latest"}
        /\ out = <<>> /\ start \in Block /\ hashes \in Seq(Block)
    BY Zenon, <1>1, <1>r DEF RequestInv
  <1>3. /\ OnChain /\ Counted(start) /\ start.height >= req.from
        /\ Down(start, req.from, hashes) /\ NextDown(start, hashes, hash)
    BY Zenon, <1>1, <1>r DEF WalkInv, ViewInv, OnChain
  <1>4. CASE ~HasBlock(hash) /\ Empty /\ UNCHANGED <<hash, hashes>>
    BY Zenon, <1>4, <1>1, <1>2, <1>u, <1>r, EmptyReader DEF RequestInv
  <1>5. CASE HasBlock(hash) /\ out' = out
    <2>1. hash \in Block
      BY Zenon, <1>5 DEF HasBlock, TypeInv, TypeOK
    <2>2. hash.height \in Nat
      BY <2>1, HeightOfBlock
    <2> DEFINE ks == KeepLowest(IF hash.height < req.from THEN hashes ELSE Append(hashes, hash),
                                req.max)
    <2>3. \/ /\ hash.height <= req.from \/ hash.prev = ZeroHash
             /\ hashes' = ks /\ rpc' = "load"
          \/ /\ ~(hash.height <= req.from)
             /\ hashes' = Append(hashes, hash) /\ hash' = hash.prev /\ rpc' = rpc
      BY Zenon, <1>5 DEF Walk
    <2>4. ~Answered({"height"})' /\ ~Answered({"peer", "latest"})' /\ OnChain' /\ rpc' # "tip"
      BY Zenon, <2>3, <1>1 DEF OnChain, Answered
    <2>5. ViewInv'
      BY Zenon, <2>4, <1>1, <1>3, <1>u, <1>r DEF ViewInv, Counted
    <2>6. ScanInv'
      BY Zenon, <2>3, <2>4, <1>1 DEF ScanInv
    <2>7. CASE /\ hash.height <= req.from \/ hash.prev = ZeroHash
               /\ hashes' = ks /\ rpc' = "load"
      <3> DEFINE d == Due(start, req.from, req.max)
      <3>1. /\ d \in Nat \ {0} /\ req.from + d <= Len(PathTo[start])
            /\ ks \in Seq(Block) /\ Len(ks) = d
            /\ \A i \in 1 .. Len(ks) : ks[i] = PathTo[start][req.from + d + 1 - i]
        <4>1. ks = KeepLowest(IF hash.height < req.from THEN hashes ELSE Append(hashes, hash),
                              req.max)
          OBVIOUS
        <4>2. hash.height <= req.from \/ hash.prev = ZeroHash
          BY <2>7
        <4>3. req.from \in Nat /\ req.max \in Nat \ {0} /\ start \in Block /\ hashes \in Seq(Block)
          BY <1>2
        <4> HIDE DEF ks
        <4>4. Collected(start, req.from, req.max, ks)
          BY Zenon, <4>1, <4>2, <4>3, <2>1, <1>3, WalkEnd
        <4> QED BY Zenon, <4>4 DEF Collected
      <3> HIDE DEF ks, d
      <3>2. Len(out') = 0 /\ Len(out') + Len(hashes') = d
        BY <2>7, <3>1, <1>2, <1>5
      <3>3. RequestInv'
        BY Zenon, <2>7, <3>1, <1>1, <1>2, <1>5, <1>u, <1>r DEF RequestInv
      <3>4. WalkInv'
        <4>1. rpc' = "load" /\ rpc' # "walk" /\ ~Answered({"peer", "latest"})'
          BY <2>7 DEF Answered
        <4>2. start' = start /\ req' = req
          BY Zenon, <1>1
        <4>3. Due(start, req.from, req.max)' = d
          BY Zenon, <4>2 DEF d
        <4>4. (\A i \in 1 .. Len(out) : out[i] = PathTo[start][req.from + i])'
          <5>1. \A i \in 1 .. 0 : FALSE
            OBVIOUS
          <5> QED BY Zenon, <5>1, <3>2
        <4>5. (\A i \in 1 .. Len(hashes) :
                 hashes[i] = PathTo[start][req.from + Due(start, req.from, req.max) + 1 - i])'
          BY Zenon, <2>7, <3>1, <4>2, <4>3
        <4> QED BY Zenon, <4>1, <4>2, <4>3, <4>4, <4>5, <3>1, <3>2 DEF WalkInv
      <3> QED BY <2>5, <2>6, <3>3, <3>4 DEF ReaderInv
    <2>8. CASE /\ ~(hash.height <= req.from)
               /\ hashes' = Append(hashes, hash) /\ hash' = hash.prev /\ rpc' = rpc
      <3>1. hash.height > req.from /\ Append(hashes, hash) \in Seq(Block)
        BY <2>1, <2>2, <2>8, <1>2
      <3>2. /\ Down(start, req.from, Append(hashes, hash))
            /\ NextDown(start, Append(hashes, hash), hash.prev)
        BY Zenon, <2>1, <3>1, <1>2, <1>3, WalkOn
      <3>3. RequestInv'
        BY Zenon, <2>8, <3>1, <1>1, <1>2, <1>5, <1>u, <1>r DEF RequestInv
      <3>4. WalkInv'
        BY Zenon, <2>4, <2>8, <3>2, <1>1, <1>3 DEF WalkInv
      <3> QED BY <2>5, <2>6, <3>3, <3>4 DEF ReaderInv
    <2> HIDE DEF ks
    <2> QED BY Zenon, <2>3, <2>7, <2>8
  <1> QED BY Zenon, <1>4, <1>5 DEF Walk

\* A sequence without its last element.
LEMMA FrontFacts ==
  ASSUME NEW q \in Seq(Block), q # <<>>
  PROVE  /\ SubSeq(q, 1, Len(q) - 1) \in Seq(Block) /\ Len(SubSeq(q, 1, Len(q) - 1)) = Len(q) - 1
         /\ \A i \in 1 .. Len(q) - 1 : SubSeq(q, 1, Len(q) - 1)[i] = q[i]
  <1> DEFINE z == Len(q) - 1
  <1>1. z \in Nat /\ \A i \in 1 .. z : q[i] \in Block
    <2>1. Len(q) \in Nat /\ Len(q) # 0
      OBVIOUS
    <2> QED BY <2>1
  <1> HIDE DEF z
  <1>2. /\ SubSeq(q, 1, z) \in Seq(Block) /\ Len(SubSeq(q, 1, z)) = IF 1 <= z THEN z - 1 + 1 ELSE 0
        /\ \A i \in 1 .. z - 1 + 1 : SubSeq(q, 1, z)[i] = q[1 + i - 1]
    BY <1>1, SubSeqProperties
  <1>3. z - 1 + 1 = z /\ (z < 1 => z = 0) /\ \A i \in 1 .. z : 1 + i - 1 = i
    BY <1>1
  <1>4. Len(SubSeq(q, 1, z)) = z
    BY <1>1, <1>2, <1>3
  <1> QED BY Zenon, <1>2, <1>3, <1>4 DEF z

LEMMA LoadReader ==
  ASSUME TypeInv, ReaderInv, UNCHANGED vars, Load PROVE ReaderInv'
  <1>u. UNCHANGED <<up, tip, hpc, reorged, applied>>
    BY DEF vars, disk, memory, handler, history
  <1>r. RequestInv /\ WalkInv /\ ViewInv
    BY DEF ReaderInv
  <1>1. rpc = "load" /\ UNCHANGED <<req, first, start, hash, left>>
    BY Zenon DEF Load
  <1> DEFINE d == Due(start, req.from, req.max)
             p == PathTo[start]
             f == req.from
  <1>2. /\ up /\ f \in Nat /\ req.max \in Nat \ {0} /\ req.kind \in {"peer", "latest"}
        /\ start \in Block /\ hashes \in Seq(Block) /\ out \in Seq(Block)
    BY Zenon, <1>1, <1>r DEF RequestInv
  <1>3. /\ d \in Nat \ {0} /\ f + d <= Len(p) /\ Len(out) + Len(hashes) = d
        /\ \A i \in 1 .. Len(out) : out[i] = p[f + i]
        /\ \A i \in 1 .. Len(hashes) : hashes[i] = p[f + d + 1 - i]
    BY Zenon, <1>1, <1>r DEF WalkInv
  <1>4. OnChain /\ rpc # "tip"
    BY <1>1 DEF OnChain
  <1> HIDE DEF d, p, f
  <1>5. ASSUME OnChain', rpc' \in {"load", "done"} PROVE ViewInv' /\ ScanInv'
    <2>1. ~Answered({"height"})'
      BY <1>1, <1>2 DEF Answered
    <2>2. ViewInv'
      BY Zenon, <1>1, <1>4, <1>5, <1>u, <1>r DEF ViewInv, Counted
    <2> QED BY Zenon, <2>1, <2>2, <1>5 DEF ScanInv
  <1>6. CASE hashes = <<>> /\ rpc' = "done" /\ UNCHANGED <<hashes, out>>
    <2>1. Len(out) = d /\ Len(hashes) = 0
      BY <1>6, <1>2, <1>3
    <2>2. out # <<>> /\ OnChain'
      BY Zenon, <2>1, <1>6, <1>1, <1>2, <1>3 DEF OnChain, Answered
    <2>3. RequestInv'
      BY Zenon, <1>6, <1>1, <1>2, <1>u, <1>r DEF RequestInv
    <2>4. WalkInv'
      BY Zenon, <1>6, <1>1, <1>3 DEF WalkInv, Answered, d, p, f
    <2> QED BY <1>5, <1>6, <2>2, <2>3, <2>4 DEF ReaderInv
  <1>7. CASE /\ hashes # <<>> /\ HasBlock(Oldest(hashes)) /\ rpc' = rpc
             /\ out' = Append(out, Oldest(hashes)) /\ hashes' = SubSeq(hashes, 1, Len(hashes) - 1)
    <2> DEFINE k == Len(hashes)
               l == Len(out)
    <2>1. k \in Nat \ {0} /\ l \in Nat /\ l + k = d
      <3>1. k \in Nat /\ k # 0 /\ l \in Nat
        BY <1>2, <1>7
      <3> QED BY <3>1, <1>3
    <2>2. hashes[k] \in Block
      BY <2>1, <1>2
    <2>3. hashes[k] = p[f + (l + 1)]
      <3>1. hashes[k] = p[f + d + 1 - k]
        BY <2>1, <1>3
      <3>2. f \in Nat /\ d \in Nat
        BY Zenon, <1>2, <1>3
      <3>3. f + d + 1 - k = f + (l + 1)
        BY <3>2, <2>1
      <3> QED BY Zenon, <3>1, <3>3
    <2>4. /\ out' \in Seq(Block) /\ Len(out') = l + 1 /\ out'[l + 1] = hashes[k]
          /\ \A i \in 1 .. l : out'[i] = out[i]
      BY <2>2, <1>2, <1>7 DEF Oldest
    <2>5. /\ hashes' \in Seq(Block) /\ Len(hashes') = k - 1
          /\ \A i \in 1 .. k - 1 : hashes'[i] = hashes[i]
      BY Zenon, <1>2, <1>7, FrontFacts
    <2> HIDE DEF k, l
    <2>6. Len(out') + Len(hashes') = d
      BY <2>1, <2>4, <2>5
    <2>7. ASSUME NEW i \in 1 .. Len(out') PROVE out'[i] = p[f + i]
      <3>1. CASE i = l + 1
        BY Zenon, <3>1, <2>3, <2>4
      <3>2. CASE i # l + 1
        <4>1. i \in 1 .. l
          BY <3>2, <2>1, <2>4
        <4> QED BY Zenon, <4>1, <2>4, <1>3 DEF l
      <3> QED BY Zenon, <3>1, <3>2
    <2>8. ASSUME NEW i \in 1 .. Len(hashes') PROVE hashes'[i] = p[f + d + 1 - i]
      <3>1. i \in 1 .. k - 1 /\ i \in 1 .. k
        BY <2>1, <2>5
      <3> QED BY Zenon, <3>1, <2>5, <1>3 DEF k
    <2>9. RequestInv'
      BY Zenon, <2>4, <2>5, <1>7, <1>1, <1>2, <1>u, <1>r DEF RequestInv
    <2>10. OnChain' /\ ~Answered({"peer", "latest"})' /\ rpc' = "load"
      BY Zenon, <1>7, <1>1 DEF OnChain, Answered
    <2>11. WalkInv'
      BY Zenon, <2>6, <2>7, <2>8, <2>10, <1>1, <1>3 DEF WalkInv, d, p, f
    <2> QED BY <1>5, <2>9, <2>10, <2>11 DEF ReaderInv
  <1>8. CASE Empty /\ UNCHANGED hashes
    BY Zenon, <1>8, <1>1, <1>2, <1>u, <1>r, EmptyReader DEF RequestInv
  <1> QED BY Zenon, <1>6, <1>7, <1>8 DEF Load

LEMMA ScanReader ==
  ASSUME TypeInv, TipInv, ReaderInv, UNCHANGED vars, Scan PROVE ReaderInv'
  <1>u. UNCHANGED <<up, tip, ppc, pb, hpc, batch, reorged, faults, applied>>
    BY Zenon DEF vars, disk, memory, producer, handler, history
  <1>k. Known' = Known
    BY Zenon, <1>u DEF Known, Hand
  <1>r. RequestInv /\ ScanInv
    BY DEF ReaderInv
  <1>1. rpc = "scan" /\ UNCHANGED <<req, first, start, hash, hashes>>
    BY Zenon DEF Scan
  <1>2. /\ up /\ req.kind = "height" /\ out = <<>> /\ left \in SUBSET [block : Block, tmp : BOOLEAN]
        /\ \A e \in left : e.block.height = req.from
        /\ ~reorged /\ faults = 0 => \A e \in left : e.block \in Known
    BY Zenon, <1>1, <1>r DEF RequestInv, ScanInv
  <1>3. CASE left = {} /\ Empty /\ UNCHANGED left
    BY Zenon, <1>3, <1>1, <1>2, <1>u, <1>r, EmptyReader DEF RequestInv
  <1>4. ASSUME NEW e \in left, left' = left \ {e},
               \/ out' = <<e.block>> /\ rpc' = "done"
               \/ UNCHANGED <<out, rpc>>
        PROVE  ReaderInv'
    <2> DEFINE b == e.block
    <2>1. ~OnChain' /\ rpc' \in {"scan", "done"}
      BY Zenon, <1>1, <1>2, <1>4 DEF OnChain, Answered
    <2>2. WalkInv' /\ ViewInv'
      BY Zenon, <2>1 DEF WalkInv, ViewInv, OnChain
    <2>3. b \in Block /\ <<b>> \in Seq(Block) /\ Len(<<b>>) = 1 /\ <<b>>[1] = b
      BY <1>2
    <2>4. RequestInv'
      BY Zenon, <2>3, <1>1, <1>2, <1>4, <1>u, <1>r DEF RequestInv
    <2>5. CASE out' = <<b>> /\ rpc' = "done"
      <3>1. ScanInv'
        BY Zenon, <2>3, <2>5, <1>1, <1>2, <1>k, <1>u DEF ScanInv
      <3> QED BY <2>2, <2>4, <3>1 DEF ReaderInv
    <2>6. CASE UNCHANGED <<out, rpc>>
      <3>1. ~Answered({"height"})'
        BY <2>6, <1>1 DEF Answered
      <3>2. ScanInv'
        BY Zenon, <2>6, <3>1, <1>1, <1>2, <1>4, <1>k, <1>u DEF ScanInv
      <3> QED BY <2>2, <2>4, <3>2 DEF ReaderInv
    <2> QED BY <1>4, <2>5, <2>6
  <1> QED BY Zenon, <1>3, <1>4 DEF Scan

-----------------------------------------------------------------------------
(* What the answers are. *)

\* Everything known of the node and its reader.
ExplorerInv == /\ TypeInv /\ MessageInv /\ DriftInv /\ TipInv
               /\ ReaderInv

LEMMA ExplorerStart == ExplorerInit => ExplorerInv
  BY TypeInit, MessageInit, DriftInit, TipInit, IdleReader DEF ExplorerInit, ExplorerInv

LEMMA ExplorerStep == ExplorerInv /\ [ExplorerNext]_<<vars, reader>> => ExplorerInv'
  <1> SUFFICES ASSUME ExplorerInv, [ExplorerNext]_<<vars, reader>> PROVE ExplorerInv'
    OBVIOUS
  <1>i. TypeInv /\ MessageInv /\ DriftInv /\ TipInv /\ ReaderInv
    BY DEF ExplorerInv
  <1>1. [Next]_vars
    BY DEF ExplorerNext, NodeStep, Next
  <1>2. TypeInv' /\ MessageInv' /\ DriftInv' /\ TipInv' /\ Moves
    BY <1>1, <1>i, TypeStep, MessageStep, DriftStep, TipStep
  <1>3. CASE NodeStep
    BY <1>3, <1>i, <1>2, NodeReader, ForgetReader DEF NodeStep, ExplorerInv
  <1>4. CASE ReaderStep /\ UNCHANGED vars
    <2>1. ASSUME Answer PROVE ReaderInv'
      BY <2>1, ForgetReader DEF Answer
    <2>2. ReaderInv'
      BY Zenon, <1>4, <1>i, <2>1, AskReader, TipReader, WalkReader, LoadReader, ScanReader DEF ReaderStep
    <2> QED BY <1>2, <2>2 DEF ExplorerInv
  <1>5. CASE UNCHANGED <<vars, reader>>
    <2>1. up' = up
      BY <1>5 DEF vars
    <2> QED BY Zenon, <2>1, <1>5, <1>i, <1>2, NodeReader DEF ExplorerInv
  <1> QED BY <1>3, <1>4, <1>5 DEF ExplorerNext

LEMMA ExplorerInvariant == ExplorerSpec => []ExplorerInv
  BY ExplorerStart, ExplorerStep, PTL DEF ExplorerSpec

\* Every block with transactions on a chain is an entry of the state of it.
LEMMA StateHasChain ==
  ASSUME NEW b \in Block, NEW c \in Range(PathTo[b]), c.txs # <<>>
  PROVE  c \in Range(StateOf[b])
  <1> DEFINE T == {x \in Block : \E y \in Range(PathTo[x]) : y.txs # <<>> /\ y \notin Range(StateOf[x])}
  <1>1. T = {}
    <2> SUFFICES ASSUME T # {} PROVE FALSE
      BY Zenon
    <2>1. PICK x \in T : x.prev \notin T
      BY Zenon, ChainAssumption
    <2>2. PICK y \in Range(PathTo[x]) : y.txs # <<>> /\ y \notin Range(StateOf[x])
      BY Zenon, <2>1
    <2>3. StateOf[x] = Apply(Before(x), x) /\ StateOf \in [Block -> Seq(Block)]
      BY Zenon, <2>1, StateUnfold
    <2>4. Before(x) \in Seq(Block)
      BY <2>1, <2>3, BlockAssumption DEF Before
    <2>5. Range(Before(x)) \subseteq Range(StateOf[x]) /\ (x.txs # <<>> => x \in Range(StateOf[x]))
      BY <2>1, <2>3, <2>4, RangeOfAppend DEF Apply
    <2>6. CASE x.prev \in Block
      <3>1. y = x \/ y \in Range(PathTo[x.prev])
        BY <2>1, <2>2, <2>6, PathFacts
      <3>2. y # x
        BY Zenon, <2>2, <2>5
      <3>3. y \in Range(StateOf[x.prev])
        BY Zenon, <3>1, <3>2, <2>1, <2>2, <2>6
      <3>4. Before(x) = StateOf[x.prev]
        BY Zenon, <2>6 DEF Before
      <3> QED BY Zenon, <3>3, <3>4, <2>2, <2>5
    <2>7. CASE x.prev \notin Block
      <3>1. PathTo[x] = <<x>>
        BY Zenon, <2>1, <2>7, PathUnfold
      <3>2. y = x
        <4>1. Range(<<x>>) = {x}
          BY DEF Range
        <4>2. y \in Range(PathTo[x])
          BY Zenon, <2>2
        <4>3. y \in {x}
          BY Zenon, <3>1, <4>1, <4>2
        <4> QED BY Zenon, <4>3
      <3> QED BY Zenon, <3>2, <2>2, <2>5
    <2> QED BY Zenon, <2>6, <2>7
  <1> QED BY Zenon, <1>1

\* The blocks of an answer are on the chain it was taken from.
LEMMA OutOnPath ==
  ASSUME ReaderInv, Answered({"peer", "latest"}) PROVE Range(out) \subseteq Range(PathTo[start])
  <1>1. /\ req.from \in Nat /\ start \in Block /\ out \in Seq(Block) /\ hashes = <<>>
        /\ Due(start, req.from, req.max) \in Nat
        /\ req.from + Due(start, req.from, req.max) <= Len(PathTo[start])
        /\ Len(out) + Len(hashes) = Due(start, req.from, req.max)
        /\ \A i \in 1 .. Len(out) : out[i] = PathTo[start][req.from + i]
    BY Zenon DEF ReaderInv, RequestInv, WalkInv
  <1>2. PathTo[start] \in Seq(Block) /\ Len(PathTo[start]) \in Nat
    BY Zenon, <1>1, PathPlaces
  <1>3. Len(out) = Due(start, req.from, req.max) /\ Len(out) \in Nat
    BY Zenon, <1>1, SeqAlone
  <1>4. ASSUME NEW i \in 1 .. Len(out) PROVE out[i] \in Range(PathTo[start])
    <2>1. req.from + i \in 1 .. Len(PathTo[start])
      BY <1>1, <1>2, <1>3
    <2> QED BY Zenon, <2>1, <1>1, <1>2, SeqDomain
  <1>5. DOMAIN out = 1 .. Len(out)
    BY Zenon, <1>1, SeqDomain
  <1> QED BY Zenon, <1>4, <1>5 DEF Range

\* The producer applies a block before it moves the tip, and GetBlocksFrom walks
\* down from a tip: for any blocks, limits and faults, and however the walk
\* interleaves with the producer and the handlers, a reader is never shown
\* transactions that the account state does not have.
THEOREM ShownCorrect == ExplorerSpec => []ShownIsApplied
  <1>1. ExplorerInv => ShownIsApplied
    <2> SUFFICES ASSUME ExplorerInv, Answered({"peer", "latest"}), ~reorged,
                        NEW b \in Range(out), b.txs # <<>>
                 PROVE  b \in Range(applied)
      BY Zenon DEF ShownIsApplied
    <2>1. ReaderInv /\ start \in Block
      BY Zenon DEF ExplorerInv, ReaderInv, RequestInv
    <2>2. b \in Range(PathTo[start])
      BY Zenon, <2>1, OutOnPath
    <2>3. b \in Range(StateOf[start])
      BY Zenon, <2>1, <2>2, StateHasChain
    <2>4. Range(StateOf[start]) \subseteq Range(applied)
      BY Zenon, <2>1 DEF ReaderInv, ViewInv, OnChain
    <2> QED BY Zenon, <2>3, <2>4
  <1> QED BY <1>1, ExplorerInvariant, PTL

\* As many blocks as are due, from height f on, are the slice of the chain.
LEMMA SliceOf ==
  ASSUME NEW b \in Block, Counted(b), NEW f \in Nat, NEW m \in Nat, NEW q \in Seq(Block),
         Due(b, f, m) \in Nat \ {0}, f + Due(b, f, m) <= Len(PathTo[b]), Len(q) = Due(b, f, m),
         \A i \in 1 .. Len(q) : q[i] = PathTo[b][f + i]
  PROVE  q = Slice(b, f, m)
  <1> DEFINE p == PathTo[b]
             n == Len(PathTo[b])
             d == Due(b, f, m)
             e == f + d
  <1>1. p \in Seq(Block) /\ n \in Nat \ {0} /\ b.height = n - 1
    BY Zenon, PathPlaces, CountedPlace
  <1>2. (IF f + m > b.height + 1 THEN b.height + 1 ELSE f + m) = e
    <2>0. d = IF f + m > n THEN n - f ELSE m
      BY Zenon DEF Due
    <2>1. b.height + 1 = n
      BY <1>1
    <2>2. f + (n - f) = n
      BY <1>1
    <2> HIDE DEF d, n
    <2> QED BY Zenon, <2>0, <2>1, <2>2
  <1>3. Slice(b, f, m) = SubSeq(p, f + 1, e)
    BY Zenon, <1>2 DEF Slice
  <1>4. d \in Nat \ {0} /\ e <= n /\ Len(q) = d /\ \A i \in 1 .. d : q[i] = p[f + i]
    BY Zenon
  <1> HIDE DEF p, n, d
  <1>5. f + 1 \in Int /\ e \in Int /\ f + 1 <= e /\ e - (f + 1) + 1 = d
    BY <1>4
  <1>6. \A i \in f + 1 .. e : p[i] \in Block
    BY <1>1, <1>4 DEF p, n
  <1>7. /\ SubSeq(p, f + 1, e) \in Seq(Block)
        /\ Len(SubSeq(p, f + 1, e)) = IF f + 1 <= e THEN e - (f + 1) + 1 ELSE 0
        /\ \A i \in 1 .. e - (f + 1) + 1 : SubSeq(p, f + 1, e)[i] = p[f + 1 + i - 1]
    <2> HIDE DEF e
    <2> QED BY <1>5, <1>6, SubSeqProperties
  <1>8. \A i \in 1 .. d : f + 1 + i - 1 = f + i
    BY <1>4
  <1>9. Len(SubSeq(p, f + 1, e)) = d /\ \A i \in 1 .. d : SubSeq(p, f + 1, e)[i] = p[f + i]
    <2> HIDE DEF e
    <2> QED BY Zenon, <1>5, <1>7, <1>8
  <1>10. q = SubSeq(p, f + 1, e)
    <2> HIDE DEF e
    <2>1. \A i \in 1 .. Len(q) : q[i] = SubSeq(p, f + 1, e)[i]
      BY Zenon, <1>4, <1>9
    <2> QED BY Zenon, <2>1, <1>4, <1>7, <1>9, SeqEqual
  <1> QED BY Zenon, <1>3, <1>10

\* The answer of a walk is the slice asked for.
LEMMA OutIsSlice ==
  ASSUME ReaderInv, Answered({"peer", "latest"}) PROVE out = Slice(start, req.from, req.max)
  <1>1. /\ req.from \in Nat /\ req.max \in Nat /\ start \in Block /\ out \in Seq(Block)
        /\ hashes = <<>> /\ Counted(start)
        /\ Due(start, req.from, req.max) \in Nat \ {0}
        /\ req.from + Due(start, req.from, req.max) <= Len(PathTo[start])
        /\ Len(out) + Len(hashes) = Due(start, req.from, req.max)
        /\ \A i \in 1 .. Len(out) : out[i] = PathTo[start][req.from + i]
    BY Zenon DEF ReaderInv, RequestInv, WalkInv, ViewInv, OnChain
  <1>2. Len(out) = Due(start, req.from, req.max)
    BY SMTT(30), <1>1
  <1> QED BY Zenon, <1>1, <1>2, SliceOf

\* "GetBlocksFrom returns up to max blocks starting at fromHeight (in order)":
\* for any blocks, limits and faults an answer is that slice of one chain, although
\* the code takes Chain.mu anew for every block, and that chain is part of the
\* node's unless it is being replaced.
THEOREM SliceCorrect == ExplorerSpec => []AnswerIsSlice
  <1>1. ExplorerInv => AnswerIsSlice
    <2> SUFFICES ASSUME ExplorerInv, Answered({"peer"})
                 PROVE  /\ out = Slice(start, req.from, req.max)
                        /\ ~reorged => Range(out) \subseteq Range(PathTo[tip])
      BY Zenon DEF AnswerIsSlice
    <2>1. ReaderInv /\ Answered({"peer", "latest"})
      BY DEF ExplorerInv, Answered
    <2>2. ~reorged => Range(PathTo[start]) \subseteq Range(PathTo[tip])
      BY Zenon, <2>1 DEF ReaderInv, ViewInv, OnChain
    <2> QED BY Zenon, <2>1, <2>2, OutIsSlice, OutOnPath
  <1> QED BY <1>1, ExplorerInvariant, PTL

\* The chain to a block of a chain on which heights count.
LEMMA CountedPart ==
  ASSUME NEW b \in Block, Counted(b), NEW i \in 1 .. Len(PathTo[b])
  PROVE  /\ PathTo[b][i] \in Block /\ Counted(PathTo[b][i])
         /\ PathTo[b][i].height = i - 1 /\ Len(PathTo[PathTo[b][i]]) = i
         /\ PathTo[b][i] \in Range(PathTo[b])
         /\ \A j \in 1 .. i : PathTo[PathTo[b][i]][j] = PathTo[b][j]
  <1> DEFINE c == PathTo[b][i]
  <1>1. /\ PathTo[b] \in Seq(Block) /\ Len(PathTo[b]) \in Nat \ {0}
        /\ c \in Block /\ Len(PathTo[c]) = i /\ \A j \in 1 .. i : PathTo[c][j] = PathTo[b][j]
    BY Zenon, PathPlaces
  <1>2. PathTo[c] \in Seq(Block)
    BY Zenon, <1>1, PathPlaces
  <1>3. DOMAIN PathTo[b] = 1 .. Len(PathTo[b]) /\ DOMAIN PathTo[c] = 1 .. i /\ i \in Nat
    BY Zenon, <1>1, <1>2, SeqDomain
  <1>4. c.height = i - 1 /\ c \in Range(PathTo[b])
    BY Zenon, <1>3 DEF Counted, Range
  <1> HIDE DEF c
  <1>5. ASSUME NEW j \in 1 .. i PROVE PathTo[c][j].height = j - 1
    <2>1. j \in 1 .. Len(PathTo[b])
      BY <1>1
    <2> QED BY Zenon, <2>1, <1>1, <1>3 DEF Counted
  <1>6. Counted(c)
    BY Zenon, <1>3, <1>5 DEF Counted
  <1> QED BY Zenon, <1>1, <1>4, <1>6 DEF c

\* As many blocks are due when the chain ends with the last of them.
LEMMA DueAgain ==
  ASSUME NEW a \in Block, NEW b \in Block, NEW f \in Nat, NEW m \in Nat, Len(PathTo[a]) \in Nat,
         Due(a, f, m) \in Nat, Len(PathTo[b]) = f + Due(a, f, m)
  PROVE  Due(b, f, m) = Due(a, f, m)
  BY DEF Due

\* "Last N blocks": for any blocks, limits and faults, what /blocks shows ends no
\* lower than the tip it first read and is as long as the chain to its end allows,
\* although GetBlocksFrom reads the tip again.
THEOREM LatestCorrect == ExplorerSpec => []ShowsLatest
  <1> DEFINE p == PathTo[start]
             n == Len(PathTo[start])
             f == req.from
             m == req.max
             h == first.height
             d == Due(start, f, m)
  <1>1. ASSUME ExplorerInv, Answered({"latest"})
        PROVE  \E b \in {c \in Range(PathTo[start]) : c.height >= first.height} :
                 out = Slice(b, IF b.height >= m THEN b.height - m + 1 ELSE 0, m)
    <2>1. ReaderInv /\ Answered({"peer", "latest"}) /\ req.kind = "latest"
      BY <1>1 DEF ExplorerInv, Answered
    <2>2. /\ f \in Nat /\ m \in Nat /\ start \in Block /\ first \in Block /\ out \in Seq(Block)
          /\ hashes = <<>> /\ Counted(start) /\ f = FirstHeight(first, m) /\ first \in Range(p)
          /\ d \in Nat \ {0} /\ f + d <= n /\ Len(out) + Len(hashes) = d
          /\ \A i \in 1 .. Len(out) : out[i] = p[f + i]
      BY Zenon, <2>1 DEF ReaderInv, RequestInv, WalkInv, ViewInv, OnChain
    <2>3. Len(out) = d /\ n \in Nat \ {0}
      BY Zenon, <2>2, SeqAlone, PathPlaces
    <2>4. h + 1 \in 1 .. n /\ p[h + 1] = first /\ h \in Nat
      BY Zenon, <2>2, CountedPlace, HeightOfBlock
    <2>5. d = IF f + m > n THEN n - f ELSE m
      BY Zenon DEF Due
    <2>6. f = IF h >= m THEN h - m + 1 ELSE 0
      BY Zenon, <2>2 DEF FirstHeight
    \* Any block of the chain at which as many blocks end as are due will do.
    <2>7. ASSUME NEW i \in 1 .. n, i = f + d, i >= h + 1, f = IF i - 1 >= m THEN i - m ELSE 0
          PROVE  \E b \in {c \in Range(p) : c.height >= first.height} :
                   out = Slice(b, IF b.height >= m THEN b.height - m + 1 ELSE 0, m)
      <3> DEFINE b == p[i]
      <3>1. /\ b \in Block /\ Counted(b) /\ b.height = i - 1 /\ Len(PathTo[b]) = i
            /\ b \in Range(p) /\ \A j \in 1 .. i : PathTo[b][j] = p[j]
        BY Zenon, <2>2, CountedPart
      <3> HIDE DEF b, p, n, f, m, h, d
      <3>2. i \in Nat /\ b.height >= h
        <4>1. n \in Nat /\ h \in Nat
          BY Zenon, <2>3, <2>4
        <4> QED BY Zenon, <4>1, <3>1, <2>7, PlaceAbove
      <3>3. (IF b.height >= m THEN b.height - m + 1 ELSE 0) = f
        <4>1. (i - 1) - m + 1 = i - m
          BY <3>2, <2>2
        <4> QED BY Zenon, <4>1, <3>1, <2>7
      <3>4. Due(b, f, m) = d
        <4>1. start \in Block /\ b \in Block /\ f \in Nat /\ m \in Nat /\ n \in Nat /\ d \in Nat
          BY Zenon, <2>2, <2>3, <3>1
        <4>2. Len(PathTo[b]) = f + d
          BY Zenon, <3>1, <2>7
        <4> QED BY Zenon, <4>1, <4>2, DueAgain DEF d, n
      <3>5. f + d <= Len(PathTo[b])
        BY Zenon, <3>1, <3>2, <2>7, FirstPlace
      <3>6. \A j \in 1 .. Len(out) : out[j] = PathTo[b][f + j]
        <4>1. ASSUME NEW j \in 1 .. Len(out) PROVE out[j] = PathTo[b][f + j]
          <5>1. f \in Nat /\ d \in Nat /\ j \in 1 .. d
            BY Zenon, <2>2, <2>3
          <5>2. f + j \in 1 .. i
            BY Zenon, <5>1, <2>7, PlaceWithin
          <5>3. out[j] = p[f + j]
            BY Zenon, <2>2
          <5> QED BY Zenon, <5>2, <5>3, <3>1
        <4> QED BY Zenon, <4>1
      <3>7. out = Slice(b, f, m)
        <4>1. /\ Due(b, f, m) \in Nat \ {0} /\ f + Due(b, f, m) <= Len(PathTo[b])
              /\ Len(out) = Due(b, f, m)
          BY Zenon, <3>4, <3>5, <2>2, <2>3
        <4>2. b \in Block /\ Counted(b) /\ f \in Nat /\ m \in Nat /\ out \in Seq(Block)
          BY Zenon, <3>1, <2>2
        <4> QED BY Zenon, <4>1, <4>2, <3>6, SliceOf
      <3> QED BY Zenon, <3>1, <3>2, <3>3, <3>7 DEF h
    <2>t. f \in Nat /\ m \in Nat /\ h \in Nat /\ d \in Nat \ {0} /\ f + d <= n
      BY Zenon, <2>2, <2>4
    <2> HIDE DEF p, n, f, m, h, d
    <2>8. CASE h >= m
      <3>1. f = h - m + 1 /\ f + m = h + 1
        BY <2>8, <2>t, <2>6
      <3>2. d = m
        BY <3>1, <2>3, <2>4, <2>5
      <3>3. f + d >= h + 1 /\ f + d \in 1 .. n
        BY <3>1, <3>2, <2>4
      <3>4. f = IF (f + d) - 1 >= m THEN (f + d) - m ELSE 0
        BY <3>1, <3>2, <2>8, <2>t
      <3> QED BY Zenon, <3>3, <3>4, <2>7 DEF p, m
    <2>9. CASE ~(h >= m)
      <3>1. f = 0 /\ h + 1 <= m
        BY <2>9, <2>t, <2>6
      <3>2. d <= m /\ d <= n /\ d >= h + 1
        BY <3>1, <2>t, <2>3, <2>4, <2>5
      <3>3. f + d \in 1 .. n /\ f + d >= h + 1
        BY <3>1, <3>2, <2>t, <2>3
      <3>4. f = IF (f + d) - 1 >= m THEN (f + d) - m ELSE 0
        BY <3>1, <3>2, <2>t
      <3> QED BY Zenon, <3>3, <3>4, <2>7 DEF p, m
    <2> QED BY Zenon, <2>8, <2>9
  <1>2. ExplorerInv => ShowsLatest
    BY Zenon, <1>1 DEF ShowsLatest
  <1> QED BY <1>2, ExplorerInvariant, PTL

\* A block whose heights are right is higher than its predecessor.
LEMMA CountedRises ==
  ASSUME NEW a \in Block, NEW c \in Block, c.prev = a, Counted(c)
  PROVE  ~(c.height <= a.height)
  <1>1. PathTo[c] = Append(PathTo[a], c)
    BY Zenon, PathUnfold
  <1>2. /\ PathTo[a] \in Seq(Block) /\ Len(PathTo[a]) \in Nat \ {0}
        /\ PathTo[a][Len(PathTo[a])] = a
    BY Zenon, PathPlaces
  <1>3. /\ Len(PathTo[c]) = Len(PathTo[a]) + 1 /\ PathTo[c][Len(PathTo[a]) + 1] = c
        /\ PathTo[c][Len(PathTo[a])] = a /\ DOMAIN PathTo[c] = 1 .. Len(PathTo[a]) + 1
    BY <1>1, <1>2
  <1>4. a.height = Len(PathTo[a]) - 1 /\ c.height = (Len(PathTo[a]) + 1) - 1
    <2>1. Len(PathTo[a]) \in DOMAIN PathTo[c] /\ Len(PathTo[a]) + 1 \in DOMAIN PathTo[c]
      BY <1>2, <1>3
    <2> QED BY Zenon, <2>1, <1>3 DEF Counted
  <1> QED BY <1>2, <1>4

\* /block?height: for any blocks and limits, while nothing failed and no chain was
\* replaced, a file of the right height is one of the chain, or of the block a
\* handler or the producer is about to append, which is higher than the tip.
THEOREM ByHeightCorrect == ExplorerSpec => []ByHeightCanonical
  <1>1. ASSUME ExplorerInv, Answered({"height"}), req.from <= tip.height, faults = 0, ~reorged,
               Counted(out[1])
        PROVE  out = <<PathTo[tip][req.from + 1]>>
    <2> DEFINE c == out[1]
    <2>1. /\ out \in Seq(Block) /\ Len(out) = 1 /\ c \in Known /\ c.height = req.from
          /\ tip \in Block /\ batch \in Seq(Block)
      BY Zenon, <1>1 DEF ExplorerInv, ReaderInv, RequestInv, ScanInv, TypeInv, TypeOK
    <2>2. out = <<c>> /\ c \in Block
      <3>1. c \in Block
        <4>1. out \in Seq(Block) /\ Len(out) = 1
          BY Zenon, <2>1
        <4>2. 1 \in 1 .. Len(out)
          BY <4>1
        <4> QED BY Zenon, <4>1, <4>2, ElementOfSeq
      <3>2. <<c>> \in Seq(Block) /\ Len(<<c>>) = 1 /\ <<c>>[1] = c
        BY <3>1
      <3>3. \A i \in 1 .. Len(out) : out[i] = <<c>>[i]
        <4>1. \A i \in 1 .. 1 : i = 1
          OBVIOUS
        <4> QED BY Zenon, <4>1, <3>2, <2>1
      <3> HIDE DEF c
      <3> QED BY Zenon, <3>1, <3>2, <3>3, <2>1, SeqEqual
    <2> HIDE DEF c
    <2>3. CASE c \in Range(PathTo[tip])
      <3>1. PathTo[tip] \in Seq(Block)
        BY Zenon, <2>1, PathPlaces
      <3>2. PICK j \in 1 .. Len(PathTo[tip]) : PathTo[tip][j] = c
        BY <2>3, <3>1 DEF Range
      <3>3. Len(PathTo[c]) = j
        BY Zenon, <3>2, <2>1, PathPlaces
      <3>4. c.height = j - 1
        BY Zenon, <3>3, <2>2, <1>1, CountedPlace DEF c
      <3>5. req.from + 1 = j
        BY <3>1, <3>2, <3>4, <2>1
      <3> QED BY Zenon, <3>2, <3>5, <2>2
    <2>4. CASE hpc \in Writing \cup {"setTip"} /\ c = Newest(batch)
      <3>1. c.prev = tip
        BY Zenon, <2>4, <1>1 DEF ExplorerInv, TipInv
      <3> QED BY Zenon, <3>1, <2>1, <2>2, <1>1, CountedRises DEF c
    <2>5. CASE ppc = "append" /\ c = pb
      <3>1. c.height = tip.height + 1
        BY Zenon, <2>5, <1>1 DEF ExplorerInv, TipInv
      <3>2. tip.height \in Nat
        BY Zenon, <2>1, HeightOfBlock
      <3> QED BY <3>1, <3>2, <2>1, <1>1
    <2> QED BY Zenon, <2>1, <2>3, <2>4, <2>5 DEF Known, Hand
  <1>2. ExplorerInv => ByHeightCanonical
    BY Zenon, <1>1 DEF ByHeightCanonical
  <1> QED BY <1>2, ExplorerInvariant, PTL
=============================================================================
