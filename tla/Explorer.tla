------------------------------ MODULE Explorer ------------------------------
(***************************************************************************)
(* The readers of the chain: a peer's GetBlocks, and /blocks and /block of *)
(* the HTTP API (cmd/node/main.go with core/chain.go), running beside the  *)
(* node.                                                                   *)
(*                                                                         *)
(* None of them takes blockMu.  GetBlocksFrom takes Chain.mu once for the  *)
(* tip and once for each block it loads; GetBlockByHeight scans the        *)
(* directory without it.  A reader is one request at a time, one step per  *)
(* lock or file, and the node moves in between.                            *)
(***************************************************************************)
EXTENDS Node

CONSTANTS
  MaxLimit,      \* the largest limit /blocks accepts, 100 in the code
  DefaultLimit   \* what replaces a limit it refuses: 20, and 50 for a peer

ASSUME ReaderAssumption ==
  MaxLimit \in Nat /\ DefaultLimit \in 1 .. MaxLimit

VARIABLES
  rpc,           \* the reader: "idle", "tip", "walk", "load", "scan", "done"
  req,           \* kind of request, first height, limit
  first,         \* the tip that /blocks computed its first height from
  start,         \* the tip at which GetBlocksFrom started
  hash,          \* the next block of its walk
  hashes,        \* the hashes it has collected, newest first
  left,          \* directory entries of the height not yet looked at
  out            \* the answer

reader == <<rpc, req, first, start, hash, hashes, left, out>>

NoRequest == [kind |-> "none", from |-> 0, max |-> 0]
ReaderIdle ==
  /\ rpc = "idle" /\ req = NoRequest /\ first = Genesis /\ start = Genesis /\ hash = Genesis
  /\ hashes = <<>> /\ left = {} /\ out = <<>>
Forget ==
  /\ rpc' = "idle" /\ req' = NoRequest /\ first' = Genesis /\ start' = Genesis /\ hash' = Genesis
  /\ hashes' = <<>> /\ left' = {} /\ out' = <<>>

PeerLimit(n) == IF n <= 0 THEN DefaultLimit ELSE n
HttpLimit(n) == IF n <= 0 \/ n > MaxLimit THEN DefaultLimit ELSE n

\* The answer of an error, of nothing found and of nothing to send.
Empty == out' = <<>> /\ rpc' = "done"

-----------------------------------------------------------------------------
(* Requests. *)

\* A peer's GetBlocks.
AskFrom(from, n) ==
  /\ up /\ rpc = "idle"
  /\ req' = [kind |-> "peer", from |-> from, max |-> PeerLimit(n)]
  /\ rpc' = "tip"
  /\ UNCHANGED <<first, start, hash, hashes, left, out>>

\* /blocks: the first height is computed from the last block.
FirstOneEarly(last, n) == IF last.height >= n THEN last.height - n ELSE 0
FirstHeight(last, n) == IF last.height >= n THEN last.height - n + 1 ELSE 0

AskLatest(n) ==
  /\ up /\ rpc = "idle" /\ ChainMuFree
  /\ req' = [kind |-> "latest", from |-> FirstHeight(tip, HttpLimit(n)), max |-> HttpLimit(n)]
  /\ first' = tip
  /\ IF LastReadable THEN rpc' = "tip" /\ UNCHANGED out ELSE Empty
  /\ UNCHANGED <<start, hash, hashes, left>>

\* /block?height: the directory is listed, with the file being rewritten and the
\* temporary file of the block being appended, which has the extension looked for.
Entry(b, tmp) == [block |-> b, tmp |-> tmp]
Listed ==
  {Entry(b, FALSE) : b \in files \cup IF hpc \in {"write", "rewrite"} THEN {Head(todo)} ELSE {}}
  \cup IF ppc = "append" THEN {Entry(pb, TRUE)} ELSE {}

MatchesFrom(b, h) == b.height >= h
Matches(b, h) == b.height = h

AskHeight(h) ==
  /\ up /\ rpc = "idle"
  /\ req' = [kind |-> "height", from |-> h, max |-> 1]
  /\ IF h = 0
     THEN out' = <<Genesis>> /\ rpc' = "done" /\ UNCHANGED left
     ELSE left' = {e \in Listed : Matches(e.block, h)} /\ rpc' = "scan" /\ UNCHANGED out
  /\ UNCHANGED <<first, start, hash, hashes>>

-----------------------------------------------------------------------------
(* Chain.GetBlocksFrom. *)

ReadTip ==
  /\ rpc = "tip" /\ ChainMuFree
  /\ start' = tip /\ hash' = tip
  /\ IF tip.height < req.from THEN Empty ELSE rpc' = "walk" /\ UNCHANGED out
  /\ UNCHANGED <<req, first, hashes, left>>

\* What is kept of the hashes: the last ones, which are the lowest blocks.
KeepNewest(hs, n) == SubSeq(hs, 1, IF Len(hs) > n THEN n ELSE Len(hs))
KeepLowest(hs, n) == IF Len(hs) > n THEN SubSeq(hs, Len(hs) - n + 1, Len(hs)) ELSE hs

\* One turn of the walk from the tip down to the first height.
Walk ==
  /\ rpc = "walk" /\ ChainMuFree
  /\ \/ ~HasBlock(hash) /\ Empty /\ UNCHANGED <<hash, hashes>>
     \/ /\ HasBlock(hash)
        /\ IF hash.height <= req.from \/ hash.prev = ZeroHash
           THEN /\ hashes' = KeepLowest(IF hash.height < req.from THEN hashes
                                         ELSE Append(hashes, hash), req.max)
                /\ rpc' = "load" /\ UNCHANGED hash
           ELSE hashes' = Append(hashes, hash) /\ hash' = hash.prev /\ UNCHANGED rpc
        /\ UNCHANGED out
  /\ UNCHANGED <<req, first, start, left>>

\* The blocks are loaded again, oldest first.
Oldest(hs) == hs[Len(hs)]

Load ==
  /\ rpc = "load"
  /\ \/ hashes = <<>> /\ rpc' = "done" /\ UNCHANGED <<hashes, out>>
     \/ /\ hashes # <<>> /\ ChainMuFree /\ HasBlock(Oldest(hashes))
        /\ out' = Append(out, Oldest(hashes))
        /\ hashes' = SubSeq(hashes, 1, Len(hashes) - 1) /\ UNCHANGED rpc
     \/ /\ hashes # <<>> /\ ChainMuFree /\ ~HasBlock(Oldest(hashes))
        /\ Empty /\ UNCHANGED hashes
  /\ UNCHANGED <<req, first, start, hash, left>>

(* Chain.GetBlockByHeight: files are read until one has the height.  A temporary
   file may have its whole block or not yet, and is gone once it is renamed. *)
Opens(e) == IF e.tmp THEN ppc = "append" /\ pb = e.block ELSE HasBlock(e.block)
Misses(e) == e.tmp \/ ~HasBlock(e.block)

Scan ==
  /\ rpc = "scan"
  /\ \/ left = {} /\ Empty /\ UNCHANGED left
     \/ \E e \in left :
          /\ left' = left \ {e}
          /\ \/ Opens(e) /\ out' = <<e.block>> /\ rpc' = "done"
             \/ Misses(e) /\ UNCHANGED <<out, rpc>>
  /\ UNCHANGED <<req, first, start, hash, hashes>>

\* The answer is sent.
Answer == rpc = "done" /\ Forget

-----------------------------------------------------------------------------
ReaderStep ==
  \/ \E from \in 0 .. tip.height + 1, n \in 0 .. MaxLimit + 1 : AskFrom(from, n)
  \/ \E n \in 0 .. MaxLimit + 1 : AskLatest(n)
  \/ \E h \in 0 .. tip.height + 1 : AskHeight(h)
  \/ ReadTip \/ Walk \/ Load \/ Scan \/ Answer

\* A request dies with the process.  Node's GetBlocks is AskFrom in one step.
NodeStep == WriterStep /\ IF up' THEN UNCHANGED reader ELSE Forget

ExplorerInit == Init /\ ReaderIdle
ExplorerNext == NodeStep \/ (ReaderStep /\ UNCHANGED vars)
ExplorerSpec == ExplorerInit /\ [][ExplorerNext]_<<vars, reader>>

-----------------------------------------------------------------------------
(* Properties. *)

\* n blocks of the chain to b, from height h on, as far as there are any.
Slice(b, h, n) ==
  SubSeq(PathTo[b], h + 1, IF h + n > b.height + 1 THEN b.height + 1 ELSE h + n)

Answered(kinds) == rpc = "done" /\ out # <<>> /\ req.kind \in kinds

\* core/chain.go: "GetBlocksFrom returns up to max blocks starting at
\* fromHeight (in order)".  Whatever the producer and the handlers write during
\* the walk, an answer starts at the height asked for, leaves no gap and is cut
\* only by the limit; and unless a chain is being replaced it is part of the
\* chain the node is on when it answers.
AnswerIsSlice ==
  Answered({"peer"}) =>
    /\ out = Slice(start, req.from, req.max)
    /\ ~reorged => Range(out) \subseteq Range(PathTo[tip])

\* README.md: "Last N blocks".  /blocks reads the tip twice.  Its answer ends at
\* a block that was the tip between the two reads, and has as many blocks as
\* the chain up to there allows: blocks appended between the two reads neither
\* shorten the answer nor push its end behind the first tip.
ShowsLatest ==
  Answered({"latest"}) =>
    \E b \in {c \in Range(PathTo[start]) : c.height >= first.height} :
      out = Slice(b, IF b.height >= req.max THEN b.height - req.max + 1 ELSE 0, req.max)

\* /block?height never shows a block that is not on the chain: the scan takes
\* the first file of the height, so there must be no other.  Stated up to the
\* height of the tip and for blocks whose heights are right, while no write
\* failed and no chain was replaced.
ByHeightCanonical ==
  Answered({"height"}) /\ req.from <= tip.height /\ faults = 0 /\ ~reorged /\ Counted(out[1]) =>
    out = <<PathTo[tip][req.from + 1]>>

\* A reader never sees a block whose transactions the account state does not
\* have yet: the producer applies a block before it moves the tip.
ShownIsApplied ==
  Answered({"peer", "latest"}) /\ ~reorged =>
    \A b \in Range(out) : b.txs # <<>> => b \in Range(applied)
=============================================================================
