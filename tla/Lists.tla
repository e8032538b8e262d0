------------------------------- MODULE Lists -------------------------------
(* The loop that filters a slice, in Mempool.Remove and SlashValidator.  It *)
(* is a recursive function, not SelectSeq, so that facts about it can be    *)
(* proved.                                                                  *)
EXTENDS Integers, Sequences

\* What the loop has kept after each of its turns.
Kept(list, T) ==
  LET kept[n \in 0 .. Len(list)] ==
        IF n = 0 THEN <<>>
        ELSE IF list[n] \in T THEN kept[n-1] ELSE Append(kept[n-1], list[n])
  IN  kept

\* The list without the members of T, in the same order.
Drop(list, T) == Kept(list, T)[Len(list)]
=============================================================================
