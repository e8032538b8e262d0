------------------------------ MODULE HeightLog ------------------------------
(***************************************************************************)
(* What a validator promises to the network, with the disk, the crashes    *)
(* and the restarts left out: the blocks it broadcasts climb.  Each is     *)
(* higher than everything it has broadcast before.                         *)
(***************************************************************************)
EXTENDS Integers

CONSTANT Block
VARIABLE announced

Init == announced = {}

Announce(b) ==
  /\ \A c \in announced : c.height < b.height
  /\ announced' = announced \cup {b}

Next == \E b \in Block : Announce(b)

Spec == Init /\ [][Next]_announced
=============================================================================
