----------------------------- MODULE Consensus -----------------------------
(* The ordered validator set of package consensus: round-robin by height.  *)
EXTENDS Integers, Lists

\* Leader of a height; only asked of a non-empty list.
ValidatorForHeight(list, height) == list[(height % Len(list)) + 1]

\* getValidatorSet returns a nil set for an empty list, and every caller
\* skips the check when the set is nil.
MayProduce(list, height, addr) ==
  list # <<>> => ValidatorForHeight(list, height) = addr

VerifyBlockValidator(list, b) == MayProduce(list, b.height, b.validator)

\* A mistake: the stake goes and the list stays.
KeepsListed(list, addr) == list

\* SlashValidator's new list: the order of the others is kept.
Without(list, addr) == Drop(list, {addr})
=============================================================================
