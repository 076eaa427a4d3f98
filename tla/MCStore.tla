------------------------------ MODULE MCStore ------------------------------
(* Instantiates Store for TLC: two keys, two values, two transaction      *)
(* handles, 3-bit sequence numbers seeded at 0 or just below the wrap.    *)
EXTENDS Store, TLC

MCHints == {0}

Symm == Permutations(Keys) \cup Permutations(Vals) \cup Permutations(Txns)
MCSeqBits == 3
\* 0 is the value `db_t` starts with; 2 puts the wrap of a 3-bit counter
\* (3 -> -4) within the first two increments.
MCInitYoungest == {0, 2}
\* Fewer increments than 2^SeqBits, so no live window is aliased.
MCMaxBumps == 4
\* Batches of one or two rows: a failed second row leaves the first applied.
MCMaxBatch == 2
=============================================================================
