--------------------------- MODULE MCCollections ---------------------------
(* Instantiates Collections for TLC: two names, two heap addresses (so a  *)
(* freed address can be handed out again), two transactions.              *)
EXTENDS Collections, TLC

CONSTANTS c1, c2, a1, a2, t1, t2

MCCNames == {c1, c2}
MCAddrs == {a1, a2}
MCTxns == {t1, t2}
\* Enough creations to re-create a removed collection at a reused address.
MCMaxCreates == 3
\* The allocator treats addresses alike, and names and handles are opaque.
Symm == Permutations(MCCNames) \cup Permutations(MCAddrs) \cup Permutations(MCTxns)
=============================================================================
