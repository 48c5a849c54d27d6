---- MODULE MCRedlock ----
EXTENDS Redlock, TLC
Symmetry == Permutations(Tokens)
====
