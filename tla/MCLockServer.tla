---- MODULE MCLockServer ----
EXTENDS LockServer, TLC
Symmetry == Permutations(Grants) \cup Permutations(Keys) \cup Permutations(Principals)
              \cup Permutations(Sessions)
====
