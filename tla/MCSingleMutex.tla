---- MODULE MCSingleMutex ----
EXTENDS SingleMutex, TLC
Symmetry == Permutations(Tokens)
AllAggressive == [t \in Tokens |-> "Aggressive"]
AllBalanced == [t \in Tokens |-> "Balanced"]

\* Two kinds of holders.  One relies on its watchdog and then drops the handle
\* or crashes; the others extend and release by hand, pass the lock on to a
\* remote client, and call in the administrator.
Supervised == {"watchdog", "drop", "error", "crash"}
ByHand == {"no watchdog", "extend", "release", "disarm", "force", "write"}
MixedUses ==
  LET first == CHOOSE t \in Tokens : TRUE
  IN  [t \in Tokens |-> IF t = first THEN Supervised ELSE ByHand]

WriterUses == [t \in Tokens |-> {"no watchdog", "release", "write"}]
ReleaserUses == [t \in Tokens |-> {"watchdog", "release"}]
====
