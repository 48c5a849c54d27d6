----------------------------- MODULE RedlockProofs -----------------------------
(***************************************************************************)
(* Proofs about Redlock for any number of masters from three, any set of   *)
(* rounds, any lease, any set of failing masters and any uses.             *)
(***************************************************************************)
EXTENDS Redlock, FiniteSetTheorems, WellFoundedInduction, TLAPS

\* One step is a step of one of the listed actions.
LEMMA StepCases ==
  ASSUME Next
  PROVE  \/ Tick
         \/ \E t \in Tokens, k \in Kinds : CallNode(t, k) \/ CallFails(t, k)
         \/ \E t \in Tokens, s \in Scripts, n \in Nodes : ServeLate(t, s, n)
         \/ \E t \in Tokens :
              \/ TryLock(t) \/ Decide(t) \/ AllocateFence(t) \/ RollbackDone(t)
              \/ AcquireError(t) \/ AllocateError(t)
              \/ Extend(t) \/ Release(t) \/ DropHandle(t) \/ Crash(t)
              \/ ExtendDone(t) \/ ReleaseDone(t)
              \/ WatchdogExit(t) \/ WatchdogRenew(t) \/ RenewDone(t)
  BY Zenon DEF Next, Network, Acquisition, User, Watchdog

\* A non-empty set of natural numbers has a least element.
LEMMA LeastElement ==
  ASSUME NEW S \in SUBSET Nat, S # {}
  PROVE  \E n \in S : \A m \in S : n <= m
  <1> DEFINE R == OpToRel(<, Nat)
  <1>1. IsWellFoundedOn(R, Nat)
    BY NatLessThanWellFounded
  <1>2. \A x, y \in Nat : <<x, y>> \in R <=> x < y
    BY DEF OpToRel
  <1> HIDE DEF R
  <1>3. PICK x \in S : \A y \in S : ~(<<y, x>> \in R)
    BY <1>1, WFMin
  <1>4. ASSUME NEW y \in S PROVE x <= y
    <2>1. x \in Nat /\ y \in Nat /\ ~(<<y, x>> \in R)
      BY <1>3
    <2>2. ~(y < x)
      BY Zenon, <1>2, <2>1
    <2>. QED
      BY <2>1, <2>2
  <1>. QED
    BY <1>4

\* The loop calls a master that it has not called yet.
LEMMA NextNodeTodo ==
  ASSUME TypeOK, NEW t \in Tokens, NEW k \in Kinds, Calling(t, k)
  PROVE  NextNode(t, k) \in round[t][k].todo /\ NextNode(t, k) \in Nodes
  <1>1. round[t][k].todo \in SUBSET Nodes /\ round[t][k].todo # {}
    BY DEF TypeOK, Calling, Rounds
  <1>2. round[t][k].todo \in SUBSET Nat
    BY <1>1, RingAssumption DEF Nodes
  <1>3. \E n \in round[t][k].todo : \A m \in round[t][k].todo : n <= m
    BY <1>1, <1>2, LeastElement
  <1>. QED
    BY <1>1, <1>3 DEF NextNode

------------------------------------------------------------------------------
(* The loops over the masters. *)

\* Assigning one loop of one token.
LEMMA RoundSet ==
  ASSUME TypeOK, NEW t \in Tokens, NEW k \in Kinds, NEW r,
         round' = [round EXCEPT ![t][k] = r]
  PROVE  /\ round'[t][k] = r
         /\ \A u \in Tokens, j \in Kinds : u # t \/ j # k => round'[u][j] = round[u][j]
         /\ r \in Rounds => round' \in [Tokens -> [Kinds -> Rounds]]
  <1>1. round \in [Tokens -> [Kinds -> Rounds]]
    BY DEF TypeOK
  <1>2. /\ round'[t] = [round[t] EXCEPT ![k] = r]
        /\ \A u \in Tokens : u # t => round'[u] = round[u]
    BY <1>1
  <1>. QED
    BY <1>1, <1>2

\* Assigning all loops of one token.
LEMMA RoundsSet ==
  ASSUME TypeOK, NEW t \in Tokens, NEW f \in [Kinds -> Rounds],
         round' = [round EXCEPT ![t] = f]
  PROVE  /\ round'[t] = f
         /\ \A u \in Tokens : u # t => round'[u] = round[u]
         /\ round' \in [Tokens -> [Kinds -> Rounds]]
  BY DEF TypeOK

\* A new loop and no loop.
LEMMA LoopTypes ==
  /\ Idle \in Rounds
  /\ \A nodes \in SUBSET Nodes : Over(nodes) \in Rounds
  /\ \A nodes : Over(nodes).on /\ Over(nodes).todo = nodes /\ Over(nodes).ok = {}
  /\ ~Idle.on /\ Idle.ok = {} /\ Idle.todo = {}
  BY DEF Idle, Over, Rounds

\* What an answered call does to its loop.
LEMMA CallNodeLoop ==
  ASSUME TypeOK, NEW t \in Tokens, NEW k \in Kinds, CallNode(t, k)
  PROVE  LET n == NextNode(t, k)
             r == round[t][k]
             yes == Accepts(t, ScriptOf(k), n)
         IN  /\ r.on /\ n \in r.todo /\ n \in Nodes
             /\ round'[t][k].on
             /\ round'[t][k].todo = r.todo \ {n}
             /\ yes => round'[t][k].ok = r.ok \cup {n}
             /\ ~yes => round'[t][k].ok = r.ok
             /\ \A u \in Tokens, j \in Kinds :
                  u # t \/ j # k => round'[u][j] = round[u][j]
             /\ round' \in [Tokens -> [Kinds -> Rounds]]
  <1> DEFINE n == NextNode(t, k)
             r == round[t][k]
             yes == Accepts(t, ScriptOf(k), n)
             q == Answered(r, n, yes)
  <1>1. n \in r.todo /\ n \in Nodes /\ r.on
    BY NextNodeTodo DEF CallNode, Calling
  <1>2. r \in Rounds
    BY DEF TypeOK
  <1>3. round' = [round EXCEPT ![t][k] = q]
    BY DEF CallNode
  <1>4. yes \in BOOLEAN
    BY Zenon DEF Accepts
  <1> HIDE DEF r, n, yes, q
  <1>5. /\ q.on = r.on
        /\ q.todo = r.todo \ {n}
        /\ yes => q.ok = r.ok \cup {n}
        /\ ~yes => q.ok = r.ok
    BY <1>1, <1>2, <1>4 DEF Rounds, Answered, q
  <1>6. q \in Rounds
    BY <1>1, <1>2, <1>4 DEF Rounds, Answered, q
  <1>7. /\ round'[t][k] = q
        /\ \A u \in Tokens, j \in Kinds : u # t \/ j # k => round'[u][j] = round[u][j]
        /\ round' \in [Tokens -> [Kinds -> Rounds]]
    BY <1>3, <1>6, RoundSet
  <1>8. /\ r.on /\ n \in r.todo /\ n \in Nodes
        /\ round'[t][k].on
        /\ round'[t][k].todo = r.todo \ {n}
        /\ yes => round'[t][k].ok = r.ok \cup {n}
        /\ ~yes => round'[t][k].ok = r.ok
    BY <1>1, <1>5, <1>7
  <1>. QED
    BY <1>7, <1>8 DEF r, n, yes

\* What a failed call does to its loop.
LEMMA CallFailsLoop ==
  ASSUME TypeOK, NEW t \in Tokens, NEW k \in Kinds, CallFails(t, k)
  PROVE  LET n == NextNode(t, k)
             r == round[t][k]
         IN  /\ r.on /\ n \in r.todo /\ n \in Nodes
             /\ round'[t][k].on /\ round'[t][k].ok = r.ok
             /\ round'[t][k].todo = r.todo \ {n}
             /\ \A u \in Tokens, j \in Kinds :
                  u # t \/ j # k => round'[u][j] = round[u][j]
             /\ round' \in [Tokens -> [Kinds -> Rounds]]
             /\ UnderWay(t, k) = {<<ScriptOf(k), n>>}
  <1> DEFINE n == NextNode(t, k)
             r == round[t][k]
             q == [r EXCEPT !.todo = @ \ {n}]
  <1>1. n \in r.todo /\ n \in Nodes /\ r.on
    BY NextNodeTodo DEF CallFails, Calling
  <1>2. r \in Rounds
    BY DEF TypeOK
  <1>3. round' = [round EXCEPT ![t][k] = q]
    BY DEF CallFails, TypeOK
  <1>4. /\ q.on = r.on /\ q.todo = r.todo \ {n} /\ q.ok = r.ok /\ q \in Rounds
    <2> HIDE DEF r, n
    <2>. QED
      BY <1>1, <1>2 DEF Rounds
  <1> HIDE DEF q, r, n
  <1>5. /\ round'[t][k] = q
        /\ \A u \in Tokens, j \in Kinds : u # t \/ j # k => round'[u][j] = round[u][j]
        /\ round' \in [Tokens -> [Kinds -> Rounds]]
    BY <1>3, <1>4, RoundSet
  <1>6. UnderWay(t, k) = {<<ScriptOf(k), n>>}
    BY DEF CallFails, UnderWay, n
  <1>. QED
    BY <1>1, <1>4, <1>5, <1>6 DEF r, n

\* Starting a loop touches no other loop.
LEMMA StartLoop ==
  ASSUME TypeOK, NEW t \in Tokens, NEW k \in Kinds, NEW nodes \in SUBSET Nodes,
         Start(t, k, nodes)
  PROVE  /\ round'[t][k] = Over(nodes)
         /\ \A u \in Tokens, j \in Kinds : u # t \/ j # k => round'[u][j] = round[u][j]
         /\ round' \in [Tokens -> [Kinds -> Rounds]]
  <1> DEFINE r == Over(nodes)
  <1>1. round' = [round EXCEPT ![t][k] = r] /\ r \in Rounds
    BY LoopTypes DEF Start
  <1> HIDE DEF r
  <1>2. /\ round'[t][k] = r
        /\ \A u \in Tokens, j \in Kinds : u # t \/ j # k => round'[u][j] = round[u][j]
        /\ round' \in [Tokens -> [Kinds -> Rounds]]
    BY <1>1, RoundSet
  <1>. QED
    BY <1>2 DEF r

\* Stopping a loop touches no other loop.
LEMMA StopLoop ==
  ASSUME TypeOK, NEW t \in Tokens, NEW k \in Kinds, Stop(t, k)
  PROVE  /\ round'[t][k] = Idle
         /\ \A u \in Tokens, j \in Kinds : u # t \/ j # k => round'[u][j] = round[u][j]
         /\ round' \in [Tokens -> [Kinds -> Rounds]]
  <1> DEFINE r == Idle
  <1>1. round' = [round EXCEPT ![t][k] = r] /\ r \in Rounds
    BY LoopTypes DEF Stop
  <1> HIDE DEF r
  <1>2. /\ round'[t][k] = r
        /\ \A u \in Tokens, j \in Kinds : u # t \/ j # k => round'[u][j] = round[u][j]
        /\ round' \in [Tokens -> [Kinds -> Rounds]]
    BY <1>1, RoundSet
  <1>. QED
    BY <1>2 DEF r

\* The verdict on an acquisition round starts the rollback or nothing.
LEMMA DecideLoop ==
  ASSUME TypeOK, NEW t \in Tokens, Decide(t)
  PROVE  /\ round' \in [Tokens -> [Kinds -> Rounds]]
         /\ \A u \in Tokens, j \in Kinds :
              u # t \/ j \notin {"acquire", "rollback"} => round'[u][j] = round[u][j]
         /\ IF HasQuorum(t, "acquire") /\ InTime(t)
            THEN /\ round'[t]["acquire"] = Idle
                 /\ round'[t]["rollback"] = round[t]["rollback"]
            ELSE /\ ~round'[t]["acquire"].on
                 /\ round'[t]["acquire"].ok = round[t]["acquire"].ok
                 /\ round'[t]["rollback"] = Over(round[t]["acquire"].ok)
  <1>0. "acquire" \in Kinds /\ "rollback" \in Kinds
    BY DEF Kinds
  <1>1. CASE HasQuorum(t, "acquire") /\ InTime(t)
    BY <1>0, <1>1, StopLoop DEF Decide
  <1>2. CASE ~(HasQuorum(t, "acquire") /\ InTime(t))
    <2> DEFINE a == round[t]["acquire"]
               f == [round[t] EXCEPT !["acquire"] = [a EXCEPT !.on = FALSE],
                                     !["rollback"] = Over(a.ok)]
    <2>1. round' = [round EXCEPT ![t] = f]
      BY <1>2 DEF Decide, Taken, TypeOK
    <2>2. a \in Rounds /\ Over(a.ok) \in Rounds
      BY <1>0, LoopTypes DEF TypeOK, Rounds
    <2>3. /\ [a EXCEPT !.on = FALSE] \in Rounds
          /\ ~[a EXCEPT !.on = FALSE].on
          /\ [a EXCEPT !.on = FALSE].ok = a.ok
      BY <2>2 DEF Rounds
    <2>4. /\ f \in [Kinds -> Rounds]
          /\ f["acquire"] = [a EXCEPT !.on = FALSE]
          /\ f["rollback"] = Over(a.ok)
          /\ \A j \in Kinds \ {"acquire", "rollback"} : f[j] = round[t][j]
      <3>1. round[t] \in [Kinds -> Rounds]
        BY DEF TypeOK
      <3> HIDE DEF a
      <3>. QED
        BY <1>0, <2>2, <2>3, <3>1
    <2> HIDE DEF f
    <2>5. /\ round'[t] = f
          /\ \A u \in Tokens : u # t => round'[u] = round[u]
          /\ round' \in [Tokens -> [Kinds -> Rounds]]
      BY <2>1, <2>4, RoundsSet
    <2>. QED
      BY <1>2, <2>3, <2>4, <2>5
  <1>. QED
    BY <1>1, <1>2

\* Dropping the handle cancels its calls and may detach a release.
LEMMA DropLoop ==
  ASSUME TypeOK, NEW t \in Tokens, DropHandle(t)
  PROVE  /\ round' \in [Tokens -> [Kinds -> Rounds]]
         /\ \A u \in Tokens, j \in Kinds :
              u # t \/ j \notin {"extend", "release"} => round'[u][j] = round[u][j]
  <1> DEFINE stopped == [round[t] EXCEPT !["extend"] = Idle, !["release"] = Idle]
             f == IF watchdog[t] = "renew" THEN stopped ELSE Detached(t, stopped)
  <1>1. round' = [round EXCEPT ![t] = f]
    BY DEF DropHandle
  <1>2. stopped \in [Kinds -> Rounds] /\ \A j \in Kinds \ {"extend", "release"} :
          stopped[j] = round[t][j]
    BY LoopTypes DEF TypeOK, Kinds
  <1>3. Over(Nodes) \in Rounds
    BY LoopTypes
  <1> HIDE DEF stopped
  <1>4. f \in [Kinds -> Rounds] /\ \A j \in Kinds \ {"extend", "release"} :
          f[j] = round[t][j]
    BY <1>2, <1>3 DEF Detached
  <1> HIDE DEF f
  <1>5. /\ round'[t] = f
        /\ \A u \in Tokens : u # t => round'[u] = round[u]
        /\ round' \in [Tokens -> [Kinds -> Rounds]]
    BY <1>1, <1>4, RoundsSet
  <1>. QED
    BY <1>4, <1>5

\* The end of a renewal stops its loop and may detach a release.
LEMMA RenewDoneLoop ==
  ASSUME TypeOK, NEW t \in Tokens, RenewDone(t)
  PROVE  /\ round' \in [Tokens -> [Kinds -> Rounds]]
         /\ \A u \in Tokens, j \in Kinds :
              u # t \/ j \notin {"renew", "release"} => round'[u][j] = round[u][j]
         /\ phase[t] # "dropping" => round'[t]["release"] = round[t]["release"]
  <1> DEFINE stopped == [round[t] EXCEPT !["renew"] = Idle]
             f == IF phase[t] = "dropping" THEN Detached(t, stopped) ELSE stopped
  <1>1. round' = [round EXCEPT ![t] = f]
    BY DEF RenewDone
  <1>2. stopped \in [Kinds -> Rounds] /\ \A j \in Kinds \ {"renew"} :
          stopped[j] = round[t][j]
    BY LoopTypes DEF TypeOK, Kinds
  <1>3. Over(Nodes) \in Rounds
    BY LoopTypes
  <1> HIDE DEF stopped
  <1>4. /\ f \in [Kinds -> Rounds]
        /\ \A j \in Kinds \ {"renew", "release"} : f[j] = round[t][j]
        /\ phase[t] # "dropping" => f["release"] = round[t]["release"]
    BY <1>2, <1>3 DEF Detached, Kinds
  <1> HIDE DEF f
  <1>5. /\ round'[t] = f
        /\ \A u \in Tokens : u # t => round'[u] = round[u]
        /\ round' \in [Tokens -> [Kinds -> Rounds]]
    BY <1>1, <1>4, RoundsSet
  <1>. QED
    BY <1>4, <1>5

------------------------------------------------------------------------------
(* Type correctness. *)

\* The request under way, if any, is a script for a master of the ring.
LEMMA UnderWayType ==
  ASSUME TypeOK, NEW t \in Tokens, NEW k \in Kinds
  PROVE  UnderWay(t, k) \subseteq {ScriptOf(k)} \X Nodes /\ ScriptOf(k) \in Scripts
  <1>1. ScriptOf(k) \in Scripts
    BY DEF Kinds, Scripts, ScriptOf
  <1>2. CASE Calling(t, k)
    <2>1. UnderWay(t, k) = {<<ScriptOf(k), NextNode(t, k)>>}
      BY <1>2 DEF UnderWay
    <2>. QED
      BY <1>1, <1>2, <2>1, NextNodeTodo
  <1>3. CASE ~Calling(t, k)
    BY <1>1, <1>3 DEF UnderWay
  <1>. QED
    BY <1>1, <1>2, <1>3

\* A script keeps the types of the ring.
LEMMA ScriptType ==
  ASSUME TypeOK, NEW t \in Tokens, NEW x, NEW n \in Nodes, RunScript(t, x, n)
  PROVE  holder' \in [Nodes -> Tokens \cup {None}] /\ left' \in [Nodes -> 0 .. Ttl]
  <1>1. CASE ~Accepts(t, x, n)
    BY <1>1 DEF RunScript, TypeOK, ring
  <1>2. CASE Accepts(t, x, n)
    <2>1. /\ holder' = [holder EXCEPT ![n] = IF x = "release" THEN None ELSE t]
          /\ left' = [left EXCEPT ![n] = IF x = "release" THEN 0 ELSE Ttl]
      BY <1>2 DEF RunScript
    <2>. QED
      BY <2>1, TtlAssumption DEF TypeOK
  <1>. QED
    BY <1>1, <1>2

\* Every step keeps the types.
LEMMA TypeStep == TypeOK /\ [Next]_vars => TypeOK'
  <1> SUFFICES ASSUME TypeOK, [Next]_vars PROVE TypeOK'
    OBVIOUS
  <1>k. /\ "acquire" \in Kinds /\ "rollback" \in Kinds /\ "extend" \in Kinds
        /\ "renew" \in Kinds /\ "release" \in Kinds
    BY DEF Kinds
  <1>d. Ttl \in Nat /\ Ttl \div RenewDiv \in Nat
    BY TtlAssumption, RenewDivAssumption
  <1>1. CASE UNCHANGED vars
    BY <1>1 DEF TypeOK, vars, ring, handle, history
  <1>2. CASE Tick
    BY <1>2, <1>d DEF TypeOK, Tick, Less, history
  <1>3. ASSUME NEW t \in Tokens, NEW k \in Kinds, CallNode(t, k) PROVE TypeOK'
    <2>1. round' \in [Tokens -> [Kinds -> Rounds]] /\ NextNode(t, k) \in Nodes
      BY <1>3, CallNodeLoop
    <2>2. holder' \in [Nodes -> Tokens \cup {None}] /\ left' \in [Nodes -> 0 .. Ttl]
      BY <1>3, <2>1, ScriptType DEF CallNode
    <2>. QED
      BY <1>3, <2>1, <2>2 DEF TypeOK, CallNode, handle, history
  <1>4. ASSUME NEW t \in Tokens, NEW k \in Kinds, CallFails(t, k) PROVE TypeOK'
    <2>1. round' \in [Tokens -> [Kinds -> Rounds]]
      BY <1>4, CallFailsLoop
    <2>2. late' \in [Tokens -> SUBSET (Scripts \X Nodes)]
      BY <1>4, UnderWayType DEF CallFails, TypeOK
    <2>. QED
      BY <1>4, <2>1, <2>2 DEF TypeOK, CallFails, ring, handle, history
  <1>5. ASSUME NEW t \in Tokens, NEW x \in Scripts, NEW n \in Nodes, ServeLate(t, x, n)
        PROVE  TypeOK'
    <2>1. holder' \in [Nodes -> Tokens \cup {None}] /\ left' \in [Nodes -> 0 .. Ttl]
      BY <1>5, ScriptType DEF ServeLate
    <2>2. late' \in [Tokens -> SUBSET (Scripts \X Nodes)]
      BY <1>5 DEF ServeLate, TypeOK
    <2>. QED
      BY <1>5, <2>1, <2>2 DEF TypeOK, ServeLate, handle, history
  <1>6. ASSUME NEW t \in Tokens, TryLock(t) PROVE TypeOK'
    <2>1. round' \in [Tokens -> [Kinds -> Rounds]]
      BY <1>k, <1>6, StartLoop DEF TryLock
    <2>. QED
      BY <1>6, <2>1 DEF TypeOK, TryLock, ring, handle, history, Phases
  <1>7. ASSUME NEW t \in Tokens, Decide(t) PROVE TypeOK'
    <2>1. round' \in [Tokens -> [Kinds -> Rounds]]
      BY <1>7, DecideLoop
    <2>2. /\ phase' \in [Tokens -> Phases]
          /\ quorums' \in Nat /\ quorumNo' \in [Tokens -> Nat]
      <3>1. \/ /\ phase' = [phase EXCEPT ![t] = "allocating"]
               /\ quorums' = quorums + 1
               /\ quorumNo' = [quorumNo EXCEPT ![t] = quorums + 1]
            \/ /\ phase' = [phase EXCEPT ![t] = "rollback"]
               /\ quorums' = quorums /\ quorumNo' = quorumNo
        BY <1>7 DEF Decide, history
      <3>2. /\ phase \in [Tokens -> Phases]
            /\ quorums \in Nat /\ quorumNo \in [Tokens -> Nat]
        BY DEF TypeOK
      <3>3. phase' \in [Tokens -> Phases]
        BY <3>1, <3>2 DEF Phases
      <3>. QED
        BY <3>1, <3>2, <3>3
    <2>. QED
      BY <1>7, <2>1, <2>2 DEF TypeOK, Decide, ring, handle
  <1>8. ASSUME NEW t \in Tokens, AllocateFence(t) PROVE TypeOK'
    BY <1>d, <1>8 DEF TypeOK, AllocateFence, ring, history, Phases
  <1>9. ASSUME NEW t \in Tokens, AllocateError(t) PROVE TypeOK'
    BY <1>9 DEF TypeOK, AllocateError, ring, handle, history, Phases
  <1>10. ASSUME NEW t \in Tokens, RollbackDone(t) PROVE TypeOK'
    <2>1. round' \in [Tokens -> [Kinds -> Rounds]]
      BY <1>k, <1>10, StopLoop DEF RollbackDone
    <2>. QED
      BY <1>10, <2>1 DEF TypeOK, RollbackDone, ring, handle, history, Phases
  <1>11. ASSUME NEW t \in Tokens, AcquireError(t) PROVE TypeOK'
    <2>1. round' \in [Tokens -> [Kinds -> Rounds]]
      BY <1>k, <1>11, StopLoop DEF AcquireError
    <2>2. late' \in [Tokens -> SUBSET (Scripts \X Nodes)]
      BY <1>k, <1>11, UnderWayType DEF AcquireError, TypeOK
    <2>. QED
      BY <1>11, <2>1, <2>2 DEF TypeOK, AcquireError, ring, handle, history, Phases
  <1>12. ASSUME NEW t \in Tokens, Extend(t) PROVE TypeOK'
    <2>1. round' \in [Tokens -> [Kinds -> Rounds]]
      BY <1>k, <1>12, StartLoop DEF Extend
    <2>. QED
      BY <1>12, <2>1 DEF TypeOK, Extend, ring, handle, history
  <1>13. ASSUME NEW t \in Tokens, Release(t) PROVE TypeOK'
    <2>1. round' \in [Tokens -> [Kinds -> Rounds]]
      BY <1>k, <1>13, StartLoop DEF Release
    <2>. QED
      BY <1>13, <2>1 DEF TypeOK, Release, ring, history
  <1>14. ASSUME NEW t \in Tokens, DropHandle(t) PROVE TypeOK'
    <2>1. round' \in [Tokens -> [Kinds -> Rounds]]
      BY <1>14, DropLoop
    <2>2. late' \in [Tokens -> SUBSET (Scripts \X Nodes)]
      <3>1. UnderWay(t, "extend") \cup UnderWay(t, "release") \subseteq Scripts \X Nodes
        BY <1>k, UnderWayType
      <3>. QED
        BY <1>14, <3>1 DEF DropHandle, TypeOK
    <2>. QED
      BY <1>14, <2>1, <2>2 DEF TypeOK, DropHandle, ring, history, Phases
  <1>15. ASSUME NEW t \in Tokens, Crash(t) PROVE TypeOK'
    <2>1. round' \in [Tokens -> [Kinds -> Rounds]]
      BY <1>15, LoopTypes DEF Crash, TypeOK
    <2>2. late' \in [Tokens -> SUBSET (Scripts \X Nodes)]
      <3>1. UNION {UnderWay(t, k) : k \in Kinds} \subseteq Scripts \X Nodes
        BY UnderWayType
      <3>. QED
        BY <1>15, <3>1 DEF Crash, TypeOK
    <2>. QED
      BY <1>15, <2>1, <2>2 DEF TypeOK, Crash, ring, history, Phases
  <1>16. ASSUME NEW t \in Tokens, ExtendDone(t) PROVE TypeOK'
    <2>1. round' \in [Tokens -> [Kinds -> Rounds]]
      BY <1>k, <1>16, StopLoop DEF ExtendDone
    <2>2. lost' \in [Tokens -> BOOLEAN]
      BY <1>16 DEF ExtendDone, TypeOK
    <2>. QED
      BY <1>16, <2>1, <2>2 DEF TypeOK, ExtendDone, ring, history
  <1>17. ASSUME NEW t \in Tokens, ReleaseDone(t) PROVE TypeOK'
    <2>1. round' \in [Tokens -> [Kinds -> Rounds]]
      BY <1>k, <1>17, StopLoop DEF ReleaseDone
    <2>2. result' \in [Tokens -> {"none", "ok", "lost", "error"}]
      BY <1>17 DEF ReleaseDone, TypeOK
    <2>. QED
      BY <1>17, <2>1, <2>2 DEF TypeOK, ReleaseDone, ring, history
  <1>18. ASSUME NEW t \in Tokens, WatchdogExit(t) PROVE TypeOK'
    BY <1>18 DEF TypeOK, WatchdogExit, ring, history
  <1>19. ASSUME NEW t \in Tokens, WatchdogRenew(t) PROVE TypeOK'
    <2>1. round' \in [Tokens -> [Kinds -> Rounds]]
      BY <1>k, <1>19, StartLoop DEF WatchdogRenew
    <2>. QED
      BY <1>19, <2>1 DEF TypeOK, WatchdogRenew, ring, history
  <1>20. ASSUME NEW t \in Tokens, RenewDone(t) PROVE TypeOK'
    <2>1. round' \in [Tokens -> [Kinds -> Rounds]]
      BY <1>20, RenewDoneLoop
    <2>2. Failures(t) \in Nat
      BY DEF Failures, TypeOK
    <2>3. /\ watchdog' \in [Tokens -> {"off", "sleep", "renew"}]
          /\ timer' \in [Tokens -> Nat] /\ transient' \in [Tokens -> Nat]
          /\ lost' \in [Tokens -> BOOLEAN]
      BY <1>20, <1>d, <2>2 DEF RenewDone, TypeOK
    <2>4. phase' \in [Tokens -> Phases] /\ gone' \in [Tokens -> BOOLEAN]
      BY <1>20 DEF RenewDone, TypeOK, Phases
    <2>. QED
      BY <1>20, <2>1, <2>3, <2>4 DEF TypeOK, RenewDone, ring, history
  <1>. QED
    BY <1>1, <1>2, <1>3, <1>4, <1>5, <1>6, <1>7, <1>8, <1>9, <1>10, <1>11, <1>12,
       <1>13, <1>14, <1>15, <1>16, <1>17, <1>18, <1>19, <1>20, StepCases

\* Every variable of the ring and of its clients keeps its type.
THEOREM TypeCorrect == Spec => []TypeOK
  <1>1. Init => TypeOK
    BY LoopTypes, TtlAssumption DEF Init, TypeOK, Phases
  <1>. QED
    BY <1>1, TypeStep, PTL DEF Spec

------------------------------------------------------------------------------
(* What a step does to one client. *)

\* A step of others, as far as the client of t can see.
Untouched(t) ==
  /\ phase'[t] = phase[t] /\ late'[t] = late[t]
  /\ fence'[t] = fence[t] /\ quorumNo'[t] = quorumNo[t]
  /\ \A j \in Kinds : round'[t][j] = round[t][j]

\* A step of t's own client, or of a master that runs a late script of t.
OwnStep(t) ==
  \/ \E k \in Kinds : CallNode(t, k) \/ CallFails(t, k)
  \/ \E x \in Scripts, n \in Nodes : ServeLate(t, x, n)
  \/ TryLock(t) \/ Decide(t) \/ AllocateFence(t) \/ RollbackDone(t)
  \/ AcquireError(t) \/ AllocateError(t)
  \/ Extend(t) \/ Release(t) \/ DropHandle(t) \/ Crash(t)
  \/ ExtendDone(t) \/ ReleaseDone(t)
  \/ WatchdogExit(t) \/ WatchdogRenew(t) \/ RenewDone(t)

\* Clients do not touch each other.
LEMMA OneClient ==
  ASSUME TypeOK, [Next]_vars, NEW t \in Tokens
  PROVE  OwnStep(t) \/ Untouched(t)
  <1> SUFFICES ASSUME ~OwnStep(t) PROVE Untouched(t)
    OBVIOUS
  <1>k. /\ "acquire" \in Kinds /\ "rollback" \in Kinds /\ "extend" \in Kinds
        /\ "renew" \in Kinds /\ "release" \in Kinds
    BY DEF Kinds
  <1>1. CASE UNCHANGED vars
    BY <1>1 DEF vars, history, Untouched
  <1>2. CASE Tick
    BY <1>2 DEF Tick, history, Untouched
  <1>3. ASSUME NEW u \in Tokens, NEW k \in Kinds, CallNode(u, k) PROVE Untouched(t)
    <2>1. u # t
      BY <1>3 DEF OwnStep
    <2>. QED
      BY <1>3, <2>1, CallNodeLoop DEF CallNode, history, Untouched
  <1>4. ASSUME NEW u \in Tokens, NEW k \in Kinds, CallFails(u, k) PROVE Untouched(t)
    <2>1. u # t
      BY <1>4 DEF OwnStep
    <2>2. \A j \in Kinds : round'[t][j] = round[t][j]
      BY <1>4, <2>1, CallFailsLoop
    <2>. QED
      BY <1>4, <2>1, <2>2 DEF CallFails, history, Untouched, TypeOK
  <1>5. ASSUME NEW u \in Tokens, NEW x \in Scripts, NEW n \in Nodes, ServeLate(u, x, n)
        PROVE  Untouched(t)
    <2>1. u # t
      BY <1>5 DEF OwnStep
    <2>. QED
      BY <1>5, <2>1 DEF ServeLate, history, Untouched, TypeOK
  <1>6. ASSUME NEW u \in Tokens, TryLock(u) PROVE Untouched(t)
    <2>1. u # t
      BY <1>6 DEF OwnStep
    <2>2. \A j \in Kinds : round'[t][j] = round[t][j]
      BY <1>k, <1>6, <2>1, StartLoop DEF TryLock
    <2>. QED
      BY <1>6, <2>1, <2>2 DEF TryLock, history, Untouched, TypeOK
  <1>7. ASSUME NEW u \in Tokens, Decide(u) PROVE Untouched(t)
    <2>1. u # t
      BY <1>7 DEF OwnStep
    <2>2. \A j \in Kinds : round'[t][j] = round[t][j]
      BY <1>7, <2>1, DecideLoop
    <2>3. phase'[t] = phase[t] /\ quorumNo'[t] = quorumNo[t]
      BY <1>7, <2>1 DEF Decide, TypeOK, history
    <2>. QED
      BY <1>7, <2>2, <2>3 DEF Decide, Untouched
  <1>8. ASSUME NEW u \in Tokens, AllocateFence(u) \/ AllocateError(u) PROVE Untouched(t)
    <2>1. u # t
      BY <1>8 DEF OwnStep
    <2>. QED
      BY <1>8, <2>1 DEF AllocateFence, AllocateError, history, Untouched, TypeOK
  <1>9. ASSUME NEW u \in Tokens, RollbackDone(u) \/ ExtendDone(u) \/ ReleaseDone(u)
        PROVE  Untouched(t)
    <2>1. u # t
      BY <1>9 DEF OwnStep
    <2>2. \A j \in Kinds : round'[t][j] = round[t][j]
      BY <1>k, <1>9, <2>1, StopLoop DEF RollbackDone, ExtendDone, ReleaseDone
    <2>. QED
      BY <1>9, <2>1, <2>2
         DEF RollbackDone, ExtendDone, ReleaseDone, history, Untouched, TypeOK
  <1>10. ASSUME NEW u \in Tokens, AcquireError(u) PROVE Untouched(t)
    <2>1. u # t
      BY <1>10 DEF OwnStep
    <2>2. \A j \in Kinds : round'[t][j] = round[t][j]
      BY <1>k, <1>10, <2>1, StopLoop DEF AcquireError
    <2>. QED
      BY <1>10, <2>1, <2>2 DEF AcquireError, history, Untouched, TypeOK
  <1>11. ASSUME NEW u \in Tokens, Extend(u) \/ Release(u) \/ WatchdogRenew(u)
         PROVE  Untouched(t)
    <2>1. u # t
      BY <1>11 DEF OwnStep
    <2>2. \A j \in Kinds : round'[t][j] = round[t][j]
      BY <1>k, <1>11, <2>1, StartLoop DEF Extend, Release, WatchdogRenew
    <2>. QED
      BY <1>11, <2>1, <2>2 DEF Extend, Release, WatchdogRenew, history, Untouched
  <1>12. ASSUME NEW u \in Tokens, DropHandle(u) PROVE Untouched(t)
    <2>1. u # t
      BY <1>12 DEF OwnStep
    <2>2. \A j \in Kinds : round'[t][j] = round[t][j]
      BY <1>12, <2>1, DropLoop
    <2>. QED
      BY <1>12, <2>1, <2>2 DEF DropHandle, history, Untouched, TypeOK
  <1>13. ASSUME NEW u \in Tokens, Crash(u) PROVE Untouched(t)
    <2>1. u # t
      BY <1>13 DEF OwnStep
    <2>. QED
      BY <1>13, <2>1 DEF Crash, history, Untouched, TypeOK
  <1>14. ASSUME NEW u \in Tokens, WatchdogExit(u) PROVE Untouched(t)
    BY <1>14 DEF WatchdogExit, history, Untouched
  <1>15. ASSUME NEW u \in Tokens, RenewDone(u) PROVE Untouched(t)
    <2>1. u # t
      BY <1>15 DEF OwnStep
    <2>2. \A j \in Kinds : round'[t][j] = round[t][j]
      BY <1>15, <2>1, RenewDoneLoop
    <2>3. phase'[t] = phase[t]
      BY <1>15, <2>1 DEF RenewDone, TypeOK
    <2>. QED
      BY <1>15, <2>2, <2>3 DEF RenewDone, history, Untouched
  <1>. QED
    BY <1>1, <1>2, <1>3, <1>4, <1>5, <1>6, <1>7, <1>8, <1>9, <1>10, <1>11, <1>12,
       <1>13, <1>14, <1>15, StepCases

------------------------------------------------------------------------------
(* What a script does to the ring. *)

\* A key that is held stays with its holder, and its lease is not cut short,
\* unless the holder's own release runs.
LEMMA ScriptKeeps ==
  ASSUME TypeOK, NEW u \in Tokens, NEW x, NEW n \in Nodes, RunScript(u, x, n),
         NEW t \in Tokens, NEW m \in Nodes, holder[m] = t,
         u # t \/ x # "release" \/ n # m
  PROVE  holder'[m] = t /\ left'[m] >= left[m]
  <1>1. /\ holder \in [Nodes -> Tokens \cup {None}] /\ left \in [Nodes -> 0 .. Ttl]
        /\ Ttl \in Nat /\ None \notin Tokens
    BY TtlAssumption, TokensAssumption DEF TypeOK
  <1>2. CASE ~Accepts(u, x, n)
    BY <1>1, <1>2 DEF RunScript, ring
  <1>3. CASE Accepts(u, x, n) /\ n # m
    BY <1>1, <1>3 DEF RunScript
  <1>4. CASE Accepts(u, x, n) /\ n = m
    <2>1. u = t /\ x # "release"
      BY <1>1, <1>4 DEF Accepts
    <2>. QED
      BY <1>1, <1>4, <2>1 DEF RunScript
  <1>. QED
    BY <1>2, <1>3, <1>4

\* Only its own acquire script gives a client a key.
LEMMA ScriptTakes ==
  ASSUME TypeOK, NEW u \in Tokens, NEW x, NEW n \in Nodes, RunScript(u, x, n),
         NEW t \in Tokens, NEW m \in Nodes, holder[m] # t, holder'[m] = t
  PROVE  u = t /\ x = "acquire" /\ n = m
  <1>1. holder \in [Nodes -> Tokens \cup {None}] /\ None \notin Tokens
    BY TokensAssumption DEF TypeOK
  <1>2. Accepts(u, x, n)
    BY DEF RunScript, ring
  <1>3. holder' = [holder EXCEPT ![n] = IF x = "release" THEN None ELSE u]
    BY <1>2 DEF RunScript
  <1>4. n = m /\ u = t
    BY <1>1, <1>3
  <1>. QED
    BY <1>2, <1>4 DEF Accepts

\* An accepted acquire gives the whole lease; a release leaves nothing.
LEMMA ScriptResult ==
  ASSUME TypeOK, NEW t \in Tokens, NEW n \in Nodes
  PROVE  /\ RunScript(t, "acquire", n) /\ Accepts(t, "acquire", n)
              => holder'[n] = t /\ left'[n] = Ttl
         /\ RunScript(t, "release", n) => holder'[n] # t
  <1>1. /\ holder \in [Nodes -> Tokens \cup {None}] /\ left \in [Nodes -> 0 .. Ttl]
        /\ None \notin Tokens
    BY TokensAssumption DEF TypeOK
  <1>2. ASSUME RunScript(t, "acquire", n), Accepts(t, "acquire", n)
        PROVE  holder'[n] = t /\ left'[n] = Ttl
    BY <1>1, <1>2 DEF RunScript
  <1>3. ASSUME RunScript(t, "release", n) PROVE holder'[n] # t
    BY <1>1, <1>3 DEF RunScript, Accepts, ring
  <1>. QED
    BY <1>2, <1>3

\* The ring changes by a script that a client sent, or with time.
LEMMA RingSteps ==
  ASSUME TypeOK, [Next]_vars
  PROVE  \/ UNCHANGED ring
         \/ Tick
         \/ \E u \in Tokens, k \in Kinds :
              CallNode(u, k) /\ RunScript(u, ScriptOf(k), NextNode(u, k))
                /\ NextNode(u, k) \in Nodes
         \/ \E u \in Tokens, x \in Scripts, n \in Nodes :
              ServeLate(u, x, n) /\ RunScript(u, x, n)
  <1>1. ASSUME NEW u \in Tokens, NEW k \in Kinds, CallNode(u, k)
        PROVE  RunScript(u, ScriptOf(k), NextNode(u, k)) /\ NextNode(u, k) \in Nodes
    <2>1. RunScript(u, ScriptOf(k), NextNode(u, k))
      BY <1>1 DEF CallNode
    <2>2. NextNode(u, k) \in Nodes
      BY <1>1, CallNodeLoop
    <2>. QED
      BY <2>1, <2>2
  <1>2. ASSUME NEW u \in Tokens, NEW x \in Scripts, NEW n \in Nodes, ServeLate(u, x, n)
        PROVE  RunScript(u, x, n)
    BY <1>2 DEF ServeLate
  <1>3. CASE UNCHANGED vars
    BY <1>3 DEF vars
  <1>4. ASSUME NEW u \in Tokens, NEW k \in Kinds, CallFails(u, k) PROVE UNCHANGED ring
    BY <1>4 DEF CallFails
  <1>5. ASSUME NEW u \in Tokens,
               \/ TryLock(u) \/ Decide(u) \/ AllocateFence(u) \/ RollbackDone(u)
               \/ AcquireError(u) \/ AllocateError(u)
        PROVE  UNCHANGED ring
    BY <1>5 DEF TryLock, Decide, AllocateFence, RollbackDone, AcquireError,
                AllocateError
  <1>6. ASSUME NEW u \in Tokens,
               \/ Extend(u) \/ Release(u) \/ DropHandle(u) \/ Crash(u)
               \/ ExtendDone(u) \/ ReleaseDone(u)
               \/ WatchdogExit(u) \/ WatchdogRenew(u) \/ RenewDone(u)
        PROVE  UNCHANGED ring
    BY <1>6 DEF Extend, Release, DropHandle, Crash, ExtendDone, ReleaseDone,
                WatchdogExit, WatchdogRenew, RenewDone
  <1>. QED
    BY Zenon, <1>1, <1>2, <1>3, <1>4, <1>5, <1>6, StepCases

------------------------------------------------------------------------------
(* Which loops run and which late scripts there can be in each phase. *)

LoopPhases(t) ==
  /\ round[t]["acquire"].on <=> phase[t] = "acquiring"
  /\ round[t]["rollback"].on <=> phase[t] = "rollback"
  /\ \A k \in {"extend", "renew", "release"} :
       round[t][k].on => phase[t] \in {"live", "dropping", "dead"}

\* Each loop runs in its phase only.
LEMMA LoopPhasesStep ==
  ASSUME TypeOK, [Next]_vars, NEW t \in Tokens, LoopPhases(t)
  PROVE  LoopPhases(t)'
  <1>k. /\ "acquire" \in Kinds /\ "rollback" \in Kinds /\ "extend" \in Kinds
        /\ "renew" \in Kinds /\ "release" \in Kinds
        /\ \A k \in Kinds : k \in {"acquire", "rollback", "extend", "renew", "release"}
    BY DEF Kinds
  <1>p. phase \in [Tokens -> Phases]
    BY DEF TypeOK
  <1>1. CASE Untouched(t)
    BY <1>k, <1>1 DEF LoopPhases, Untouched
  <1>2. ASSUME NEW k \in Kinds, CallNode(t, k) PROVE LoopPhases(t)'
    <2>1. /\ round[t][k].on /\ round'[t][k].on
          /\ \A j \in Kinds : j # k => round'[t][j] = round[t][j]
      BY <1>2, CallNodeLoop
    <2>2. phase' = phase
      BY <1>2 DEF CallNode
    <2>. QED
      BY <1>k, <2>1, <2>2 DEF LoopPhases
  <1>3. ASSUME NEW k \in Kinds, CallFails(t, k) PROVE LoopPhases(t)'
    <2>1. /\ round[t][k].on /\ round'[t][k].on
          /\ \A j \in Kinds : j # k => round'[t][j] = round[t][j]
      BY <1>3, CallFailsLoop
    <2>2. phase' = phase
      BY <1>3 DEF CallFails
    <2>. QED
      BY <1>k, <2>1, <2>2 DEF LoopPhases
  <1>4. ASSUME NEW x \in Scripts, NEW n \in Nodes, ServeLate(t, x, n) PROVE LoopPhases(t)'
    BY <1>4 DEF ServeLate, LoopPhases
  <1>5. CASE TryLock(t)
    <2>1. /\ round'[t]["acquire"].on
          /\ \A j \in Kinds : j # "acquire" => round'[t][j] = round[t][j]
      BY <1>k, <1>5, StartLoop, LoopTypes DEF TryLock
    <2>2. phase[t] = "fresh" /\ phase'[t] = "acquiring"
      BY <1>5, <1>p DEF TryLock
    <2>. QED
      BY <1>k, <2>1, <2>2 DEF LoopPhases
  <1>6. CASE Decide(t)
    <2>1. phase[t] = "acquiring"
      BY <1>6 DEF Decide, Finished, LoopPhases
    <2>2. \A j \in {"extend", "renew", "release"} : round'[t][j] = round[t][j]
      BY <1>k, <1>6, DecideLoop
    <2>3. CASE HasQuorum(t, "acquire") /\ InTime(t)
      <3>1. phase'[t] = "allocating"
        BY <1>6, <1>p, <2>3 DEF Decide
      <3>2. ~round'[t]["acquire"].on /\ round'[t]["rollback"] = round[t]["rollback"]
        BY <1>6, <2>3, DecideLoop, LoopTypes
      <3>. QED
        BY <2>1, <2>2, <3>1, <3>2 DEF LoopPhases
    <2>4. CASE ~(HasQuorum(t, "acquire") /\ InTime(t))
      <3>1. phase'[t] = "rollback"
        BY <1>6, <1>p, <2>4 DEF Decide
      <3>2. ~round'[t]["acquire"].on /\ round'[t]["rollback"].on
        BY <1>6, <2>4, DecideLoop, LoopTypes
      <3>. QED
        BY <2>1, <2>2, <3>1, <3>2 DEF LoopPhases
    <2>. QED
      BY <2>3, <2>4
  <1>7. CASE AllocateFence(t) \/ AllocateError(t)
    <2>1. phase[t] = "allocating" /\ phase'[t] \in {"live", "error"} /\ round' = round
      BY <1>7, <1>p DEF AllocateFence, AllocateError
    <2>. QED
      BY <2>1 DEF LoopPhases
  <1>8. CASE RollbackDone(t)
    <2>1. phase[t] = "rollback" /\ phase'[t] = "held"
      BY <1>8, <1>p DEF RollbackDone, Finished, LoopPhases
    <2>2. /\ ~round'[t]["rollback"].on
          /\ \A j \in Kinds : j # "rollback" => round'[t][j] = round[t][j]
      BY <1>k, <1>8, StopLoop, LoopTypes DEF RollbackDone
    <2>. QED
      BY <1>k, <2>1, <2>2 DEF LoopPhases
  <1>9. CASE AcquireError(t)
    <2>1. phase[t] = "acquiring" /\ phase'[t] = "error"
      BY <1>9, <1>p DEF AcquireError, Calling, LoopPhases
    <2>2. /\ ~round'[t]["acquire"].on
          /\ \A j \in Kinds : j # "acquire" => round'[t][j] = round[t][j]
      BY <1>k, <1>9, StopLoop, LoopTypes DEF AcquireError
    <2>. QED
      BY <1>k, <2>1, <2>2 DEF LoopPhases
  <1>10. CASE Extend(t) \/ Release(t) \/ WatchdogRenew(t)
    <2>1. phase[t] = "live" /\ phase' = phase
      BY <1>10 DEF Extend, Release, WatchdogRenew
    <2>2. \A j \in {"acquire", "rollback"} : round'[t][j] = round[t][j]
      BY <1>k, <1>10, StartLoop DEF Extend, Release, WatchdogRenew
    <2>. QED
      BY <2>1, <2>2 DEF LoopPhases
  <1>11. CASE ExtendDone(t) \/ ReleaseDone(t)
    <2>1. phase' = phase
      BY <1>11 DEF ExtendDone, ReleaseDone
    <2>2. \E k \in {"extend", "release"} :
            /\ ~round'[t][k].on
            /\ \A j \in Kinds : j # k => round'[t][j] = round[t][j]
      BY <1>k, <1>11, StopLoop, LoopTypes DEF ExtendDone, ReleaseDone
    <2>. QED
      BY <1>k, <2>1, <2>2 DEF LoopPhases
  <1>12. CASE DropHandle(t)
    <2>1. phase[t] = "live" /\ phase'[t] \in {"dropping", "dead"}
      BY <1>12, <1>p DEF DropHandle
    <2>2. \A j \in {"acquire", "rollback"} : round'[t][j] = round[t][j]
      BY <1>k, <1>12, DropLoop
    <2>. QED
      BY <2>1, <2>2 DEF LoopPhases
  <1>13. CASE Crash(t)
    <2>1. phase'[t] = "crashed"
      BY <1>13, <1>p DEF Crash
    <2>2. \A j \in Kinds : ~round'[t][j].on
      BY <1>13, LoopTypes DEF Crash, TypeOK
    <2>. QED
      BY <1>k, <2>1, <2>2 DEF LoopPhases
  <1>14. CASE WatchdogExit(t)
    BY <1>14 DEF WatchdogExit, LoopPhases
  <1>15. CASE RenewDone(t)
    <2>1. /\ phase[t] \in {"live", "dropping", "dead"}
          /\ phase'[t] \in {"live", "dropping", "dead"}
      BY <1>15, <1>p DEF RenewDone, Finished, LoopPhases
    <2>2. \A j \in {"acquire", "rollback"} : round'[t][j] = round[t][j]
      BY <1>k, <1>15, RenewDoneLoop
    <2>. QED
      BY <2>1, <2>2 DEF LoopPhases
  <1>. QED
    BY <1>1, <1>2, <1>3, <1>4, <1>5, <1>6, <1>7, <1>8, <1>9, <1>10, <1>11, <1>12,
       <1>13, <1>14, <1>15, OneClient DEF OwnStep

\* While a round acquires and allocates, none of its releases is under way; its
\* loop calls each master once, so what it was granted has no late acquire.
LateScripts(t) ==
  /\ phase[t] = "fresh" => late[t] = {}
  /\ phase[t] \in {"acquiring", "allocating"} =>
       \A n \in Nodes : <<"release", n>> \notin late[t]
  /\ phase[t] = "acquiring" =>
       \A n \in round[t]["acquire"].todo :
         n \notin round[t]["acquire"].ok /\ <<"acquire", n>> \notin late[t]
  /\ phase[t] \in {"acquiring", "rollback", "held"} =>
       \A n \in round[t]["acquire"].ok : <<"acquire", n>> \notin late[t]

\* The phases in which the round's scripts matter to the invariants.
Early == {"fresh", "acquiring", "allocating", "rollback", "held"}

\* In those phases few of the client's own steps can happen.
LEMMA EarlySteps ==
  ASSUME TypeOK, [Next]_vars, NEW t \in Tokens, LoopPhases(t), phase'[t] \in Early
  PROVE  \/ Untouched(t)
         \/ TryLock(t) \/ Decide(t) \/ RollbackDone(t)
         \/ CallNode(t, "acquire") \/ CallNode(t, "rollback")
         \/ CallFails(t, "acquire") \/ CallFails(t, "rollback")
         \/ \E x \in Scripts, n \in Nodes : ServeLate(t, x, n)
  <1>p. phase \in [Tokens -> Phases]
    BY DEF TypeOK
  <1>1. ASSUME NEW k \in Kinds, CallNode(t, k) PROVE k \in {"acquire", "rollback"}
    <2>1. round[t][k].on /\ phase' = phase
      BY <1>1 DEF CallNode, Calling
    <2>. QED
      BY <2>1 DEF LoopPhases, Kinds, Early
  <1>2. ASSUME NEW k \in Kinds, CallFails(t, k) PROVE k \in {"acquire", "rollback"}
    <2>1. round[t][k].on /\ phase' = phase
      BY <1>2 DEF CallFails, Calling
    <2>. QED
      BY <2>1 DEF LoopPhases, Kinds, Early
  <1>3. ~(AllocateFence(t) \/ AllocateError(t) \/ AcquireError(t) \/ Crash(t))
    BY <1>p DEF AllocateFence, AllocateError, AcquireError, Crash, Early
  <1>4. ~(Extend(t) \/ Release(t) \/ WatchdogRenew(t) \/ DropHandle(t))
    BY <1>p DEF Extend, Release, WatchdogRenew, DropHandle, Early
  <1>5. ~(ExtendDone(t) \/ ReleaseDone(t) \/ RenewDone(t))
    BY <1>p DEF ExtendDone, ReleaseDone, RenewDone, Finished, LoopPhases, Early
  <1>6. WatchdogExit(t) => Untouched(t)
    BY DEF WatchdogExit, Untouched, history
  <1>. QED
    BY <1>1, <1>2, <1>3, <1>4, <1>5, <1>6, OneClient DEF OwnStep

\* A failed call leaves its request to the master.
LEMMA CallFailsLate ==
  ASSUME TypeOK, NEW t \in Tokens, NEW k \in {"acquire", "rollback"}, CallFails(t, k)
  PROVE  late'[t] = late[t] \cup
           {<<IF k = "acquire" THEN "acquire" ELSE "release", NextNode(t, k)>>}
  <1>1. UnderWay(t, k) = {<<ScriptOf(k), NextNode(t, k)>>}
    BY CallFailsLoop DEF Kinds
  <1>2. ScriptOf(k) = IF k = "acquire" THEN "acquire" ELSE "release"
    BY DEF ScriptOf
  <1>. QED
    BY <1>1, <1>2 DEF CallFails, TypeOK

\* Each step keeps what is known of late scripts.
LEMMA LateScriptsStep ==
  ASSUME TypeOK, [Next]_vars, NEW t \in Tokens, LoopPhases(t), LateScripts(t)
  PROVE  LateScripts(t)'
  <1>k. "acquire" \in Kinds /\ "rollback" \in Kinds
    BY DEF Kinds
  <1>p. phase \in [Tokens -> Phases] /\ late \in [Tokens -> SUBSET (Scripts \X Nodes)]
    BY DEF TypeOK
  <1>0. CASE phase'[t] \notin Early
    BY <1>0 DEF LateScripts, Early
  <1>1. CASE Untouched(t)
    BY <1>k, <1>1 DEF LateScripts, Untouched
  <1>2. CASE CallNode(t, "acquire")
    <2> DEFINE n == NextNode(t, "acquire")
    <2>1. /\ n \in round[t]["acquire"].todo
          /\ round'[t]["acquire"].todo = round[t]["acquire"].todo \ {n}
          /\ round'[t]["acquire"].ok \subseteq round[t]["acquire"].ok \cup {n}
          /\ round[t]["acquire"].on
      BY <1>k, <1>2, CallNodeLoop
    <2>2. phase' = phase /\ late' = late /\ phase[t] = "acquiring"
      BY <1>2, <2>1 DEF CallNode, LoopPhases
    <2> HIDE DEF n
    <2>. QED
      BY <2>1, <2>2 DEF LateScripts
  <1>3. CASE CallNode(t, "rollback")
    <2>1. round'[t]["acquire"] = round[t]["acquire"]
      BY <1>k, <1>3, CallNodeLoop
    <2>2. phase' = phase /\ late' = late
      BY <1>3 DEF CallNode
    <2>. QED
      BY <2>1, <2>2 DEF LateScripts
  <1>4. CASE CallFails(t, "acquire")
    <2> DEFINE n == NextNode(t, "acquire")
    <2>1. /\ n \in round[t]["acquire"].todo
          /\ round'[t]["acquire"].todo = round[t]["acquire"].todo \ {n}
          /\ round'[t]["acquire"].ok = round[t]["acquire"].ok
          /\ round[t]["acquire"].on
      BY <1>k, <1>4, CallFailsLoop
    <2>2. phase' = phase /\ phase[t] = "acquiring"
      BY <1>4, <2>1 DEF CallFails, LoopPhases
    <2>3. late'[t] = late[t] \cup {<<"acquire", n>>}
      BY <1>4, CallFailsLate
    <2> HIDE DEF n
    <2>. QED
      BY <2>1, <2>2, <2>3 DEF LateScripts
  <1>5. CASE CallFails(t, "rollback")
    <2>1. round'[t]["acquire"] = round[t]["acquire"] /\ round[t]["rollback"].on
      BY <1>k, <1>5, CallFailsLoop
    <2>2. phase' = phase /\ phase[t] = "rollback"
      BY <1>5, <2>1 DEF CallFails, LoopPhases
    <2>3. late'[t] = late[t] \cup {<<"release", NextNode(t, "rollback")>>}
      BY <1>5, CallFailsLate
    <2>. QED
      BY <2>1, <2>2, <2>3 DEF LateScripts
  <1>6. ASSUME NEW x \in Scripts, NEW n \in Nodes, ServeLate(t, x, n) PROVE LateScripts(t)'
    <2>1. phase' = phase /\ round' = round /\ late'[t] \subseteq late[t]
      BY <1>6, <1>p DEF ServeLate
    <2>. QED
      BY <2>1 DEF LateScripts
  <1>7. CASE TryLock(t)
    <2>1. round'[t]["acquire"].todo \subseteq Nodes /\ round'[t]["acquire"].ok = {}
      BY <1>k, <1>7, StartLoop, LoopTypes DEF TryLock
    <2>2. phase[t] = "fresh" /\ phase'[t] = "acquiring" /\ late'[t] = late[t]
      BY <1>7, <1>p DEF TryLock
    <2>. QED
      BY <2>1, <2>2 DEF LateScripts
  <1>8. CASE Decide(t)
    <2>1. phase[t] = "acquiring" /\ late' = late
      BY <1>8 DEF Decide, Finished, LoopPhases
    <2>2. /\ phase'[t] \in {"allocating", "rollback"}
          /\ phase'[t] = "rollback" => round'[t]["acquire"].ok = round[t]["acquire"].ok
      BY <1>8, <1>p, DecideLoop DEF Decide
    <2>. QED
      BY <2>1, <2>2 DEF LateScripts
  <1>9. CASE RollbackDone(t)
    <2>1. phase[t] = "rollback" /\ phase'[t] = "held" /\ late' = late
      BY <1>9, <1>p DEF RollbackDone, Finished, LoopPhases
    <2>2. round'[t]["acquire"] = round[t]["acquire"]
      BY <1>k, <1>9, StopLoop DEF RollbackDone
    <2>. QED
      BY <2>1, <2>2 DEF LateScripts
  <1>. QED
    BY <1>0, <1>1, <1>2, <1>3, <1>4, <1>5, <1>6, <1>7, <1>8, <1>9, EarlySteps

------------------------------------------------------------------------------
(* Rollback. *)

\* A client gets a key by its acquire script only, awaited or late.
LEMMA KeyGained ==
  ASSUME TypeOK, [Next]_vars, NEW t \in Tokens, NEW n \in Nodes,
         holder[n] # t, holder'[n] = t
  PROVE  \/ CallNode(t, "acquire")
         \/ ServeLate(t, "acquire", n)
  <1>t. holder \in [Nodes -> Tokens \cup {None}] /\ None \notin Tokens
    BY TokensAssumption DEF TypeOK
  <1>1. ~UNCHANGED ring
    BY DEF ring
  <1>2. ~Tick
    BY <1>t DEF Tick
  <1>3. ASSUME NEW u \in Tokens, NEW k \in Kinds, CallNode(u, k),
               RunScript(u, ScriptOf(k), NextNode(u, k)), NextNode(u, k) \in Nodes
        PROVE  CallNode(t, "acquire")
    <2>1. u = t /\ ScriptOf(k) = "acquire"
      BY <1>3, ScriptTakes
    <2>2. k = "acquire"
      BY <2>1 DEF ScriptOf, Kinds
    <2>. QED
      BY <1>3, <2>1, <2>2
  <1>4. ASSUME NEW u \in Tokens, NEW x \in Scripts, NEW m \in Nodes,
               ServeLate(u, x, m), RunScript(u, x, m)
        PROVE  ServeLate(t, "acquire", n)
    BY <1>4, ScriptTakes
  <1>. QED
    BY <1>1, <1>2, <1>3, <1>4, RingSteps

\* What the round was granted and still owns is to be released, or its release
\* is on its way.
Back(t) ==
  /\ phase[t] = "rollback" => \A n \in round[t]["acquire"].ok :
       holder[n] = t => n \in round[t]["rollback"].todo \/ <<"release", n>> \in late[t]
  /\ phase[t] = "held" => \A n \in round[t]["acquire"].ok :
       holder[n] = t => <<"release", n>> \in late[t]

\* Once the acquisition is over, a master that granted it is not taken again.
LEMMA NotRetaken ==
  ASSUME TypeOK, [Next]_vars, NEW t \in Tokens, LoopPhases(t), LateScripts(t),
         phase[t] \in {"rollback", "held"},
         NEW n \in round[t]["acquire"].ok, holder'[n] = t
  PROVE  n \in Nodes /\ holder[n] = t
  <1>1. n \in Nodes
    BY DEF TypeOK, Rounds, Kinds
  <1>2. ~CallNode(t, "acquire")
    BY DEF CallNode, Calling, LoopPhases
  <1>3. ~ServeLate(t, "acquire", n)
    BY DEF ServeLate, LateScripts
  <1>. QED
    BY <1>1, <1>2, <1>3, KeyGained

\* Each step of the rollback keeps track of what is still to be released.
LEMMA BackStep ==
  ASSUME TypeOK, [Next]_vars, NEW t \in Tokens, LoopPhases(t), LateScripts(t), Back(t)
  PROVE  Back(t)'
  <1>k. "acquire" \in Kinds /\ "rollback" \in Kinds /\ "acquire" # "rollback"
    BY DEF Kinds
  <1>p. phase \in [Tokens -> Phases] /\ late \in [Tokens -> SUBSET (Scripts \X Nodes)]
    BY DEF TypeOK
  <1>0. CASE phase'[t] \notin {"rollback", "held"}
    BY <1>0 DEF Back
  <1>1. CASE Untouched(t)
    <2>1. phase'[t] = phase[t] /\ late'[t] = late[t]
          /\ round'[t]["acquire"] = round[t]["acquire"]
          /\ round'[t]["rollback"] = round[t]["rollback"]
      BY <1>k, <1>1 DEF Untouched
    <2>2. phase[t] \in {"rollback", "held"} =>
            \A n \in round[t]["acquire"].ok : holder'[n] = t => holder[n] = t
      BY NotRetaken
    <2>. QED
      BY <2>1, <2>2 DEF Back
  <1>2. CASE CallNode(t, "acquire") \/ CallFails(t, "acquire") \/ TryLock(t)
    <2>1. phase'[t] = "acquiring"
      BY <1>2, <1>p DEF CallNode, CallFails, TryLock, Calling, LoopPhases
    <2>. QED
      BY <2>1 DEF Back
  <1>3. CASE CallNode(t, "rollback")
    <2> DEFINE m == NextNode(t, "rollback")
    <2>1. /\ round'[t]["acquire"] = round[t]["acquire"]
          /\ round[t]["rollback"].on
          /\ round'[t]["rollback"].todo = round[t]["rollback"].todo \ {m}
          /\ m \in Nodes
      BY <1>k, <1>3, CallNodeLoop
    <2>2. phase' = phase /\ late' = late /\ phase[t] = "rollback"
      BY <1>3, <2>1 DEF CallNode, LoopPhases
    <2>3. RunScript(t, "release", m)
      BY <1>3 DEF CallNode, ScriptOf
    <2> HIDE DEF m
    <2>4. holder'[m] # t
      BY <2>1, <2>3, ScriptResult
    <2>5. \A n \in round[t]["acquire"].ok : holder'[n] = t => holder[n] = t
      BY <2>2, NotRetaken
    <2>. QED
      BY <2>1, <2>2, <2>4, <2>5 DEF Back
  <1>4. CASE CallFails(t, "rollback")
    <2> DEFINE m == NextNode(t, "rollback")
    <2>1. /\ round'[t]["acquire"] = round[t]["acquire"]
          /\ round[t]["rollback"].on
          /\ round'[t]["rollback"].todo = round[t]["rollback"].todo \ {m}
      BY <1>k, <1>4, CallFailsLoop
    <2>2. phase' = phase /\ holder' = holder /\ phase[t] = "rollback"
      BY <1>4, <2>1 DEF CallFails, LoopPhases, ring
    <2>3. late'[t] = late[t] \cup {<<"release", m>>}
      BY <1>4, CallFailsLate
    <2> HIDE DEF m
    <2>. QED
      BY <2>1, <2>2, <2>3 DEF Back
  <1>5. ASSUME NEW x \in Scripts, NEW m \in Nodes, ServeLate(t, x, m) PROVE Back(t)'
    <2>1. phase' = phase /\ round' = round /\ late'[t] = late[t] \ {<<x, m>>}
      BY <1>5, <1>p DEF ServeLate
    <2>2. x = "release" => holder'[m] # t
      BY <1>5, ScriptResult DEF ServeLate
    <2>3. phase[t] \in {"rollback", "held"} =>
            \A n \in round[t]["acquire"].ok : holder'[n] = t => holder[n] = t
      BY NotRetaken
    <2>. QED
      BY <2>1, <2>2, <2>3 DEF Back
  <1>6. CASE Decide(t) /\ phase'[t] \in {"rollback", "held"}
    <2>1. ~(HasQuorum(t, "acquire") /\ InTime(t)) /\ phase'[t] = "rollback"
      BY <1>6, <1>p DEF Decide
    <2>2. /\ round'[t]["acquire"].ok = round[t]["acquire"].ok
          /\ round'[t]["rollback"].todo = round[t]["acquire"].ok
      BY <1>6, <2>1, DecideLoop, LoopTypes
    <2>. QED
      BY <2>1, <2>2 DEF Back
  <1>7. CASE RollbackDone(t)
    <2>1. phase[t] = "rollback" /\ phase'[t] = "held" /\ late' = late /\ holder' = holder
          /\ round[t]["rollback"].todo = {}
      BY <1>7, <1>p DEF RollbackDone, Finished, LoopPhases, ring
    <2>2. round'[t]["acquire"] = round[t]["acquire"]
      BY <1>k, <1>7, StopLoop DEF RollbackDone
    <2>. QED
      BY <2>1, <2>2 DEF Back
  <1>. QED
    BY <1>0, <1>1, <1>2, <1>3, <1>4, <1>5, <1>6, <1>7, EarlySteps DEF Early

\* What holds of the client side in every reachable state.
ClientInv ==
  /\ TypeOK
  /\ \A t \in Tokens : LoopPhases(t) /\ LateScripts(t) /\ Back(t)

\* The invariant of the client side is inductive.
LEMMA ClientInvHolds == Spec => []ClientInv
  <1>1. Init => ClientInv
    <2>1. Init => TypeOK
      BY LoopTypes, TtlAssumption DEF Init, TypeOK, Phases
    <2>2. ASSUME Init, NEW t \in Tokens PROVE LoopPhases(t) /\ LateScripts(t) /\ Back(t)
      <3>1. /\ phase[t] = "fresh" /\ late[t] = {}
            /\ \A k \in Kinds : round[t][k] = Idle
        BY <2>2 DEF Init
      <3>2. \A k \in Kinds : ~round[t][k].on
        BY <3>1, LoopTypes
      <3>. QED
        BY <3>1, <3>2 DEF LoopPhases, LateScripts, Back, Kinds
    <2>. QED
      BY <2>1, <2>2 DEF ClientInv
  <1>2. ClientInv /\ [Next]_vars => ClientInv'
    <2> SUFFICES ASSUME ClientInv, [Next]_vars PROVE ClientInv'
      OBVIOUS
    <2>1. TypeOK /\ TypeOK'
      BY TypeStep DEF ClientInv
    <2>2. ASSUME NEW t \in Tokens PROVE (LoopPhases(t) /\ LateScripts(t) /\ Back(t))'
      BY <2>1, LoopPhasesStep, LateScriptsStep, BackStep DEF ClientInv
    <2>. QED
      BY <2>1, <2>2 DEF ClientInv
  <1>. QED
    BY <1>1, <1>2, PTL DEF Spec

\* After Error::Held nothing that the round was granted is left to expire by
\* itself: the master has released it, or has the release still to run, whichever
\* calls failed and whichever scripts run late.
THEOREM RollbackReleasesAllHolds == Spec => []RollbackReleasesAll
  <1>1. ClientInv => RollbackReleasesAll
    BY DEF ClientInv, Back, RollbackReleasesAll
  <1>. QED
    BY <1>1, ClientInvHolds, PTL

------------------------------------------------------------------------------
(* The quorum is owned when the round decides. *)

\* The master's lease lasts as long as the round's.
Owned(t, n) == holder[n] = t /\ left[n] + age[t] >= Ttl

\* Until the lease counted from its start is over, a round owns every master
\* that granted it, and then a quorum while the fence is allocated.
Leased(t) ==
  age[t] < Ttl =>
    /\ phase[t] = "acquiring" => \A n \in round[t]["acquire"].ok : Owned(t, n)
    /\ phase[t] = "allocating" =>
         \E Q \in SUBSET Nodes : Cardinality(Q) >= Quorum /\ \A n \in Q : Owned(t, n)

\* The age of a round changes with time, until its handle is made.
LEMMA AgeSteps ==
  ASSUME TypeOK, [Next]_vars, NEW t \in Tokens
  PROVE  age'[t] = age[t] \/ Tick \/ AllocateFence(t)
  <1>1. CASE UNCHANGED vars
    BY <1>1 DEF vars, handle
  <1>2. ASSUME NEW u \in Tokens, NEW k \in Kinds, CallNode(u, k) \/ CallFails(u, k)
        PROVE  age' = age
    BY <1>2 DEF CallNode, CallFails, handle
  <1>3. ASSUME NEW u \in Tokens, NEW x \in Scripts, NEW n \in Nodes, ServeLate(u, x, n)
        PROVE  age' = age
    BY <1>3 DEF ServeLate, handle
  <1>4. ASSUME NEW u \in Tokens,
               \/ TryLock(u) \/ Decide(u) \/ RollbackDone(u)
               \/ AcquireError(u) \/ AllocateError(u)
        PROVE  age' = age
    BY <1>4 DEF TryLock, Decide, RollbackDone, AcquireError, AllocateError, handle
  <1>5. ASSUME NEW u \in Tokens,
               \/ Extend(u) \/ Release(u) \/ DropHandle(u) \/ Crash(u)
               \/ ExtendDone(u) \/ ReleaseDone(u)
               \/ WatchdogExit(u) \/ WatchdogRenew(u) \/ RenewDone(u)
        PROVE  age' = age
    BY <1>5 DEF Extend, Release, DropHandle, Crash, ExtendDone, ReleaseDone,
                WatchdogExit, WatchdogRenew, RenewDone, handle
  <1>6. ASSUME NEW u \in Tokens, AllocateFence(u), u # t PROVE age'[t] = age[t]
    BY <1>6 DEF AllocateFence, TypeOK
  <1>. QED
    BY <1>1, <1>2, <1>3, <1>4, <1>5, <1>6, StepCases

\* A master that a round owns stays its own while the round's lease lasts:
\* neither time nor any script, its own included, takes it away.
LEMMA OwnedKept ==
  ASSUME TypeOK, [Next]_vars, NEW t \in Tokens, LoopPhases(t), LateScripts(t),
         phase[t] \in {"acquiring", "allocating"},
         phase'[t] \in {"acquiring", "allocating"},
         age'[t] < Ttl, NEW n \in Nodes, Owned(t, n)
  PROVE  Owned(t, n)'
  <1>t. /\ holder \in [Nodes -> Tokens \cup {None}] /\ left \in [Nodes -> 0 .. Ttl]
        /\ age \in [Tokens -> 0 .. Ttl] /\ Ttl \in Nat
    BY TtlAssumption DEF TypeOK
  <1>p. phase \in [Tokens -> Phases]
    BY DEF TypeOK
  <1>1. CASE Tick
    <2>1. age'[t] = age[t] + 1 /\ age[t] + 1 < Ttl
      BY <1>1, <1>t DEF Tick
    <2>2. left[n] > 1
      BY <2>1, <1>t DEF Owned
    <2>3. holder'[n] = holder[n] /\ left'[n] = left[n] - 1
      BY <1>1, <1>t, <2>2 DEF Tick, Less
    <2>. QED
      BY <1>t, <2>1, <2>3 DEF Owned
  <1>a. ASSUME ~Tick PROVE age'[t] = age[t]
    <2>1. ~AllocateFence(t)
      BY <1>p DEF AllocateFence
    <2>. QED
      BY <1>a, <2>1, AgeSteps
  <1>b. ASSUME age'[t] = age[t], holder'[n] = t, left'[n] >= left[n],
               left'[n] \in Int
        PROVE  Owned(t, n)'
    BY <1>b, <1>t DEF Owned
  <1>l. left'[n] \in Int
    <2>1. TypeOK'
      BY TypeStep
    <2>. QED
      BY <2>1, TtlAssumption DEF TypeOK
  <1>2. CASE UNCHANGED ring /\ ~Tick
    BY <1>2, <1>t, <1>a DEF ring, Owned
  <1>3. ASSUME NEW u \in Tokens, NEW k \in Kinds, CallNode(u, k), ~Tick,
               RunScript(u, ScriptOf(k), NextNode(u, k)), NextNode(u, k) \in Nodes
        PROVE  Owned(t, n)'
    <2>1. u = t => k = "acquire"
      BY <1>3 DEF CallNode, Calling, LoopPhases, Kinds
    <2>2. u # t \/ ScriptOf(k) # "release"
      BY <2>1 DEF ScriptOf
    <2>3. holder'[n] = t /\ left'[n] >= left[n]
      BY <1>3, <2>2, ScriptKeeps DEF Owned
    <2>. QED
      BY <1>3, <1>a, <1>b, <1>l, <2>3
  <1>4. ASSUME NEW u \in Tokens, NEW x \in Scripts, NEW m \in Nodes, ~Tick,
               ServeLate(u, x, m), RunScript(u, x, m)
        PROVE  Owned(t, n)'
    <2>1. u # t \/ x # "release"
      BY <1>4 DEF ServeLate, LateScripts
    <2>2. holder'[n] = t /\ left'[n] >= left[n]
      BY <1>4, <2>1, ScriptKeeps DEF Owned
    <2>. QED
      BY <1>4, <1>a, <1>b, <1>l, <2>2
  <1>. QED
    BY <1>1, <1>2, <1>3, <1>4, RingSteps

\* Each step keeps the leases of a round.
LEMMA LeasedStep ==
  ASSUME TypeOK, [Next]_vars, NEW t \in Tokens, LoopPhases(t), LateScripts(t), Leased(t)
  PROVE  Leased(t)'
  <1>k. "acquire" \in Kinds
    BY DEF Kinds
  <1>p. phase \in [Tokens -> Phases]
    BY DEF TypeOK
  <1>t. age \in [Tokens -> 0 .. Ttl] /\ Ttl \in Nat
    BY TtlAssumption DEF TypeOK
  <1>r. round[t]["acquire"].ok \subseteq Nodes
    BY <1>k DEF TypeOK, Rounds
  <1>0. CASE phase'[t] \notin {"acquiring", "allocating"} \/ ~(age'[t] < Ttl)
    BY <1>0 DEF Leased
  <1> SUFFICES ASSUME phase'[t] \in {"acquiring", "allocating"}, age'[t] < Ttl
               PROVE  Leased(t)'
    BY <1>0
  <1>a. phase[t] \in {"acquiring", "allocating"} => age[t] < Ttl
    <2>1. Tick => age[t] <= age'[t]
      BY <1>t DEF Tick
    <2>2. ~AllocateFence(t)
      BY <1>p DEF AllocateFence
    <2>3. age'[t] = age[t] \/ Tick
      BY <2>2, AgeSteps
    <2>4. age'[t] \in Int
      BY TypeStep, TtlAssumption DEF TypeOK
    <2>. QED
      BY <1>t, <2>1, <2>3, <2>4
  <1>o. ASSUME phase[t] \in {"acquiring", "allocating"}, NEW n \in Nodes, Owned(t, n)
        PROVE  Owned(t, n)'
    BY <1>o, OwnedKept
  <1>1. ASSUME phase'[t] = phase[t], round'[t]["acquire"].ok = round[t]["acquire"].ok
        PROVE  Leased(t)'
    <2>1. CASE phase[t] = "acquiring"
      BY <1>1, <1>a, <1>o, <1>r, <2>1 DEF Leased
    <2>2. CASE phase[t] = "allocating"
      <3>1. PICK Q \in SUBSET Nodes : Cardinality(Q) >= Quorum /\ \A n \in Q : Owned(t, n)
        BY <1>a, <2>2 DEF Leased
      <3>2. \A n \in Q : Owned(t, n)'
        BY <1>o, <2>2, <3>1
      <3>. QED
        BY <1>1, <2>2, <3>1, <3>2 DEF Leased
    <2>. QED
      BY <1>1, <2>1, <2>2
  <1>2. CASE Untouched(t)
    BY <1>1, <1>2, <1>k DEF Untouched
  <1>3. CASE CallFails(t, "acquire")
    <2>1. round'[t]["acquire"].ok = round[t]["acquire"].ok
      BY <1>k, <1>3, CallFailsLoop
    <2>. QED
      BY <1>1, <1>3, <2>1 DEF CallFails
  <1>4. ASSUME NEW x \in Scripts, NEW n \in Nodes, ServeLate(t, x, n) PROVE Leased(t)'
    BY <1>1, <1>4 DEF ServeLate
  <1>5. CASE CallNode(t, "acquire")
    <2>0. ScriptOf("acquire") = "acquire"
      BY DEF ScriptOf
    <2>m. PICK m \in Nodes : m = NextNode(t, "acquire")
      BY <1>k, <1>5, CallNodeLoop
    <2> DEFINE yes == Accepts(t, "acquire", m)
    <2>1. /\ round[t]["acquire"].on
          /\ yes => round'[t]["acquire"].ok = round[t]["acquire"].ok \cup {m}
          /\ ~yes => round'[t]["acquire"].ok = round[t]["acquire"].ok
      BY <1>k, <1>5, <2>0, <2>m, CallNodeLoop
    <2>2. phase' = phase /\ age' = age /\ phase[t] = "acquiring"
          /\ RunScript(t, "acquire", m)
      BY <1>5, <2>0, <2>m, <2>1 DEF CallNode, LoopPhases, handle
    <2>3. yes => holder'[m] = t /\ left'[m] = Ttl
      BY <2>1, <2>2, ScriptResult
    <2> HIDE DEF yes
    <2>4. yes => Owned(t, m)'
      BY <1>t, <2>2, <2>3 DEF Owned
    <2>5. CASE yes
      <3>1. \A n \in round[t]["acquire"].ok : Owned(t, n)'
        BY <1>a, <1>o, <1>r, <2>2 DEF Leased
      <3>2. \A n \in round'[t]["acquire"].ok : Owned(t, n)'
        BY <2>1, <2>4, <2>5, <3>1
      <3>. QED
        BY <2>2, <3>2 DEF Leased
    <2>6. CASE ~yes
      BY <1>1, <2>1, <2>2, <2>6
    <2>. QED
      BY <2>5, <2>6
  <1>6. CASE TryLock(t)
    <2>1. round'[t]["acquire"].ok = {}
      BY <1>k, <1>6, StartLoop, LoopTypes DEF TryLock
    <2>2. phase'[t] = "acquiring"
      BY <1>6, <1>p DEF TryLock
    <2>. QED
      BY <2>1, <2>2 DEF Leased
  <1>7. CASE Decide(t)
    <2>1. phase'[t] = "allocating" /\ HasQuorum(t, "acquire") /\ phase[t] = "acquiring"
      BY <1>7, <1>p DEF Decide, Finished, LoopPhases
    <2>2. \A n \in round[t]["acquire"].ok : Owned(t, n)'
      BY <1>a, <1>o, <1>r, <2>1 DEF Leased
    <2>. QED
      BY <1>r, <2>1, <2>2 DEF Leased, HasQuorum
  <1>8. ~(CallNode(t, "rollback") \/ CallFails(t, "rollback"))
    BY DEF CallNode, CallFails, Calling, LoopPhases
  <1>9. ~RollbackDone(t)
    BY <1>p DEF RollbackDone
  <1>. QED
    BY <1>2, <1>3, <1>4, <1>5, <1>6, <1>7, <1>8, <1>9, EarlySteps DEF Early

\* What holds of the clients and of the leases they were granted.
LeaseInv == ClientInv /\ \A t \in Tokens : Leased(t)

\* The invariant of the leases is inductive.
LEMMA LeaseInvHolds == Spec => []LeaseInv
  <1>1. Init => \A t \in Tokens : Leased(t)
    BY DEF Init, Leased
  <1>2. ClientInv /\ (\A t \in Tokens : Leased(t)) /\ [Next]_vars
          => (\A t \in Tokens : Leased(t))'
    BY LeasedStep DEF ClientInv
  <1>. QED
    BY <1>1, <1>2, ClientInvHolds, PTL DEF Spec, LeaseInv

\* Only the verdict on an acquisition round makes it go on to the allocator.
LEMMA AllocatingSteps ==
  ASSUME TypeOK, [Next]_vars, NEW t \in Tokens, LoopPhases(t), phase'[t] = "allocating"
  PROVE  \/ phase[t] = "allocating" /\ ~Decide(t)
         \/ Decide(t) /\ HasQuorum(t, "acquire") /\ InTime(t) /\ phase[t] = "acquiring"
  <1>p. phase \in [Tokens -> Phases]
    BY DEF TypeOK
  <1>1. CASE Decide(t)
    BY <1>1, <1>p DEF Decide, Finished, LoopPhases
  <1>2. CASE Untouched(t)
    BY <1>1, <1>2 DEF Untouched
  <1>3. ~(TryLock(t) \/ RollbackDone(t))
    BY <1>p DEF TryLock, RollbackDone
  <1>4. ASSUME \/ CallNode(t, "acquire") \/ CallNode(t, "rollback")
               \/ CallFails(t, "acquire") \/ CallFails(t, "rollback")
        PROVE  phase[t] = "allocating"
    BY <1>4 DEF CallNode, CallFails
  <1>5. ASSUME NEW x \in Scripts, NEW n \in Nodes, ServeLate(t, x, n)
        PROVE  phase[t] = "allocating"
    BY <1>5 DEF ServeLate
  <1>. QED
    BY <1>1, <1>2, <1>3, <1>4, <1>5, EarlySteps DEF Early, Untouched

\* The ring is finite.
LEMMA RingFinite == IsFiniteSet(Nodes) /\ Cardinality(Nodes) = N
  BY FS_Interval, RingAssumption DEF Nodes

\* A round that decides in time owns the masters that granted it.
LEMMA DecidesOnOwned ==
  ASSUME LeaseInv, NEW t \in Tokens, phase[t] = "acquiring", InTime(t)
  PROVE  \A n \in round[t]["acquire"].ok : n \in Nodes /\ holder[n] = t
  <1>1. age[t] < Ttl
    <2>1. age[t] \in 0 .. Ttl /\ Ttl \in Nat
      BY TtlAssumption DEF LeaseInv, ClientInv, TypeOK
    <2>. QED
      BY <2>1 DEF InTime
  <1>2. round[t]["acquire"].ok \subseteq Nodes
    BY DEF LeaseInv, ClientInv, TypeOK, Rounds, Kinds
  <1>. QED
    BY <1>1, <1>2 DEF LeaseInv, Leased, Owned

\* Whenever a round decides that it has the lock it owns a quorum of the masters
\* at that moment, however slow its calls were and whatever else ran meanwhile:
\* the validity budget of try_lock is sufficient.
THEOREM GrantIsOnQuorum == Spec => GrantDecidedOnQuorum
  <1>1. ASSUME LeaseInv, [Next]_vars, NEW t \in Tokens,
               phase[t] = "acquiring", phase'[t] = "allocating"
        PROVE  OwnsQuorum(t)
    <2> DEFINE ok == round[t]["acquire"].ok
               own == {n \in Nodes : holder[n] = t}
    <2>1. HasQuorum(t, "acquire") /\ InTime(t)
      BY <1>1, AllocatingSteps DEF LeaseInv, ClientInv
    <2>2. ok \subseteq own
      BY <1>1, <2>1, DecidesOnOwned
    <2>3. Cardinality(ok) >= Quorum
      BY <2>1 DEF HasQuorum
    <2> HIDE DEF ok
    <2>4. IsFiniteSet(own)
      BY RingFinite, FS_Subset
    <2>5. /\ Cardinality(ok) <= Cardinality(own)
          /\ Cardinality(ok) \in Nat /\ Cardinality(own) \in Nat
      <3>1. ok \in SUBSET own
        BY <2>2
      <3>2. IsFiniteSet(ok) /\ Cardinality(ok) <= Cardinality(own)
        BY <2>4, <3>1, FS_Subset
      <3>. QED
        BY <2>4, <3>2, FS_CardinalityType
    <2>6. Quorum \in Nat
      BY RingAssumption DEF Quorum
    <2>. QED
      BY <2>3, <2>5, <2>6 DEF OwnsQuorum
  <1>2. LeaseInv /\ [Next]_vars =>
          [\A t \in Tokens :
             phase[t] = "acquiring" /\ phase'[t] = "allocating" => OwnsQuorum(t)]_vars
    BY <1>1
  <1>. QED
    BY <1>2, LeaseInvHolds, PTL DEF Spec, GrantDecidedOnQuorum

------------------------------------------------------------------------------
(* The order of the fences. *)

\* What orders the fences: none before the allocator has answered, and the
\* round that waits for the allocator is the last that won a quorum, and its
\* lease lasts.
FenceInv ==
  /\ \A t \in Tokens : fence[t] <= counter /\ quorumNo[t] <= quorums
  /\ \A t \in Tokens : phase[t] \in Early => fence[t] = 0
  /\ \A t \in Tokens : phase[t] = "allocating" => age[t] < Ttl /\ quorumNo[t] = quorums
  /\ FencesFollowQuorums

\* Only the allocator's answer sets a fence, only a verdict counts as a quorum.
LEMMA HistorySteps ==
  ASSUME TypeOK, [Next]_vars
  PROVE  \/ fence' = fence /\ quorumNo' = quorumNo /\ quorums' = quorums /\ counter' >= counter
         \/ \E u \in Tokens : AllocateFence(u)
         \/ \E u \in Tokens : Decide(u) /\ HasQuorum(u, "acquire") /\ InTime(u)
  <1> DEFINE Same == /\ fence' = fence /\ quorumNo' = quorumNo
                     /\ quorums' = quorums /\ counter' >= counter
  <1>c. counter \in Nat /\ counter >= counter
    BY DEF TypeOK
  <1>1. CASE UNCHANGED vars
    BY <1>c, <1>1 DEF vars, history
  <1>2. CASE Tick
    BY <1>c, <1>2 DEF Tick, history
  <1>3. ASSUME NEW u \in Tokens, NEW k \in Kinds, CallNode(u, k) \/ CallFails(u, k)
        PROVE  Same
    BY <1>c, <1>3 DEF CallNode, CallFails, history
  <1>4. ASSUME NEW u \in Tokens, NEW x \in Scripts, NEW n \in Nodes, ServeLate(u, x, n)
        PROVE  Same
    BY <1>c, <1>4 DEF ServeLate, history
  <1>5. ASSUME NEW u \in Tokens, TryLock(u) \/ RollbackDone(u) \/ AcquireError(u)
        PROVE  Same
    BY <1>c, <1>5 DEF TryLock, RollbackDone, AcquireError, history
  <1>6. ASSUME NEW u \in Tokens, AllocateError(u) PROVE Same
    <2>1. counter' \in {counter, counter + 1} /\ fence' = fence /\ UNCHANGED history
      BY <1>6 DEF AllocateError
    <2>. QED
      BY <1>c, <2>1 DEF history
  <1>7. ASSUME NEW u \in Tokens,
               \/ Extend(u) \/ Release(u) \/ DropHandle(u) \/ Crash(u)
               \/ ExtendDone(u) \/ ReleaseDone(u)
               \/ WatchdogExit(u) \/ WatchdogRenew(u) \/ RenewDone(u)
        PROVE  Same
    BY <1>c, <1>7 DEF Extend, Release, DropHandle, Crash, ExtendDone, ReleaseDone,
                WatchdogExit, WatchdogRenew, RenewDone, history
  <1>8. ASSUME NEW u \in Tokens, Decide(u), ~(HasQuorum(u, "acquire") /\ InTime(u))
        PROVE  Same
    BY <1>c, <1>8 DEF Decide, history
  <1>. QED
    BY <1>1, <1>2, <1>3, <1>4, <1>5, <1>6, <1>7, <1>8, StepCases

\* A round never goes back to the phases before its handle.
LEMMA EarlyBefore ==
  ASSUME TypeOK, [Next]_vars, NEW t \in Tokens, LoopPhases(t), phase'[t] \in Early
  PROVE  phase[t] \in Early
  <1>1. Untouched(t) => phase[t] \in Early
    BY DEF Untouched
  <1>2. TryLock(t) \/ Decide(t) \/ RollbackDone(t) => phase[t] \in Early
    BY DEF TryLock, Decide, RollbackDone, Finished, LoopPhases, Early
  <1>3. ASSUME \/ CallNode(t, "acquire") \/ CallNode(t, "rollback")
               \/ CallFails(t, "acquire") \/ CallFails(t, "rollback")
        PROVE  phase[t] \in Early
    BY <1>3 DEF CallNode, CallFails
  <1>4. ASSUME NEW x \in Scripts, NEW n \in Nodes, ServeLate(t, x, n)
        PROVE  phase[t] \in Early
    BY <1>4 DEF ServeLate
  <1>. QED
    BY <1>1, <1>2, <1>3, <1>4, EarlySteps

\* Two rounds do not own a quorum each: while one waits for the allocator within
\* its lease, no other can decide that it has the lock.
LEMMA OneQuorum ==
  ASSUME LeaseInv, NEW t \in Tokens, NEW u \in Tokens,
         phase[t] = "acquiring", HasQuorum(t, "acquire"), InTime(t),
         phase[u] = "allocating", age[u] < Ttl
  PROVE  FALSE
  <1> DEFINE ok == round[t]["acquire"].ok
  <1>1. \A n \in ok : n \in Nodes /\ holder[n] = t
    BY DecidesOnOwned
  <1>2. PICK Q \in SUBSET Nodes : Cardinality(Q) >= Quorum /\ \A n \in Q : Owned(u, n)
    BY DEF LeaseInv, Leased
  <1>3. Cardinality(ok) >= Quorum
    BY DEF HasQuorum
  <1> HIDE DEF ok
  <1>4. ok \subseteq Nodes /\ Q \subseteq Nodes
    BY <1>1
  <1>5. Cardinality(ok) \in Nat /\ Cardinality(Q) \in Nat
    BY <1>4, RingFinite, FS_Subset, FS_CardinalityType
  <1>6. Cardinality(ok) + Cardinality(Q) > Cardinality(Nodes)
    BY <1>2, <1>3, <1>5, RingFinite, RingAssumption DEF Quorum
  <1>7. ok \cap Q # {}
    BY <1>4, <1>6, RingFinite, FS_MajoritiesIntersect
  <1>8. t = u
    BY <1>1, <1>2, <1>7 DEF Owned
  <1>. QED
    BY <1>8

\* Each step keeps the order, if the allocator answers in time.
LEMMA FenceStep ==
  ASSUME Prompt, LeaseInv, FenceInv, [Next]_vars
  PROVE  FenceInv'
  <1>t. /\ fence \in [Tokens -> Nat] /\ quorumNo \in [Tokens -> Nat]
        /\ counter \in Nat /\ quorums \in Nat
        /\ age \in [Tokens -> 0 .. Ttl] /\ Ttl \in Nat
        /\ phase \in [Tokens -> Phases]
    BY TtlAssumption DEF LeaseInv, ClientInv, TypeOK
  <1>u. counter' \in Nat /\ fence' \in [Tokens -> Nat]
    BY TypeStep DEF LeaseInv, ClientInv, TypeOK
  <1>l. TypeOK /\ \A t \in Tokens : LoopPhases(t)
    BY DEF LeaseInv, ClientInv
  \* the lease of the round that waits for the allocator
  <1>a. ASSUME NEW t \in Tokens, phase[t] = "allocating", phase'[t] = "allocating"
        PROVE  age'[t] < Ttl
    <2>1. ~AllocateFence(t)
      BY <1>a, <1>t DEF AllocateFence
    <2>2. CASE Tick
      BY <1>a, <1>t, <2>2 DEF Tick
    <2>3. CASE age'[t] = age[t]
      BY <1>a, <2>3 DEF FenceInv
    <2>. QED
      BY <1>l, <2>1, <2>2, <2>3, AgeSteps
  <1>1. CASE fence' = fence /\ quorumNo' = quorumNo /\ quorums' = quorums /\ counter' >= counter
    <2>1. \A t \in Tokens : (fence[t] <= counter /\ quorumNo[t] <= quorums)'
      BY <1>1, <1>t, <1>u DEF FenceInv
    <2>2. \A t \in Tokens : phase'[t] \in Early => fence'[t] = 0
      BY <1>1, <1>l, EarlyBefore DEF FenceInv
    <2>3. ASSUME NEW t \in Tokens, phase'[t] = "allocating"
          PROVE  age'[t] < Ttl /\ quorumNo'[t] = quorums'
      <3>1. ~(Decide(t) /\ HasQuorum(t, "acquire") /\ InTime(t))
        BY <1>1, <1>t DEF Decide
      <3>2. phase[t] = "allocating"
        BY <1>l, <2>3, <3>1, AllocatingSteps
      <3>. QED
        BY <1>1, <1>a, <2>3, <3>2 DEF FenceInv
    <2>4. FencesFollowQuorums'
      BY <1>1 DEF FenceInv, FencesFollowQuorums
    <2>. QED
      BY <2>1, <2>2, <2>3, <2>4 DEF FenceInv
  <1>2. ASSUME NEW u \in Tokens, AllocateFence(u) PROVE FenceInv'
    <2>1. /\ fence' = [fence EXCEPT ![u] = counter + 1] /\ counter' = counter + 1
          /\ quorumNo' = quorumNo /\ quorums' = quorums
          /\ phase[u] = "allocating" /\ phase' = [phase EXCEPT ![u] = "live"]
      BY <1>2 DEF AllocateFence, history
    <2>2. \A t \in Tokens : (fence[t] <= counter /\ quorumNo[t] <= quorums)'
      BY <1>t, <2>1 DEF FenceInv
    <2>3. \A t \in Tokens : phase'[t] \in Early => fence'[t] = 0
      BY <1>t, <2>1 DEF FenceInv, Early
    <2>4. ASSUME NEW t \in Tokens, phase'[t] = "allocating"
          PROVE  age'[t] < Ttl /\ quorumNo'[t] = quorums'
      <3>1. phase[t] = "allocating"
        BY <1>t, <2>1, <2>4
      <3>. QED
        BY <1>a, <2>1, <2>4, <3>1 DEF FenceInv
    <2>5. FencesFollowQuorums'
      <3>1. quorumNo[u] = quorums /\ \A t \in Tokens : fence[t] <= counter /\ quorumNo[t] <= quorums
        BY <2>1 DEF FenceInv
      <3>2. FencesFollowQuorums
        BY DEF FenceInv
      <3>. QED
        BY <1>t, <2>1, <3>1, <3>2 DEF FencesFollowQuorums
    <2>. QED
      BY <2>2, <2>3, <2>4, <2>5 DEF FenceInv
  <1>3. ASSUME NEW u \in Tokens, Decide(u), HasQuorum(u, "acquire"), InTime(u)
        PROVE  FenceInv'
    <2>1. /\ fence' = fence /\ counter' = counter /\ quorums' = quorums + 1
          /\ quorumNo' = [quorumNo EXCEPT ![u] = quorums + 1]
          /\ phase' = [phase EXCEPT ![u] = "allocating"]
          /\ age' = age
      BY <1>3 DEF Decide, handle
    <2>2. phase[u] = "acquiring"
      BY <1>3, <1>l DEF Decide, Finished, LoopPhases
    <2>3. fence[u] = 0
      BY <2>2 DEF FenceInv, Early
    <2>4. \A t \in Tokens : (fence[t] <= counter /\ quorumNo[t] <= quorums)'
      BY <1>t, <2>1 DEF FenceInv
    <2>5. \A t \in Tokens : phase'[t] \in Early => fence'[t] = 0
      BY <1>t, <2>1, <2>3 DEF FenceInv
    <2>6. ASSUME NEW t \in Tokens, phase'[t] = "allocating"
          PROVE  age'[t] < Ttl /\ quorumNo'[t] = quorums'
      <3>1. CASE t = u
        <4>1. age[u] < Ttl
          BY <1>3, <1>t DEF InTime
        <4>. QED
          BY <1>t, <2>1, <3>1, <4>1
      <3>2. CASE t # u
        <4>1. phase[t] = "allocating" /\ age[t] < Ttl
          BY <1>t, <2>1, <2>6, <3>2 DEF FenceInv
        <4>. QED
          BY <1>3, <2>2, <4>1, OneQuorum
      <3>. QED
        BY <3>1, <3>2
    <2>7. FencesFollowQuorums'
      <3>1. FencesFollowQuorums
        BY DEF FenceInv
      <3>. QED
        BY <1>t, <2>1, <2>3, <3>1 DEF FencesFollowQuorums
    <2>. QED
      BY <2>4, <2>5, <2>6, <2>7 DEF FenceInv
  <1>. QED
    BY <1>l, <1>1, <1>2, <1>3, HistorySteps

\* If every round that wins a quorum hears from the allocator before its lease
\* runs out, fences are ordered as the quorums were won, for any ring, any faults
\* and any late scripts.  (Without that assumption it is false: the run of the
\* slow allocator shows two handles with the fences the wrong way round.)
THEOREM PromptFencesFollowQuorums ==
  ASSUME Prompt
  PROVE  Spec => []FencesFollowQuorums
  <1>1. Init => FenceInv
    BY TtlAssumption DEF Init, FenceInv, FencesFollowQuorums
  <1>2. LeaseInv /\ FenceInv /\ [Next]_vars => FenceInv'
    BY FenceStep
  <1>3. FenceInv => FencesFollowQuorums
    BY DEF FenceInv
  <1>. QED
    BY <1>1, <1>2, <1>3, LeaseInvHolds, PTL DEF Spec
==============================================================================
