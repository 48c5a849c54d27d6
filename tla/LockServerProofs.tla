--------------------------- MODULE LockServerProofs ---------------------------
(***************************************************************************)
(* Proofs about LockServer for any number of calls, keys, principals and   *)
(* sessions, any ceiling and any session ttl.                              *)
(***************************************************************************)
EXTENDS LockServer, FiniteSetTheorems, TLAPS

\* One step of the server is a step of one of the listed actions.
LEMMA StepCases ==
  ASSUME Next
  PROVE  \/ Tick \/ SweepList \/ SweepNext \/ Drain
         \/ \E k \in Keys : LeaseExpires(k) \/ UnlockForce(k)
         \/ \E p \in Principals : RegistryDecrement(p)
         \/ \E k \in Keys, g \in Grants \cup {None} : RegistryRemove(k, g)
         \/ \E g \in Grants, k \in Keys, p \in Principals, s \in Sessions \cup {None} :
              TryLock(g, k, p, s)
         \/ \E g \in Grants : Bind(g) \/ Admit(g) \/ Undo(g) \/ Unlock(g)
         \/ \E s \in Sessions : \/ Register(s) \/ Heartbeat(s) \/ Close(s)
                                \/ CloseDropped(s) \/ Silence(s) \/ SweepVisit(s)
         \/ \E s \in Sessions, k \in Keys, g \in Grants : ReleaseBound(s, k, g)
  BY Zenon DEF Next, Registry, Handler, Client, Sweeper

------------------------------------------------------------------------------
(* Type correctness. *)

\* A call that has started knows its key and its principal.
Started ==
  \A g \in Grants : pc[g] # "new" => key[g] \in Keys /\ who[g] \in Principals

TypeInv == TypeOK /\ Started

\* Clearing a key's owner keeps the type of the store.
LEMMA StoreReleaseType ==
  ASSUME owner \in [Keys -> Grants \cup {None}], NEW g, NEW k, StoreRelease(g, k)
  PROVE  owner' \in [Keys -> Grants \cup {None}]
  BY DEF StoreRelease

\* Every variable of the server keeps its type.
LEMMA TypeStep == TypeInv /\ [Next]_vars => TypeInv'
  <1> SUFFICES ASSUME TypeInv, [Next]_vars PROVE TypeInv'
    OBVIOUS
  <1> USE DEF TypeInv, TypeOK, Started
  <1>1. CASE UNCHANGED vars
    BY <1>1 DEF vars, calls, sessions, registry
  <1>2. CASE Tick
    BY <1>2, SessionTtlAssumption DEF Tick, calls, registry
  <1>3. CASE SweepList \/ SweepNext \/ Drain
    BY <1>3 DEF SweepList, SweepNext, Drain, calls, sessions, registry
  <1>4. ASSUME NEW k \in Keys, LeaseExpires(k) \/ UnlockForce(k) PROVE TypeInv'
    BY <1>4 DEF LeaseExpires, UnlockForce, calls, sessions, registry
  <1>5. ASSUME NEW p \in Principals, RegistryDecrement(p) PROVE TypeInv'
    BY <1>5 DEF RegistryDecrement, calls, sessions
  <1>6. ASSUME NEW k \in Keys, NEW g \in Grants \cup {None}, RegistryRemove(k, g)
        PROVE  TypeInv'
    BY <1>6 DEF RegistryRemove, calls, sessions
  <1>7. ASSUME NEW g \in Grants, NEW k \in Keys, NEW p \in Principals,
               NEW s \in Sessions \cup {None}, TryLock(g, k, p, s)
        PROVE  TypeInv'
    BY <1>7 DEF TryLock, sessions, registry
  <1>8. ASSUME NEW g \in Grants, Bind(g) PROVE TypeInv'
    BY <1>8, SessionTtlAssumption DEF Bind, registry
  <1>9. ASSUME NEW g \in Grants, Admit(g) PROVE TypeInv'
    BY <1>9 DEF Admit, sessions
  <1>10. ASSUME NEW g \in Grants, Undo(g) PROVE TypeInv'
    BY <1>10, StoreReleaseType DEF Undo, sessions, registry
  <1>11. ASSUME NEW g \in Grants, Unlock(g) PROVE TypeInv'
    BY <1>11, StoreReleaseType DEF Unlock, sessions
  <1>12. ASSUME NEW s \in Sessions, Register(s) \/ Heartbeat(s) \/ Silence(s)
         PROVE  TypeInv'
    BY <1>12, SessionTtlAssumption DEF Register, Heartbeat, Silence, calls, registry
  <1>13. ASSUME NEW s \in Sessions, Close(s) \/ SweepVisit(s) PROVE TypeInv'
    BY <1>13 DEF Close, SweepVisit, Remove, calls, registry
  <1>14. ASSUME NEW s \in Sessions, CloseDropped(s) PROVE TypeInv'
    BY <1>14 DEF CloseDropped, registry
  <1>15. ASSUME NEW s \in Sessions, NEW k \in Keys, NEW g \in Grants,
                ReleaseBound(s, k, g)
         PROVE  TypeInv'
    BY <1>15, StoreReleaseType DEF ReleaseBound, registry
  <1>. QED
    BY <1>1, <1>2, <1>3, <1>4, <1>5, <1>6, <1>7, <1>8, <1>9, <1>10, <1>11, <1>12,
       <1>13, <1>14, <1>15, StepCases

\* The types of the server's state, and that a call which has started has a key
\* and a principal, hold throughout.
THEOREM TypeCorrect == Spec => [](TypeOK /\ Started)
  <1>1. Init => TypeInv
    BY SessionTtlAssumption DEF Init, TypeInv, TypeOK, Started
  <1>. QED
    BY <1>1, TypeStep, PTL DEF Spec, TypeInv

------------------------------------------------------------------------------
(* The registry's two maps. *)

\* What a principal holds is a finite set, whatever the set of keys is, and the
\* counter exceeds its size by the release() calls that are half done.
RegistryInv ==
  \A p \in Principals :
    /\ IsFiniteSet(Held(p))
    /\ counts[p] = Cardinality(Held(p)) + leaving[p]

\* try_acquire of an untracked key.
LEMMA RecordHolder ==
  ASSUME TypeOK, RegistryInv, NEW k \in Keys, NEW p \in Principals,
         holders[k] = None,
         holders' = [holders EXCEPT ![k] = p],
         counts' = [counts EXCEPT ![p] = @ + 1],
         leaving' = leaving
  PROVE  RegistryInv'
  <1> SUFFICES ASSUME NEW q \in Principals
               PROVE  /\ IsFiniteSet(Held(q)')
                      /\ counts'[q] = Cardinality(Held(q)') + leaving'[q]
    BY DEF RegistryInv
  <1>1. /\ IsFiniteSet(Held(q)) /\ Cardinality(Held(q)) \in Nat
        /\ counts[q] = Cardinality(Held(q)) + leaving[q] /\ leaving[q] \in Nat
    BY FS_CardinalityType DEF RegistryInv, TypeOK
  <1>2. CASE q # p
    <2>1. Held(q)' = Held(q) /\ counts'[q] = counts[q]
      BY <1>2, NoneAssumption DEF Held, TypeOK
    <2>. QED
      BY <1>1, <2>1
  <1>3. CASE q = p
    <2>1. Held(q)' = Held(q) \cup {k} /\ k \notin Held(q)
      BY <1>3, NoneAssumption DEF Held, TypeOK
    <2>2. IsFiniteSet(Held(q)') /\ Cardinality(Held(q)') = Cardinality(Held(q)) + 1
      BY <1>1, <2>1, FS_AddElement
    <2>3. counts'[q] = counts[q] + 1
      BY <1>3 DEF TypeOK
    <2>. QED
      BY <1>1, <2>2, <2>3
  <1>. QED
    BY <1>2, <1>3

\* The first critical section of HeldRegistry::release.
LEMMA RemoveHolder ==
  ASSUME TypeOK, RegistryInv, NEW k \in Keys, NEW g, RegistryRemove(k, g)
  PROVE  RegistryInv'
  <1> SUFFICES ASSUME NEW q \in Principals
               PROVE  /\ IsFiniteSet(Held(q)')
                      /\ counts'[q] = Cardinality(Held(q)') + leaving'[q]
    BY DEF RegistryInv
  <1>1. /\ IsFiniteSet(Held(q)) /\ Cardinality(Held(q)) \in Nat
        /\ counts[q] = Cardinality(Held(q)) + leaving[q] /\ leaving[q] \in Nat
    BY FS_CardinalityType DEF RegistryInv, TypeOK
  <1>2. counts' = counts /\ holders' = [holders EXCEPT ![k] = None]
    BY DEF RegistryRemove
  <1>3. CASE holders[k] # q
    <2>1. Held(q)' = Held(q)
      BY <1>2, <1>3, NoneAssumption DEF Held, TypeOK
    <2>2. leaving'[q] = leaving[q]
      BY <1>3 DEF RegistryRemove, TypeOK
    <2>. QED
      BY <1>1, <1>2, <2>1, <2>2
  <1>4. CASE holders[k] = q
    <2>1. Held(q)' = Held(q) \ {k} /\ k \in Held(q)
      BY <1>2, <1>4, NoneAssumption DEF Held, TypeOK
    <2>2. IsFiniteSet(Held(q)') /\ Cardinality(Held(q)') = Cardinality(Held(q)) - 1
      BY <1>1, <2>1, FS_RemoveElement
    <2>3. leaving'[q] = leaving[q] + 1
      BY <1>4, NoneAssumption DEF RegistryRemove, TypeOK
    <2>. QED
      BY <1>1, <1>2, <2>2, <2>3
  <1>. QED
    BY <1>3, <1>4

\* The second critical section; saturating_sub never saturates.
LEMMA DecrementCount ==
  ASSUME TypeOK, RegistryInv, NEW p \in Principals, RegistryDecrement(p)
  PROVE  RegistryInv'
  <1> SUFFICES ASSUME NEW q \in Principals
               PROVE  /\ IsFiniteSet(Held(q)')
                      /\ counts'[q] = Cardinality(Held(q)') + leaving'[q]
    BY DEF RegistryInv
  <1>1. /\ IsFiniteSet(Held(q)) /\ Cardinality(Held(q)) \in Nat
        /\ counts[q] = Cardinality(Held(q)) + leaving[q] /\ leaving[q] \in Nat
    BY FS_CardinalityType DEF RegistryInv, TypeOK
  <1>2. Held(q)' = Held(q)
    BY DEF RegistryDecrement, Held
  <1>3. CASE q # p
    BY <1>1, <1>2, <1>3 DEF RegistryDecrement, TypeOK
  <1>4. CASE q = p
    <2>1. leaving[q] > 0 /\ leaving'[q] = leaving[q] - 1
      BY <1>4 DEF RegistryDecrement, TypeOK
    <2>2. counts[q] > 0
      BY <1>1, <2>1
    <2>3. counts'[q] = counts[q] - 1
      BY <1>4, <2>2 DEF RegistryDecrement, TypeOK
    <2>. QED
      BY <1>1, <1>2, <2>1, <2>3
  <1>. QED
    BY <1>3, <1>4

\* Every step keeps the registry's maps in agreement.
LEMMA RegistryStep == TypeInv /\ RegistryInv /\ [Next]_vars => RegistryInv'
  <1> SUFFICES ASSUME TypeInv, RegistryInv, [Next]_vars PROVE RegistryInv'
    OBVIOUS
  <1>0. TypeOK
    BY DEF TypeInv
  <1>1. CASE UNCHANGED <<holders, counts, leaving>>
    BY <1>1 DEF RegistryInv, Held
  <1>2. ASSUME NEW p \in Principals, RegistryDecrement(p) PROVE RegistryInv'
    BY <1>0, <1>2, DecrementCount
  <1>3. ASSUME NEW k \in Keys, NEW g \in Grants \cup {None}, RegistryRemove(k, g)
        PROVE  RegistryInv'
    BY <1>0, <1>3, RemoveHolder
  <1>4. ASSUME NEW g \in Grants, Admit(g) PROVE RegistryInv'
    <2>1. key[g] \in Keys /\ who[g] \in Principals /\ leaving' = leaving
      BY <1>4 DEF Admit, TypeInv, Started
    <2>2. \/ UNCHANGED <<holders, counts, leaving>>
          \/ /\ holders[key[g]] = None
             /\ holders' = [holders EXCEPT ![key[g]] = who[g]]
             /\ counts' = [counts EXCEPT ![who[g]] = @ + 1]
      BY <1>4 DEF Admit
    <2>. QED
      BY <1>0, <1>1, <2>1, <2>2, RecordHolder
  <1>5. CASE UNCHANGED vars
    BY <1>1, <1>5 DEF vars, registry
  <1>6. CASE Tick \/ SweepList \/ SweepNext \/ Drain
    BY <1>1, <1>6 DEF Tick, SweepList, SweepNext, Drain, registry
  <1>7. ASSUME NEW k \in Keys, LeaseExpires(k) \/ UnlockForce(k) PROVE RegistryInv'
    BY <1>1, <1>7 DEF LeaseExpires, UnlockForce, registry
  <1>8. ASSUME NEW g \in Grants, NEW k \in Keys, NEW p \in Principals,
               NEW s \in Sessions \cup {None}, TryLock(g, k, p, s)
        PROVE  RegistryInv'
    BY <1>1, <1>8 DEF TryLock, registry
  <1>9. ASSUME NEW g \in Grants, Bind(g) \/ Undo(g) \/ Unlock(g) PROVE RegistryInv'
    BY <1>1, <1>9 DEF Bind, Undo, Unlock, registry
  <1>10. ASSUME NEW s \in Sessions,
                \/ Register(s) \/ Heartbeat(s) \/ Silence(s)
                \/ Close(s) \/ CloseDropped(s) \/ SweepVisit(s)
         PROVE  RegistryInv'
    BY <1>1, <1>10 DEF Register, Heartbeat, Silence, Close, CloseDropped, SweepVisit,
                       registry
  <1>11. ASSUME NEW s \in Sessions, NEW k \in Keys, NEW g \in Grants,
                ReleaseBound(s, k, g)
         PROVE  RegistryInv'
    BY <1>1, <1>11 DEF ReleaseBound, registry
  <1>. QED
    BY <1>2, <1>3, <1>4, <1>5, <1>6, <1>7, <1>8, <1>9, <1>10, <1>11, StepCases

\* HeldRegistry: a principal's counter is the number of keys recorded under it,
\* plus the release() calls between their two critical sections.
THEOREM CountsMatchHoldersHolds == Spec => []CountsMatchHolders
  <1>1. Init => RegistryInv
    <2> SUFFICES ASSUME Init, NEW p \in Principals
                 PROVE  /\ IsFiniteSet(Held(p))
                        /\ counts[p] = Cardinality(Held(p)) + leaving[p]
      BY DEF RegistryInv
    <2>1. Held(p) = {}
      BY NoneAssumption DEF Init, Held
    <2>2. counts[p] = 0 /\ leaving[p] = 0
      BY DEF Init
    <2>. QED
      BY <2>1, <2>2, FS_EmptySet
  <1>2. RegistryInv => CountsMatchHolders
    BY DEF RegistryInv, CountsMatchHolders
  <1>. QED
    BY <1>1, <1>2, RegistryStep, TypeCorrect, PTL DEF Spec, TypeInv

------------------------------------------------------------------------------
(* Grants that are taken back. *)

\* After the ownership-checked script the call does not own that key; other
\* calls keep what they own.
LEMMA StoreReleaseEffect ==
  ASSUME TypeOK, NEW g \in Grants, NEW k \in Keys, StoreRelease(g, k)
  PROVE  /\ owner'[k] # g
         /\ \A h \in Grants, j \in Keys : owner'[j] = h => owner[j] = h
  BY NoneAssumption DEF StoreRelease, TypeOK

\* Once a call has started, its key, principal and session are settled, it does
\* not come to own a key again, and what is left to the lease stays so.
LEMMA StartedCalls ==
  ASSUME TypeInv, [Next]_vars, NEW g \in Grants, pc[g] # "new"
  PROVE  /\ Owns(g)' => Owns(g)
         /\ key'[g] = key[g] /\ session'[g] = session[g]
         /\ pc'[g] # "new"
         /\ failed \subseteq failed'
  <1> DEFINE Kept ==
        /\ Owns(g)' => Owns(g)
        /\ key'[g] = key[g] /\ session'[g] = session[g]
        /\ pc'[g] # "new"
        /\ failed \subseteq failed'
  <1> SUFFICES Kept
    OBVIOUS
  <1>0. TypeOK /\ key[g] \in Keys
    BY DEF TypeInv, Started
  <1>1. CASE UNCHANGED <<owner, calls>>
    BY <1>1 DEF calls, Owns
  <1>2. ASSUME NEW k \in Keys, LeaseExpires(k) \/ UnlockForce(k) PROVE Kept
    BY <1>0, <1>2, NoneAssumption DEF LeaseExpires, UnlockForce, calls, Owns, TypeOK
  <1>3. ASSUME NEW h \in Grants, NEW k \in Keys, NEW p \in Principals,
               NEW s \in Sessions \cup {None}, TryLock(h, k, p, s)
        PROVE  Kept
    <2>1. h # g
      BY <1>3 DEF TryLock
    <2>2. key'[g] = key[g] /\ session'[g] = session[g] /\ pc'[g] = pc[g]
      BY <1>0, <1>3, <2>1 DEF TryLock, TypeOK
    <2>3. \A j \in Keys : owner'[j] = g => owner[j] = g
      BY <1>0, <1>3, <2>1 DEF TryLock, TypeOK
    <2>4. failed \subseteq failed'
      BY <1>3 DEF TryLock
    <2>. QED
      BY <2>2, <2>3, <2>4 DEF Owns
  <1>4. ASSUME NEW h \in Grants, Bind(h) \/ Admit(h) PROVE Kept
    BY <1>0, <1>4 DEF Bind, Admit, Owns, TypeOK
  <1>5. ASSUME NEW h \in Grants, Undo(h) \/ Unlock(h) PROVE Kept
    <2>1. key[h] \in Keys /\ (StoreRelease(h, key[h]) \/ UNCHANGED owner)
      BY <1>5 DEF Undo, Unlock, TypeInv, Started
    <2>2. \A j \in Keys : owner'[j] = g => owner[j] = g
      BY <1>0, <2>1, StoreReleaseEffect
    <2>3. key' = key /\ session' = session /\ failed \subseteq failed' /\ pc'[g] # "new"
      BY <1>0, <1>5 DEF Undo, Unlock, TypeOK
    <2>. QED
      BY <2>2, <2>3 DEF Owns
  <1>6. ASSUME NEW s \in Sessions, NEW k \in Keys, NEW h \in Grants, ReleaseBound(s, k, h)
        PROVE  Kept
    <2>1. StoreRelease(h, k) \/ UNCHANGED owner
      BY <1>6 DEF ReleaseBound
    <2>2. \A j \in Keys : owner'[j] = g => owner[j] = g
      BY <1>0, <2>1, StoreReleaseEffect
    <2>. QED
      BY <1>6, <2>2 DEF ReleaseBound, Owns
  <1>7. ASSUME NEW s \in Sessions, CloseDropped(s) PROVE Kept
    BY <1>7 DEF CloseDropped, Owns
  <1>8. CASE UNCHANGED vars
    BY <1>1, <1>8 DEF vars
  <1>9. CASE Tick \/ SweepList \/ SweepNext \/ Drain
    BY <1>1, <1>9 DEF Tick, SweepList, SweepNext, Drain
  <1>10. ASSUME NEW p \in Principals, RegistryDecrement(p) PROVE Kept
    BY <1>1, <1>10 DEF RegistryDecrement
  <1>11. ASSUME NEW k \in Keys, NEW h \in Grants \cup {None}, RegistryRemove(k, h)
         PROVE  Kept
    BY <1>1, <1>11 DEF RegistryRemove
  <1>12. ASSUME NEW s \in Sessions,
                Register(s) \/ Heartbeat(s) \/ Silence(s) \/ Close(s) \/ SweepVisit(s)
         PROVE  Kept
    BY <1>1, <1>12 DEF Register, Heartbeat, Silence, Close, SweepVisit
  <1> HIDE DEF Kept
  <1>. QED
    BY <1>2, <1>3, <1>4, <1>5, <1>6, <1>7, <1>8, <1>9, <1>10, <1>11, <1>12, StepCases

\* A handler moves on only in its own steps; which step takes it where.
LEMMA HandlerMoves ==
  ASSUME TypeInv, [Next]_vars, NEW g \in Grants
  PROVE  /\ pc'[g] = "rejected" /\ pc[g] # "rejected" => Undo(g)
         /\ pc'[g] = "bound" /\ pc[g] # "bound" => Bind(g)
         /\ pc'[g] = "granted" /\ pc[g] # "granted" => Admit(g)
         /\ pc'[g] # "new" /\ pc[g] = "new" =>
              \E k \in Keys, p \in Principals, s \in Sessions \cup {None} :
                TryLock(g, k, p, s)
  <1> DEFINE Told ==
        /\ pc'[g] = "rejected" /\ pc[g] # "rejected" => Undo(g)
        /\ pc'[g] = "bound" /\ pc[g] # "bound" => Bind(g)
        /\ pc'[g] = "granted" /\ pc[g] # "granted" => Admit(g)
        /\ pc'[g] # "new" /\ pc[g] = "new" =>
             \E k \in Keys, p \in Principals, s \in Sessions \cup {None} :
               TryLock(g, k, p, s)
  <1> USE DEF TypeInv, TypeOK
  <1>2. ASSUME NEW h \in Grants, NEW k \in Keys, NEW p \in Principals,
               NEW s \in Sessions \cup {None}, TryLock(h, k, p, s)
        PROVE  pc'[g] = pc[g] \/ (h = g /\ pc'[g] \in {"over", "acquired"})
    BY <1>2 DEF TryLock
  <1>3. ASSUME NEW h \in Grants, Bind(h)
        PROVE  pc'[g] = pc[g] \/ (pc[g] # "new" /\ h = g /\ pc'[g] \in {"bound", "undo"})
    BY <1>3 DEF Bind
  <1>4. ASSUME NEW h \in Grants, Admit(h)
        PROVE  pc'[g] = pc[g] \/ (pc[g] # "new" /\ h = g /\ pc'[g] \in {"granted", "undo"})
    BY <1>4 DEF Admit
  <1>5. ASSUME NEW h \in Grants, Undo(h)
        PROVE  pc'[g] = pc[g] \/ (pc[g] # "new" /\ h = g /\ pc'[g] = "rejected")
    BY <1>5 DEF Undo
  <1>6. ASSUME NEW h \in Grants, Unlock(h)
        PROVE  pc'[g] = pc[g] \/ (pc[g] # "new" /\ pc'[g] = "over")
    BY <1>6 DEF Unlock
  <1>7. \/ UNCHANGED pc
        \/ \E h \in Grants, k \in Keys, p \in Principals, s \in Sessions \cup {None} :
             TryLock(h, k, p, s)
        \/ \E h \in Grants : Bind(h) \/ Admit(h) \/ Undo(h) \/ Unlock(h)
    <2>1. CASE UNCHANGED vars
      BY <2>1 DEF vars, calls
    <2>2. CASE Tick \/ SweepList \/ SweepNext \/ Drain
      BY <2>2 DEF Tick, SweepList, SweepNext, Drain, calls
    <2>3. ASSUME NEW k \in Keys, LeaseExpires(k) \/ UnlockForce(k) PROVE UNCHANGED pc
      BY <2>3 DEF LeaseExpires, UnlockForce, calls
    <2>4. ASSUME NEW p \in Principals, RegistryDecrement(p) PROVE UNCHANGED pc
      BY <2>4 DEF RegistryDecrement, calls
    <2>5. ASSUME NEW k \in Keys, NEW h \in Grants \cup {None}, RegistryRemove(k, h)
          PROVE  UNCHANGED pc
      BY <2>5 DEF RegistryRemove, calls
    <2>6. ASSUME NEW s \in Sessions,
                 \/ Register(s) \/ Heartbeat(s) \/ Silence(s)
                 \/ Close(s) \/ CloseDropped(s) \/ SweepVisit(s)
          PROVE  UNCHANGED pc
      BY <2>6 DEF Register, Heartbeat, Silence, Close, CloseDropped, SweepVisit, calls
    <2>7. ASSUME NEW s \in Sessions, NEW k \in Keys, NEW h \in Grants,
                 ReleaseBound(s, k, h)
          PROVE  UNCHANGED pc
      BY <2>7 DEF ReleaseBound
    <2>. QED
      BY <2>1, <2>2, <2>3, <2>4, <2>5, <2>6, <2>7, StepCases
  <1>. QED
    <2> HIDE DEF TypeInv, TypeOK
    <2>1. CASE UNCHANGED pc
      BY <2>1
    <2>2. ASSUME NEW h \in Grants, NEW k \in Keys, NEW p \in Principals,
                 NEW s \in Sessions \cup {None}, TryLock(h, k, p, s)
          PROVE  Told
      BY <1>2, <2>2
    <2>3. ASSUME NEW h \in Grants, Bind(h) \/ Admit(h) \/ Undo(h) \/ Unlock(h)
          PROVE  Told
      BY <1>3, <1>4, <1>5, <1>6, <2>3
    <2>. QED
      BY <1>7, <2>1, <2>2, <2>3

\* try_lock: a call answered with NotFound or ResourceExhausted has given its key
\* back, unless the store failed to take it; nothing gives it back later.
THEOREM RejectedLeavesNothingHolds == Spec => []RejectedLeavesNothing
  <1>1. Init => RejectedLeavesNothing
    BY DEF Init, RejectedLeavesNothing
  <1>2. TypeInv /\ RejectedLeavesNothing /\ [Next]_vars => RejectedLeavesNothing'
    <2> SUFFICES ASSUME TypeInv, RejectedLeavesNothing, [Next]_vars,
                        NEW g \in Grants, pc'[g] = "rejected"
                 PROVE  ~Owns(g)' \/ g \in failed'
      BY DEF RejectedLeavesNothing
    <2>1. CASE pc[g] = "rejected"
      BY <2>1, StartedCalls DEF RejectedLeavesNothing
    <2>2. CASE pc[g] # "rejected"
      <3>1. Undo(g)
        BY <2>2, HandlerMoves
      <3>2. key[g] \in Keys /\ key' = key /\ TypeOK
        BY <3>1 DEF Undo, TypeInv, Started
      <3>3. CASE StoreRelease(g, key[g])
        BY <3>2, <3>3, StoreReleaseEffect DEF Owns
      <3>4. CASE g \in failed'
        BY <3>4
      <3>. QED
        BY <3>1, <3>3, <3>4 DEF Undo
    <2>. QED
      BY <2>1, <2>2
  <1>. QED
    BY <1>1, <1>2, TypeCorrect, PTL DEF Spec, TypeInv

------------------------------------------------------------------------------
(* Locks bound to a session. *)

\* What a step may do to a session: keep it and add to its locks, register it,
\* remove it and list its locks for release, release one of those, or drop the
\* rest when the client hangs up.
LEMMA SessionMoves ==
  ASSUME TypeInv, [Next]_vars, NEW s \in Sessions
  PROVE  \/ /\ book'[s] = book[s] /\ locks[s] \subseteq locks'[s]
            /\ releasing'[s] = releasing[s]
         \/ book[s] = "new"
         \/ book[s] = "open" /\ book'[s] = "gone" /\ releasing'[s] = locks[s]
         \/ CloseDropped(s)
         \/ \E k \in Keys, g \in Grants : ReleaseBound(s, k, g)
  <1> DEFINE Kept == /\ book'[s] = book[s] /\ locks[s] \subseteq locks'[s]
                     /\ releasing'[s] = releasing[s]
             Removed == book[s] = "open" /\ book'[s] = "gone" /\ releasing'[s] = locks[s]
  <1> USE DEF TypeInv, TypeOK
  <1>1. ASSUME UNCHANGED vars PROVE Kept
    BY <1>1 DEF vars, sessions
  <1>2. ASSUME Tick \/ SweepList \/ SweepNext \/ Drain PROVE Kept
    BY <1>2 DEF Tick, SweepList, SweepNext, Drain, sessions
  <1>3. ASSUME NEW k \in Keys, LeaseExpires(k) \/ UnlockForce(k) PROVE Kept
    BY <1>3 DEF LeaseExpires, UnlockForce, sessions
  <1>4. ASSUME NEW p \in Principals, RegistryDecrement(p) PROVE Kept
    BY <1>4 DEF RegistryDecrement, sessions
  <1>5. ASSUME NEW k \in Keys, NEW g \in Grants \cup {None}, RegistryRemove(k, g)
        PROVE  Kept
    BY <1>5 DEF RegistryRemove, sessions
  <1>6. ASSUME NEW g \in Grants, NEW k \in Keys, NEW p \in Principals,
               NEW r \in Sessions \cup {None}, TryLock(g, k, p, r)
        PROVE  Kept
    BY <1>6 DEF TryLock, sessions
  <1>7. ASSUME NEW g \in Grants, Bind(g) PROVE Kept
    BY <1>7 DEF Bind
  <1>8. ASSUME NEW g \in Grants, Admit(g) \/ Undo(g) \/ Unlock(g) PROVE Kept
    BY <1>8 DEF Admit, Undo, Unlock, sessions
  <1>9. ASSUME NEW r \in Sessions, Register(r) PROVE Kept \/ book[s] = "new"
    BY <1>9 DEF Register
  <1>10. ASSUME NEW r \in Sessions, Heartbeat(r) \/ Silence(r) PROVE Kept
    BY <1>10 DEF Heartbeat, Silence
  <1>11. ASSUME NEW r \in Sessions, Close(r) PROVE Kept \/ Removed
    BY <1>11 DEF Close, Remove
  <1>12. ASSUME NEW r \in Sessions, SweepVisit(r) PROVE Kept \/ Removed
    BY <1>12 DEF SweepVisit, Remove
  <1>13. ASSUME NEW r \in Sessions, CloseDropped(r) PROVE Kept \/ r = s
    BY <1>13 DEF CloseDropped
  <1>14. ASSUME NEW r \in Sessions, NEW k \in Keys, NEW g \in Grants,
                ReleaseBound(r, k, g)
         PROVE  Kept \/ r = s
    BY <1>14 DEF ReleaseBound
  <1>15. Kept \/ book[s] = "new" \/ Removed \/ CloseDropped(s)
           \/ \E k \in Keys, g \in Grants : ReleaseBound(s, k, g)
    <2> HIDE DEF Kept, Removed, TypeInv, TypeOK
    <2>. QED
      BY Zenon, <1>1, <1>2, <1>3, <1>4, <1>5, <1>6, <1>7, <1>8, <1>9, <1>10, <1>11, <1>12,
         <1>13, <1>14, StepCases
  <1>. QED
    BY <1>15

\* A call that is past bind is in its session's list while the session is open,
\* and in the list of what is still to be released once it is gone.
SessionInv ==
  \A g \in Grants : session[g] # None =>
    /\ pc[g] # "new" => book[session[g]] # "new"
    /\ pc[g] \in {"bound", "granted"} =>
         /\ book[session[g]] = "open" => <<key[g], g>> \in locks[session[g]]
         /\ book[session[g]] = "gone" /\ Owns(g)
              => <<key[g], g>> \in releasing[session[g]] \/ g \in failed

\* Sessions are registered once.
LEMMA BookGrows ==
  ASSUME TypeInv, [Next]_vars, NEW s \in Sessions, book[s] # "new"
  PROVE  book'[s] # "new"
  <1>1. book'[s] = book[s] \/ book'[s] = "gone" \/ UNCHANGED book
    BY SessionMoves DEF CloseDropped, ReleaseBound
  <1>. QED
    BY <1>1

\* The list of locks to release shrinks only by releases and by failures.
LEMMA ReleasingServed ==
  ASSUME TypeInv, SessionInv, [Next]_vars, NEW g \in Grants,
         session[g] \in Sessions, pc[g] \in {"bound", "granted"},
         book'[session[g]] = "gone", Owns(g)'
  PROVE  <<key[g], g>> \in releasing'[session[g]] \/ g \in failed'
  <1> DEFINE s == session[g]
             lock == <<key[g], g>>
  <1>1. Owns(g) /\ key'[g] = key[g] /\ failed \subseteq failed'
    BY StartedCalls
  <1>2. /\ book[s] = "open" => lock \in locks[s]
        /\ book[s] = "gone" => lock \in releasing[s] \/ g \in failed
        /\ book[s] # "new"
    BY <1>1, NoneAssumption DEF SessionInv
  <1>3. CASE book'[s] = book[s] /\ releasing'[s] = releasing[s]
    BY <1>1, <1>2, <1>3
  <1>4. CASE book[s] = "open" /\ releasing'[s] = locks[s]
    BY <1>2, <1>4
  <1>5. CASE CloseDropped(s)
    <2>1. book[s] = "gone" /\ failed' = failed \cup {l[2] : l \in releasing[s]}
      BY <1>5 DEF CloseDropped
    <2>2. lock \in releasing[s] => lock[2] \in failed'
      BY <2>1
    <2>. QED
      BY <1>1, <1>2, <2>1, <2>2
  <1>6. ASSUME NEW k \in Keys, NEW h \in Grants, ReleaseBound(s, k, h)
        PROVE  lock \in releasing'[s] \/ g \in failed'
    <2>1. book' = book /\ releasing'[s] = releasing[s] \ {<<k, h>>}
      BY <1>6 DEF ReleaseBound, TypeInv, TypeOK
    <2>2. CASE <<k, h>> # lock
      BY <1>1, <1>2, <2>1, <2>2
    <2>3. CASE <<k, h>> = lock
      <3>1. k = key[g] /\ h = g
        BY <2>3
      <3>2. CASE StoreRelease(g, key[g])
        BY <1>1, <3>1, <3>2, StoreReleaseEffect DEF Owns, TypeInv
      <3>3. CASE g \in failed'
        BY <3>3
      <3>. QED
        BY <1>6, <3>1, <3>2, <3>3 DEF ReleaseBound
    <2>. QED
      BY <2>2, <2>3
  <1>. QED
    BY <1>2, <1>3, <1>4, <1>5, <1>6, SessionMoves

\* The list of an open session keeps the locks bound to it.
LEMMA LocksKept ==
  ASSUME TypeInv, SessionInv, [Next]_vars, NEW g \in Grants,
         session[g] \in Sessions, pc[g] \in {"bound", "granted"},
         book'[session[g]] = "open"
  PROVE  <<key[g], g>> \in locks'[session[g]]
  <1> DEFINE s == session[g]
  <1>1. book[s] # "new" /\ (book[s] = "open" => <<key[g], g>> \in locks[s])
    BY NoneAssumption DEF SessionInv
  <1>2. CASE book'[s] = book[s] /\ locks[s] \subseteq locks'[s]
    BY <1>1, <1>2
  <1>3. CASE CloseDropped(s)
    BY <1>3 DEF CloseDropped
  <1>4. ASSUME NEW k \in Keys, NEW h \in Grants, ReleaseBound(s, k, h)
        PROVE  book' = book /\ locks' = locks
    BY <1>4 DEF ReleaseBound
  <1>. QED
    BY <1>1, <1>2, <1>3, <1>4, SessionMoves

\* bind enters the lock in the list of an open session only.
LEMMA BindEnters ==
  ASSUME TypeInv, SessionInv, NEW g \in Grants, Bind(g), session[g] # None,
         pc'[g] = "bound"
  PROVE  /\ book'[session[g]] = "open"
         /\ <<key[g], g>> \in locks'[session[g]]
  <1>1. session[g] \in Sessions /\ book' = book
    BY DEF Bind, TypeInv, TypeOK
  <1>2. book[session[g]] = "open"
    BY DEF Bind, TypeInv, TypeOK
  <1>3. locks' = [locks EXCEPT ![session[g]] = @ \cup {<<key[g], g>>}]
    BY <1>2 DEF Bind
  <1>. QED
    BY <1>1, <1>2, <1>3 DEF TypeInv, TypeOK

\* Every step keeps the locks of a session in one of its two lists.
LEMMA SessionStep == TypeInv /\ SessionInv /\ [Next]_vars => SessionInv'
  <1> SUFFICES ASSUME TypeInv, SessionInv, [Next]_vars, NEW g \in Grants,
                      session'[g] # None
               PROVE  /\ pc'[g] # "new" => book'[session'[g]] # "new"
                      /\ pc'[g] \in {"bound", "granted"} =>
                           /\ book'[session'[g]] = "open"
                                => <<key'[g], g>> \in locks'[session'[g]]
                           /\ book'[session'[g]] = "gone" /\ Owns(g)'
                                => <<key'[g], g>> \in releasing'[session'[g]]
                                     \/ g \in failed'
    BY DEF SessionInv
  <1>1. CASE pc[g] # "new"
    <2>1. key'[g] = key[g] /\ session'[g] = session[g] /\ session[g] \in Sessions
      BY <1>1, StartedCalls DEF TypeInv, TypeOK
    <2>2. book'[session[g]] # "new"
      BY <1>1, <2>1, BookGrows DEF SessionInv
    <2>3. ASSUME pc'[g] \in {"bound", "granted"}
          PROVE  pc[g] \in {"bound", "granted"} \/ (Bind(g) /\ pc'[g] = "bound")
      BY <2>3, HandlerMoves DEF Admit
    <2>4. ASSUME pc[g] \in {"bound", "granted"}
          PROVE  /\ book'[session[g]] = "open" => <<key[g], g>> \in locks'[session[g]]
                 /\ book'[session[g]] = "gone" /\ Owns(g)'
                      => <<key[g], g>> \in releasing'[session[g]] \/ g \in failed'
      BY <2>1, <2>4, LocksKept, ReleasingServed
    <2>5. ASSUME Bind(g), pc'[g] = "bound"
          PROVE  book'[session[g]] = "open" /\ <<key[g], g>> \in locks'[session[g]]
      BY <2>1, <2>5, BindEnters
    <2>. QED
      BY <2>1, <2>2, <2>3, <2>4, <2>5
  <1>2. CASE pc[g] = "new"
    <2>1. pc'[g] \notin {"bound", "granted"}
      BY <1>2, HandlerMoves DEF Bind, Admit
    <2>2. ASSUME pc'[g] # "new" PROVE book'[session'[g]] # "new"
      <3>1. PICK k \in Keys, p \in Principals, s \in Sessions \cup {None} :
              TryLock(g, k, p, s)
        BY <1>2, <2>2, HandlerMoves
      <3>. QED
        BY <3>1 DEF TryLock, TypeInv, TypeOK, sessions
    <2>. QED
      BY <2>1, <2>2
  <1>. QED
    BY <1>1, <1>2

\* SessionBook: no lock stays bound to a session that is gone without somebody
\* on the way to release it, unless the store failed or the client hung up.
THEOREM SessionEndReleasesLocksHolds == Spec => []SessionEndReleasesLocks
  <1>1. Init => SessionInv
    BY DEF Init, SessionInv
  <1>2. SessionInv => SessionEndReleasesLocks
    BY DEF SessionInv, SessionEndReleasesLocks
  <1>. QED
    BY <1>1, <1>2, SessionStep, TypeCorrect, PTL DEF Spec, TypeInv
==============================================================================
