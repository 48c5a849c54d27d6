----------------------------- MODULE RwLockProofs -----------------------------
(***************************************************************************)
(* The reader-writer lock keeps writers alone and its reader count exact,  *)
(* for any attempts, leases and faults.                                    *)
(***************************************************************************)
EXTENDS Primitives, FiniteSetTheorems, TLAPS

\* The lease of an attempt follows its handle: none before the grant and after
\* the end, and one that runs for a live handle unless it has lapsed.
LeaseLife(t) ==
  /\ phase[t] # "live" => left[t] = 0
  /\ phase[t] = "live" /\ t \notin lapsed => left[t] > 0
  /\ phase[t] = "fresh" => t \notin writers
  /\ phase[t] \in {"live"} \cup Rw!Ending => lease[t] # 0

\* The hash is deleted as a whole, and has finitely many fields.
HashShape ==
  /\ rw.mode = "none" => rw = Rw!Absent
  /\ IsFiniteSet(rw.who)

RwInv ==
  /\ Rw!TypeOK /\ HashShape /\ Rw!ReadersAndWriters
  /\ \A t \in Tokens : LeaseLife(t)

\* Every step keeps the types.
LEMMA TypeStep ==
  ASSUME Rw!TypeOK, [Rw!Next]_(Rw!vars)
  PROVE  Rw!TypeOK'
  <1> USE LeasesAssumption DEF Rw!TypeOK, Rw!LeasesTypeOK, Rw!Phases, Rw!Ending, Rw!Absent
  <1>1. CASE UNCHANGED Rw!vars
    BY <1>1 DEF Rw!vars, Rw!leaseVars
  <1>2. CASE Rw!Tick
    BY <1>2 DEF Rw!Tick, Rw!LeasesTick, Rw!Less
  <1>3. ASSUME NEW t \in Tokens, Rw!Step(t) PROVE Rw!TypeOK'
    <2>1. ASSUME NEW x \in Ttls, Rw!TryRead(t, x) PROVE Rw!TypeOK'
      BY <2>1 DEF Rw!TryRead, Rw!Granted, Rw!ReadAcquire
    <2>2. ASSUME NEW x \in Ttls, Rw!TryWrite(t, x) PROVE Rw!TypeOK'
      BY <2>2 DEF Rw!TryWrite, Rw!Granted, Rw!WriteAcquire
    <2>3. ASSUME NEW x \in Ttls, Rw!Extend(t, x) PROVE Rw!TypeOK'
      BY <2>3 DEF Rw!Extend, Rw!AskExtend
    <2>4. CASE Rw!TryFor(t) \/ Rw!Release(t) \/ Rw!Drop(t) \/ Rw!ReleaseLost(t) \/ Rw!ExtendLost(t)
      BY <2>4 DEF Rw!TryFor, Rw!Release, Rw!Drop, Rw!ReleaseLost, Rw!ExtendLost, Rw!Abandoned,
                  Rw!MarkGone, Rw!Ended, Rw!ExtendFails
    <2>5. CASE Rw!ReadReleased(t)
      <3>1. ASSUME NEW x \in Ttls \cup {0}
            PROVE  Rw!ReadRelease(t, x) \in [mode : {"none", "r", "w"}, who : SUBSET Tokens,
                                          readers : Nat, ttl : Nat]
        BY <3>1 DEF Rw!ReadRelease
      <3>. QED
        BY <2>5, <3>1 DEF Rw!ReadReleased, Rw!Ended
    <2>6. CASE Rw!WriteReleased(t)
      BY <2>6 DEF Rw!WriteReleased, Rw!WriteRelease, Rw!Ended
    <2>7. CASE Rw!ExtendRuns(t)
      BY <2>7 DEF Rw!ExtendRuns, Rw!Extended
    <2>. QED
      BY <1>3, <2>1, <2>2, <2>3, <2>4, <2>5, <2>6, <2>7 DEF Rw!Step
  <1>. QED
    BY <1>1, <1>2, <1>3 DEF Rw!Next

\* Every step keeps the leases and the handles in agreement.
LEMMA LifeStep ==
  ASSUME Rw!TypeOK, [Rw!Next]_(Rw!vars), NEW t \in Tokens, LeaseLife(t)
  PROVE  LeaseLife(t)'
  <1> USE LeasesAssumption DEF Rw!TypeOK, Rw!LeasesTypeOK, Rw!Ending, LeaseLife
  <1>1. CASE UNCHANGED Rw!vars
    BY <1>1 DEF Rw!vars, Rw!leaseVars
  <1>2. CASE Rw!Tick
    <2>1. CASE left[t] = 1
      BY <1>2, <2>1 DEF Rw!Tick, Rw!LeasesTick, Rw!Less
    <2>2. CASE left[t] # 1
      BY <1>2, <2>2 DEF Rw!Tick, Rw!LeasesTick, Rw!Less
    <2>. QED
      BY <2>1, <2>2
  <1>3. ASSUME NEW u \in Tokens, Rw!Step(u) PROVE LeaseLife(t)'
    <2>1. ASSUME NEW x \in Ttls, Rw!TryRead(u, x) PROVE LeaseLife(t)'
      BY <2>1 DEF Rw!TryRead, Rw!Granted
    <2>2. ASSUME NEW x \in Ttls, Rw!TryWrite(u, x) PROVE LeaseLife(t)'
      BY <2>2 DEF Rw!TryWrite, Rw!Granted
    <2>3. ASSUME NEW x \in Ttls, Rw!Extend(u, x) PROVE LeaseLife(t)'
      BY <2>3 DEF Rw!Extend, Rw!AskExtend
    <2>4. CASE Rw!TryFor(u)
      BY <2>4 DEF Rw!TryFor, Rw!Abandoned
    <2>5. CASE Rw!Release(u) \/ Rw!Drop(u)
      BY <2>5 DEF Rw!Release, Rw!Drop, Rw!MarkGone
    <2>6. CASE Rw!ReleaseLost(u) \/ Rw!ReadReleased(u) \/ Rw!WriteReleased(u)
      BY <2>6 DEF Rw!ReleaseLost, Rw!ReadReleased, Rw!WriteReleased, Rw!Ended
    <2>7. CASE Rw!ExtendLost(u)
      BY <2>7 DEF Rw!ExtendLost, Rw!ExtendFails
    <2>8. CASE Rw!ExtendRuns(u)
      BY <2>8 DEF Rw!ExtendRuns, Rw!Extended
    <2>. QED
      BY <1>3, <2>1, <2>2, <2>3, <2>4, <2>5, <2>6, <2>7, <2>8 DEF Rw!Step
  <1>. QED
    BY <1>1, <1>2, <1>3 DEF Rw!Next

\* A writer whose lease runs keeps the structure to itself.
LEMMA WriterStep ==
  ASSUME RwInv, [Rw!Next]_(Rw!vars), NEW t \in Tokens, t \in writers', t \notin lapsed',
         left'[t] > 0
  PROVE  rw'.mode = "w" /\ rw'.who = {t} /\ rw'.ttl >= left'[t]
  <1> DEFINE Mine == rw.mode = "w" /\ rw.who = {t} /\ rw.ttl >= left[t]
             Goal == rw'.mode = "w" /\ rw'.who = {t} /\ rw'.ttl >= left'[t]
  <1>t. Rw!TypeOK /\ Rw!LeasesTypeOK
    BY DEF RwInv, Rw!TypeOK
  <1>l. LeaseLife(t)
    BY DEF RwInv
  <1>m. t \in writers /\ t \notin lapsed /\ left[t] > 0 => Mine
    BY DEF RwInv, Rw!ReadersAndWriters, Rw!WriterLeaseExclusive
  <1> USE LeasesAssumption DEF Rw!Ending
  <1>1. CASE UNCHANGED Rw!vars
    BY <1>1, <1>m DEF Rw!vars, Rw!leaseVars
  <1>2. CASE Rw!Tick
    <2>1. /\ left[t] \in Nat /\ left[t] > 1 /\ left'[t] = left[t] - 1
          /\ t \in writers /\ t \notin lapsed
      BY <1>2, <1>t DEF Rw!Tick, Rw!LeasesTick, Rw!Less, Rw!LeasesTypeOK
    <2>2. Mine /\ rw.ttl \in Nat
      BY <1>m, <1>t, <2>1 DEF Rw!TypeOK
    <2>3. rw' = [rw EXCEPT !.ttl = rw.ttl - 1]
      BY <1>2, <2>1, <2>2 DEF Rw!Tick
    <2>. QED
      BY <1>t, <2>1, <2>2, <2>3 DEF Rw!TypeOK
  <1>3. ASSUME NEW u \in Tokens, Rw!Step(u) PROVE Goal
    <2>0. lapsed' = lapsed
      BY <1>3 DEF Rw!Step, Rw!TryRead, Rw!TryWrite, Rw!Extend, Rw!TryFor, Rw!Release, Rw!Drop,
                  Rw!ReleaseLost,
                  Rw!ReadReleased, Rw!WriteReleased, Rw!ExtendLost, Rw!ExtendRuns
    <2>1. ASSUME NEW x \in Ttls, Rw!TryRead(u, x) PROVE Goal
      <3>1. t \in writers /\ rw.mode # "w"
        BY <2>1 DEF Rw!TryRead, Rw!ReadAdmits
      <3>2. t # u
        BY <1>l, <2>1, <3>1 DEF LeaseLife, Rw!TryRead
      <3>3. left'[t] = left[t]
        BY <1>t, <2>1, <3>2 DEF Rw!TryRead, Rw!Granted, Rw!LeasesTypeOK
      <3>. QED
        BY <1>m, <2>0, <3>1, <3>3
    <2>2. ASSUME NEW x \in Ttls, Rw!TryWrite(u, x) PROVE Goal
      <3>1. rw' = Rw!WriteAcquire(u, x) /\ (rw.mode = "none" \/ rw.who = {u})
        BY <2>2 DEF Rw!TryWrite, Rw!WriteAdmits
      <3>2. CASE t # u
        <4>1. t \in writers /\ left'[t] = left[t]
          BY <1>t, <2>2, <3>2 DEF Rw!TryWrite, Rw!Granted, Rw!LeasesTypeOK
        <4>. QED
          BY <1>m, <2>0, <3>1, <3>2, <4>1
      <3>3. CASE t = u
        <4>1. left'[t] <= x
          BY <1>t, <1>l, <2>2, <3>3 DEF Rw!TryWrite, Rw!Granted, Rw!LeasesTypeOK, LeaseLife
        <4>. QED
          BY <1>t, <2>2, <3>1, <3>3, <4>1 DEF Rw!WriteAcquire
      <3>. QED
        BY <3>2, <3>3
    <2>3. ASSUME NEW x \in Ttls, Rw!Extend(u, x) PROVE Goal
      BY <1>m, <2>0, <2>3 DEF Rw!Extend, Rw!AskExtend
    <2>4. CASE Rw!TryFor(u) \/ Rw!ReleaseLost(u) \/ Rw!ExtendLost(u)
      BY <1>m, <2>0, <2>4 DEF Rw!TryFor, Rw!Abandoned, Rw!ReleaseLost, Rw!Ended, Rw!ExtendLost,
                              Rw!ExtendFails
    <2>5. CASE Rw!Release(u) \/ Rw!Drop(u)
      <3>1. left'[t] = left[t] /\ t \in writers /\ rw' = rw
        BY <1>t, <2>5 DEF Rw!Release, Rw!Drop, Rw!MarkGone, Rw!LeasesTypeOK
      <3>. QED
        BY <1>m, <2>0, <3>1
    <2>6. CASE Rw!ReadReleased(u)
      <3>1. left' = left /\ t \in writers
        BY <2>6 DEF Rw!ReadReleased, Rw!Ended
      <3>2. rw' = rw
        BY <1>m, <2>0, <2>6, <3>1 DEF Rw!ReadReleased, Rw!ReadRelease
      <3>. QED
        BY <1>m, <2>0, <3>1, <3>2
    <2>7. CASE Rw!WriteReleased(u)
      <3>1. left' = left /\ t \in writers /\ phase[u] # "live"
        BY <2>7 DEF Rw!WriteReleased, Rw!Ended
      <3>2. t # u
        BY <1>l, <3>1 DEF LeaseLife
      <3>3. rw' = rw
        BY <1>m, <2>0, <2>7, <3>1, <3>2 DEF Rw!WriteReleased, Rw!WriteRelease
      <3>. QED
        BY <1>m, <2>0, <3>1, <3>3
    <2>8. CASE Rw!ExtendRuns(u)
      <3>1. t \in writers /\ asked[u] \in Nat
        BY <1>t, <2>8 DEF Rw!ExtendRuns, Rw!LeasesTypeOK
      <3>2. CASE t # u
        <4>1. left'[t] = left[t]
          BY <1>t, <2>8, <3>2 DEF Rw!ExtendRuns, Rw!Extended, Rw!LeasesTypeOK
        <4>2. rw' = rw
          BY <1>m, <2>0, <2>8, <3>1, <3>2, <4>1 DEF Rw!ExtendRuns, Rw!Extends
        <4>. QED
          BY <1>m, <2>0, <3>1, <4>1, <4>2
      <3>3. CASE t = u
        <4>1. phase[t] = "live" /\ Rw!Extends(t) /\ left'[t] = asked[t]
          BY <1>t, <1>l, <2>8, <3>3 DEF Rw!ExtendRuns, Rw!Extended, Rw!LeasesTypeOK, LeaseLife
        <4>2. Mine
          BY <1>m, <1>l, <2>0, <3>1, <4>1 DEF LeaseLife
        <4>3. rw' = [rw EXCEPT !.ttl = asked[t]]
          BY <2>8, <3>3, <4>1 DEF Rw!ExtendRuns
        <4>. QED
          BY <1>t, <3>1, <3>3, <4>1, <4>2, <4>3 DEF Rw!TypeOK
      <3>. QED
        BY <3>2, <3>3
    <2>. QED
      BY <1>3, <2>1, <2>2, <2>3, <2>4, <2>5, <2>6, <2>7, <2>8 DEF Rw!Step
  <1>. QED
    BY <1>1, <1>2, <1>3 DEF Rw!Next

\* The instance counts the way FiniteSets does.
LEMMA RwCounts == ASSUME NEW S PROVE Rw!Cardinality(S) = Cardinality(S)
  BY DEF Rw!Cardinality, Cardinality

\* What the scripts do to a hash with an exact count: it stays exact.
LEMMA ScriptsCount ==
  ASSUME RwInv, NEW t \in Tokens, NEW x \in Nat
  PROVE  /\ Rw!ReadAdmits(t) =>
              LET r == Rw!ReadAcquire(t, x)
              IN  IsFiniteSet(r.who) /\ r.readers = Cardinality(r.who)
         /\ LET r == Rw!ReadRelease(t, x)
            IN  /\ r = rw \/ r = Rw!Absent \/ r.mode = "r"
                /\ IsFiniteSet(r.who)
                /\ r.mode = "r" => r.readers = Cardinality(r.who)
  <1>1. /\ IsFiniteSet(rw.who)
        /\ rw.mode = "none" => rw = Rw!Absent
        /\ rw.mode = "r" => rw.readers = Cardinality(rw.who)
        /\ Cardinality(rw.who) \in Nat
    BY RwCounts, FS_CardinalityType
    DEF RwInv, HashShape, Rw!ReadersAndWriters, Rw!ReaderCountExact
  <1>2. Rw!ReadAdmits(t) =>
          LET r == Rw!ReadAcquire(t, x)
          IN  IsFiniteSet(r.who) /\ r.readers = Cardinality(r.who)
    <2> SUFFICES ASSUME Rw!ReadAdmits(t)
                 PROVE  /\ IsFiniteSet(rw.who \cup {t})
                        /\ rw.readers + 1 = Cardinality(rw.who \cup {t})
      BY DEF Rw!ReadAcquire
    <2>1. t \notin rw.who /\ rw.readers = Cardinality(rw.who)
      <3>1. CASE rw.mode = "none"
        BY <1>1, <3>1, FS_EmptySet DEF Rw!Absent
      <3>2. CASE rw.mode # "none"
        BY <1>1, <3>2 DEF Rw!ReadAdmits
      <3>. QED
        BY <3>1, <3>2
    <2>. QED
      BY <1>1, <2>1, FS_AddElement
  <1>3. ASSUME NEW r, r = Rw!ReadRelease(t, x)
        PROVE  /\ r = rw \/ r = Rw!Absent \/ r.mode = "r"
               /\ IsFiniteSet(r.who)
               /\ r.mode = "r" => r.readers = Cardinality(r.who)
    <2>1. CASE r = rw
      BY <1>1, <2>1
    <2>2. CASE r = Rw!Absent
      BY <2>2, FS_EmptySet DEF Rw!Absent
    <2>3. CASE /\ r # rw /\ r # Rw!Absent
      <3>1. /\ rw.mode = "r" /\ t \in rw.who
            /\ r = [mode |-> "r", who |-> rw.who \ {t}, readers |-> rw.readers - 1, ttl |-> x]
        BY <1>3, <2>3 DEF Rw!ReadRelease
      <3>2. IsFiniteSet(rw.who \ {t}) /\ Cardinality(rw.who \ {t}) = rw.readers - 1
        BY <1>1, <3>1, FS_RemoveElement
      <3>. QED
        BY <3>1, <3>2
    <2>. QED
      BY <2>1, <2>2, <2>3
  <1>. QED
    BY <1>2, <1>3

\* The hash keeps its shape and an exact count of its readers.
LEMMA CountStep ==
  ASSUME RwInv, [Rw!Next]_(Rw!vars)
  PROVE  HashShape' /\ Rw!ReaderCountExact'
  <1> DEFINE Exact(r) == /\ r.mode = "none" => r = Rw!Absent
                         /\ IsFiniteSet(r.who)
                         /\ r.readers = IF r.mode = "r" THEN Cardinality(r.who) ELSE 0
  <1>t. Rw!TypeOK /\ Rw!LeasesTypeOK
    BY DEF RwInv, Rw!TypeOK
  <1>e. Exact(rw)
    BY RwCounts DEF RwInv, HashShape, Rw!ReadersAndWriters, Rw!ReaderCountExact
  <1>a. Exact(Rw!Absent)
    BY FS_EmptySet DEF Rw!Absent
  <1>g. ASSUME Exact(rw') PROVE HashShape' /\ Rw!ReaderCountExact'
    BY <1>g, RwCounts DEF HashShape, Rw!ReaderCountExact
  <1>x. ASSUME NEW y \in Nat, rw' = [rw EXCEPT !.ttl = y], rw.mode # "none" PROVE Exact(rw')
    BY <1>e, <1>t, <1>x DEF Rw!TypeOK
  <1>1. CASE rw' = rw
    BY <1>1, <1>e, <1>g
  <1>2. CASE rw' = Rw!Absent
    BY <1>2, <1>a, <1>g
  <1> HIDE DEF Exact
  <1>3. CASE Rw!Tick
    <2>1. rw' = Rw!Absent \/ (rw' = [rw EXCEPT !.ttl = rw.ttl - 1] /\ rw.ttl > 1 /\ rw.ttl \in Nat)
      BY <1>t, <1>3 DEF Rw!Tick, Rw!TypeOK
    <2>2. rw.mode = "none" => rw.ttl = 0
      BY DEF RwInv, HashShape, Rw!Absent
    <2>. QED
      BY <1>2, <1>g, <1>x, <2>1, <2>2
  <1>4. ASSUME NEW t \in Tokens, NEW x \in Ttls, Rw!TryRead(t, x)
        PROVE  HashShape' /\ Rw!ReaderCountExact'
    <2>1. rw' = Rw!ReadAcquire(t, x) /\ Rw!ReadAdmits(t) /\ x \in Nat
      BY <1>4, LeasesAssumption DEF Rw!TryRead
    <2>2. rw'.mode = "r"
      BY <2>1 DEF Rw!ReadAcquire
    <2>3. Exact(rw')
      BY <2>1, <2>2, ScriptsCount DEF Exact
    <2>. QED
      BY <1>g, <2>3
  <1>5. ASSUME NEW t \in Tokens, NEW x \in Ttls, Rw!TryWrite(t, x)
        PROVE  HashShape' /\ Rw!ReaderCountExact'
    <2>1. Exact(rw')
      BY <1>5, FS_Singleton DEF Rw!TryWrite, Rw!WriteAcquire, Exact
    <2>. QED
      BY <1>g, <2>1
  <1>6. ASSUME NEW t \in Tokens, Rw!ReadReleased(t) PROVE HashShape' /\ Rw!ReaderCountExact'
    <2>1. PICK x \in Nat : rw' = Rw!ReadRelease(t, x)
      BY <1>6, <1>t, LeasesAssumption DEF Rw!ReadReleased, Rw!LeasesTypeOK
    <2>2. /\ rw' = rw \/ rw' = Rw!Absent \/ rw'.mode = "r"
          /\ IsFiniteSet(rw'.who)
          /\ rw'.mode = "r" => rw'.readers = Cardinality(rw'.who)
      BY <2>1, ScriptsCount
    <2>3. CASE rw'.mode = "r"
      BY <1>g, <2>2, <2>3 DEF Exact
    <2>. QED
      BY <1>1, <1>2, <2>2, <2>3
  <1>7. ASSUME NEW t \in Tokens, Rw!ExtendRuns(t) PROVE HashShape' /\ Rw!ReaderCountExact'
    <2>0. Ttls \cup {0} \subseteq Nat
      BY LeasesAssumption
    <2>1. asked[t] \in Nat
      BY <1>t, <2>0 DEF Rw!LeasesTypeOK
    <2>2. rw' = rw \/ (rw' = [rw EXCEPT !.ttl = asked[t]] /\ rw.mode # "none")
      BY <1>7 DEF Rw!ExtendRuns, Rw!Extends
    <2>. QED
      BY <1>1, <1>g, <1>x, <2>1, <2>2
  <1>8. rw' = rw \/ rw' = Rw!Absent \/ Rw!Tick
         \/ \E t \in Tokens : \/ Rw!ReadReleased(t) \/ Rw!ExtendRuns(t)
                              \/ \E x \in Ttls : Rw!TryRead(t, x) \/ Rw!TryWrite(t, x)
    BY DEF Rw!Next, Rw!Step, Rw!vars, Rw!Extend, Rw!TryFor, Rw!Release, Rw!Drop, Rw!WriteReleased,
           Rw!WriteRelease, Rw!ReleaseLost, Rw!ExtendLost
  <1>. QED
    BY <1>1, <1>2, <1>3, <1>4, <1>5, <1>6, <1>7, <1>8

\* Every step keeps the invariant.
LEMMA RwInvStep ==
  ASSUME RwInv, [Rw!Next]_(Rw!vars)
  PROVE  RwInv'
  <1>1. Rw!TypeOK'
    BY TypeStep DEF RwInv
  <1>2. \A t \in Tokens : LeaseLife(t)'
    BY LifeStep DEF RwInv
  <1>3. Rw!WriterLeaseExclusive'
    <2>1. writers' \subseteq Tokens
      BY <1>1 DEF Rw!TypeOK
    <2>. QED
      BY <2>1, WriterStep DEF Rw!WriterLeaseExclusive
  <1>. QED
    BY <1>1, <1>2, <1>3, CountStep DEF RwInv, Rw!ReadersAndWriters

\* The types, the shape of the hash and the two promises of the lock.
THEOREM RwInvariant == Rw!Spec => []RwInv
  <1>1. Rw!Init => RwInv
    <2> SUFFICES ASSUME Rw!Init PROVE RwInv
      OBVIOUS
    <2>1. Rw!TypeOK /\ \A t \in Tokens : LeaseLife(t)
      BY DEF Rw!Init, Rw!LeasesInit, Rw!TypeOK, Rw!LeasesTypeOK, Rw!Phases, Rw!Ending, Rw!Absent,
             LeaseLife
    <2>2. HashShape /\ Rw!ReadersAndWriters
      BY FS_EmptySet DEF Rw!Init, Rw!Absent, HashShape, Rw!ReadersAndWriters,
                         Rw!WriterLeaseExclusive,
                         Rw!ReaderCountExact
    <2>. QED
      BY <2>1, <2>2 DEF RwInv
  <1>2. RwInv /\ [Rw!Next]_(Rw!vars) => RwInv'
    BY RwInvStep
  <1>. QED
    BY <1>1, <1>2, PTL DEF Rw!Spec

\* While a writer's lease runs nobody is admitted next to it and nothing that
\* expired handles do ends it; late releases keep the reader count exact
\* (rw_read_*.lua, rw_write_*.lua and RwLockHandle).
THEOREM ReadersAndWritersHolds == Rw!Spec => []Rw!ReadersAndWriters
  <1>1. RwInv => Rw!ReadersAndWriters
    BY DEF RwInv
  <1>. QED
    BY <1>1, RwInvariant, PTL

\* A registered reader whose lease runs before and after a step is cut short by
\* other registered readers only.
LEMMA CutStep ==
  ASSUME RwInv, [Rw!Next]_(Rw!vars), NEW t \in Tokens, t \notin writers,
         left[t] > 0, left'[t] > 0, Rw!Covered(t), ~ Rw!Covered(t)'
  PROVE  \/ \E u \in rw.who \ {t} : phase[u] = "dropping" /\ phase'[u] = "gone"
         \/ rw'.mode = "r" /\ t \in rw'.who /\ rw'.ttl < rw.ttl
  <1> DEFINE Cut == \/ \E u \in rw.who \ {t} : phase[u] = "dropping" /\ phase'[u] = "gone"
                    \/ rw'.mode = "r" /\ t \in rw'.who /\ rw'.ttl < rw.ttl
  <1>t. Rw!TypeOK /\ Rw!LeasesTypeOK /\ Rw!TypeOK'
    BY TypeStep DEF RwInv, Rw!TypeOK
  <1>n. left[t] \in Nat /\ rw.ttl \in Nat /\ rw'.ttl \in Nat /\ Ttls \cup {0} \subseteq Nat
    BY <1>t, LeasesAssumption DEF Rw!TypeOK, Rw!LeasesTypeOK
  <1>c. rw.mode = "r" /\ t \in rw.who /\ rw.ttl >= left[t]
    BY DEF Rw!Covered
  <1>l. phase[t] = "live"
    BY DEF RwInv, LeaseLife
  \* The structure stays with t in it; its expiry is what changed.
  <1>k. ASSUME rw'.mode = "r", t \in rw'.who, left'[t] = left[t] PROVE Cut
    BY <1>k, <1>n, <1>c DEF Rw!Covered
  <1>1. CASE UNCHANGED Rw!vars
    BY <1>1 DEF Rw!vars, Rw!leaseVars, Rw!Covered
  <1>2. CASE Rw!Tick
    <2>1. left[t] > 1 /\ left'[t] = left[t] - 1
      BY <1>2, <1>n, <1>t DEF Rw!Tick, Rw!LeasesTick, Rw!Less, Rw!LeasesTypeOK
    <2>2. rw' = [rw EXCEPT !.ttl = rw.ttl - 1]
      BY <1>2, <1>n, <1>c, <2>1 DEF Rw!Tick
    <2>. QED
      BY <1>t, <1>n, <1>c, <2>1, <2>2 DEF Rw!Covered, Rw!TypeOK
  <1>3. ASSUME NEW u \in Tokens, Rw!Step(u) PROVE Cut
    <2>1. ASSUME NEW x \in Ttls, Rw!TryRead(u, x) PROVE Cut
      <3>1. t # u
        BY <1>l, <2>1 DEF Rw!TryRead
      <3>2. left'[t] = left[t] /\ rw' = Rw!ReadAcquire(u, x)
        BY <1>t, <2>1, <3>1 DEF Rw!TryRead, Rw!Granted, Rw!LeasesTypeOK
      <3>. QED
        BY <1>k, <1>c, <3>2 DEF Rw!ReadAcquire
    <2>2. ASSUME NEW x \in Ttls PROVE ~ Rw!TryWrite(u, x)
      BY <1>c DEF Rw!TryWrite, Rw!WriteAdmits
    <2>3. ASSUME rw' = rw, left'[t] = left[t] PROVE Cut
      BY <1>c, <1>k, <2>3
    <2>4. ASSUME NEW x \in Ttls, Rw!Extend(u, x) PROVE Cut
      BY <2>3, <2>4 DEF Rw!Extend, Rw!AskExtend
    <2>5. CASE Rw!TryFor(u) \/ Rw!ReleaseLost(u) \/ Rw!ExtendLost(u)
      BY <2>3, <2>5 DEF Rw!TryFor, Rw!Abandoned, Rw!ReleaseLost, Rw!Ended, Rw!ExtendLost,
                        Rw!ExtendFails
    <2>6. CASE Rw!Release(u) \/ Rw!Drop(u)
      BY <1>t, <2>3, <2>6 DEF Rw!Release, Rw!Drop, Rw!MarkGone, Rw!LeasesTypeOK
    <2>7. CASE Rw!WriteReleased(u)
      BY <1>c, <2>3, <2>7 DEF Rw!WriteReleased, Rw!WriteRelease, Rw!Ended
    <2>8. CASE Rw!ReadReleased(u)
      <3> DEFINE x == IF phase[u] = "dropping" THEN 0 ELSE lease[u]
      <3>1. /\ phase[u] \in Rw!Ending /\ left' = left /\ rw' = Rw!ReadRelease(u, x)
            /\ phase' = [phase EXCEPT ![u] = "gone"] /\ u # t
        BY <1>l, <2>8 DEF Rw!ReadReleased, Rw!Ended, Rw!Ending
      <3>2. CASE u \notin rw.who
        BY <1>c, <2>3, <3>1, <3>2 DEF Rw!ReadRelease
      <3>3. CASE u \in rw.who /\ phase[u] = "dropping"
        BY <1>t, <3>1, <3>3 DEF Rw!LeasesTypeOK
      <3>4. CASE u \in rw.who /\ phase[u] # "dropping"
        <4>1. x # 0
          BY <3>1, <3>4 DEF RwInv, LeaseLife
        <4>2. rw.readers >= 2
          <5>1. IsFiniteSet(rw.who) /\ rw.readers = Cardinality(rw.who)
            BY <1>c, RwCounts DEF RwInv, HashShape, Rw!ReadersAndWriters, Rw!ReaderCountExact
          <5>2. IsFiniteSet({t}) /\ Cardinality({t}) = 1
            BY FS_Singleton
          <5>3. Cardinality({t} \cup {u}) = 2
            <6>1. u \notin {t}
              BY <3>1
            <6>2. Cardinality({t} \cup {u}) = Cardinality({t}) + 1
              BY <5>2, <6>1, FS_AddElement
            <6>. QED
              BY <5>2, <6>2
          <5>4. {t} \cup {u} \in SUBSET rw.who
            BY <1>c, <3>4
          <5>5. Cardinality({t} \cup {u}) <= Cardinality(rw.who)
            BY <5>1, <5>4, FS_Subset
          <5>. QED
            BY <5>1, <5>3, <5>5
        <4>3. rw' = [mode |-> "r", who |-> rw.who \ {u}, readers |-> rw.readers - 1, ttl |-> x]
          <5>1. rw.readers \in Nat /\ ~(rw.readers - 1 <= 0)
            BY <1>t, <4>2 DEF Rw!TypeOK
          <5> HIDE DEF x
          <5>. QED
            BY <1>c, <3>1, <3>4, <4>1, <5>1 DEF Rw!ReadRelease
        <4>4. rw'.mode = "r" /\ t \in rw'.who
          BY <1>c, <3>1, <4>3
        <4>. QED
          BY <1>k, <3>1, <4>4
      <3>. QED
        BY <3>2, <3>3, <3>4
    <2>9. CASE Rw!ExtendRuns(u)
      <3>1. Rw!Extends(u) /\ rw' = [rw EXCEPT !.ttl = asked[u]]
        BY <1>c, <2>9 DEF Rw!ExtendRuns, Rw!Extends
      <3>2. rw'.mode = "r" /\ t \in rw'.who /\ rw'.ttl = asked[u]
        BY <1>t, <1>c, <3>1 DEF Rw!TypeOK
      <3>3. CASE u = t
        <4>1. left'[t] = asked[t]
          BY <1>t, <1>l, <2>9, <3>1, <3>3 DEF Rw!ExtendRuns, Rw!Extended, Rw!LeasesTypeOK
        <4>. QED
          BY <1>n, <3>2, <3>3, <4>1 DEF Rw!Covered
      <3>4. CASE u # t
        <4>1. left'[t] = left[t]
          BY <1>t, <2>9, <3>4 DEF Rw!ExtendRuns, Rw!Extended, Rw!LeasesTypeOK
        <4>. QED
          BY <1>k, <3>2, <4>1
      <3>. QED
        BY <3>3, <3>4
    <2>. QED
      BY <1>3, <2>1, <2>2, <2>4, <2>5, <2>6, <2>7, <2>8, <2>9 DEF Rw!Step
  <1>. QED
    BY <1>1, <1>2, <1>3 DEF Rw!Next

\* Neither a writer nor an expired handle ends the lease of a reader: only other
\* registered readers do, by a Drop or by asking for less.
THEOREM ReadersCutByReadersHolds == Rw!Spec => Rw!ReadersCutByReaders
  <1>1. RwInv /\ [Rw!Next]_(Rw!vars)
          => [\A t \in Tokens \ (writers \cup lapsed) :
                left[t] > 0 /\ left'[t] > 0 /\ Rw!Covered(t) /\ ~ Rw!Covered(t)' =>
                  \/ \E u \in rw.who \ {t} : phase[u] = "dropping" /\ phase'[u] = "gone"
                  \/ rw'.mode = "r" /\ t \in rw'.who /\ rw'.ttl < rw.ttl]_(Rw!vars)
    BY CutStep
  <1>. QED
    BY <1>1, RwInvariant, PTL DEF Rw!Spec, Rw!ReadersCutByReaders
==============================================================================
