--------------------------- MODULE PrimitivesProofs ---------------------------
(***************************************************************************)
(* What the smaller Redis primitives promise, for any callers, keys,       *)
(* counts and faults: the semaphore, the reentrant mutex, the multi-key    *)
(* lock, the latch, testaments and the fair lock, each an instance of its  *)
(* module.                                                                 *)
(***************************************************************************)
EXTENDS RwLockProofs, WellFoundedInduction

------------------------------------------------------------------------------
(* Semaphore. *)

\* The lease of a permit follows its handle, and no lease outlives the set.
PermitLife(t) ==
  /\ phase[t] # "live" => left[t] = 0
  /\ left[t] <= zttl
  /\ \A x \in Lengths : left[t] <= x

\* A permit is a member as long as its lease runs, and the set never has more
\* members than permits, the expired ones that nobody pruned included.
SemInv ==
  /\ Sem!TypeOK /\ Sem!PermitKept
  /\ \A t \in Tokens : PermitLife(t)
  /\ IsFiniteSet(zset) /\ Cardinality(zset) <= MaxPermits

\* The instance counts the way FiniteSets does.
LEMMA SemCounts == ASSUME NEW S PROVE Sem!Cardinality(S) = Cardinality(S)
  BY DEF Sem!Cardinality, Cardinality

\* Every step keeps the types.
LEMMA SemTypeStep ==
  ASSUME Sem!TypeOK, [Sem!Next]_(Sem!vars)
  PROVE  Sem!TypeOK'
  <1> USE LeasesAssumption, LengthsAssumption
      DEF Sem!TypeOK, Sem!LeasesTypeOK, Sem!Phases, Sem!Ending, Sem!semaphore
  <1>1. CASE UNCHANGED Sem!vars
    BY <1>1 DEF Sem!vars, Sem!leaseVars
  <1>2. CASE Sem!Tick
    BY <1>2 DEF Sem!Tick, Sem!LeasesTick, Sem!Less
  <1>3. ASSUME NEW t \in Tokens, Sem!Step(t) PROVE Sem!TypeOK'
    <2>1. ASSUME NEW x \in Lengths, Sem!TryAcquire(t, x) PROVE Sem!TypeOK'
      BY <2>1 DEF Sem!TryAcquire, Sem!Granted, Sem!Score, Sem!Pruned, Sem!leaseVars
    <2>2. ASSUME NEW x \in Lengths, Sem!Extend(t, x) PROVE Sem!TypeOK'
      BY <2>2 DEF Sem!Extend, Sem!AskExtend
    <2>3. CASE \/ Sem!TryAcquireFor(t) \/ Sem!Release(t) \/ Sem!Drop(t)
               \/ Sem!ReleaseLost(t) \/ Sem!ExtendLost(t)
      BY <2>3 DEF Sem!TryAcquireFor, Sem!Release, Sem!Drop, Sem!ReleaseLost, Sem!ExtendLost,
                  Sem!Abandoned, Sem!MarkGone, Sem!Ended, Sem!ExtendFails
    <2>4. CASE Sem!Released(t)
      BY <2>4 DEF Sem!Released, Sem!Ended
    <2>5. CASE Sem!ExtendRuns(t)
      <3>0. Lengths \cup {0} \subseteq Nat
        BY LeasesAssumption, LengthsAssumption
      <3>1. asked[t] \in Nat
        BY <3>0
      <3>2. score' \in [Tokens -> Nat] /\ zttl' \in Nat /\ zset' \subseteq Tokens
        BY <2>5, <3>1 DEF Sem!ExtendRuns, Sem!Score
      <3>3. left' \in [Tokens -> Nat] /\ phase' \in [Tokens -> Sem!Phases]
        BY <2>5, <3>1 DEF Sem!ExtendRuns, Sem!Extended
      <3>. QED
        BY <2>5, <3>2, <3>3 DEF Sem!ExtendRuns, Sem!Extended
    <2>. QED
      BY <1>3, <2>1, <2>2, <2>3, <2>4, <2>5 DEF Sem!Step
  <1>. QED
    BY <1>1, <1>2, <1>3 DEF Sem!Next

\* Every step keeps the leases in agreement with the handles and the set, when
\* all leases are of one length.
LEMMA PermitStep ==
  ASSUME NEW x, Lengths = {x}, SemInv, [Sem!Next]_(Sem!vars), NEW t \in Tokens
  PROVE  /\ PermitLife(t)'
         /\ left'[t] > 0 => t \in zset' /\ score'[t] >= left'[t]
  <1> DEFINE Goal == /\ PermitLife(t)'
                     /\ left'[t] > 0 => t \in zset' /\ score'[t] >= left'[t]
  <1>t. /\ phase \in [Tokens -> Sem!Phases] /\ left \in [Tokens -> Nat]
        /\ asked \in [Tokens -> Lengths \cup {0}] /\ x \in Nat /\ x > 0
        /\ zset \subseteq Tokens /\ score \in [Tokens -> Nat] /\ zttl \in Nat
    BY LeasesAssumption, LengthsAssumption DEF SemInv, Sem!TypeOK, Sem!LeasesTypeOK
  <1>l. /\ phase[t] # "live" => left[t] = 0
        /\ left[t] <= zttl /\ left[t] <= x /\ left[t] \in Nat
    BY <1>t DEF SemInv, PermitLife
  <1>k. left[t] > 0 => t \in zset /\ score[t] >= left[t]
    BY DEF SemInv, Sem!PermitKept
  <1>g. ASSUME phase'[t] # "live" => left'[t] = 0, left'[t] <= zttl', left'[t] <= x,
               left'[t] > 0 => t \in zset' /\ score'[t] >= left'[t]
        PROVE  Goal
    BY <1>g DEF PermitLife
  <1> SUFFICES Goal
    OBVIOUS
  <1> HIDE DEF Goal
  <1>s. ASSUME phase'[t] = phase[t], left'[t] = left[t],
               UNCHANGED <<zset, score, zttl>>
        PROVE  Goal
    BY <1>s, <1>g, <1>l, <1>k
  <1> USE DEF Sem!semaphore
  <1>1. CASE UNCHANGED Sem!vars
    BY <1>1, <1>s DEF Sem!vars, Sem!leaseVars
  <1>2. CASE Sem!Tick
    <2>1. /\ phase' = phase /\ left'[t] = Sem!Less(left[t]) /\ zttl' = Sem!Less(zttl)
          /\ score'[t] = Sem!Less(score[t])
          /\ zttl > 1 => zset' = zset
      BY <1>2, <1>t DEF Sem!Tick, Sem!LeasesTick
    <2>. QED
      BY <1>t, <1>g, <1>l, <1>k, <2>1 DEF Sem!Less
  <1>3. ASSUME NEW u \in Tokens, Sem!Step(u) PROVE Goal
    <2>1. CASE Sem!TryAcquire(u, x)
      <3>1. left[t] > 0 => t \in Sem!Pruned
        BY <1>t, <1>l, <1>k DEF Sem!Pruned
      <3>2. CASE Cardinality(Sem!Pruned) < MaxPermits
        <4>1. /\ zset' = Sem!Pruned \cup {u} /\ score' = [score EXCEPT ![u] = x]
              /\ zttl' = x /\ Sem!Granted(u, x) /\ phase[u] = "fresh"
          BY <2>1, <3>2, SemCounts DEF Sem!TryAcquire, Sem!Score
        <4>2. CASE t = u
          <5>1. (phase'[t] = "live" /\ left'[t] = x) \/ left'[t] = 0
            BY <1>t, <1>l, <4>1, <4>2 DEF Sem!Granted
          <5>. QED
            BY <1>t, <1>g, <4>1, <4>2, <5>1
        <4>3. CASE t # u
          <5>1. phase'[t] = phase[t] /\ left'[t] = left[t]
            BY <1>t, <4>1, <4>3 DEF Sem!Granted
          <5>. QED
            BY <1>t, <1>g, <1>l, <1>k, <3>1, <4>1, <4>3, <5>1
        <4>. QED
          BY <4>2, <4>3
      <3>3. CASE ~(Cardinality(Sem!Pruned) < MaxPermits)
        <4>1. zset' = Sem!Pruned /\ UNCHANGED <<score, zttl, phase, left>>
          BY <2>1, <3>3, SemCounts DEF Sem!TryAcquire, Sem!leaseVars
        <4>. QED
          BY <1>g, <1>l, <1>k, <3>1, <4>1
      <3>. QED
        BY <3>2, <3>3
    <2>2. CASE Sem!Extend(u, x) \/ Sem!ExtendLost(u)
      BY <1>s, <2>2 DEF Sem!Extend, Sem!ExtendLost, Sem!AskExtend, Sem!ExtendFails
    <2>3. CASE Sem!TryAcquireFor(u) \/ Sem!ReleaseLost(u)
      <3>1. phase[u] # "live" /\ phase' = [phase EXCEPT ![u] = "gone"] /\ left' = left
        BY <2>3 DEF Sem!TryAcquireFor, Sem!ReleaseLost, Sem!Abandoned, Sem!Ended, Sem!Ending
      <3>2. UNCHANGED <<zset, score, zttl>>
        BY <2>3 DEF Sem!TryAcquireFor, Sem!ReleaseLost
      <3>. QED
        BY <1>t, <1>g, <1>l, <1>k, <3>1, <3>2
    <2>4. CASE Sem!Release(u) \/ Sem!Drop(u)
      <3>1. /\ (phase'[t] = phase[t] /\ left'[t] = left[t]) \/ left'[t] = 0
            /\ UNCHANGED <<zset, score, zttl>>
        BY <1>t, <2>4 DEF Sem!Release, Sem!Drop, Sem!MarkGone
      <3>. QED
        BY <1>t, <1>g, <1>s, <3>1
    <2>5. CASE Sem!Released(u)
      <3>1. /\ phase[u] # "live" /\ phase' = [phase EXCEPT ![u] = "gone"]
            /\ left' = left /\ score' = score /\ zset' = zset \ {u}
            /\ zttl' = IF zset' = {} THEN 0 ELSE zttl
        BY <2>5 DEF Sem!Released, Sem!Ended, Sem!Ending
      <3>2. CASE left[t] > 0
        <4>1. t # u /\ t \in zset'
          BY <1>l, <1>k, <3>1, <3>2
        <4>2. zttl' = zttl /\ phase'[t] = phase[t]
          BY <1>t, <3>1, <4>1
        <4>. QED
          BY <1>g, <1>l, <1>k, <3>1, <4>1, <4>2
      <3>3. CASE left[t] = 0
        <4>1. 0 <= zttl'
          BY <1>t, <3>1
        <4>. QED
          BY <1>t, <1>g, <3>1, <3>3, <4>1
      <3>. QED
        BY <1>l, <3>2, <3>3
    <2>6. CASE Sem!ExtendRuns(u)
      <3>0. asked[u] = x
        BY <1>t, <2>6 DEF Sem!ExtendRuns
      <3>1. CASE u \in zset
        <4>1. /\ zset' = zset /\ score' = [score EXCEPT ![u] = x] /\ zttl' = x
              /\ phase' = phase
              /\ left' = IF phase[u] = "live" THEN [left EXCEPT ![u] = x] ELSE left
          BY <2>6, <3>0, <3>1 DEF Sem!ExtendRuns, Sem!Extended, Sem!Score
        <4>2. CASE t = u
          <5>1. \/ phase[t] = "live" /\ left'[t] = x
                \/ phase[t] # "live" /\ left'[t] = 0
            BY <1>t, <1>l, <4>1, <4>2
          <5>. QED
            BY <1>t, <1>g, <3>1, <4>1, <4>2, <5>1
        <4>3. CASE t # u
          <5>1. left'[t] = left[t] /\ score'[t] = score[t]
            BY <1>t, <4>1, <4>3
          <5>. QED
            BY <1>g, <1>l, <1>k, <4>1, <5>1
        <4>. QED
          BY <4>2, <4>3
      <3>2. CASE u \notin zset
        <4>1. UNCHANGED <<zset, score, zttl>>
          BY <2>6, <3>2 DEF Sem!ExtendRuns
        <4>2. (phase'[t] = phase[t] /\ left'[t] = left[t]) \/ left'[t] = 0
          BY <1>t, <2>6, <3>2 DEF Sem!ExtendRuns, Sem!Extended
        <4>. QED
          BY <1>t, <1>g, <1>s, <4>1, <4>2
      <3>. QED
        BY <3>1, <3>2
    <2>. QED
      BY <1>3, <2>1, <2>2, <2>3, <2>4, <2>5, <2>6 DEF Sem!Step
  <1>. QED
    BY <1>1, <1>2, <1>3 DEF Sem!Next

\* The set never has more members than permits.
LEMMA MembersStep ==
  ASSUME MaxPermits \in Nat, SemInv, [Sem!Next]_(Sem!vars)
  PROVE  IsFiniteSet(zset') /\ Cardinality(zset') <= MaxPermits
  <1>0. IsFiniteSet(zset) /\ Cardinality(zset) <= MaxPermits
    BY DEF SemInv
  <1>1. ASSUME zset' \in SUBSET zset
        PROVE  IsFiniteSet(zset') /\ Cardinality(zset') <= MaxPermits
    <2>1. IsFiniteSet(zset') /\ Cardinality(zset') <= Cardinality(zset)
      BY <1>0, <1>1, FS_Subset
    <2>2. Cardinality(zset') \in Nat /\ Cardinality(zset) \in Nat
      BY <1>0, <2>1, FS_CardinalityType
    <2>. QED
      BY <1>0, <2>1, <2>2
  <1>2. ASSUME NEW t \in Tokens, zset' = Sem!Pruned \cup {t},
               Cardinality(Sem!Pruned) < MaxPermits
        PROVE  IsFiniteSet(zset') /\ Cardinality(zset') <= MaxPermits
    <2>1. IsFiniteSet(Sem!Pruned)
      <3>1. Sem!Pruned \in SUBSET zset
        BY DEF Sem!Pruned
      <3>. QED
        BY <1>0, <3>1, FS_Subset
    <2>2. Cardinality(Sem!Pruned) \in Nat
      BY <2>1, FS_CardinalityType
    <2>3. /\ IsFiniteSet(zset')
          /\ Cardinality(zset') = Cardinality(Sem!Pruned)
              \/ Cardinality(zset') = Cardinality(Sem!Pruned) + 1
      BY <1>2, <2>1, FS_AddElement
    <2>. QED
      BY <1>2, <2>2, <2>3
  <1>3. \/ zset' \in SUBSET zset
        \/ \E t \in Tokens : /\ zset' = Sem!Pruned \cup {t}
                             /\ Cardinality(Sem!Pruned) < MaxPermits
    <2> USE DEF Sem!semaphore
    <2>1. CASE UNCHANGED Sem!vars
      BY <2>1 DEF Sem!vars
    <2>2. CASE Sem!Tick
      BY <2>2 DEF Sem!Tick
    <2>3. ASSUME NEW t \in Tokens, NEW x \in Lengths, Sem!TryAcquire(t, x)
          PROVE  \/ zset' \in SUBSET zset
                 \/ /\ zset' = Sem!Pruned \cup {t}
                    /\ Cardinality(Sem!Pruned) < MaxPermits
      <3>1. Sem!Pruned \in SUBSET zset
        BY DEF Sem!Pruned
      <3>. QED
        BY <2>3, <3>1, SemCounts DEF Sem!TryAcquire
    <2>4. ASSUME NEW t \in Tokens, Sem!Step(t), \A x \in Lengths : ~ Sem!TryAcquire(t, x)
          PROVE  zset' \in SUBSET zset
      BY <2>4 DEF Sem!Step, Sem!Extend, Sem!TryAcquireFor, Sem!Release, Sem!Drop,
                  Sem!Released, Sem!ReleaseLost, Sem!ExtendRuns, Sem!ExtendLost
    <2>. QED
      BY <2>1, <2>2, <2>3, <2>4 DEF Sem!Next
  <1>. QED
    BY <1>1, <1>2, <1>3

\* Never more callers hold a running permit than max_permits, and every running
\* permit is in the set, whatever is revived late, lost or released late
\* (semaphore_*.lua, SemaphorePermit); with leases of one length.
THEOREM PermitsRespectedHolds ==
  ASSUME NEW x, Lengths = {x}, MaxPermits \in Nat
  PROVE  Sem!Spec => []Sem!PermitsRespected
  <1>1. Sem!Init => SemInv
    <2> SUFFICES ASSUME Sem!Init PROVE SemInv
      OBVIOUS
    <2>1. /\ phase = [t \in Tokens |-> "fresh"] /\ left = [t \in Tokens |-> 0]
          /\ zset = {} /\ zttl = 0
      BY DEF Sem!Init, Sem!LeasesInit
    <2>2. Sem!TypeOK
      BY DEF Sem!Init, Sem!LeasesInit, Sem!TypeOK, Sem!LeasesTypeOK, Sem!Phases
    <2>3. \A t \in Tokens : PermitLife(t)
      BY <2>1, LeasesAssumption, LengthsAssumption DEF PermitLife
    <2>4. Sem!PermitKept
      BY <2>1 DEF Sem!PermitKept
    <2>. QED
      BY <2>1, <2>2, <2>3, <2>4, FS_EmptySet DEF SemInv
  <1>2. SemInv /\ [Sem!Next]_(Sem!vars) => SemInv'
    <2> SUFFICES ASSUME SemInv, [Sem!Next]_(Sem!vars) PROVE SemInv'
      OBVIOUS
    <2>1. Sem!TypeOK'
      BY SemTypeStep DEF SemInv
    <2>2. (\A t \in Tokens : PermitLife(t)') /\ Sem!PermitKept'
      BY PermitStep DEF Sem!PermitKept
    <2>. QED
      BY <2>1, <2>2, MembersStep DEF SemInv
  <1>3. SemInv => Sem!PermitsRespected
    <2> SUFFICES ASSUME SemInv PROVE Sem!CapacityRespected
      BY DEF SemInv, Sem!PermitsRespected
    <2> DEFINE R == {t \in Tokens : left[t] > 0}
    <2>1. R \in SUBSET zset /\ IsFiniteSet(zset) /\ Cardinality(zset) <= MaxPermits
      BY DEF SemInv, Sem!PermitKept
    <2> HIDE DEF R
    <2>2. IsFiniteSet(R) /\ Cardinality(R) <= Cardinality(zset)
      BY <2>1, FS_Subset
    <2>3. Cardinality(R) \in Nat /\ Cardinality(zset) \in Nat
      BY <2>1, <2>2, FS_CardinalityType
    <2>4. Cardinality(R) <= MaxPermits
      BY <2>1, <2>2, <2>3
    <2>. QED
      BY <2>4, SemCounts DEF Sem!CapacityRespected, R
  <1>. QED
    BY <1>1, <1>2, <1>3, PTL DEF Sem!Spec

------------------------------------------------------------------------------
(* MultiLock. *)

\* The keys are numbered in the order of `sorted`, nobody is called None.
MultiConstants == None \notin Procs /\ \E n \in Nat : Keys \subseteq 0..n

\* A walk up the keys that the call wants: those it has come first, and a call
\* that is over has none.
WalkInv(p) ==
  /\ want[p] # {} /\ have[p] \subseteq want[p]
  /\ \A j \in have[p], k \in want[p] \ have[p] : j < k
  /\ pc[p] = "acquire" => have[p] # want[p]
  /\ pc[p] \in {"sleep", "failed", "done"} => have[p] = {}
  /\ pc[p] = "held" => have[p] = want[p]

\* A caller owns what it has a handle of, or lost track of by an error.
KeysAccounted(p) ==
  /\ \A k \in Keys : owner[k] = p => k \in have[p] \cup leaked[p]
  /\ "expiry" \notin MultiUses => \A k \in have[p] : owner[k] = p

MultiTypeOK ==
  /\ want \in [Procs -> SUBSET Keys]
  /\ owner \in [Keys -> Procs \cup {None}]
  /\ pc \in [Procs -> {"acquire", "held", "rollback", "sleep", "failed", "releasing", "done"}]
  /\ have \in [Procs -> SUBSET Keys]
  /\ cause \in [Procs -> {"none", "Held", "Backend"}]
  /\ leaked \in [Procs -> SUBSET Keys]

MultiInv == MultiTypeOK /\ \A p \in Procs : WalkInv(p) /\ KeysAccounted(p)

\* A set of natural numbers has a least one.
LEMMA NatLeast ==
  ASSUME NEW S, S \subseteq Nat, S # {}
  PROVE  \E k \in S : \A j \in S : k <= j
  <1> DEFINE R == {ss \in Nat \X Nat : ss[1] < ss[2]}
  <1>0. IsWellFoundedOn(R, Nat)
    BY NatLessThanWellFounded, Zenon DEF OpToRel
  <1>1. PICK k \in S : \A j \in S : ~ (<<j, k>> \in R)
    <2> HIDE DEF R
    <2>. QED
      BY <1>0, WFMin
  <1>2. \A j \in S : ~ (j < k)
    BY <1>1
  <1>. QED
    BY <1>2

\* The smallest of some keys is one of them and smaller than the others.
LEMMA LeastIsLeast ==
  ASSUME MultiConstants, NEW S, S \subseteq Keys, S # {}
  PROVE  Multi!Least(S) \in S /\ \A j \in S : Multi!Least(S) <= j
  <1>1. S \subseteq Nat
    BY DEF MultiConstants
  <1>2. \E k \in S : \A j \in S : k <= j
    BY <1>1, NatLeast
  <1>. QED
    BY <1>2 DEF Multi!Least

\* So is the greatest: the least of the upper bounds is one of the keys.
LEMMA GreatestIsGreatest ==
  ASSUME MultiConstants, NEW S, S \subseteq Keys, S # {}
  PROVE  Multi!Greatest(S) \in S /\ \A j \in S : j <= Multi!Greatest(S)
  <1>1. PICK n \in Nat : S \subseteq 0..n
    BY DEF MultiConstants
  <1> DEFINE Bounds == {m \in Nat : \A j \in S : j <= m}
  <1>2. Bounds \subseteq Nat /\ n \in Bounds
    BY <1>1
  <1>3. PICK m \in Bounds : \A l \in Bounds : m <= l
    <2> HIDE DEF Bounds
    <2>. QED
      BY <1>2, NatLeast
  <1>4. m \in Nat /\ \A j \in S : j <= m /\ j \in Nat
    BY <1>1, <1>3
  <1>5. m \in S
    <2> SUFFICES ASSUME m \notin S PROVE FALSE
      OBVIOUS
    <2>1. \A j \in S : j <= m - 1
      BY <1>4
    <2>2. m - 1 \in Nat
      BY <1>4, <2>1
    <2>3. m - 1 \in Bounds
      BY <2>1, <2>2
    <2>. QED
      BY <1>3, <1>4, <2>2, <2>3
  <1>. QED
    BY <1>4, <1>5 DEF Multi!Greatest

\* The instance counts the way FiniteSets does.
LEMMA MultiCounts == ASSUME NEW S PROVE Multi!Cardinality(S) = Cardinality(S)
  BY DEF Multi!Cardinality, Cardinality

\* The next key of a call that walks is one that it wants and has not.
LEMMA NextKeyOpen ==
  ASSUME MultiConstants, MultiInv, NEW p \in Procs, pc[p] = "acquire"
  PROVE  /\ Multi!NextKey(p) \in want[p] \ have[p] /\ Multi!NextKey(p) \in Keys
         /\ \A j \in want[p] \ have[p] : Multi!NextKey(p) <= j
         /\ \A j \in have[p] : j < Multi!NextKey(p)
  <1>1. /\ want[p] \ have[p] # {} /\ want[p] \ have[p] \subseteq Keys
        /\ \A j \in have[p], k \in want[p] \ have[p] : j < k
    BY DEF MultiInv, MultiTypeOK, WalkInv
  <1>2. /\ Multi!NextKey(p) \in want[p] \ have[p]
        /\ \A j \in want[p] \ have[p] : Multi!NextKey(p) <= j
    BY <1>1, LeastIsLeast DEF Multi!NextKey
  <1>. QED
    BY <1>1, <1>2

\* One release of the reverse walk.
LEMMA ReleaseKeyStep ==
  ASSUME MultiConstants, MultiInv, NEW p \in Procs, have[p] # {}, Multi!ReleaseKey(p)
  PROVE  \E k \in have[p] :
           /\ \A j \in have[p] : j <= k
           /\ have' = [have EXCEPT ![p] = have[p] \ {k}]
           /\ \/ /\ owner' = [owner EXCEPT ![k] = IF owner[k] = p THEN None ELSE owner[k]]
                 /\ leaked' = leaked
              \/ leaked' = [leaked EXCEPT ![p] = leaked[p] \cup {k}] /\ owner' = owner
           /\ UNCHANGED <<want, cause>>
  <1>1. have[p] \subseteq Keys
    BY DEF MultiInv, MultiTypeOK
  <1>2. /\ Multi!Greatest(have[p]) \in have[p]
        /\ \A j \in have[p] : j <= Multi!Greatest(have[p])
    BY <1>1, GreatestIsGreatest
  <1>. QED
    BY <1>2 DEF Multi!ReleaseKey

\* Every step keeps the types.
LEMMA MultiTypeStep ==
  ASSUME MultiConstants, MultiInv, [Multi!Next]_(Multi!vars)
  PROVE  MultiTypeOK'
  <1>t. MultiTypeOK
    BY DEF MultiInv
  <1> USE DEF MultiTypeOK, Multi!Goto
  <1>1. CASE UNCHANGED Multi!vars \/ Multi!Ended
    BY <1>t, <1>1 DEF Multi!vars, Multi!Ended
  <1>2. ASSUME NEW k \in Keys, Multi!Expire(k) PROVE MultiTypeOK'
    BY <1>t, <1>2 DEF Multi!Expire
  <1>3. ASSUME NEW p \in Procs, Multi!Step(p) PROVE MultiTypeOK'
    <2>1. CASE Multi!Acquire(p)
      <3>1. Multi!NextKey(p) \in Keys
        BY <2>1, NextKeyOpen DEF Multi!Acquire
      <3>. QED
        BY <1>t, <2>1, <3>1 DEF Multi!Acquire
    <2>2. CASE Multi!AcquireFails(p)
      <3>1. Multi!NextKey(p) \in Keys
        BY <2>2, NextKeyOpen DEF Multi!AcquireFails
      <3>. QED
        BY <1>t, <2>2, <3>1 DEF Multi!AcquireFails
    <2>3. ASSUME have[p] # {}, Multi!ReleaseKey(p),
                 \/ pc' = pc \/ pc' = [pc EXCEPT ![p] = "releasing"]
          PROVE  MultiTypeOK'
      <3>1. PICK k \in have[p] :
              /\ have' = [have EXCEPT ![p] = have[p] \ {k}]
              /\ \/ /\ owner' = [owner EXCEPT ![k] = IF owner[k] = p THEN None ELSE owner[k]]
                    /\ leaked' = leaked
                 \/ leaked' = [leaked EXCEPT ![p] = leaked[p] \cup {k}] /\ owner' = owner
              /\ UNCHANGED <<want, cause>>
        BY <2>3, ReleaseKeyStep
      <3>2. k \in Keys
        BY <1>t
      <3>. QED
        BY <1>t, <2>3, <3>1, <3>2
    <2>4. CASE Multi!Rollback(p)
      BY <1>t, <2>3, <2>4 DEF Multi!Rollback
    <2>5. CASE Multi!ReleaseAll(p)
      BY <1>t, <2>3, <2>5 DEF Multi!ReleaseAll
    <2>6. CASE Multi!Retry(p) \/ Multi!Timeout(p)
      BY <1>t, <2>6 DEF Multi!Retry, Multi!Timeout
    <2>. QED
      BY <1>3, <2>1, <2>2, <2>4, <2>5, <2>6 DEF Multi!Step, Multi!Run
  <1>. QED
    BY <1>1, <1>2, <1>3 DEF Multi!Next

\* A step of a caller leaves the walks of the others alone.
LEMMA OtherWalks ==
  ASSUME MultiTypeOK, NEW p \in Procs, Multi!Step(p), NEW q \in Procs, q # p
  PROVE  /\ pc'[q] = pc[q] /\ have'[q] = have[q] /\ leaked'[q] = leaked[q]
         /\ want' = want
  BY DEF MultiTypeOK, Multi!Step, Multi!Run, Multi!Acquire, Multi!AcquireFails, Multi!Rollback,
         Multi!ReleaseAll, Multi!Retry, Multi!Timeout, Multi!ReleaseKey, Multi!Goto

\* Every step of a caller keeps its walk in order.
LEMMA WalkStep ==
  ASSUME MultiConstants, MultiInv, NEW p \in Procs, Multi!Step(p)
  PROVE  WalkInv(p)'
  <1>t. MultiTypeOK /\ WalkInv(p)
    BY DEF MultiInv
  <1>n. want[p] \subseteq Int
    <2>1. Keys \subseteq Int
      BY DEF MultiConstants
    <2>2. want[p] \subseteq Keys
      BY <1>t DEF MultiTypeOK
    <2>. QED
      BY <2>1, <2>2
  <1> USE DEF Multi!Goto
  <1>1. CASE Multi!Acquire(p)
    <2>1. PICK k : k = Multi!NextKey(p)
      OBVIOUS
    <2>2. /\ k \in want[p] \ have[p] /\ pc[p] = "acquire"
          /\ \A j \in want[p] \ have[p] : k <= j
      BY <1>1, <2>1, NextKeyOpen DEF Multi!Acquire
    <2>3. CASE owner[k] = None
      <3>1. /\ have'[p] = have[p] \cup {k} /\ want' = want
            /\ \/ have'[p] = want[p] /\ pc'[p] = "held"
               \/ have'[p] # want[p] /\ pc'[p] = "acquire"
        BY <1>1, <1>t, <2>1, <2>2, <2>3 DEF Multi!Acquire, MultiTypeOK
      <3>2. \A j \in have'[p], l \in want[p] \ have'[p] : j < l
        BY <1>n, <1>t, <2>2, <3>1 DEF WalkInv
      <3>. QED
        BY <1>t, <2>2, <3>1, <3>2 DEF WalkInv
    <2>4. CASE owner[k] # None
      <3>1. pc'[p] = "rollback" /\ have' = have /\ want' = want
        BY <1>1, <1>t, <2>1, <2>4 DEF Multi!Acquire, MultiTypeOK
      <3>. QED
        BY <1>t, <3>1 DEF WalkInv
    <2>. QED
      BY <2>3, <2>4
  <1>2. CASE Multi!AcquireFails(p)
    <2>1. pc'[p] = "rollback" /\ have' = have /\ want' = want
      BY <1>2, <1>t DEF Multi!AcquireFails, MultiTypeOK
    <2>. QED
      BY <1>t, <2>1 DEF WalkInv
  <1>3. ASSUME have[p] # {}, Multi!ReleaseKey(p), pc'[p] \in {"rollback", "releasing"}
        PROVE  WalkInv(p)'
    <2>1. PICK k \in have[p] :
            /\ \A j \in have[p] : j <= k
            /\ have' = [have EXCEPT ![p] = have[p] \ {k}] /\ want' = want
      BY <1>3, ReleaseKeyStep
    <2>2. have'[p] = have[p] \ {k}
      BY <1>t, <2>1 DEF MultiTypeOK
    <2>3. \A j \in have'[p], l \in want[p] \ have'[p] : j < l
      BY <1>n, <1>t, <2>1, <2>2 DEF WalkInv
    <2>. QED
      BY <1>3, <1>t, <2>1, <2>2, <2>3 DEF WalkInv
  <1>4. CASE Multi!Rollback(p)
    <2>1. CASE have[p] # {}
      BY <1>3, <1>4, <2>1 DEF Multi!Rollback
    <2>2. CASE have[p] = {}
      <3>1. pc'[p] \in {"sleep", "failed"} /\ have' = have /\ want' = want
        BY <1>4, <1>t, <2>2 DEF Multi!Rollback, MultiTypeOK
      <3>. QED
        BY <1>t, <2>2, <3>1 DEF WalkInv
    <2>. QED
      BY <2>1, <2>2
  <1>5. CASE Multi!ReleaseAll(p)
    <2>1. CASE have[p] # {}
      BY <1>3, <1>5, <1>t, <2>1 DEF Multi!ReleaseAll, MultiTypeOK
    <2>2. CASE have[p] = {}
      <3>1. pc'[p] = "done" /\ have' = have /\ want' = want
        BY <1>5, <1>t, <2>2 DEF Multi!ReleaseAll, MultiTypeOK
      <3>. QED
        BY <1>t, <2>2, <3>1 DEF WalkInv
    <2>. QED
      BY <2>1, <2>2
  <1>6. CASE Multi!Retry(p) \/ Multi!Timeout(p)
    <2>1. /\ pc[p] = "sleep" /\ pc'[p] \in {"acquire", "failed"}
          /\ have' = have /\ want' = want
      BY <1>6, <1>t DEF Multi!Retry, Multi!Timeout, MultiTypeOK
    <2>. QED
      BY <1>t, <2>1 DEF WalkInv
  <1>. QED
    BY <1>1, <1>2, <1>4, <1>5, <1>6 DEF Multi!Step, Multi!Run

\* What a step of a caller does to the owners.
LEMMA OwnerStep ==
  ASSUME MultiConstants, MultiInv, NEW p \in Procs, Multi!Step(p)
  PROVE  \/ \E k \in Keys : /\ owner[k] = None /\ owner' = [owner EXCEPT ![k] = p]
                            /\ \/ have'[p] = have[p] \cup {k} /\ leaked' = leaked
                               \/ leaked'[p] = leaked[p] \cup {k} /\ have' = have
         \/ \E k \in have[p] :
              /\ have'[p] = have[p] \ {k}
              /\ \/ /\ owner' = [owner EXCEPT ![k] = IF owner[k] = p THEN None ELSE owner[k]]
                    /\ leaked' = leaked
                 \/ leaked'[p] = leaked[p] \cup {k} /\ owner' = owner
         \/ UNCHANGED <<owner, have, leaked>>
  <1>t. MultiTypeOK
    BY DEF MultiInv
  <1>1. CASE Multi!Acquire(p) \/ Multi!AcquireFails(p)
    <2>1. PICK k : k = Multi!NextKey(p)
      OBVIOUS
    <2>2. k \in Keys
      BY <1>1, <2>1, NextKeyOpen DEF Multi!Acquire, Multi!AcquireFails
    <2>3. CASE Multi!Acquire(p)
      BY <1>t, <2>1, <2>2, <2>3 DEF Multi!Acquire, MultiTypeOK
    <2>4. CASE Multi!AcquireFails(p)
      BY <1>t, <2>1, <2>2, <2>4 DEF Multi!AcquireFails, MultiTypeOK
    <2>. QED
      BY <1>1, <2>3, <2>4
  <1>2. ASSUME have[p] # {}, Multi!ReleaseKey(p)
        PROVE  \E k \in have[p] :
                 /\ have'[p] = have[p] \ {k}
                 /\ \/ /\ owner' = [owner EXCEPT ![k] = IF owner[k] = p THEN None ELSE owner[k]]
                       /\ leaked' = leaked
                    \/ leaked'[p] = leaked[p] \cup {k} /\ owner' = owner
    BY <1>2, <1>t, ReleaseKeyStep DEF MultiTypeOK
  <1>3. CASE Multi!Rollback(p) \/ Multi!ReleaseAll(p)
    <2>1. CASE have[p] # {}
      BY <1>2, <1>3, <2>1 DEF Multi!Rollback, Multi!ReleaseAll
    <2>2. CASE have[p] = {}
      BY <1>3, <2>2 DEF Multi!Rollback, Multi!ReleaseAll
    <2>. QED
      BY <2>1, <2>2
  <1>4. CASE Multi!Retry(p) \/ Multi!Timeout(p)
    BY <1>4 DEF Multi!Retry, Multi!Timeout
  <1>. QED
    BY <1>1, <1>3, <1>4 DEF Multi!Step, Multi!Run

\* Every step keeps track of the keys.
LEMMA AccountStep ==
  ASSUME MultiConstants, MultiInv, NEW p \in Procs, Multi!Step(p), NEW q \in Procs
  PROVE  KeysAccounted(q)'
  <1>t. MultiTypeOK /\ KeysAccounted(q) /\ None \notin Procs /\ have[q] \subseteq Keys
    BY DEF MultiInv, MultiConstants, MultiTypeOK
  <1>f. owner \in [Keys -> Procs \cup {None}]
    BY <1>t DEF MultiTypeOK
  <1>o. q # p => have'[q] = have[q] /\ leaked'[q] = leaked[q]
    BY <1>t, OtherWalks
  <1>1. ASSUME NEW k \in Keys, owner[k] = None, owner' = [owner EXCEPT ![k] = p],
               \/ have'[p] = have[p] \cup {k} /\ leaked' = leaked
               \/ leaked'[p] = leaked[p] \cup {k} /\ have' = have
        PROVE  KeysAccounted(q)'
    BY <1>1, <1>t, <1>f, <1>o DEF KeysAccounted
  <1>2. ASSUME NEW k \in have[p], have'[p] = have[p] \ {k},
               \/ /\ owner' = [owner EXCEPT ![k] = IF owner[k] = p THEN None ELSE owner[k]]
                  /\ leaked' = leaked
               \/ leaked'[p] = leaked[p] \cup {k} /\ owner' = owner
        PROVE  KeysAccounted(q)'
    <2>1. CASE q # p
      BY <1>2, <1>t, <1>f, <1>o, <2>1 DEF KeysAccounted
    <2>2. CASE q = p
      BY <1>2, <1>t, <1>f, <2>2 DEF KeysAccounted
    <2>. QED
      BY <2>1, <2>2
  <1>3. CASE UNCHANGED <<owner, have, leaked>>
    BY <1>3, <1>t DEF KeysAccounted
  <1>. QED
    BY <1>1, <1>2, <1>3, OwnerStep

\* Every step keeps the invariant.
LEMMA MultiInvStep ==
  ASSUME MultiConstants, MultiInv, [Multi!Next]_(Multi!vars)
  PROVE  MultiInv'
  <1>t. MultiTypeOK /\ MultiTypeOK'
    BY MultiTypeStep DEF MultiInv
  <1> SUFFICES ASSUME NEW q \in Procs PROVE WalkInv(q)' /\ KeysAccounted(q)'
    BY <1>t DEF MultiInv
  <1>q. WalkInv(q) /\ KeysAccounted(q)
    BY DEF MultiInv
  <1>1. CASE UNCHANGED Multi!vars \/ Multi!Ended
    <2>1. UNCHANGED <<want, owner, pc, have, cause, leaked>>
      BY <1>1 DEF Multi!vars, Multi!Ended
    <2>. QED
      BY <1>q, <2>1 DEF WalkInv, KeysAccounted
  <1>2. ASSUME NEW k \in Keys, Multi!Expire(k) PROVE WalkInv(q)' /\ KeysAccounted(q)'
    <2>1. /\ UNCHANGED <<want, pc, have, leaked>>
          /\ owner' = [owner EXCEPT ![k] = None]
          /\ "expiry" \in MultiUses \/ k \notin have[owner[k]]
      BY <1>2 DEF Multi!Expire
    <2>2. WalkInv(q)'
      BY <1>q, <2>1 DEF WalkInv
    <2>3. owner \in [Keys -> Procs \cup {None}] /\ None \notin Procs /\ have[q] \subseteq Keys
      BY <1>t DEF MultiTypeOK, MultiConstants
    <2>4. KeysAccounted(q)'
      BY <1>q, <2>1, <2>3 DEF KeysAccounted
    <2>. QED
      BY <2>2, <2>4
  <1>3. ASSUME NEW p \in Procs, Multi!Step(p) PROVE WalkInv(q)' /\ KeysAccounted(q)'
    <2>1. CASE q = p
      BY <1>3, <2>1, WalkStep, AccountStep
    <2>2. CASE q # p
      <3>1. pc'[q] = pc[q] /\ have'[q] = have[q] /\ want' = want
        BY <1>3, <1>t, <2>2, OtherWalks
      <3>2. WalkInv(q)'
        BY <1>q, <3>1 DEF WalkInv
      <3>. QED
        BY <1>3, <3>2, AccountStep
    <2>. QED
      BY <2>1, <2>2
  <1>. QED
    BY <1>1, <1>2, <1>3 DEF Multi!Next

\* What is known of every call of try_lock_all.
THEOREM MultiInvariant ==
  ASSUME MultiConstants
  PROVE  Multi!Spec => []MultiInv
  <1>1. Multi!Init => MultiInv
    <2> SUFFICES ASSUME Multi!Init PROVE MultiInv
      OBVIOUS
    <2>1. MultiTypeOK
      BY DEF Multi!Init, MultiTypeOK
    <2>2. ASSUME NEW p \in Procs PROVE want[p] # {}
      <3>1. Multi!Cardinality(want[p]) >= 2
        BY DEF Multi!Init
      <3>2. Cardinality(want[p]) >= 2
        BY <3>1, MultiCounts
      <3>3. Cardinality({}) = 0
        BY FS_EmptySet
      <3>. QED
        BY <3>2, <3>3
    <2>3. \A p \in Procs : pc[p] = "acquire" /\ have[p] = {}
      BY DEF Multi!Init
    <2>4. \A p \in Procs : WalkInv(p)
      BY <2>2, <2>3 DEF WalkInv
    <2>5. \A k \in Keys : owner[k] = None
      BY DEF Multi!Init
    <2>6. \A p \in Procs : KeysAccounted(p)
      BY <2>3, <2>5 DEF KeysAccounted, MultiConstants
    <2>. QED
      BY <2>1, <2>4, <2>6 DEF MultiInv
  <1>2. MultiInv /\ [Multi!Next]_(Multi!vars) => MultiInv'
    BY MultiInvStep
  <1>. QED
    BY <1>1, <1>2, PTL DEF Multi!Spec

\* All or nothing: a call of try_lock_all that failed, sleeps or was released
\* owns no key but those whose own request failed, for any number of callers
\* and any key sets.
THEOREM NothingLeftBehindHolds ==
  ASSUME MultiConstants
  PROVE  Multi!Spec => []Multi!NothingLeftBehind
  <1>1. MultiInv => Multi!NothingLeftBehind
    BY DEF MultiInv, WalkInv, KeysAccounted, Multi!NothingLeftBehind
  <1>. QED
    BY <1>1, MultiInvariant, PTL

\* A call that returned owns every key it asked for, unless a lease ran out.
HeldMeansAll ==
  "expiry" \notin MultiUses =>
    \A p \in Procs : pc[p] = "held" => \A k \in want[p] : owner[k] = p

\* A call whose next key another call has a handle of waits for one whose own
\* next key is larger: the calls never wait for each other in a circle.
WaitsGoUp ==
  \A p, q \in Procs :
    pc[p] = "acquire" /\ pc[q] = "acquire" /\ Multi!NextKey(p) \in have[q]
      => Multi!NextKey(p) < Multi!NextKey(q)

\* try_lock_all returns all of its keys or none, and the order of its walk
\* excludes circles (ADR 0019).
THEOREM AllKeysInOrder ==
  ASSUME MultiConstants
  PROVE  Multi!Spec => [](HeldMeansAll /\ WaitsGoUp)
  <1>1. MultiInv => HeldMeansAll
    BY DEF MultiInv, WalkInv, KeysAccounted, HeldMeansAll
  <1>2. MultiInv => WaitsGoUp
    BY NextKeyOpen DEF WaitsGoUp
  <1>. QED
    BY <1>1, <1>2, MultiInvariant, PTL

------------------------------------------------------------------------------
(* Latch. *)

\* The key's value and the count-downs that found it open add up to the count
\* it was created with, and whoever is past its first step found a key.
LatchInv ==
  /\ latch \in Nat \cup {-1} /\ downs \in Nat /\ initial \in Nat
  /\ at \in [Parties \cup Waiters -> {"new", "ready", "done", "failed"}]
  /\ latch = -1 => downs = 0 /\ initial = 0
  /\ latch # -1 => latch + downs = initial /\ initial > 0
  /\ \A p \in Parties \cup Waiters : at[p] # "new" => latch # -1
  /\ \A p \in Waiters : at[p] = "done" => latch = 0

\* A waiter passes only after as many parties have counted down as the creator
\* that won asked for, whatever the others asked for (latch_*.lua); the
\* callers that wait and those that count down have names of their own.
THEOREM PassAfterAllHolds ==
  ASSUME Counts \subseteq Nat, Parties \cap Waiters = {}
  PROVE  Latch!Spec => []Latch!PassAfterAll
  <1>1. Latch!Init => LatchInv
    BY DEF Latch!Init, LatchInv
  <1>2. LatchInv /\ [Latch!Next]_(Latch!vars) => LatchInv'
    <2> SUFFICES ASSUME LatchInv, [Latch!Next]_(Latch!vars) PROVE LatchInv'
      OBVIOUS
    <2> USE DEF LatchInv, Latch!Move
    <2>1. CASE UNCHANGED Latch!vars \/ Latch!Over
      BY <2>1 DEF Latch!vars, Latch!Over
    <2>2. ASSUME NEW p \in Parties \cup Waiters, NEW n \in Counts \ {0}, Latch!Create(p, n)
          PROVE  LatchInv'
      BY <2>2 DEF Latch!Create
    <2>3. ASSUME NEW p \in Parties \cup Waiters, Latch!CountDown(p) PROVE LatchInv'
      BY <2>3 DEF Latch!CountDown
    <2>4. ASSUME NEW p \in Parties \cup Waiters, Latch!CountDownFails(p) PROVE LatchInv'
      BY <2>4 DEF Latch!CountDownFails
    <2>5. ASSUME NEW p \in Parties \cup Waiters, Latch!WaitUntilZero(p) PROVE LatchInv'
      BY <2>5 DEF Latch!WaitUntilZero, Latch!Remaining
    <2>6. ASSUME NEW p \in Parties \cup Waiters, Latch!WaitTimesOut(p) PROVE LatchInv'
      BY <2>6 DEF Latch!WaitTimesOut
    <2>. QED
      BY <2>1, <2>2, <2>3, <2>4, <2>5, <2>6 DEF Latch!Next, Latch!Call
  <1>3. LatchInv => Latch!PassAfterAll
    BY DEF LatchInv, Latch!PassAfterAll
  <1>. QED
    BY <1>1, <1>2, <1>3, PTL DEF Latch!Spec

------------------------------------------------------------------------------
(* Testament. *)

\* Whoever counts on a lease owns the key at least as long; grants are numbered
\* by the fence, that of the owner is the last one, and an author of a will has
\* been granted.
WillInv ==
  /\ Will!TypeOK
  /\ \A t \in Tokens : /\ phase[t] # "live" => left[t] = 0
                       /\ phase[t] = "fresh" => grant[t] = 0
                       /\ left[t] > 0 => holder = t /\ pttl >= left[t]
                       /\ grant[t] <= fence
  /\ \A s, t \in Tokens : s # t /\ grant[s] = grant[t] => grant[s] = 0
  /\ holder # None => grant[holder] = fence /\ fence > 0
  /\ will # None => grant[will] > 0

\* Every step keeps the types.
LEMMA WillTypeStep ==
  ASSUME WillTtls \subseteq Nat, Will!TypeOK, [Will!Next]_(Will!vars)
  PROVE  Will!TypeOK'
  <1> USE LeasesAssumption, LengthsAssumption
      DEF Will!TypeOK, Will!LeasesTypeOK, Will!Phases, Will!Ending, Will!keyVars, Will!willVars,
          Will!leaseVars, Will!Data
  <1>1. CASE UNCHANGED Will!vars
    BY <1>1 DEF Will!vars
  <1>2. CASE Will!Tick
    BY <1>2 DEF Will!Tick, Will!LeasesTick, Will!Less
  <1>3. CASE Will!ChangeData
    BY <1>3 DEF Will!ChangeData
  <1>4. ASSUME NEW t \in Tokens, Will!Step(t) PROVE Will!TypeOK'
    <2>1. ASSUME NEW x \in Lengths, Will!Take(t, x) PROVE Will!TypeOK'
      BY <2>1 DEF Will!Take, Will!Granted
    <2>2. CASE Will!Refused(t) \/ Will!Release(t)
      BY <2>2 DEF Will!Refused, Will!Release, Will!Abandoned, Will!MarkGone
    <2>3. CASE Will!Released(t)
      BY <2>3 DEF Will!Released, Will!Ended
    <2>4. ASSUME NEW y \in WillTtls, Will!SetTestament(t, y) PROVE Will!TypeOK'
      BY <2>4 DEF Will!SetTestament
    <2>5. CASE Will!ClearTestament(t) \/ Will!WillFails(t)
      BY <2>5 DEF Will!ClearTestament, Will!WillFails
    <2>6. CASE Will!WillSet(t)
      <3>0. \/ saying[t] = [ask |-> "none"] \/ saying[t] = [ask |-> "clear"]
            \/ \E y \in WillTtls : saying[t] = [ask |-> "set", ttl |-> y]
        <4> DEFINE Asks == {[ask |-> "none"], [ask |-> "clear"]}
                             \cup [ask : {"set"}, ttl : WillTtls]
        <4>1. saying[t] \in Asks
          BY DEF Will!Silent
        <4>. QED
          BY <4>1
      <3>1. saying[t].ttl \in Nat
        BY <2>6, <3>0 DEF Will!WillSet
      <3>. QED
        BY <2>6, <3>1 DEF Will!WillSet
    <2>7. CASE Will!WillDel(t)
      BY <2>7 DEF Will!WillDel
    <2>. QED
      BY <1>4, <2>1, <2>2, <2>3, <2>4, <2>5, <2>6, <2>7
      DEF Will!Step, Will!Acquire, Will!TryLock
  <1>. QED
    BY <1>1, <1>2, <1>3, <1>4 DEF Will!Next

\* Every step keeps the invariant.
LEMMA WillInvStep ==
  ASSUME WillTtls \subseteq Nat, WillInv, [Will!Next]_(Will!vars)
  PROVE  WillInv'
  <1>t. /\ phase \in [Tokens -> Will!Phases] /\ left \in [Tokens -> Nat]
        /\ holder \in Tokens \cup {None} /\ will \in Tokens \cup {None}
        /\ pttl \in Nat /\ fence \in Nat /\ grant \in [Tokens -> Nat]
        /\ None \notin Tokens
    BY LeasesAssumption, LengthsAssumption DEF WillInv, Will!TypeOK, Will!LeasesTypeOK
  <1>n. ASSUME \A t \in Tokens : /\ phase'[t] # "live" => left'[t] = 0
                                 /\ phase'[t] = "fresh" => grant'[t] = 0
                                 /\ left'[t] > 0 => holder' = t /\ pttl' >= left'[t]
                                 /\ grant'[t] <= fence',
               \A s, t \in Tokens : s # t /\ grant'[s] = grant'[t] => grant'[s] = 0,
               holder' # None => grant'[holder'] = fence' /\ fence' > 0,
               will' # None => grant'[will'] > 0
        PROVE  WillInv'
    <2>1. Will!TypeOK'
      BY WillTypeStep DEF WillInv
    <2>. QED
      BY <1>n, <2>1 DEF WillInv
  <1>i. /\ \A t \in Tokens : /\ phase[t] # "live" => left[t] = 0
                             /\ phase[t] = "fresh" => grant[t] = 0
                             /\ left[t] > 0 => holder = t /\ pttl >= left[t]
                             /\ grant[t] <= fence
        /\ \A s, t \in Tokens : s # t /\ grant[s] = grant[t] => grant[s] = 0
        /\ holder # None => grant[holder] = fence /\ fence > 0
        /\ will # None => grant[will] > 0
    BY DEF WillInv
  <1> USE DEF Will!keyVars, Will!willVars, Will!leaseVars
  <1>s. ASSUME UNCHANGED <<phase, left, fence, holder, pttl, grant>>,
               will' # None => will' = will \/ will' = holder
        PROVE  WillInv'
    BY <1>s, <1>n, <1>i, <1>t
  <1>1. CASE UNCHANGED Will!vars
    BY <1>1, <1>s DEF Will!vars
  <1>2. CASE Will!Tick
    <2>1. /\ phase' = phase /\ fence' = fence /\ grant' = grant
          /\ \A t \in Tokens : left'[t] = Will!Less(left[t])
          /\ pttl' = Will!Less(pttl)
          /\ holder' = IF pttl <= 1 THEN None ELSE holder
          /\ will' = None \/ will' = will
      BY <1>2, <1>t DEF Will!Tick, Will!LeasesTick
    <2>2. ASSUME NEW t \in Tokens, left'[t] > 0 PROVE holder' = t /\ pttl' >= left'[t]
      <3>1. left[t] \in Nat /\ left[t] > 1 /\ left'[t] = left[t] - 1
        BY <1>t, <2>1, <2>2 DEF Will!Less
      <3>2. holder = t /\ pttl >= left[t]
        BY <1>i, <3>1
      <3>. QED
        BY <1>t, <2>1, <3>1, <3>2 DEF Will!Less
    <2>3. ASSUME NEW t \in Tokens, left[t] = 0 PROVE left'[t] = 0
      BY <2>1, <2>3 DEF Will!Less
    <2>. QED
      BY <1>n, <1>i, <1>t, <2>1, <2>2, <2>3
  <1>3. CASE Will!ChangeData
    BY <1>3, <1>s DEF Will!ChangeData
  <1>4. ASSUME NEW t \in Tokens, Will!Step(t) PROVE WillInv'
    <2>1. ASSUME NEW x \in Lengths, phase[t] = "fresh", holder = None, Will!Take(t, x)
          PROVE  WillInv'
      <3>1. /\ holder' = t /\ pttl' = x /\ fence' = fence + 1
            /\ grant' = [grant EXCEPT ![t] = fence + 1] /\ will' = will
        BY <2>1 DEF Will!Take, Will!Granted
      <3>2. \A s \in Tokens : left[s] = 0
        BY <1>i, <1>t, <2>1
      <3>3. /\ \/ phase'[t] = "live" /\ left'[t] = x
               \/ phase'[t] = "gone" /\ left'[t] = 0
            /\ \A s \in Tokens \ {t} : phase'[s] = phase[s] /\ left'[s] = 0
        BY <1>t, <2>1, <3>2 DEF Will!Take, Will!Granted
      <3>4. x \in Nat
        BY LeasesAssumption, LengthsAssumption
      <3>5. \A s \in Tokens : s # t => grant'[s] = grant[s] /\ grant[s] <= fence
        BY <1>i, <1>t, <3>1
      <3>6. grant'[t] = fence + 1
        BY <1>t, <3>1
      <3>. QED
        BY <1>n, <1>i, <1>t, <3>1, <3>3, <3>4, <3>5, <3>6
    <2>2. CASE Will!Refused(t)
      <3>1. /\ phase' = [phase EXCEPT ![t] = "gone"] /\ phase[t] = "fresh"
            /\ UNCHANGED <<left, fence, holder, pttl, grant, will>>
        BY <2>2 DEF Will!Refused, Will!Abandoned
      <3>. QED
        BY <1>n, <1>i, <1>t, <3>1
    <2>3. CASE Will!Release(t)
      <3>1. /\ phase' = [phase EXCEPT ![t] = "releasing"] /\ left' = [left EXCEPT ![t] = 0]
            /\ UNCHANGED <<fence, holder, pttl, grant, will>>
        BY <2>3 DEF Will!Release, Will!MarkGone
      <3>. QED
        BY <1>n, <1>i, <1>t, <3>1
    <2>4. CASE Will!Released(t)
      <3>1. /\ phase' = [phase EXCEPT ![t] = "gone"] /\ left' = left /\ left[t] = 0
            /\ UNCHANGED <<fence, grant, will>>
            /\ holder # t => holder' = holder /\ pttl' = pttl
            /\ holder = t => holder' = None
        BY <1>i, <2>4 DEF Will!Released, Will!Ended
      <3>. QED
        BY <1>n, <1>i, <1>t, <3>1
    <2>5. ASSUME NEW y \in WillTtls, Will!SetTestament(t, y) PROVE WillInv'
      BY <1>s, <2>5 DEF Will!SetTestament
    <2>6. CASE Will!ClearTestament(t) \/ Will!WillFails(t)
      BY <1>s, <2>6 DEF Will!ClearTestament, Will!WillFails
    <2>7. CASE Will!WillSet(t) \/ Will!WillDel(t)
      BY <1>s, <2>7 DEF Will!WillSet, Will!WillDel
    <2>. QED
      BY <1>4, <2>1, <2>2, <2>3, <2>4, <2>5, <2>6, <2>7
      DEF Will!Step, Will!Acquire, Will!TryLock, Will!Meets
  <1>. QED
    BY <1>1, <1>2, <1>3, <1>4 DEF Will!Next

\* What is known of the key and of its will.
THEOREM WillInvariant ==
  ASSUME WillTtls \subseteq Nat
  PROVE  Will!Spec => []WillInv
  <1>1. Will!Init => WillInv
    <2> SUFFICES ASSUME Will!Init PROVE WillInv
      OBVIOUS
    <2>1. Will!TypeOK
      BY DEF Will!Init, Will!LeasesInit, Will!TypeOK, Will!LeasesTypeOK, Will!Phases
    <2>. QED
      BY <2>1 DEF Will!Init, Will!LeasesInit, WillInv
  <1>2. WillInv /\ [Will!Next]_(Will!vars) => WillInv'
    BY WillInvStep
  <1>. QED
    BY <1>1, <1>2, PTL DEF Will!Spec

\* Semantic and plain leases of a key exclude each other, and a will that
\* arrives late never replaces that of a later holder (semantic.rs,
\* testament.rs, and their scripts).
THEOREM WillsAndLeasesHold ==
  ASSUME WillTtls \subseteq Nat
  PROVE  Will!Spec => []Will!LeaseOwnsKey /\ Will!WillsFollowGrants
  <1>1. WillInv => Will!LeaseOwnsKey
    BY DEF WillInv, Will!LeaseOwnsKey
  <1>2. WillInv /\ [Will!Next]_(Will!vars)
          => [will # None /\ will' # None /\ will' # will => grant[will'] > grant[will]]_(Will!vars)
    <2> SUFFICES ASSUME WillInv, Will!Next, will # None, will' # None, will' # will
                 PROVE  grant[will'] > grant[will]
      OBVIOUS
    <2>1. PICK t \in Tokens : Will!WillSet(t)
      BY DEF Will!Next, Will!Tick, Will!ChangeData, Will!Step, Will!Acquire, Will!TryLock,
             Will!Take, Will!SetTestament, Will!Refused, Will!Release, Will!Released,
             Will!ClearTestament, Will!WillDel, Will!WillFails, Will!willVars
    <2>2. will' = t /\ holder = t
      BY <2>1 DEF Will!WillSet
    <2>3. /\ will \in Tokens /\ fence \in Nat /\ grant[t] \in Nat /\ grant[will] \in Nat
          /\ t # None
      BY <2>1, LeasesAssumption, LengthsAssumption DEF WillInv, Will!TypeOK, Will!LeasesTypeOK
    <2>4. grant[t] = fence /\ grant[will] <= fence /\ grant[will] # grant[t]
      BY <2>2, <2>3 DEF WillInv
    <2>. QED
      BY <2>2, <2>3, <2>4
  <1>. QED
    BY <1>1, <1>2, WillInvariant, PTL DEF Will!Spec, Will!WillsFollowGrants

------------------------------------------------------------------------------
(* Reentrant. *)

\* The lease of a hold follows its handle; one that runs is counted, by a hash
\* that lives at least as long, unless its owner misused a handle.
HoldInv(t) ==
  /\ phase[t] # "live" => left[t] = 0
  /\ phase[t] = "fresh" => t \notin counted
  /\ \A x \in Lengths : left[t] <= x
  /\ left[t] > 0 /\ ownerOf[t] \notin spoilt => t \in counted /\ left[t] <= hash.ttl

\* The count stands for the handles in `counted`, all of them of its owner.
CountInv ==
  /\ IsFiniteSet(counted)
  /\ \A t \in counted : ownerOf[t] = hash.owner /\ hash.owner # None
  /\ hash.owner = None => hash.count = 0
  /\ hash.owner \notin spoilt => hash.count = Cardinality(counted)

ReInv == Re!TypeOK /\ CountInv /\ \A t \in Tokens : HoldInv(t)

\* The instance counts the way FiniteSets does.
LEMMA ReCounts == ASSUME NEW S PROVE Re!Cardinality(S) = Cardinality(S)
  BY DEF Re!Cardinality, Cardinality

\* The hash with another count and another expiry.
LEMMA HashUpdate ==
  ASSUME NEW O, NEW h \in [owner : O, count : Nat, ttl : Nat], NEW n \in Nat, NEW y \in Nat
  PROVE  [h EXCEPT !.count = n, !.ttl = y] \in [owner : O, count : Nat, ttl : Nat]
  OBVIOUS

\* Every step keeps the types.
LEMMA ReTypeStep ==
  ASSUME Re!TypeOK, [Re!Next]_(Re!vars)
  PROVE  Re!TypeOK'
  <1> USE LeasesAssumption, LengthsAssumption
      DEF Re!TypeOK, Re!LeasesTypeOK, Re!Phases, Re!Ending, Re!reentrant, Re!Absent, Re!Covers,
          Re!Spoils
  <1>n. Lengths \cup {0} \subseteq Nat
    OBVIOUS
  <1>1. CASE UNCHANGED Re!vars
    BY <1>1 DEF Re!vars, Re!leaseVars
  <1>2. CASE Re!Tick
    BY <1>2 DEF Re!Tick, Re!LeasesTick, Re!Less
  <1>3. ASSUME NEW t \in Tokens, Re!Step(t) PROVE Re!TypeOK'
    <2>1. ASSUME NEW x \in Lengths, NEW o \in Owners, Re!TryLock(t, o, x) PROVE Re!TypeOK'
      BY <2>1 DEF Re!TryLock, Re!Granted
    <2>2. ASSUME NEW x \in Lengths, Re!Extend(t, x) PROVE Re!TypeOK'
      BY <2>2 DEF Re!Extend, Re!AskExtend
    <2>3. CASE Re!TryLockFor(t) \/ Re!ReleaseLost(t) \/ Re!ExtendLost(t)
      BY <2>3 DEF Re!TryLockFor, Re!ReleaseLost, Re!ExtendLost, Re!Abandoned, Re!Ended,
                  Re!ExtendFails
    <2>7. CASE Re!ReleaseOne(t) \/ Re!ReleaseAll(t) \/ Re!Drop(t)
      <3>1. /\ UNCHANGED <<hash, ownerOf, counted, spoilt, lease, asked, fence>>
            /\ left' = [left EXCEPT ![t] = 0]
            /\ \E how \in Re!Ending : phase' = [phase EXCEPT ![t] = how]
        BY <2>7 DEF Re!ReleaseOne, Re!ReleaseAll, Re!Drop, Re!MarkGone
      <3>. QED
        BY <3>1
    <2>4. CASE Re!OneReleased(t)
      <3>1. ASSUME NEW x \in Nat
            PROVE  Re!Decrement(t, x) \in [owner : Owners \cup {None}, count : Nat, ttl : Nat]
        <4>1. CASE ~ Re!Owns(t) \/ hash.count <= 1
          BY <4>1 DEF Re!Decrement
        <4>2. CASE ~ (~ Re!Owns(t) \/ hash.count <= 1)
          <5>1. PICK y \in Nat :
                  Re!Decrement(t, x) = [hash EXCEPT !.count = hash.count - 1, !.ttl = y]
            BY <3>1, <4>2 DEF Re!Decrement
          <5>2. hash.count - 1 \in Nat
            BY <4>2
          <5>. QED
            BY <5>1, <5>2, HashUpdate
        <4>. QED
          BY <4>1, <4>2
      <3>2. hash' \in [owner : Owners \cup {None}, count : Nat, ttl : Nat]
        BY <1>n, <2>4, <3>1 DEF Re!OneReleased
      <3>3. counted' \subseteq Tokens /\ spoilt' \subseteq Owners
        BY <2>4 DEF Re!OneReleased, Re!Owns
      <3>. QED
        BY <2>4, <3>2, <3>3 DEF Re!OneReleased, Re!Ended
    <2>5. CASE Re!AllReleased(t)
      BY <2>5 DEF Re!AllReleased, Re!Ended, Re!Owns
    <2>6. CASE Re!ExtendRuns(t)
      <3>1. asked[t] \in Nat
        BY <1>n
      <3>2. hash' \in [owner : Owners \cup {None}, count : Nat, ttl : Nat]
        BY <2>6, <3>1 DEF Re!ExtendRuns
      <3>3. counted' \subseteq Tokens /\ spoilt' \subseteq Owners
        BY <2>6 DEF Re!ExtendRuns, Re!Owns
      <3>4. left' \in [Tokens -> Nat] /\ phase' \in [Tokens -> Re!Phases]
        BY <2>6, <3>1 DEF Re!ExtendRuns, Re!Extended
      <3>. QED
        BY <2>6, <3>2, <3>3, <3>4 DEF Re!ExtendRuns, Re!Extended
    <2>. QED
      BY <1>3, <2>1, <2>2, <2>3, <2>4, <2>5, <2>6, <2>7 DEF Re!Step
  <1>. QED
    BY <1>1, <1>2, <1>3 DEF Re!Next

\* What a release of one hold does to the hash.
LEMMA DecrementCases ==
  ASSUME Re!TypeOK, NEW u \in Tokens, Re!OneReleased(u)
  PROVE  /\ phase[u] \in {"releasing", "dropping"}
         /\ phase' = [phase EXCEPT ![u] = "gone"] /\ left' = left /\ ownerOf' = ownerOf
         /\ spoilt \subseteq spoilt'
         /\ Re!Owns(u) /\ u \notin counted => ownerOf[u] \in spoilt'
         /\ \/ /\ ~ Re!Owns(u) /\ hash' = hash
               /\ counted' = IF hash.owner = None THEN {} ELSE counted \ {u}
            \/ Re!Owns(u) /\ hash.count <= 1 /\ hash' = Re!Absent /\ counted' = {}
            \/ /\ Re!Owns(u) /\ hash.count > 1 /\ counted' = counted \ {u}
               /\ hash'.owner = hash.owner /\ hash'.count = hash.count - 1
               /\ hash'.ttl = hash.ttl \/ (hash'.ttl = lease[u] /\ lease[u] > 0)
  <1>t. /\ hash \in [owner : Owners \cup {None}, count : Nat, ttl : Nat]
        /\ lease[u] \in Nat /\ spoilt \subseteq Owners
    <2>1. Lengths \cup {0} \subseteq Nat
      BY LeasesAssumption, LengthsAssumption
    <2>. QED
      BY <2>1 DEF Re!TypeOK, Re!LeasesTypeOK
  <1>1. /\ phase[u] \in {"releasing", "dropping"}
        /\ phase' = [phase EXCEPT ![u] = "gone"] /\ left' = left /\ ownerOf' = ownerOf
        /\ spoilt' = IF Re!Owns(u) /\ u \notin counted THEN spoilt \cup {ownerOf[u]} ELSE spoilt
        /\ counted' = IF hash'.owner = None THEN {} ELSE counted \ {u}
    BY DEF Re!OneReleased, Re!Ended, Re!Spoils, Re!Covers
  <1>2. PICK y \in Nat : (y = 0 \/ y = lease[u]) /\ hash' = Re!Decrement(u, y)
    BY <1>t DEF Re!OneReleased
  <1>3. CASE ~ Re!Owns(u)
    BY <1>1, <1>2, <1>3 DEF Re!Decrement
  <1>4. CASE Re!Owns(u) /\ hash.count <= 1
    BY <1>1, <1>2, <1>4 DEF Re!Decrement, Re!Absent
  <1>5. CASE Re!Owns(u) /\ ~ (hash.count <= 1)
    <2>1. hash' = [hash EXCEPT !.count = hash.count - 1, !.ttl = IF y > 0 THEN y ELSE hash.ttl]
      BY <1>2, <1>5 DEF Re!Decrement
    <2>2. /\ hash'.owner = hash.owner /\ hash'.count = hash.count - 1
          /\ hash'.ttl = hash.ttl \/ (hash'.ttl = lease[u] /\ lease[u] > 0)
      BY <1>t, <1>2, <2>1
    <2>3. hash.owner # None /\ hash.count > 1
      BY <1>t, <1>5 DEF Re!Owns
    <2>. QED
      BY <1>1, <1>5, <2>2, <2>3
  <1>. QED
    BY <1>3, <1>4, <1>5

\* Every step keeps the count equal to the handles that it stands for.
LEMMA ReCountStep ==
  ASSUME None \notin Owners, ReInv, [Re!Next]_(Re!vars)
  PROVE  CountInv'
  <1>t. /\ Re!TypeOK /\ CountInv /\ spoilt \subseteq Owners /\ hash.count \in Nat
        /\ ownerOf \in [Tokens -> Owners \cup {None}] /\ counted \subseteq Tokens
        /\ hash.owner \in Owners \cup {None} /\ hash.ttl \in Nat
    BY DEF ReInv, Re!TypeOK
  <1>c. Cardinality(counted) \in Nat
    BY <1>t, FS_CardinalityType DEF CountInv
  <1>a. ASSUME hash' = Re!Absent, counted' = {} PROVE CountInv'
    BY <1>a, FS_EmptySet DEF CountInv, Re!Absent
  <1>e. hash.owner = None => counted = {}
    BY <1>t DEF CountInv
  <1>s. ASSUME hash'.owner = hash.owner, hash'.count = hash.count, ownerOf' = ownerOf,
               counted' = counted, spoilt \subseteq spoilt'
        PROVE  CountInv'
    BY <1>s, <1>t DEF CountInv
  <1> USE DEF Re!reentrant
  <1>1. CASE UNCHANGED Re!vars
    BY <1>1, <1>s DEF Re!vars
  <1>2. CASE Re!Tick
    <2>1. CASE hash.ttl <= 1
      BY <1>2, <1>a, <2>1 DEF Re!Tick, Re!Covers, Re!Absent
    <2>2. CASE ~(hash.ttl <= 1)
      <3>1. hash' = [hash EXCEPT !.ttl = hash.ttl - 1]
        BY <1>2, <2>2 DEF Re!Tick
      <3>2. hash'.owner = hash.owner /\ hash'.count = hash.count
        BY <1>t, <3>1 DEF Re!TypeOK
      <3>3. counted' = counted /\ ownerOf' = ownerOf /\ spoilt' = spoilt
        BY <1>2, <1>e, <3>2 DEF Re!Tick, Re!Covers
      <3>. QED
        BY <1>s, <3>2, <3>3
    <2>. QED
      BY <2>1, <2>2
  <1>3. ASSUME NEW u \in Tokens, Re!Step(u) PROVE CountInv'
    <2>1. ASSUME NEW x \in Lengths, NEW o \in Owners, Re!TryLock(u, o, x) PROVE CountInv'
      <3>1. /\ hash.owner \in {None, o} /\ spoilt' = spoilt
            /\ hash' = [owner |-> o, count |-> hash.count + 1, ttl |-> x]
            /\ ownerOf' = [ownerOf EXCEPT ![u] = o]
            /\ counted' = IF hash'.owner = None THEN {} ELSE counted \cup {u}
            /\ phase[u] = "fresh"
        BY <2>1 DEF Re!TryLock, Re!Covers
      <3>2. o # None /\ counted' = counted \cup {u} /\ u \notin counted
        BY <3>1 DEF ReInv, HoldInv
      <3>3. IsFiniteSet(counted') /\ Cardinality(counted') = Cardinality(counted) + 1
        BY <1>t, <3>2, FS_AddElement DEF CountInv
      <3>4. \A t \in counted' : ownerOf'[t] = o
        BY <1>t, <3>1, <3>2 DEF CountInv
      <3>5. o \notin spoilt => hash.count = Cardinality(counted)
        BY <1>t, <3>1 DEF CountInv
      <3>. QED
        BY <3>1, <3>2, <3>3, <3>4, <3>5 DEF CountInv
    <2>2. ASSUME NEW x \in Lengths, Re!Extend(u, x) PROVE CountInv'
      BY <1>s, <2>2 DEF Re!Extend
    <2>3. CASE \/ Re!TryLockFor(u) \/ Re!ReleaseOne(u) \/ Re!ReleaseAll(u) \/ Re!Drop(u)
               \/ Re!ReleaseLost(u) \/ Re!ExtendLost(u)
      BY <1>s, <2>3 DEF Re!TryLockFor, Re!ReleaseOne, Re!ReleaseAll, Re!Drop,
                        Re!ReleaseLost, Re!ExtendLost
    <2>4. CASE Re!OneReleased(u)
      <3>1. CASE /\ ~ Re!Owns(u) /\ hash' = hash
                 /\ counted' = IF hash.owner = None THEN {} ELSE counted \ {u}
        <4>1. u \notin counted
          BY <1>t, <3>1 DEF CountInv, Re!Owns
        <4>2. counted' = counted
          BY <1>e, <3>1, <4>1
        <4>. QED
          BY <1>s, <1>t, <2>4, <3>1, <4>2, DecrementCases
      <3>2. CASE hash' = Re!Absent /\ counted' = {}
        BY <1>a, <3>2
      <3>3. CASE /\ Re!Owns(u) /\ hash.count > 1 /\ counted' = counted \ {u}
                 /\ hash'.owner = hash.owner /\ hash'.count = hash.count - 1
        <4>1. /\ ownerOf' = ownerOf /\ spoilt \subseteq spoilt'
              /\ u \notin counted => ownerOf[u] \in spoilt'
          BY <1>t, <2>4, <3>3, DecrementCases
        <4>2. IsFiniteSet(counted \ {u})
          BY <1>t, FS_RemoveElement DEF CountInv
        <4>3. u \in counted => Cardinality(counted \ {u}) = Cardinality(counted) - 1
          BY <1>t, FS_RemoveElement DEF CountInv
        <4>4. ownerOf[u] = hash.owner /\ hash.owner # None
          BY <3>3 DEF Re!Owns
        <4>. QED
          BY <1>t, <3>3, <4>1, <4>2, <4>3, <4>4 DEF CountInv
      <3>. QED
        BY <1>t, <2>4, <3>1, <3>2, <3>3, DecrementCases
    <2>5. CASE Re!AllReleased(u)
      <3>1. CASE Re!Owns(u)
        BY <1>a, <2>5, <3>1 DEF Re!AllReleased, Re!Covers, Re!Absent
      <3>2. CASE ~ Re!Owns(u)
        BY <1>e, <1>s, <2>5, <3>2 DEF Re!AllReleased, Re!Covers, Re!Spoils
      <3>. QED
        BY <3>1, <3>2
    <2>6. CASE Re!ExtendRuns(u)
      <3>1. hash'.owner = hash.owner /\ hash'.count = hash.count
        BY <1>t, <2>6 DEF Re!ExtendRuns, Re!TypeOK
      <3>2. ownerOf' = ownerOf /\ counted' = counted /\ spoilt \subseteq spoilt'
        BY <2>6 DEF Re!ExtendRuns, Re!Spoils
      <3>. QED
        BY <1>s, <3>1, <3>2
    <2>. QED
      BY <1>3, <2>1, <2>2, <2>3, <2>4, <2>5, <2>6 DEF Re!Step
  <1>. QED
    BY <1>1, <1>2, <1>3 DEF Re!Next

\* Every step keeps the running holds counted, when all leases are of one length.
LEMMA HoldStep ==
  ASSUME None \notin Owners, NEW x, Lengths = {x}, ReInv, [Re!Next]_(Re!vars), NEW t \in Tokens
  PROVE  HoldInv(t)'
  <1>t. /\ Re!TypeOK /\ CountInv /\ spoilt \subseteq Owners /\ hash.count \in Nat
        /\ ownerOf \in [Tokens -> Owners \cup {None}] /\ counted \subseteq Tokens
        /\ hash.owner \in Owners \cup {None} /\ hash.ttl \in Nat
        /\ hash \in [owner : Owners \cup {None}, count : Nat, ttl : Nat]
    BY DEF ReInv, Re!TypeOK
  <1>y. /\ phase \in [Tokens -> Re!Phases] /\ left \in [Tokens -> Nat] /\ x \in Nat /\ x > 0
        /\ asked \in [Tokens -> {x, 0}] /\ lease \in [Tokens -> {x, 0}]
    BY <1>t, LeasesAssumption, LengthsAssumption DEF Re!TypeOK, Re!LeasesTypeOK
  <1>l. /\ phase[t] # "live" => left[t] = 0
        /\ phase[t] = "fresh" => t \notin counted
        /\ left[t] <= x /\ left[t] \in Nat
        /\ left[t] > 0 /\ ownerOf[t] \notin spoilt => t \in counted /\ left[t] <= hash.ttl
    BY <1>y DEF ReInv, HoldInv
  <1>o. ASSUME NEW s \in counted PROVE ownerOf[s] = hash.owner /\ hash.owner # None
    BY <1>t DEF CountInv
  <1>g. ASSUME phase'[t] # "live" => left'[t] = 0,
               phase'[t] = "fresh" => t \notin counted', left'[t] <= x,
               left'[t] > 0 /\ ownerOf'[t] \notin spoilt'
                 => t \in counted' /\ left'[t] <= hash'.ttl
        PROVE  HoldInv(t)'
    BY <1>g DEF HoldInv
  <1>s. ASSUME phase'[t] = phase[t] \/ (phase'[t] \notin {"live", "fresh"} /\ phase[t] # "live"),
               left' = left,
               UNCHANGED <<hash, ownerOf, counted, spoilt>>
        PROVE  HoldInv(t)'
    BY <1>s, <1>g, <1>l
  <1> USE DEF Re!reentrant
  <1>1. CASE UNCHANGED Re!vars
    BY <1>1, <1>s DEF Re!vars, Re!leaseVars
  <1>2. CASE Re!Tick
    <2>1. /\ phase' = phase /\ left'[t] = Re!Less(left[t]) /\ ownerOf' = ownerOf
          /\ spoilt' = spoilt
          /\ hash' = IF hash.ttl <= 1 THEN Re!Absent ELSE [hash EXCEPT !.ttl = hash.ttl - 1]
          /\ counted' = IF hash'.owner = None THEN {} ELSE counted
      BY <1>2, <1>y DEF Re!Tick, Re!LeasesTick, Re!Covers
    <2>2. left'[t] <= left[t] /\ (left'[t] > 0 => left[t] > 1 /\ left'[t] = left[t] - 1)
      BY <1>l, <2>1 DEF Re!Less
    <2>3. ASSUME left'[t] > 0, ownerOf'[t] \notin spoilt'
          PROVE  t \in counted' /\ left'[t] <= hash'.ttl
      <3>1. t \in counted /\ left[t] <= hash.ttl /\ left[t] > 1
        BY <1>l, <2>1, <2>2, <2>3
      <3>2. hash' = [hash EXCEPT !.ttl = hash.ttl - 1]
        BY <1>l, <1>t, <2>1, <3>1
      <3>3. hash'.owner = hash.owner /\ hash'.ttl = hash.ttl - 1
        BY <1>t, <3>2
      <3>. QED
        BY <1>l, <1>o, <1>t, <2>1, <2>2, <2>3, <3>1, <3>3
    <2>4. left'[t] <= x /\ left'[t] \in Nat
      BY <1>l, <1>y, <2>1 DEF Re!Less
    <2>5. phase'[t] # "live" => left'[t] = 0
      BY <1>l, <2>1, <2>2, <2>4
    <2>. QED
      BY <1>g, <1>l, <2>1, <2>3, <2>4, <2>5
  <1>3. ASSUME NEW u \in Tokens, Re!Step(u) PROVE HoldInv(t)'
    <2>1. ASSUME NEW o \in Owners, Re!TryLock(u, o, x) PROVE HoldInv(t)'
      <3>1. /\ hash'.ttl = x /\ spoilt' = spoilt /\ hash'.owner = o
            /\ ownerOf' = [ownerOf EXCEPT ![u] = o]
            /\ counted' = IF hash'.owner = None THEN {} ELSE counted \cup {u}
            /\ phase[u] = "fresh"
        BY <2>1 DEF Re!TryLock, Re!Covers
      <3>2. counted' = counted \cup {u}
        BY <3>1
      <3>3. CASE t = u
        <4>1. \/ phase'[t] = "live" /\ left'[t] = x
              \/ phase'[t] = "gone" /\ left'[t] = 0
          BY <1>l, <1>y, <2>1, <3>1, <3>3 DEF Re!TryLock, Re!Granted
        <4>. QED
          BY <1>g, <1>y, <3>1, <3>2, <3>3, <4>1
      <3>4. CASE t # u
        <4>1. phase'[t] = phase[t] /\ left'[t] = left[t] /\ ownerOf'[t] = ownerOf[t]
          BY <1>t, <1>y, <2>1, <3>1, <3>4 DEF Re!TryLock, Re!Granted
        <4>. QED
          BY <1>g, <1>l, <3>1, <3>2, <3>4, <4>1
      <3>. QED
        BY <3>3, <3>4
    <2>2. CASE Re!Extend(u, x) \/ Re!ExtendLost(u)
      BY <1>s, <2>2 DEF Re!Extend, Re!ExtendLost, Re!AskExtend, Re!ExtendFails
    <2>3. CASE Re!TryLockFor(u) \/ Re!ReleaseLost(u)
      <3>1. /\ phase[u] # "live" /\ phase' = [phase EXCEPT ![u] = "gone"] /\ left' = left
            /\ UNCHANGED <<hash, ownerOf, counted, spoilt>>
        BY <2>3 DEF Re!TryLockFor, Re!ReleaseLost, Re!Abandoned, Re!Ended, Re!Ending
      <3>2. phase'[t] = phase[t] \/ (phase'[t] \notin {"live", "fresh"} /\ phase[t] # "live")
        BY <1>y, <3>1
      <3>. QED
        BY <1>s, <3>1, <3>2
    <2>4. CASE Re!ReleaseOne(u) \/ Re!ReleaseAll(u) \/ Re!Drop(u)
      <3>1. /\ \/ phase'[t] = phase[t] /\ left'[t] = left[t]
               \/ phase'[t] # "fresh" /\ left'[t] = 0
            /\ UNCHANGED <<hash, ownerOf, counted, spoilt>>
        BY <1>y, <2>4 DEF Re!ReleaseOne, Re!ReleaseAll, Re!Drop, Re!MarkGone
      <3>. QED
        BY <1>g, <1>l, <1>y, <3>1
    <2>5. CASE Re!OneReleased(u)
      <3>1. /\ phase[u] \in {"releasing", "dropping"}
            /\ phase' = [phase EXCEPT ![u] = "gone"] /\ left' = left /\ ownerOf' = ownerOf
            /\ spoilt \subseteq spoilt'
            /\ Re!Owns(u) /\ u \notin counted => ownerOf[u] \in spoilt'
            /\ counted' \subseteq counted
        BY <1>t, <2>5, DecrementCases
      <3>2. phase'[t] # "live" => left'[t] = 0
        BY <1>l, <1>y, <3>1
      <3>3. phase'[t] = "fresh" => t \notin counted'
        BY <1>l, <1>y, <3>1
      <3>4. ASSUME left[t] > 0, ownerOf[t] \notin spoilt'
            PROVE  t \in counted' /\ left[t] <= hash'.ttl
        <4>1. t # u /\ t \in counted /\ left[t] <= hash.ttl /\ ownerOf[t] = hash.owner
          BY <1>l, <1>o, <3>1, <3>4
        <4>2. CASE ~ Re!Owns(u)
          BY <1>o, <1>t, <2>5, <4>1, <4>2, DecrementCases
        <4>3. CASE Re!Owns(u)
          <5>1. u \in counted /\ hash.owner \notin spoilt
            BY <3>1, <3>4, <4>1, <4>3 DEF Re!Owns
          <5>2. hash.count = Cardinality(counted) /\ IsFiniteSet(counted)
            BY <1>t, <5>1 DEF CountInv
          <5>3. hash.count > 1
            <6>1. hash.count # 0
              BY <5>1, <5>2, FS_EmptySet
            <6>2. hash.count # 1
              <7> SUFFICES ASSUME hash.count = 1 PROVE FALSE
                OBVIOUS
              <7>1. PICK s : counted = {s}
                BY <5>2, FS_Singleton
              <7>. QED
                BY <4>1, <5>1, <7>1
            <6>. QED
              BY <1>t, <6>1, <6>2
          <5>4. /\ counted' = counted \ {u}
                /\ hash'.ttl = hash.ttl \/ (hash'.ttl = lease[u] /\ lease[u] > 0)
            BY <1>t, <2>5, <4>3, <5>3, DecrementCases
          <5>5. lease[u] > 0 => lease[u] = x
            BY <1>y
          <5>. QED
            BY <1>l, <4>1, <5>4, <5>5
        <4>. QED
          BY <4>2, <4>3
      <3>. QED
        BY <1>g, <1>l, <3>1, <3>2, <3>3, <3>4
    <2>6. CASE Re!AllReleased(u)
      <3>1. /\ phase[u] = "clearing" /\ phase' = [phase EXCEPT ![u] = "gone"]
            /\ left' = left /\ ownerOf' = ownerOf
            /\ counted' = IF hash'.owner = None THEN {} ELSE counted
            /\ spoilt' = IF Re!Owns(u) /\ counted # {u} THEN spoilt \cup {ownerOf[u]} ELSE spoilt
            /\ ~ Re!Owns(u) => hash' = hash
        BY <2>6 DEF Re!AllReleased, Re!Ended, Re!Covers, Re!Spoils
      <3>2. phase'[t] # "live" => left'[t] = 0
        BY <1>l, <1>y, <3>1
      <3>3. phase'[t] = "fresh" => t \notin counted'
        BY <1>l, <1>y, <3>1
      <3>4. ASSUME left[t] > 0, ownerOf[t] \notin spoilt'
            PROVE  t \in counted' /\ left[t] <= hash'.ttl
        <4>1. t # u /\ t \in counted /\ left[t] <= hash.ttl
          BY <1>l, <3>1, <3>4
        <4>2. ownerOf[t] = hash.owner /\ hash.owner # None
          BY <1>o, <4>1
        <4>3. ~ Re!Owns(u)
          BY <3>1, <3>4, <4>1, <4>2 DEF Re!Owns
        <4>. QED
          BY <3>1, <4>1, <4>2, <4>3
      <3>. QED
        BY <1>g, <1>l, <3>1, <3>2, <3>3, <3>4
    <2>7. CASE Re!ExtendRuns(u)
      <3>1. /\ asked[u] = x /\ ownerOf' = ownerOf /\ counted' = counted
            /\ hash' = IF Re!Owns(u) THEN [hash EXCEPT !.ttl = x] ELSE hash
            /\ spoilt' = IF Re!Owns(u) /\ u \notin counted THEN spoilt \cup {ownerOf[u]} ELSE spoilt
        BY <1>y, <2>7 DEF Re!ExtendRuns, Re!Spoils
      <3>2. (Re!Owns(u) => hash'.ttl = x) /\ (~ Re!Owns(u) => hash' = hash)
        BY <1>t, <3>1
      <3>3. CASE t = u
        <4>1. \/ phase'[t] = "live" /\ left'[t] = x /\ Re!Owns(u)
              \/ phase'[t] # "live" /\ left'[t] = 0
          BY <1>l, <1>y, <2>7, <3>1, <3>3 DEF Re!ExtendRuns, Re!Extended
        <4>2. phase'[t] = "fresh" => phase[t] = "fresh"
          BY <1>y, <2>7, <3>3 DEF Re!ExtendRuns, Re!Extended
        <4>. QED
          BY <1>g, <1>l, <1>y, <3>1, <3>2, <3>3, <4>1, <4>2
      <3>4. CASE t # u
        <4>1. phase'[t] = phase[t] /\ left'[t] = left[t]
          BY <1>y, <2>7, <3>4 DEF Re!ExtendRuns, Re!Extended
        <4>. QED
          BY <1>g, <1>l, <3>1, <3>2, <4>1
      <3>. QED
        BY <3>3, <3>4
    <2>. QED
      BY <1>3, <2>1, <2>2, <2>3, <2>4, <2>5, <2>6, <2>7 DEF Re!Step
  <1>. QED
    BY <1>1, <1>2, <1>3 DEF Re!Next

\* A hold whose lease runs is counted, so that no other owner is admitted next
\* to it, whatever former owners do late (reentrant_*.lua); with leases of one
\* length, and owners that use a handle for the hold it stands for.
THEOREM CountCoversHoldsHolds ==
  ASSUME None \notin Owners, NEW x, Lengths = {x}
  PROVE  Re!Spec => []Re!CountCoversHolds
  <1>1. Re!Init => ReInv
    <2> SUFFICES ASSUME Re!Init PROVE ReInv
      OBVIOUS
    <2>1. Re!TypeOK
      BY DEF Re!Init, Re!LeasesInit, Re!TypeOK, Re!LeasesTypeOK, Re!Phases, Re!Absent
    <2>2. CountInv
      BY FS_EmptySet DEF Re!Init, Re!Absent, CountInv
    <2>3. \A t \in Tokens : HoldInv(t)
      BY LeasesAssumption, LengthsAssumption DEF Re!Init, Re!LeasesInit, HoldInv
    <2>. QED
      BY <2>1, <2>2, <2>3 DEF ReInv
  <1>2. ReInv /\ [Re!Next]_(Re!vars) => ReInv'
    <2> SUFFICES ASSUME ReInv, [Re!Next]_(Re!vars) PROVE ReInv'
      OBVIOUS
    <2>1. Re!TypeOK'
      BY ReTypeStep DEF ReInv
    <2>2. \A t \in Tokens : HoldInv(t)'
      BY HoldStep
    <2>. QED
      BY <2>1, <2>2, ReCountStep DEF ReInv
  <1>3. ReInv => Re!CountCoversHolds
    <2> SUFFICES ASSUME ReInv, NEW o \in Owners, o \notin spoilt,
                        {t \in Tokens : ownerOf[t] = o /\ left[t] > 0} # {}
                 PROVE  /\ hash.owner = o
                        /\ hash.count >=
                             Re!Cardinality({t \in Tokens : ownerOf[t] = o /\ left[t] > 0})
      BY DEF Re!CountCoversHolds
    <2> DEFINE H == {t \in Tokens : ownerOf[t] = o /\ left[t] > 0}
    <2>1. H \in SUBSET counted
      BY DEF ReInv, HoldInv
    <2>2. hash.owner = o /\ IsFiniteSet(counted) /\ hash.count = Cardinality(counted)
      BY <2>1 DEF ReInv, CountInv
    <2> HIDE DEF H
    <2>3. IsFiniteSet(H) /\ Cardinality(H) <= Cardinality(counted)
      BY <2>1, <2>2, FS_Subset
    <2>4. Cardinality(H) \in Nat /\ Cardinality(counted) \in Nat
      BY <2>2, <2>3, FS_CardinalityType
    <2>5. hash.count >= Cardinality(H)
      BY <2>2, <2>3, <2>4
    <2>. QED
      BY <2>2, <2>5, ReCounts DEF H
  <1>. QED
    BY <1>1, <1>2, <1>3, PTL DEF Re!Spec

------------------------------------------------------------------------------
(* Fair lock. *)

\* A token waits at one place only.
QueuedOnce == \A i, j \in 1..Len(queue) : queue[i] = queue[j] => i = j

\* The oldest waiter with a heartbeat is well defined.
LEMMA OldestWaiter ==
  ASSUME queue \in Seq(Tokens), Fair!LiveWaiters # {}
  PROVE  LET i == CHOOSE i \in Fair!LiveWaiters : \A j \in Fair!LiveWaiters : i <= j
         IN  /\ i \in Fair!LiveWaiters /\ i \in 1..Len(queue)
             /\ \A j \in Fair!LiveWaiters : i <= j
  <1>1. Fair!LiveWaiters \subseteq 1..Len(queue) /\ Fair!LiveWaiters \subseteq Nat
    BY DEF Fair!LiveWaiters
  <1>2. PICK n \in Fair!LiveWaiters : \A j \in Fair!LiveWaiters : n <= j
    BY <1>1, NatLeast
  <1> QED BY <1>1, <1>2

\* The part of the state that the queue's promise is about.
FairInv ==
  /\ queue \in Seq(Tokens) /\ QueuedOnce

\* Every step leaves the queue as it is, appends a token that does not wait yet,
\* pops the oldest tokens, or forgets the queue.
LEMMA QueueSteps ==
  ASSUME FairInv, [Fair!Next]_(Fair!vars)
  PROVE  \/ queue' = queue \/ queue' = <<>>
         \/ \E t \in Tokens : queue' = Append(queue, t) /\ \A i \in 1..Len(queue) : queue[i] # t
         \/ \E i \in 1..Len(queue) : queue' = SubSeq(queue, i + 1, Len(queue))
  <1> DEFINE Goal == \/ queue' = queue \/ queue' = <<>>
                     \/ \E t \in Tokens : /\ queue' = Append(queue, t)
                                          /\ \A i \in 1..Len(queue) : queue[i] # t
                     \/ \E i \in 1..Len(queue) : queue' = SubSeq(queue, i + 1, Len(queue))
  <1> SUFFICES Goal
    OBVIOUS
  <1>1. CASE UNCHANGED Fair!vars \/ Fair!Tick
    BY <1>1 DEF Fair!vars, Fair!fair, Fair!Tick
  <1>2. ASSUME NEW t \in Tokens, Fair!Step(t) PROVE Goal
    <2>1. ASSUME NEW x \in Lengths, Fair!PollQueued(t, x) PROVE Goal
      <3>1. queue' = IF Fair!Contains(queue, t) THEN queue ELSE Append(queue, t)
        BY <2>1 DEF Fair!PollQueued
      <3>2. ~ Fair!Contains(queue, t) => \A i \in 1..Len(queue) : queue[i] # t
        BY DEF Fair!Contains
      <3> QED BY <3>1, <3>2
    <2>2. CASE Fair!Released(t)
      <3>1. CASE lock = t /\ Fair!LiveWaiters # {}
        <4> DEFINE i == CHOOSE i \in Fair!LiveWaiters : \A j \in Fair!LiveWaiters : i <= j
        <4>1. queue' = SubSeq(queue, i + 1, Len(queue))
          BY <2>2, <3>1 DEF Fair!Released, Fair!Handoff
        <4>2. i \in 1..Len(queue)
          BY <3>1, OldestWaiter DEF FairInv
        <4> HIDE DEF i
        <4> QED BY <4>1, <4>2
      <3>2. CASE ~ (lock = t /\ Fair!LiveWaiters # {})
        BY <2>2, <3>2 DEF Fair!Released, Fair!Handoff
      <3> QED BY <3>1, <3>2
    <2>3. CASE UNCHANGED queue
      BY <2>3
    <2> QED BY <1>2, <2>1, <2>2, <2>3 DEF Fair!Step, Fair!Poll, Fair!PollGranted, Fair!PollError,
               Fair!TryLockFor, Fair!Release, Fair!Drop, Fair!Dropped, Fair!ReleaseLost,
               Fair!ExtendRuns, Fair!Extend, Fair!fair
  <1> HIDE DEF Goal
  <1> QED BY <1>1, <1>2 DEF Fair!Next

\* So nobody waits twice.
LEMMA FairStep == ASSUME FairInv, [Fair!Next]_(Fair!vars) PROVE FairInv'
  <1> USE DEF FairInv, QueuedOnce
  <1>0. CASE queue' = queue
    BY <1>0
  <1>1. CASE queue' = <<>>
    <2>1. Len(queue') = 0 /\ queue' \in Seq(Tokens)
      BY <1>1
    <2> QED BY <2>1
  <1>2. ASSUME NEW t \in Tokens, queue' = Append(queue, t), \A i \in 1..Len(queue) : queue[i] # t
        PROVE  FairInv'
    <2>1. /\ queue' \in Seq(Tokens) /\ Len(queue') = Len(queue) + 1 /\ Len(queue) \in Nat
          /\ \A i \in 1..Len(queue') : queue'[i] = IF i = Len(queue) + 1 THEN t ELSE queue[i]
      BY <1>2
    <2> QED BY <1>2, <2>1
  <1>3. ASSUME NEW k \in 1..Len(queue), queue' = SubSeq(queue, k + 1, Len(queue))
        PROVE  FairInv'
    <2>1. /\ queue' \in Seq(Tokens) /\ Len(queue') = Len(queue) - k /\ Len(queue) \in Nat
          /\ \A i \in 1..Len(queue') : queue'[i] = queue[k + i]
      BY <1>3
    <2>2. \A i \in 1..Len(queue') : k + i \in 1..Len(queue)
      BY <2>1
    <2>3. ASSUME NEW i \in 1..Len(queue'), NEW j \in 1..Len(queue'), queue'[i] = queue'[j]
          PROVE  i = j
      <3>1. k + i = k + j
        BY <2>1, <2>2, <2>3
      <3> QED BY <3>1
    <2> QED BY <2>1, <2>3
  <1> QED BY <1>0, <1>1, <1>2, <1>3, QueueSteps

\* The key changes hands only to the oldest waiter with a heartbeat, or while
\* nobody waits.
LEMMA FairGrants ==
  ASSUME FairInv, [Fair!Next]_(Fair!vars), NEW t \in Tokens, lock' = t, lock # t
  PROVE  \/ queue = <<>>
         \/ \E i \in 1..Len(queue) : queue[i] = t /\ \A j \in Fair!LiveWaiters : i <= j
  <1> DEFINE Goal == \/ queue = <<>>
                     \/ \E i \in 1..Len(queue) :
                          queue[i] = t /\ \A j \in Fair!LiveWaiters : i <= j
  <1> SUFFICES Goal
    OBVIOUS
  <1>0. None \notin Tokens
    BY LeasesAssumption, LengthsAssumption
  <1>1. ~ UNCHANGED Fair!vars /\ ~ Fair!Tick
    BY <1>0 DEF Fair!vars, Fair!fair, Fair!Tick
  <1>2. ASSUME NEW u \in Tokens, Fair!Step(u) PROVE Goal
    <2>1. ASSUME NEW x \in Lengths, Fair!PollGranted(u, x) PROVE Goal
      BY <2>1 DEF Fair!PollGranted, Fair!Lock
    <2>2. CASE Fair!Released(u)
      <3>1. lock = u /\ Fair!LiveWaiters # {}
        BY <1>0, <2>2 DEF Fair!Released, Fair!Handoff
      <3> DEFINE i == CHOOSE i \in Fair!LiveWaiters : \A j \in Fair!LiveWaiters : i <= j
      <3>2. lock' = queue[i]
        BY <2>2, <3>1 DEF Fair!Released, Fair!Handoff, Fair!Lock
      <3>3. i \in 1..Len(queue) /\ \A j \in Fair!LiveWaiters : i <= j
        BY <3>1, OldestWaiter DEF FairInv
      <3> HIDE DEF i
      <3> QED BY <3>2, <3>3
    <2>3. CASE Fair!Dropped(u)
      BY <1>0, <2>3 DEF Fair!Dropped
    <2>4. ASSUME UNCHANGED lock PROVE Goal
      BY <2>4
    <2> QED BY <1>2, <2>1, <2>2, <2>3, <2>4 DEF Fair!Step, Fair!Poll, Fair!PollError,
               Fair!PollQueued, Fair!TryLockFor, Fair!Release, Fair!Drop, Fair!ReleaseLost,
               Fair!ExtendRuns, Fair!Extend, Fair!fair
  <1> HIDE DEF Goal
  <1> QED BY <1>1, <1>2 DEF Fair!Next

\* Nobody gets the key, by a grant or by a hand-over, past an earlier waiter with
\* a heartbeat (ADR 0018; fair_acquire.lua and fair_release.lua).
THEOREM NoBargingHolds == Fair!Spec => Fair!NoBarging
  <1>1. Fair!Init => FairInv
    BY DEF Fair!Init, FairInv, QueuedOnce
  <1>2. FairInv /\ [Fair!Next]_(Fair!vars) => FairInv'
    BY FairStep
  <1>3. FairInv /\ [Fair!Next]_(Fair!vars)
          => [\A t \in Tokens : lock' = t /\ lock # t =>
                \A i \in Fair!LiveWaiters : i >= Fair!Place(t)]_(Fair!vars)
    <2> SUFFICES ASSUME FairInv, [Fair!Next]_(Fair!vars), NEW t \in Tokens, lock' = t, lock # t,
                        NEW j \in Fair!LiveWaiters
                 PROVE  j >= Fair!Place(t)
      OBVIOUS
    <2>1. j \in 1..Len(queue) /\ Len(queue) \in Nat
      BY DEF Fair!LiveWaiters, FairInv
    <2>2. PICK i \in 1..Len(queue) : queue[i] = t /\ i <= j
      BY <2>1, FairGrants
    <2>3. Fair!Place(t) = i
      <3>1. Fair!Contains(queue, t)
        BY <2>2 DEF Fair!Contains
      <3>2. \A k \in 1..Len(queue) : queue[k] = t => k = i
        BY <2>2 DEF FairInv, QueuedOnce
      <3> QED BY <2>2, <3>1, <3>2 DEF Fair!Place
    <2> QED BY <2>1, <2>2, <2>3
  <1> QED BY <1>1, <1>2, <1>3, PTL DEF Fair!Spec, Fair!NoBarging

\* The lives of heartbeats, handed-over keys and queues are numbers.
FairConstants == HbTtl \in Nat /\ HandoffTtl \in Nat /\ QueueMult \in Nat

\* Every step keeps the types.
LEMMA FairTypeStep ==
  ASSUME FairConstants, FairInv, Fair!TypeOK, [Fair!Next]_(Fair!vars)
  PROVE  Fair!TypeOK'
  <1>q. queue' \in Seq(Tokens)
    BY FairStep DEF FairInv
  <1>t. /\ phase \in [Tokens -> Fair!Phases] /\ left \in [Tokens -> Nat]
        /\ lease \in [Tokens -> Lengths \cup {0}] /\ asked \in [Tokens -> Lengths \cup {0}]
        /\ fence \in Nat /\ lock \in Tokens \cup {None} /\ lockTtl \in Nat
        /\ queue \in Seq(Tokens) /\ queueTtl \in Nat /\ hb \in [Tokens -> Nat]
    BY DEF Fair!TypeOK, Fair!LeasesTypeOK
  <1>l. /\ Lengths \subseteq Nat /\ Lengths \cup {0} \subseteq Nat
        /\ HandoffTtl \in Nat /\ HbTtl \in Nat
    BY LengthsAssumption DEF FairConstants
  <1>p. {"live", "gone", "releasing", "dropping"} \subseteq Fair!Phases
    BY DEF Fair!Phases, Fair!Ending
  <1>g. ASSUME phase' \in [Tokens -> Fair!Phases], left' \in [Tokens -> Nat],
               lease' \in [Tokens -> Lengths \cup {0}], asked' \in [Tokens -> Lengths \cup {0}],
               fence' \in Nat, lock' \in Tokens \cup {None}, lockTtl' \in Nat,
               queueTtl' \in Nat, hb' \in [Tokens -> Nat]
        PROVE  Fair!TypeOK'
    BY <1>g, <1>q DEF Fair!TypeOK, Fair!LeasesTypeOK
  <1>1. CASE UNCHANGED Fair!vars
    BY <1>1, <1>t, <1>g DEF Fair!vars, Fair!leaseVars, Fair!fair
  <1>2. CASE Fair!Tick
    <2>1. /\ left' \in [Tokens -> Nat] /\ hb' \in [Tokens -> Nat]
          /\ lockTtl' \in Nat /\ queueTtl' \in Nat
      BY <1>2, <1>t DEF Fair!Tick, Fair!LeasesTick, Fair!Less
    <2>2. lock' \in Tokens \cup {None} /\ UNCHANGED <<phase, lease, asked, fence>>
      BY <1>2, <1>t DEF Fair!Tick, Fair!LeasesTick
    <2>. QED
      BY <1>t, <1>g, <2>1, <2>2
  <1>3. ASSUME NEW t \in Tokens, Fair!Step(t) PROVE Fair!TypeOK'
    <2>1. ASSUME NEW x \in Lengths, Fair!PollGranted(t, x) PROVE Fair!TypeOK'
      <3>1. /\ lock' = t /\ lockTtl' = x /\ UNCHANGED <<queueTtl, hb>>
            /\ fence' = fence + 1 /\ lease' = [lease EXCEPT ![t] = x] /\ asked' = asked
            /\ \/ phase' = [phase EXCEPT ![t] = "live"] /\ left' = [left EXCEPT ![t] = x]
               \/ phase' = [phase EXCEPT ![t] = "gone"] /\ left' = left
        BY <2>1 DEF Fair!PollGranted, Fair!Lock, Fair!Granted
      <3>2. x \in Nat /\ x \in Lengths \cup {0}
        BY <1>l
      <3>3. phase' \in [Tokens -> Fair!Phases] /\ left' \in [Tokens -> Nat]
        BY <1>t, <1>p, <3>1, <3>2
      <3>4. lease' \in [Tokens -> Lengths \cup {0}]
        BY <1>t, <3>1, <3>2
      <3>. QED
        BY <1>t, <1>g, <3>1, <3>2, <3>3, <3>4
    <2>2. ASSUME NEW x \in Lengths, Fair!PollQueued(t, x) PROVE Fair!TypeOK'
      <3>1. QueueMult * x \in Nat
        BY <1>l DEF FairConstants
      <3>2. /\ queueTtl' = QueueMult * x /\ hb' = [hb EXCEPT ![t] = HbTtl]
            /\ UNCHANGED <<lock, lockTtl, phase, left, lease, asked, fence>>
        BY <2>2 DEF Fair!PollQueued, Fair!leaseVars
      <3>. QED
        BY <1>t, <1>l, <1>g, <3>1, <3>2
    <2>3. ASSUME NEW x \in Lengths, Fair!Extend(t, x) PROVE Fair!TypeOK'
      <3>1. /\ asked' = [asked EXCEPT ![t] = x]
            /\ UNCHANGED <<phase, left, lease, fence, lock, lockTtl, queueTtl, hb>>
        BY <2>3 DEF Fair!Extend, Fair!AskExtend, Fair!fair
      <3>2. asked' \in [Tokens -> Lengths \cup {0}]
        BY <1>t, <3>1
      <3>. QED
        BY <1>t, <1>g, <3>1, <3>2
    <2>4. CASE \/ Fair!PollError(t) \/ Fair!TryLockFor(t) \/ Fair!Release(t) \/ Fair!Drop(t)
               \/ Fair!Dropped(t) \/ Fair!ReleaseLost(t)
      <3>1. /\ \/ phase' = [phase EXCEPT ![t] = "gone"] /\ left' = left
               \/ /\ \E how \in {"releasing", "dropping"} : phase' = [phase EXCEPT ![t] = how]
                  /\ left' = [left EXCEPT ![t] = 0]
            /\ UNCHANGED <<lease, asked, fence, queueTtl, hb>>
            /\ (lock' = lock /\ lockTtl' = lockTtl) \/ (lock' = None /\ lockTtl' = 0)
        BY <2>4 DEF Fair!PollError, Fair!TryLockFor, Fair!Release, Fair!Drop, Fair!Dropped,
                    Fair!ReleaseLost, Fair!Abandoned, Fair!MarkGone, Fair!Ended, Fair!fair
      <3>2. phase' \in [Tokens -> Fair!Phases] /\ left' \in [Tokens -> Nat]
        <4>1. CASE phase' = [phase EXCEPT ![t] = "gone"] /\ left' = left
          BY <1>t, <1>p, <4>1
        <4>2. ASSUME NEW how \in {"releasing", "dropping"}, phase' = [phase EXCEPT ![t] = how],
                     left' = [left EXCEPT ![t] = 0]
              PROVE  phase' \in [Tokens -> Fair!Phases] /\ left' \in [Tokens -> Nat]
          <5>1. how \in Fair!Phases
            BY <1>p, <4>2
          <5>. QED
            BY <1>t, <4>2, <5>1
        <4>. QED
          BY <3>1, <4>1, <4>2
      <3>. QED
        BY <1>t, <1>g, <3>1, <3>2
    <2>5. CASE Fair!Released(t)
      <3>1. lock' \in Tokens \cup {None} /\ lockTtl' \in Nat
        <4>1. CASE lock = t /\ Fair!LiveWaiters # {}
          <5> DEFINE i == CHOOSE i \in Fair!LiveWaiters : \A j \in Fair!LiveWaiters : i <= j
          <5>1. lock' = queue[i] /\ lockTtl' = HandoffTtl
            BY <2>5, <4>1 DEF Fair!Released, Fair!Handoff, Fair!Lock
          <5>2. i \in 1..Len(queue)
            BY <1>t, <4>1, OldestWaiter
          <5> HIDE DEF i
          <5>. QED
            BY <1>t, <1>l, <5>1, <5>2
        <4>2. CASE ~(lock = t /\ Fair!LiveWaiters # {})
          BY <1>t, <2>5, <4>2 DEF Fair!Released, Fair!Handoff
        <4>. QED
          BY <4>1, <4>2
      <3>2. /\ queueTtl' \in Nat /\ hb' = hb
            /\ phase' = [phase EXCEPT ![t] = "gone"] /\ UNCHANGED <<left, lease, asked, fence>>
        BY <1>t, <2>5 DEF Fair!Released, Fair!Ended
      <3>3. phase' \in [Tokens -> Fair!Phases]
        BY <1>t, <1>p, <3>2
      <3>. QED
        BY <1>t, <1>g, <3>1, <3>2, <3>3
    <2>6. CASE Fair!ExtendRuns(t)
      <3>1. asked[t] \in Nat
        BY <1>t, <1>l
      <3>2. /\ lockTtl' \in Nat /\ UNCHANGED <<lock, queueTtl, hb, lease, fence>>
            /\ asked' = [asked EXCEPT ![t] = 0]
        BY <1>t, <2>6, <3>1 DEF Fair!ExtendRuns, Fair!Extended
      <3>3. \/ phase' = phase /\ left' = left
            \/ phase' = [phase EXCEPT ![t] = "gone"] /\ left' = [left EXCEPT ![t] = 0]
        BY <2>6 DEF Fair!ExtendRuns, Fair!Extended
      <3>4. phase' \in [Tokens -> Fair!Phases] /\ left' \in [Tokens -> Nat]
        <4>1. CASE phase' = phase /\ left' = left
          BY <1>t, <4>1
        <4>2. CASE phase' = [phase EXCEPT ![t] = "gone"] /\ left' = [left EXCEPT ![t] = 0]
          BY <1>t, <1>p, <4>2
        <4>. QED
          BY <3>3, <4>1, <4>2
      <3>5. asked' \in [Tokens -> Lengths \cup {0}]
        BY <1>t, <3>2
      <3>. QED
        BY <1>t, <1>g, <3>2, <3>4, <3>5
    <2>. QED
      BY <1>3, <2>1, <2>2, <2>3, <2>4, <2>5, <2>6 DEF Fair!Step, Fair!Poll
  <1>. QED
    BY <1>1, <1>2, <1>3 DEF Fair!Next

------------------------------------------------------------------------------
(* History: the verdict of the checker. *)

Kinds == {"Grant", "ReleaseOk", "ReleaseLost", "WriteAccepted", "WriteRejected"}
EventType == [t : Nat, worker : Workers, kind : Kinds, fence : Nat]
HoldType == [worker : Workers, expires : Nat]

\* The bounds of the recorded histories and the lease are numbers.
LogConstants == EventTtl \in Nat /\ MaxFence \in Nat /\ MaxGap \in Nat

\* Nobody has released the grant at i.
Unreleased(h, i) ==
  /\ h[i].kind = "Grant"
  /\ \A k \in (i + 1)..Len(h) : ~(h[k].kind = "ReleaseOk" /\ h[k].worker = h[i].worker)

\* `active` has the grants that are neither released nor expired, and nothing
\* that is released.
ActiveExact ==
  /\ \A i \in 1..Len(history) :
       Unreleased(history, i) /\ history[Len(history)].t < history[i].t + EventTtl =>
         Log!Holder(history[i]) \in active
  /\ \A a \in active : \E i \in 1..Len(history) :
       Unreleased(history, i) /\ a = Log!Holder(history[i])

\* `last_accepted_fence` is the greatest accepted fence.
AcceptedExact ==
  /\ \A i \in 1..Len(history) :
       history[i].kind = "WriteAccepted" => history[i].fence <= accepted
  /\ accepted # 0 =>
       \E i \in 1..Len(history) :
         history[i].kind = "WriteAccepted" /\ history[i].fence = accepted

LogTypeOK ==
  /\ history \in Seq(EventType) /\ active \subseteq HoldType /\ accepted \in Nat
  /\ \A i, j \in 1..Len(history) : i <= j => history[i].t <= history[j].t

LogInv ==
  /\ LogTypeOK /\ ActiveExact /\ AcceptedExact
  /\ \A j \in 1..Len(history) : Log!Correct(history, j)

\* Events that may come next have their type and do not go back in time.
LEMMA ComingType ==
  ASSUME LogConstants, LogInv, NEW e \in Log!Coming
  PROVE  e \in EventType /\ \A i \in 1..Len(history) : history[i].t <= e.t
  <1>1. history \in Seq(EventType) /\ Len(history) \in Nat
    BY DEF LogInv, LogTypeOK
  <1> DEFINE from == IF history = << >> THEN 0 ELSE Log!Last(history).t
  <1>2. /\ from \in Nat
        /\ \A i \in 1..Len(history) : history[i].t <= from
    <2>1. CASE history = << >>
      BY <2>1
    <2>2. CASE history # << >>
      <3>1. Len(history) \in 1..Len(history)
        BY <1>1, <2>2
      <3>2. Log!Last(history) = history[Len(history)]
        BY DEF Log!Last
      <3>3. history[Len(history)] \in EventType
        BY <1>1, <3>1
      <3>. QED
        BY <1>1, <2>2, <3>1, <3>2, <3>3 DEF LogInv, LogTypeOK, EventType
    <2>. QED
      BY <2>1, <2>2
  <1>3. e \in Log!Events(from)
    BY DEF Log!Coming
  <1> HIDE DEF from
  <1>4. /\ e \in EventType
        /\ e.t >= from
    <2>1. \/ e \in [t : from..(from + MaxGap), worker : Workers,
                   kind : {"Grant", "WriteAccepted"}, fence : 0..MaxFence]
          \/ e \in [t : from..(from + MaxGap), worker : Workers,
                   kind : {"ReleaseOk", "ReleaseLost", "WriteRejected"}, fence : {0}]
      BY <1>3, Zenon DEF Log!Events
    <2>2. from..(from + MaxGap) \subseteq Nat /\ \A n \in from..(from + MaxGap) : n >= from
      BY <1>2 DEF LogConstants
    <2>3. 0..MaxFence \subseteq Nat /\ {0} \subseteq Nat
      BY DEF LogConstants
    <2>4. ASSUME NEW T \in SUBSET Nat, NEW K \in SUBSET Kinds, NEW F \in SUBSET Nat,
                 e \in [t : T, worker : Workers, kind : K, fence : F]
          PROVE  e \in EventType /\ e.t \in T
      BY <2>4 DEF EventType
    <2>5. {"Grant", "WriteAccepted"} \in SUBSET Kinds
          /\ {"ReleaseOk", "ReleaseLost", "WriteRejected"} \in SUBSET Kinds
      BY DEF Kinds
    <2>6. e \in EventType /\ e.t \in from..(from + MaxGap)
      BY <2>1, <2>2, <2>3, <2>4, <2>5
    <2>. QED
      BY <2>2, <2>6
  <1>5. \A i \in 1..Len(history) : history[i].t \in Nat
    <2>1. \A i \in 1..Len(history) : history[i] \in EventType
      BY <1>1
    <2>. QED
      BY <2>1 DEF EventType
  <1>. QED
    BY <1>2, <1>4, <1>5 DEF EventType

\* What is correct stays correct when the history grows.
LEMMA CorrectStays ==
  ASSUME NEW S, NEW h \in Seq(S), NEW e \in S, NEW j \in 1..Len(h)
  PROVE  Log!Correct(Append(h, e), j) <=> Log!Correct(h, j)
  <1> DEFINE g == Append(h, e)
  <1>1. /\ Len(g) = Len(h) + 1 /\ Len(h) \in Nat
        /\ \A i \in 1..Len(h) : g[i] = h[i]
    OBVIOUS
  <1> HIDE DEF g
  <1>2. ASSUME NEW i PROVE i \in 1..Len(g) /\ Log!Holds(g, i, j)
                           <=> i \in 1..Len(h) /\ Log!Holds(h, i, j)
    <2>1. CASE i \in 1..Len(h) /\ i < j
      <3>1. g[i] = h[i] /\ g[j] = h[j] /\ i \in 1..Len(g)
        BY <1>1, <2>1
      <3>2. \A k \in (i + 1)..(j - 1) : g[k] = h[k]
        BY <1>1, <2>1
      <3>. QED
        BY <2>1, <3>1, <3>2 DEF Log!Holds
    <2>2. CASE ~(i \in 1..Len(h) /\ i < j)
      BY <1>1, <2>2 DEF Log!Holds
    <2>. QED
      BY <2>1, <2>2
  <1>3. {i \in 1..Len(g) : Log!Holds(g, i, j)} = {i \in 1..Len(h) : Log!Holds(h, i, j)}
    BY <1>2
  <1>4. /\ g[j] = h[j]
        /\ \A i \in 1..(j - 1) : g[i] = h[i]
    BY <1>1
  <1> DEFINE holds == {i \in 1..Len(h) : Log!Holds(h, i, j)}
  <1>5. \A i \in holds : g[i] = h[i]
    BY <1>1
  <1> HIDE DEF holds
  <1>6. {i \in holds : g[i].worker = g[j].worker} = {i \in holds : h[i].worker = h[j].worker}
    BY <1>4, <1>5
  <1>. QED
    BY <1>3, <1>4, <1>6 DEF Log!Correct, g, holds

\* What the loop looks at is what the definition looks at: the holds that survive
\* retain() are those of the grants that hold at the new event.
LEMMA HoldsAreValid ==
  ASSUME LogConstants, LogInv, NEW e \in Log!Coming
  PROVE  LET h == Append(history, e)
         IN  /\ \A i \in 1..Len(h) : Log!Holds(h, i, Len(h)) =>
                  /\ h[i] = history[i]
                  /\ Log!Holder(history[i]) \in Log!Valid(e)
             /\ \A a \in Log!Valid(e) : \E i \in 1..Len(h) :
                  /\ Log!Holds(h, i, Len(h))
                  /\ h[i] = history[i] /\ a = Log!Holder(history[i])
  <1> DEFINE h == Append(history, e)
  <1>1. e \in EventType /\ \A i \in 1..Len(history) : history[i].t <= e.t
    BY ComingType
  <1>2. /\ history \in Seq(EventType) /\ Len(history) \in Nat
        /\ EventTtl \in Nat
    BY DEF LogInv, LogTypeOK, LogConstants
  <1>3. /\ Len(h) = Len(history) + 1
        /\ h[Len(h)] = e
        /\ \A i \in 1..Len(history) : h[i] = history[i]
    BY <1>1, <1>2
  <1>4. /\ e.t \in Nat
        /\ \A i \in 1..Len(history) : history[i] \in EventType /\ history[i].t \in Nat
    <2>1. \A i \in 1..Len(history) : history[i] \in EventType
      BY <1>2
    <2>. QED
      BY <1>1, <2>1 DEF EventType
  <1> HIDE DEF h
  <1>5. ASSUME NEW i \in 1..Len(h)
        PROVE  Log!Holds(h, i, Len(h)) <=>
                 /\ i \in 1..Len(history) /\ Unreleased(history, i)
                 /\ e.t < history[i].t + EventTtl
    <2>1. CASE i \in 1..Len(history)
      <3>1. h[i] = history[i] /\ i < Len(h) /\ Len(h) - 1 = Len(history)
        BY <1>2, <1>3, <2>1
      <3>2. \A k \in (i + 1)..Len(history) : h[k] = history[k]
        BY <1>2, <1>3, <2>1
      <3>. QED
        BY <1>3, <2>1, <3>1, <3>2 DEF Log!Holds, Unreleased
    <2>2. CASE i \notin 1..Len(history)
      BY <1>2, <1>3, <2>2 DEF Log!Holds
    <2>. QED
      BY <2>1, <2>2
  <1>6. ASSUME NEW i \in 1..Len(h), Log!Holds(h, i, Len(h))
        PROVE  h[i] = history[i] /\ Log!Holder(history[i]) \in Log!Valid(e)
    <2>1. i \in 1..Len(history) /\ Unreleased(history, i) /\ e.t < history[i].t + EventTtl
      BY <1>5, <1>6
    <2>2. Len(history) \in 1..Len(history)
      BY <1>2, <2>1
    <2>3. history[Len(history)].t < history[i].t + EventTtl
      BY <1>1, <1>2, <1>4, <2>1, <2>2
    <2>4. Log!Holder(history[i]) \in active
      BY <2>1, <2>3 DEF LogInv, ActiveExact
    <2>5. Log!Holder(history[i]).expires = history[i].t + EventTtl
      BY DEF Log!Holder
    <2>. QED
      BY <1>2, <1>3, <1>4, <2>1, <2>4, <2>5 DEF Log!Valid
  <1>7. ASSUME NEW a \in Log!Valid(e)
        PROVE  \E i \in 1..Len(h) : /\ Log!Holds(h, i, Len(h))
                                    /\ h[i] = history[i] /\ a = Log!Holder(history[i])
    <2>1. a \in active /\ a.expires > e.t
      BY DEF Log!Valid
    <2>2. PICK i \in 1..Len(history) : Unreleased(history, i) /\ a = Log!Holder(history[i])
      BY <2>1 DEF LogInv, ActiveExact
    <2>3. a.expires = history[i].t + EventTtl
      BY <2>2 DEF Log!Holder
    <2>4. i \in 1..Len(h) /\ h[i] = history[i] /\ e.t < history[i].t + EventTtl
      BY <1>2, <1>3, <1>4, <2>1, <2>3
    <2>. QED
      BY <1>5, <2>2, <2>4
  <1>. QED
    BY <1>6, <1>7 DEF h

\* One turn of the loop passes if and only if the new event is correct.
LEMMA PassesIffCorrect ==
  ASSUME LogConstants, LogInv, NEW e \in Log!Coming
  PROVE  Log!Passes(e) <=> Log!Correct(Append(history, e), Len(history) + 1)
  <1> DEFINE h == Append(history, e)
             n == Len(history) + 1
             holds == {i \in 1..Len(h) : Log!Holds(h, i, n)}
             mine == {i \in holds : h[i].worker = h[n].worker}
  <1>1. e \in EventType /\ history \in Seq(EventType) /\ Len(history) \in Nat
    BY ComingType DEF LogInv, LogTypeOK
  <1>2. /\ Len(h) = n /\ h[n] = e
        /\ \A i \in 1..Len(history) : h[i] = history[i]
    BY <1>1
  <1>3. /\ \A i \in holds : h[i] = history[i] /\ Log!Holder(history[i]) \in Log!Valid(e)
        /\ \A a \in Log!Valid(e) : \E i \in holds :
             h[i] = history[i] /\ a = Log!Holder(history[i])
    BY <1>2, HoldsAreValid
  <1>4. holds = {} <=> Log!Valid(e) = {}
    BY <1>3
  <1>5. \A i \in holds : Log!Holder(history[i]).worker = h[i].worker
    BY <1>3 DEF Log!Holder
  <1>6. mine = {} <=> Log!Mine(e) = {}
    BY <1>2, <1>3, <1>5 DEF Log!Mine
  <1>7. (\A a \in Log!Mine(e) : e.t >= a.expires) <=> Log!Mine(e) = {}
    <2>1. \A a \in Log!Mine(e) : a.expires > e.t /\ a \in active
      BY DEF Log!Mine, Log!Valid
    <2>2. active \subseteq HoldType
      BY DEF LogInv, LogTypeOK
    <2>3. \A a \in Log!Mine(e) : a.expires \in Nat /\ e.t \in Nat
      BY <1>1, <2>1, <2>2 DEF HoldType, EventType
    <2>. QED
      BY <2>1, <2>3
  <1>8. ASSUME e.kind = "WriteAccepted"
        PROVE  e.fence > accepted
                 <=> /\ \A i \in 1..(n - 1) : h[i].kind = "WriteAccepted" => h[i].fence < e.fence
                     /\ e.fence > 0
    <2>1. accepted \in Nat /\ e.fence \in Nat
      BY <1>1 DEF LogInv, LogTypeOK, EventType
    <2>2. \A i \in 1..Len(history) : history[i] \in EventType
      BY <1>1
    <2>3. \A i \in 1..Len(history) : history[i].fence \in Nat
      BY <2>2 DEF EventType
    <2>4. /\ \A i \in 1..Len(history) :
               history[i].kind = "WriteAccepted" => history[i].fence <= accepted
          /\ accepted # 0 => \E i \in 1..Len(history) :
               history[i].kind = "WriteAccepted" /\ history[i].fence = accepted
      BY DEF LogInv, AcceptedExact
    <2>5. n - 1 = Len(history)
      BY <1>1
    <2>. QED
      BY <1>2, <2>1, <2>3, <2>4, <2>5
  <1>9. e.fence # 0 <=> e.fence > 0
    BY <1>1 DEF EventType
  <1> HIDE DEF holds, mine, h
  <1>10. Log!Correct(h, n) <=>
           /\ e.kind = "Grant" => holds = {} /\ e.fence > 0
           /\ e.kind \in {"ReleaseOk", "WriteAccepted"} => mine # {}
           /\ e.kind = "ReleaseLost" => mine = {}
           /\ e.kind = "WriteAccepted" =>
                \A i \in 1..(n - 1) : h[i].kind = "WriteAccepted" => h[i].fence < e.fence
           /\ e.kind = "WriteAccepted" => e.fence > 0
    BY <1>2 DEF Log!Correct, holds, mine
  <1>11. Log!Passes(e) <=>
           /\ e.kind = "Grant" => holds = {} /\ e.fence > 0
           /\ e.kind = "ReleaseOk" => mine # {}
           /\ e.kind = "ReleaseLost" => mine = {}
           /\ e.kind = "WriteAccepted" => mine # {} /\ e.fence > accepted
    BY <1>4, <1>6, <1>7, <1>9, Zenon DEF Log!Passes
  <1>. QED
    BY <1>8, <1>10, <1>11 DEF h

\* The verdict on a longer history is the verdict on its last event.
LEMMA VerdictOfLast ==
  ASSUME LogConstants, LogInv, NEW e \in Log!Coming
  PROVE  Log!Passes(e)
           <=> \A j \in 1..Len(Append(history, e)) : Log!Correct(Append(history, e), j)
  <1> DEFINE h == Append(history, e)
  <1>1. e \in EventType /\ history \in Seq(EventType)
    BY ComingType DEF LogInv, LogTypeOK
  <1>2. Len(h) = Len(history) + 1 /\ Len(history) \in Nat
    BY <1>1
  <1>3. \A j \in 1..Len(history) : Log!Correct(h, j)
    BY <1>1, CorrectStays DEF LogInv
  <1>4. Log!Passes(e) <=> Log!Correct(h, Len(history) + 1)
    BY PassesIffCorrect
  <1> HIDE DEF h
  <1>5. 1..Len(h) = 1..Len(history) \cup {Len(history) + 1}
    BY <1>2
  <1>6. Log!Passes(e) <=> \A j \in 1..Len(h) : Log!Correct(h, j)
    BY <1>3, <1>4, <1>5
  <1>. QED
    BY <1>6 DEF h

\* A turn of the loop keeps `active` and `last_accepted_fence` exact.
LEMMA LogStep ==
  ASSUME LogConstants, LogInv, NEW e \in Log!Coming, Log!Record(e)
  PROVE  LogInv'
  <1>1. e \in EventType /\ \A i \in 1..Len(history) : history[i].t <= e.t
    BY ComingType
  <1>2. /\ history \in Seq(EventType) /\ Len(history) \in Nat /\ EventTtl \in Nat
        /\ active \subseteq HoldType /\ accepted \in Nat
    BY DEF LogInv, LogTypeOK, LogConstants
  <1>3. /\ Log!Passes(e) /\ history' = Append(history, e)
        /\ e.kind = "Grant" => active' = Log!Valid(e) \cup {Log!Holder(e)}
        /\ e.kind = "ReleaseOk" => active' = Log!Valid(e) \ Log!Mine(e)
        /\ e.kind \notin {"Grant", "ReleaseOk"} => active' = Log!Valid(e)
        /\ accepted' = IF e.kind = "WriteAccepted" THEN e.fence ELSE accepted
    BY DEF Log!Record
  <1>4. /\ history' \in Seq(EventType)
        /\ Len(history') = Len(history) + 1
        /\ history'[Len(history) + 1] = e
        /\ \A i \in 1..Len(history) : history'[i] = history[i]
    BY <1>1, <1>2, <1>3
  <1>5. /\ e.t \in Nat /\ e.fence \in Nat /\ e.worker \in Workers
        /\ \A i \in 1..Len(history) : history[i].t \in Nat
    <2>1. \A i \in 1..Len(history) : history[i] \in EventType
      BY <1>2
    <2>. QED
      BY <1>1, <2>1 DEF EventType
  <1>6. 1..Len(history') = 1..Len(history) \cup {Len(history) + 1}
    BY <1>2, <1>4
  <1>7. LogTypeOK'
    <2>1. Log!Holder(e) \in HoldType
      BY <1>2, <1>5 DEF Log!Holder, HoldType
    <2>2. Log!Valid(e) \subseteq active
      BY DEF Log!Valid
    <2>3. active' \subseteq HoldType /\ accepted' \in Nat
      BY <1>2, <1>3, <1>5, <2>1, <2>2
    <2>4. ASSUME NEW i \in 1..Len(history'), NEW j \in 1..Len(history'), i <= j
          PROVE  history'[i].t <= history'[j].t
      <3>1. CASE j \in 1..Len(history)
        <4>1. i \in 1..Len(history)
          BY <1>2, <1>4, <2>4, <3>1
        <4>. QED
          BY <1>4, <2>4, <3>1, <4>1 DEF LogInv, LogTypeOK
      <3>2. CASE j = Len(history) + 1
        <4>1. CASE i \in 1..Len(history)
          BY <1>1, <1>4, <3>2, <4>1
        <4>2. CASE i = Len(history) + 1
          BY <1>4, <1>5, <3>2, <4>2
        <4>. QED
          BY <1>6, <4>1, <4>2
      <3>. QED
        BY <1>6, <3>1, <3>2
    <2>. QED
      BY <1>4, <2>3, <2>4 DEF LogTypeOK
  <1>8. ASSUME NEW i \in 1..Len(history)
        PROVE  Unreleased(history', i) <=>
                 /\ Unreleased(history, i)
                 /\ ~(e.kind = "ReleaseOk" /\ e.worker = history[i].worker)
    <2>1. (i + 1)..Len(history') = (i + 1)..Len(history) \cup {Len(history) + 1}
      BY <1>2, <1>4
    <2>2. \A k \in (i + 1)..Len(history) : history'[k] = history[k]
      BY <1>2, <1>4
    <2>. QED
      BY <1>4, <2>1, <2>2 DEF Unreleased
  <1>9. Unreleased(history', Len(history) + 1) <=> e.kind = "Grant"
    <2>1. \A k \in (Len(history) + 2)..Len(history') : FALSE
      BY <1>2, <1>4
    <2>. QED
      BY <1>2, <1>4, <2>1 DEF Unreleased
  <1>10. ActiveExact'
    <2>1. ASSUME NEW i \in 1..Len(history'), Unreleased(history', i),
                 history'[Len(history')].t < history'[i].t + EventTtl
          PROVE  Log!Holder(history'[i]) \in active'
      <3>1. CASE i = Len(history) + 1
        BY <1>3, <1>4, <1>9, <2>1, <3>1
      <3>2. CASE i \in 1..Len(history)
        <4>1. /\ Unreleased(history, i) /\ history'[i] = history[i]
              /\ ~(e.kind = "ReleaseOk" /\ e.worker = history[i].worker)
              /\ e.t < history[i].t + EventTtl
          BY <1>4, <1>8, <2>1, <3>2
        <4>2. Len(history) \in 1..Len(history)
          BY <1>2, <3>2
        <4>3. history[Len(history)].t < history[i].t + EventTtl
          BY <1>1, <1>2, <1>5, <3>2, <4>1, <4>2
        <4>4. Log!Holder(history[i]) \in active
          BY <3>2, <4>1, <4>3 DEF LogInv, ActiveExact
        <4>5. /\ Log!Holder(history[i]).expires = history[i].t + EventTtl
              /\ Log!Holder(history[i]).worker = history[i].worker
          BY DEF Log!Holder
        <4>6. Log!Holder(history[i]) \in Log!Valid(e)
          BY <1>2, <1>5, <3>2, <4>1, <4>4, <4>5 DEF Log!Valid
        <4>7. e.kind = "ReleaseOk" => Log!Holder(history[i]) \notin Log!Mine(e)
          BY <4>1, <4>5 DEF Log!Mine
        <4>. QED
          BY <1>3, <4>1, <4>6, <4>7
      <3>. QED
        BY <1>6, <3>1, <3>2
    <2>2. ASSUME NEW a \in active'
          PROVE  \E i \in 1..Len(history') : Unreleased(history', i) /\ a = Log!Holder(history'[i])
      <3>1. CASE a \in Log!Valid(e) /\ (e.kind = "ReleaseOk" => a \notin Log!Mine(e))
        <4>1. PICK i \in 1..Len(history) : Unreleased(history, i) /\ a = Log!Holder(history[i])
          BY <3>1 DEF LogInv, ActiveExact, Log!Valid
        <4>2. a.worker = history[i].worker
          BY <4>1 DEF Log!Holder
        <4>3. ~(e.kind = "ReleaseOk" /\ e.worker = history[i].worker)
          BY <3>1, <4>2 DEF Log!Mine
        <4>4. i \in 1..Len(history') /\ Unreleased(history', i) /\ history'[i] = history[i]
          BY <1>4, <1>6, <1>8, <4>1, <4>3
        <4>. QED
          BY <4>1, <4>4
      <3>2. CASE e.kind = "Grant" /\ a = Log!Holder(e)
        BY <1>4, <1>6, <1>9, <3>2
      <3>. QED
        BY <1>3, <3>1, <3>2
    <2>. QED
      BY <2>1, <2>2 DEF ActiveExact
  <1>11. AcceptedExact'
    <2>1. CASE e.kind = "WriteAccepted"
      <3>1. accepted' = e.fence /\ e.fence > accepted
        BY <1>3, <2>1 DEF Log!Passes
      <3>2. ASSUME NEW i \in 1..Len(history'), history'[i].kind = "WriteAccepted"
            PROVE  history'[i].fence <= accepted'
        <4>1. CASE i = Len(history) + 1
          BY <1>4, <1>5, <3>1, <4>1
        <4>2. CASE i \in 1..Len(history)
          <5>1. history[i].fence \in Nat
            <6>1. history[i] \in EventType
              BY <1>2, <4>2
            <6>. QED
              BY <6>1 DEF EventType
          <5>2. history[i].fence <= accepted
            BY <1>4, <3>2, <4>2 DEF LogInv, AcceptedExact
          <5>. QED
            BY <1>2, <1>4, <1>5, <3>1, <4>2, <5>1, <5>2
        <4>. QED
          BY <1>6, <4>1, <4>2
      <3>. QED
        BY <1>4, <1>6, <2>1, <3>1, <3>2 DEF AcceptedExact
    <2>2. CASE e.kind # "WriteAccepted"
      <3>1. accepted' = accepted
        BY <1>3, <2>2
      <3>2. ASSUME NEW i \in 1..Len(history'), history'[i].kind = "WriteAccepted"
            PROVE  i \in 1..Len(history) /\ history'[i] = history[i]
        BY <1>4, <1>6, <2>2, <3>2
      <3>3. /\ \A i \in 1..Len(history) :
                 history[i].kind = "WriteAccepted" => history[i].fence <= accepted
            /\ accepted # 0 => \E i \in 1..Len(history) :
                 history[i].kind = "WriteAccepted" /\ history[i].fence = accepted
        BY DEF LogInv, AcceptedExact
      <3>. QED
        BY <1>4, <1>6, <3>1, <3>2, <3>3 DEF AcceptedExact
    <2>. QED
      BY <2>1, <2>2
  <1>12. \A j \in 1..Len(history') : Log!Correct(history', j)
    BY <1>3, VerdictOfLast
  <1>. QED
    BY <1>7, <1>10, <1>11, <1>12 DEF LogInv

\* check() is exact: for every history, however long and with whatever workers,
\* fences, times and lease, the next event passes its loop if and only if the
\* whole history is correct by the definition.  The invariant says what the loop
\* has learnt: `active` has the unreleased grants that may still be valid, and
\* `last_accepted_fence` is the greatest accepted fence.
THEOREM VerdictExactHolds ==
  ASSUME LogConstants
  PROVE  Log!Spec => []Log!VerdictExact
  <1>1. Log!Init => LogInv
    <2> SUFFICES ASSUME Log!Init PROVE LogInv
      OBVIOUS
    <2>1. history = << >> /\ active = {} /\ accepted = 0 /\ Len(history) = 0
      BY DEF Log!Init
    <2>2. history \in Seq(EventType) /\ \A i \in 1..Len(history) : FALSE
      BY <2>1
    <2>. QED
      BY <2>1, <2>2 DEF LogInv, LogTypeOK, ActiveExact, AcceptedExact
  <1>2. LogInv /\ [Log!Next]_(Log!vars) => LogInv'
    <2> SUFFICES ASSUME LogInv, [Log!Next]_(Log!vars) PROVE LogInv'
      OBVIOUS
    <2>1. CASE UNCHANGED Log!vars
      BY <2>1 DEF Log!vars, LogInv, LogTypeOK, ActiveExact, AcceptedExact, Unreleased
    <2>2. ASSUME NEW e \in Log!Coming, Log!Record(e) PROVE LogInv'
      BY <2>2, LogStep
    <2>. QED
      BY <2>1, <2>2 DEF Log!Next, Log!Done
  <1>3. LogInv => Log!VerdictExact
    BY VerdictOfLast DEF Log!VerdictExact
  <1>. QED
    BY <1>1, <1>2, <1>3, PTL DEF Log!Spec

------------------------------------------------------------------------------
(* The primitives side by side: every behaviour is one of its subject. *)

\* A step leaves the subject and is one of it.
LEMMA SubjectMoves ==
  ASSUME [Next]_vars
  PROVE  /\ subject' = subject
         /\ IsRw => [Rw!Next]_(Rw!vars)
         /\ subject = "sem" => [Sem!Next]_(Sem!vars)
         /\ subject = "re" => [Re!Next]_(Re!vars)
         /\ IsFair => [Fair!Next]_(Fair!vars)
         /\ IsMulti => [Multi!Next]_(Multi!vars)
         /\ subject = "latch" => [Latch!Next]_(Latch!vars)
         /\ subject = "will" => [Will!Next]_(Will!vars)
         /\ subject = "history" => [Log!Next]_(Log!vars)
  <1>1. CASE UNCHANGED vars
    BY <1>1, Zenon
    DEF vars, leaseVars, rwVars, semVars, reVars, fairVars, multiVars, latchVars, willVars,
        logVars, Rw!vars, Rw!leaseVars, Sem!vars, Sem!leaseVars, Sem!semaphore, Re!vars,
        Re!leaseVars, Re!reentrant, Fair!vars, Fair!leaseVars, Fair!fair, Multi!vars, Latch!vars,
        Will!vars, Will!leaseVars, Will!keyVars, Will!willVars, Log!vars
  <1>2. CASE Next
    <2>1. subject' = subject
      BY <1>2 DEF Next
    <2>2. IsRw => Rw!Next
      BY <1>2, SomeAssumption, Zenon
      DEF IsRw, Next, RwNext, RwFewNext, SemNext, ReNext, FairNext, FairFewNext, MultiNext,
          MultiFewNext, LatchNext, WillNext, HistoryNext, Rw!Next
    <2>3. IsFair => Fair!Next
      BY <1>2, SomeAssumption, Zenon
      DEF IsFair, Next, RwNext, RwFewNext, SemNext, ReNext, FairNext, FairFewNext, MultiNext,
          MultiFewNext, LatchNext, WillNext, HistoryNext, Fair!Next
    <2>4. IsMulti => [Multi!Next]_(Multi!vars)
      BY <1>2, SomeAssumption, Zenon
      DEF IsMulti, Next, RwNext, RwFewNext, SemNext, ReNext, FairNext, FairFewNext, MultiNext,
          MultiFewNext, LatchNext, WillNext, HistoryNext, Multi!Next, Multi!Step, Multi!vars,
          multiVars
    <2>5. subject = "will" => Will!Next
      BY <1>2, SomeAssumption, Zenon
      DEF Next, RwNext, RwFewNext, SemNext, ReNext, FairNext, FairFewNext, MultiNext,
          MultiFewNext, LatchNext, WillNext, HistoryNext, Will!Next
    <2>6. /\ subject = "sem" => Sem!Next
          /\ subject = "re" => Re!Next
          /\ subject = "latch" => Latch!Next
          /\ subject = "history" => Log!Next
      BY <1>2, Zenon
      DEF Next, RwNext, RwFewNext, SemNext, ReNext, FairNext, FairFewNext, MultiNext,
          MultiFewNext, LatchNext, WillNext, HistoryNext
    <2>. QED
      BY <2>1, <2>2, <2>3, <2>4, <2>5, <2>6
  <1>. QED
    BY <1>1, <1>2

\* So a behaviour of the composition satisfies the specification of its subject.
LEMMA SubjectSpecs ==
  Spec => /\ IsRw => Rw!Spec
          /\ subject = "sem" => Sem!Spec
          /\ subject = "re" => Re!Spec
          /\ IsFair => Fair!Spec
          /\ IsMulti => Multi!Spec
          /\ subject = "latch" => Latch!Spec
          /\ subject = "will" => Will!Spec
          /\ subject = "history" => Log!Spec
  <1>1. Init => /\ Rw!Init /\ Sem!Init /\ Re!Init /\ Fair!Init /\ Multi!Init /\ Latch!Init
                /\ Will!Init /\ Log!Init
    BY DEF Init
  <1>2. [Next]_vars => /\ IsRw <=> IsRw'
                       /\ IsFair <=> IsFair'
                       /\ IsMulti <=> IsMulti'
    BY SubjectMoves DEF IsRw, IsFair, IsMulti
  <1>3. IsRw /\ [Next]_vars => [Rw!Next]_(Rw!vars) /\ IsRw'
    BY <1>2, SubjectMoves
  <1>4. subject = "sem" /\ [Next]_vars => [Sem!Next]_(Sem!vars) /\ (subject = "sem")'
    BY SubjectMoves
  <1>5. subject = "re" /\ [Next]_vars => [Re!Next]_(Re!vars) /\ (subject = "re")'
    BY SubjectMoves
  <1>6. IsFair /\ [Next]_vars => [Fair!Next]_(Fair!vars) /\ IsFair'
    BY <1>2, SubjectMoves
  <1>7. IsMulti /\ [Next]_vars => [Multi!Next]_(Multi!vars) /\ IsMulti'
    BY <1>2, SubjectMoves
  <1>8. subject = "latch" /\ [Next]_vars => [Latch!Next]_(Latch!vars) /\ (subject = "latch")'
    BY SubjectMoves
  <1>9. subject = "will" /\ [Next]_vars => [Will!Next]_(Will!vars) /\ (subject = "will")'
    BY SubjectMoves
  <1>10. subject = "history" /\ [Next]_vars => [Log!Next]_(Log!vars) /\ (subject = "history")'
    BY SubjectMoves
  <1>. QED
    BY <1>1, <1>3, <1>4, <1>5, <1>6, <1>7, <1>8, <1>9, <1>10, PTL
    DEF Spec, Rw!Spec, Sem!Spec, Re!Spec, Fair!Spec, Multi!Spec, Latch!Spec, Will!Spec, Log!Spec

\* The subject stays what it is, and the other primitives do not move.
LEMMA SubjectStays ==
  [Next]_vars =>
    /\ ~ IsRw => (~ IsRw)' /\ UNCHANGED <<rw, writers>>
    /\ ~(subject = "sem") => (~(subject = "sem"))'
    /\ ~(subject = "re") => (~(subject = "re"))'
    /\ ~ IsFair => (~ IsFair)' /\ UNCHANGED lock
    /\ ~ IsMulti => (~ IsMulti)'
    /\ ~(subject = "latch") => (~(subject = "latch"))'
    /\ ~(subject = "will") => (~(subject = "will"))' /\ UNCHANGED will
    /\ ~(subject = "history") => (~(subject = "history"))'
  <1> SUFFICES ASSUME [Next]_vars
               PROVE  /\ ~ IsRw => UNCHANGED <<rw, writers>>
                      /\ ~ IsFair => UNCHANGED lock
                      /\ ~(subject = "will") => UNCHANGED will
    BY SubjectMoves, Zenon DEF IsRw, IsFair, IsMulti
  <1>1. CASE UNCHANGED vars
    BY <1>1 DEF vars, rwVars, fairVars, willVars
  <1>2. ASSUME NEW part, Others(part), part # "rw" PROVE UNCHANGED <<rw, writers>>
    BY <1>2 DEF Others, rwVars
  <1>3. ASSUME NEW part, Others(part), part # "fair" PROVE UNCHANGED lock
    BY <1>3 DEF Others, fairVars
  <1>4. ASSUME NEW part, Others(part), part # "will" PROVE UNCHANGED will
    BY <1>4 DEF Others, willVars
  <1>5. CASE Next
    <2>1. \/ IsRw /\ Others("rw")
          \/ IsFair /\ Others("fair")
          \/ subject = "will" /\ Others("will")
          \/ Others("sem") \/ Others("re") \/ Others("multi") \/ Others("latch")
          \/ Others("history")
      BY <1>5, Zenon
      DEF IsRw, IsFair, Next, RwNext, RwFewNext, SemNext, ReNext, FairNext, FairFewNext,
          MultiNext, MultiFewNext, LatchNext, WillNext, HistoryNext
    <2>. QED
      BY <1>2, <1>3, <1>4, <2>1
  <1>. QED
    BY <1>1, <1>5

\* Types: all primitives keep theirs.
THEOREM PrimitivesTypes ==
  ASSUME FairConstants, WillTtls \subseteq Nat
  PROVE  Spec => []TypeOK
  <1>1. Rw!Spec => []Rw!TypeOK
    BY RwInvariant, PTL DEF RwInv
  <1>2. Sem!Spec => []Sem!TypeOK
    <2>1. Sem!Init => Sem!TypeOK
      BY DEF Sem!Init, Sem!LeasesInit, Sem!TypeOK, Sem!LeasesTypeOK, Sem!Phases
    <2>2. Sem!TypeOK /\ [Sem!Next]_(Sem!vars) => Sem!TypeOK'
      BY SemTypeStep
    <2>. QED
      BY <2>1, <2>2, PTL DEF Sem!Spec
  <1>3. Re!Spec => []Re!TypeOK
    <2>1. Re!Init => Re!TypeOK
      BY DEF Re!Init, Re!LeasesInit, Re!TypeOK, Re!LeasesTypeOK, Re!Phases, Re!Absent
    <2>2. Re!TypeOK /\ [Re!Next]_(Re!vars) => Re!TypeOK'
      BY ReTypeStep
    <2>. QED
      BY <2>1, <2>2, PTL DEF Re!Spec
  <1>4. Fair!Spec => []Fair!TypeOK
    <2>1. Fair!Init => FairInv /\ Fair!TypeOK
      BY DEF Fair!Init, Fair!LeasesInit, Fair!TypeOK, Fair!LeasesTypeOK, Fair!Phases, FairInv,
             QueuedOnce
    <2>2. FairInv /\ Fair!TypeOK /\ [Fair!Next]_(Fair!vars) => (FairInv /\ Fair!TypeOK)'
      BY FairStep, FairTypeStep
    <2>. QED
      BY <2>1, <2>2, PTL DEF Fair!Spec
  <1>5. Will!Spec => []Will!TypeOK
    <2>1. WillInv => Will!TypeOK
      BY DEF WillInv
    <2>. QED
      BY <2>1, WillInvariant, PTL
  <1>. QED
    BY <1>1, <1>2, <1>3, <1>4, <1>5, SubjectSpecs, SubjectStays, PTL DEF Spec, TypeOK

\* A writer's lease is exclusive and the reader count exact in every behaviour
\* (rwlock.rs, rw_*.lua).
THEOREM ReadersAndWritersAlways == Spec => []ReadersAndWriters
  <1>1. Rw!Spec => []Rw!ReadersAndWriters
    BY ReadersAndWritersHolds
  <1>. QED
    BY <1>1, SubjectSpecs, SubjectStays, PTL DEF Spec, ReadersAndWriters

\* max_permits is respected in every behaviour (semaphore.rs, semaphore_*.lua).
THEOREM PermitsRespectedAlways ==
  ASSUME NEW x, Lengths = {x}, MaxPermits \in Nat
  PROVE  Spec => []PermitsRespected
  <1>1. Sem!Spec => []Sem!PermitsRespected
    BY PermitsRespectedHolds
  <1>. QED
    BY <1>1, SubjectSpecs, SubjectStays, PTL DEF Spec, PermitsRespected

\* The count of a reentrant mutex covers the running holds of its owner in every
\* behaviour (reentrant.rs, reentrant_*.lua).
THEOREM CountCoversHoldsAlways ==
  ASSUME None \notin Owners, NEW x, Lengths = {x}
  PROVE  Spec => []CountCoversHolds
  <1>1. Re!Spec => []Re!CountCoversHolds
    BY CountCoversHoldsHolds
  <1>. QED
    BY <1>1, SubjectSpecs, SubjectStays, PTL DEF Spec, CountCoversHolds

\* A failed or sleeping call of try_lock_all holds nothing, in every behaviour
\* (multi.rs).
THEOREM NothingLeftBehindAlways ==
  ASSUME MultiConstants
  PROVE  Spec => []NothingLeftBehind
  <1>1. Multi!Spec => []Multi!NothingLeftBehind
    BY NothingLeftBehindHolds
  <1>. QED
    BY <1>1, SubjectSpecs, SubjectStays, PTL DEF Spec, NothingLeftBehind

\* Waiters pass a latch after the count-downs of its winning creator only, in
\* every behaviour (latch.rs).
THEOREM PassAfterAllAlways ==
  ASSUME Counts \subseteq Nat, Parties \cap Waiters = {}
  PROVE  Spec => []PassAfterAll
  <1>1. Latch!Spec => []Latch!PassAfterAll
    BY PassAfterAllHolds
  <1>. QED
    BY <1>1, SubjectSpecs, SubjectStays, PTL DEF Spec, PassAfterAll

\* Whoever counts on a lease, semantic or plain, owns the key in every behaviour
\* (semantic.rs).
THEOREM LeaseOwnsKeyAlways ==
  ASSUME WillTtls \subseteq Nat
  PROVE  Spec => []LeaseOwnsKey
  <1>1. Will!Spec => []Will!LeaseOwnsKey
    BY WillsAndLeasesHold, PTL
  <1>. QED
    BY <1>1, SubjectSpecs, SubjectStays, PTL DEF Spec, LeaseOwnsKey

\* The checker's verdict is exact in every behaviour (checker.rs).
THEOREM VerdictExactAlways ==
  ASSUME LogConstants
  PROVE  Spec => []VerdictExact
  <1>1. Log!Spec => []Log!VerdictExact
    BY VerdictExactHolds
  <1>. QED
    BY <1>1, SubjectSpecs, SubjectStays, PTL DEF Spec, VerdictExact

\* Only registered readers cut a reader's lease short, in every behaviour
\* (rw_read_release.lua, rw_extend.lua).
THEOREM ReadersCutByReadersAlways == Spec => ReadersCutByReaders
  <1> DEFINE Cut == \A t \in Tokens \ (writers \cup lapsed) :
                      left[t] > 0 /\ left'[t] > 0 /\ Rw!Covered(t) /\ ~ Rw!Covered(t)' =>
                        \/ \E u \in rw.who \ {t} : phase[u] = "dropping" /\ phase'[u] = "gone"
                        \/ rw'.mode = "r" /\ t \in rw'.who /\ rw'.ttl < rw.ttl
             Idle == rw.mode = "none"
  <1>1. Rw!Spec => [][Cut]_(Rw!vars)
    BY ReadersCutByReadersHolds, PTL DEF Rw!ReadersCutByReaders
  <1>2. Init => Idle
    <2>1. Init => Rw!Init
      BY DEF Init
    <2>. QED
      BY <2>1 DEF Rw!Init, Rw!Absent
  <1>3. ~ IsRw /\ Idle /\ [Next]_vars => (~ IsRw)' /\ Idle' /\ Cut
    BY SubjectStays DEF Rw!Covered
  <1> HIDE DEF Cut, Idle
  <1>4. Spec => [][Cut]_(Rw!vars)
    BY <1>1, <1>2, <1>3, SubjectSpecs, PTL DEF Spec
  <1>. QED
    BY <1>4, PTL DEF ReadersCutByReaders, Rw!ReadersCutByReaders, Cut

\* Nobody overtakes an earlier live waiter of a fair lock, in every behaviour
\* (fair_acquire.lua, fair_release.lua).
THEOREM NoBargingAlways == Spec => NoBarging
  <1>1. Fair!Spec => Fair!NoBarging
    BY NoBargingHolds
  <1>2. ~ IsFair /\ [Next]_vars
          => [\A t \in Tokens : lock' = t /\ lock # t =>
                \A i \in Fair!LiveWaiters : i >= Fair!Place(t)]_(Fair!vars)
    BY SubjectStays
  <1>. QED
    BY <1>1, <1>2, SubjectSpecs, SubjectStays, PTL DEF Spec, NoBarging, Fair!NoBarging

\* No late will replaces that of a later holder, in every behaviour (testament.rs).
THEOREM WillsFollowGrantsAlways ==
  ASSUME WillTtls \subseteq Nat
  PROVE  Spec => WillsFollowGrants
  <1>1. Will!Spec => Will!WillsFollowGrants
    BY WillsAndLeasesHold, PTL
  <1>2. ~(subject = "will") /\ [Next]_vars
          => [will # None /\ will' # None /\ will' # will => grant[will'] > grant[will]]_(Will!vars)
    BY SubjectStays
  <1>. QED
    BY <1>1, <1>2, SubjectSpecs, SubjectStays, PTL DEF Spec, WillsFollowGrants,
       Will!WillsFollowGrants
==============================================================================
