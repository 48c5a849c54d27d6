------------------------------ MODULE Semaphore ------------------------------
(***************************************************************************)
(* The counting semaphore: a sorted set of permits scored by the instant   *)
(* at which each expires, by the clock of Redis.  A score is kept as the   *)
(* ticks until then; an expired member stays in the set, with score 0,     *)
(* until an acquire prunes it or the whole set expires.                    *)
(***************************************************************************)
EXTENDS Leases

CONSTANT MaxPermits

VARIABLES
  zset,     \* members of the sorted set
  score,    \* ticks until the member's instant, 0 when it has passed
  zttl      \* PTTL of the set

semaphore == <<zset, score, zttl>>
vars == <<leaseVars, semaphore>>

TypeOK ==
  /\ LeasesTypeOK
  /\ zset \subseteq Tokens
  /\ score \in [Tokens -> Nat]
  /\ zttl \in Nat

Init == LeasesInit /\ zset = {} /\ score = [t \in Tokens |-> 0] /\ zttl = 0

------------------------------------------------------------------------------
\* Variant: ZREMRANGEBYSCORE also takes the members about to expire.
PrunedEarly == {t \in zset : score[t] > 1}

\* ZREMRANGEBYSCORE -inf now
Pruned == {t \in zset : score[t] > 0}

\* ZADD and PEXPIRE: the set expires with the permit written last.
Score(t, x) == score' = [score EXCEPT ![t] = x] /\ zttl' = x

\* Grants while the pruned set has room, and prunes in any case.
TryAcquire(t, x) ==
  /\ phase[t] = "fresh"
  /\ IF Cardinality(Pruned) < MaxPermits
     THEN /\ zset' = Pruned \cup {t}
          /\ Score(t, x)
          /\ Granted(t, x)
     ELSE /\ zset' = Pruned
          /\ UNCHANGED <<score, zttl, leaseVars>>

\* try_acquire_for gives up.
TryAcquireFor(t) == Abandoned(t) /\ UNCHANGED semaphore

Release(t) == "release" \in Uses /\ MarkGone(t, "releasing") /\ UNCHANGED semaphore

Drop(t) == "drop" \in Uses /\ MarkGone(t, "dropping") /\ UNCHANGED semaphore

\* ZREM, and DEL of an empty set.
Released(t) ==
  /\ phase[t] \in Ending
  /\ zset' = zset \ {t}
  /\ zttl' = IF zset' = {} THEN 0 ELSE zttl
  /\ UNCHANGED score
  /\ Ended(t)

ReleaseLost(t) ==
  /\ "error" \in Uses /\ phase[t] \in Ending
  /\ Ended(t)
  /\ UNCHANGED semaphore

Extend(t, x) == AskExtend(t, x) /\ UNCHANGED semaphore

\* Variant: ZADD without looking for the member.
ExtendReadmits(t) ==
  /\ asked[t] # 0
  /\ zset' = zset \cup {t}
  /\ Score(t, asked[t])
  /\ Extended(t, TRUE)

\* A member that has expired but was not pruned is revived.
ExtendRuns(t) ==
  /\ asked[t] # 0
  /\ IF t \in zset THEN Score(t, asked[t]) ELSE UNCHANGED <<score, zttl>>
  /\ UNCHANGED zset
  /\ Extended(t, t \in zset)

ExtendLost(t) == ExtendFails(t) /\ UNCHANGED semaphore

Tick ==
  /\ zset' = IF zttl <= 1 THEN {} ELSE zset
  /\ zttl' = Less(zttl)
  /\ score' = [t \in Tokens |-> Less(score[t])]
  /\ LeasesTick

Step(t) ==
  \/ \E x \in Ttls : TryAcquire(t, x) \/ Extend(t, x)
  \/ TryAcquireFor(t) \/ Release(t) \/ Drop(t) \/ Released(t) \/ ReleaseLost(t)
  \/ ExtendRuns(t) \/ ExtendLost(t)

Next == Tick \/ \E t \in Tokens : Step(t)

Spec == Init /\ [][Next]_vars

------------------------------------------------------------------------------
(* Properties. *)

\* The callers that hold a permit whose lease runs are never more than the
\* permits, with expired permits revived by late extends, lost replies and late
\* releases.  Needs leases of one length: a shorter permit granted later makes
\* the whole set expire under the longer ones.
CapacityRespected == Cardinality({t \in Tokens : left[t] > 0}) <= MaxPermits

\* A permit whose lease runs is in the set: nobody else's acquire, release or
\* extend takes it away.  Needs leases of one length, too.
PermitKept == \A t \in Tokens : left[t] > 0 => t \in zset /\ score[t] >= left[t]

\* What a holder of a permit and the resource behind the semaphore rely on.
PermitsRespected == CapacityRespected /\ PermitKept
==============================================================================
