------------------------- MODULE WatchdogTimingProofs -------------------------
(***************************************************************************)
(* The bound on how long a holder believes in a lease that it no longer    *)
(* has, for any leases, any renewal divisor, any response timeout and any  *)
(* number of tokens.                                                       *)
(***************************************************************************)
EXTENDS WatchdogTiming, SingleMutexProofs

\* What the bound assumes of the environment: tasks run when their time comes,
\* every policy has a limit, no administrator forces the key, and the lease is
\* not changed behind the watchdog's back by extend() with another duration or
\* by handing the token to a remote client.
Steady ==
  /\ Prompt
  /\ \A t \in Tokens : /\ Policy[t] # "Aggressive"
                       /\ Uses[t] \cap {"force", "extend", "disarm"} = {}

\* Ticks since Redis last ran a grant or a renewal of t, as far as the key and
\* the stopwatch show.
Elapsed(t) == IF owner = t THEN lease[t] - ttl ELSE lease[t] + overdue[t]

Cadence(t) == lease[t] \div RenewDiv

\* One sleep and one request for each failure so far, and for the next one.
Budget(t) == (transient[t] + 1) * (RespTimeout + Cadence(t))

\* Nobody but the watchdog renews.
NoExtend(t) ==
  rpc[t]["extend"] = "idle" /\ "extend" \notin orphans[t] /\ ~remote[t]

\* The stopwatch and the lease agree with the key.
ClockOK(t) ==
  /\ overdue[t] \in Nat
  /\ overdue[t] # 0 => Believes(t) /\ owner # t
  /\ owner = t => ttl <= lease[t]

\* The renewal slot is the watchdog's; there is none before the grant.
DogOK(t) ==
  /\ rpc[t]["renew"] # "idle" => watchdog[t] = "renew"
  /\ handle[t] \in {"fresh", "trying"} => watchdog[t] = "off" /\ transient[t] = 0
  /\ Believes(t) => transient[t] <= MaxTransient(t)

\* What is left of the watchdog's timer and what has gone by stay within the
\* budget of the failures counted so far.
WithinBudget(t) ==
  /\ handle[t] = "trying" => timer[t] <= RespTimeout
  /\ rpc[t]["acquire"] = "yes" => Elapsed(t) + timer[t] <= RespTimeout
  /\ Believes(t) /\ watchdog[t] = "sleep" => Elapsed(t) + timer[t] <= Budget(t)
  /\ Believes(t) /\ watchdog[t] = "renew" =>
       /\ timer[t] <= RespTimeout
       /\ Elapsed(t) + timer[t] <= Budget(t) + RespTimeout
       /\ rpc[t]["renew"] = "yes" => Elapsed(t) + timer[t] <= RespTimeout

\* Each failure adds one sleep and one request to the budget.
LEMMA BudgetGrows ==
  ASSUME NEW f \in Nat, NEW p \in Nat
  PROVE  /\ (f + 1) * p \in Nat
         /\ (f + 1 + 1) * p = (f + 1) * p + p
         /\ p <= (f + 1) * p
  OBVIOUS

\* A timed step is a step of the mutex.
LEMMA TimedIsStep ==
  ASSUME [TimedNext]_timedVars
  PROVE  [Next]_vars
  BY DEF TimedNext, timedVars

\* The behaviours with a stopwatch are behaviours of the mutex.
LEMMA TimedImplementsSpec == TimedSpec => Spec
  <1>1. TimedInit => Init
    BY DEF TimedInit
  <1>2. [TimedNext]_timedVars => [Next]_vars
    BY TimedIsStep
  <1>. QED
    BY <1>1, <1>2, PTL DEF TimedSpec, Spec

\* The stopwatch counts only ticks, and only of a believer without its key.
LEMMA OverdueStep ==
  ASSUME [TimedNext]_timedVars, NEW t \in Tokens, ClockOK(t)
  PROVE  /\ overdue'[t] \in Nat
         /\ overdue'[t] # 0 => Believes(t)' /\ owner' # t
         /\ overdue'[t] <= overdue[t] + 1
         /\ ~Tick \/ owner = t => overdue'[t] <= overdue[t]
  <1>1. overdue[t] \in Nat
    BY DEF ClockOK
  <1>2. CASE UNCHANGED timedVars
    <2>1. overdue' = overdue /\ owner' = owner
      BY <1>2 DEF timedVars, vars, store
    <2>2. Believes(t)' <=> Believes(t)
      BY <1>2 DEF timedVars, vars, client, Believes
    <2>. QED
      BY <1>1, <2>1, <2>2 DEF ClockOK
  <1>3. CASE TimedNext
    <2>1. overdue'[t] = IF Believes(t)' /\ (owner # t)'
                        THEN overdue[t] + (IF Tick /\ owner # t THEN 1 ELSE 0)
                        ELSE 0
      BY <1>3 DEF TimedNext
    <2>2. CASE Believes(t)' /\ owner' # t
      <3>1. overdue'[t] = overdue[t] + (IF Tick /\ owner # t THEN 1 ELSE 0)
        BY <2>1, <2>2
      <3>2. CASE Tick /\ owner # t
        BY <1>1, <2>2, <3>1, <3>2
      <3>3. CASE ~(Tick /\ owner # t)
        BY <1>1, <2>2, <3>1, <3>3
      <3>. QED
        BY <3>2, <3>3
    <2>3. CASE ~(Believes(t)' /\ owner' # t)
      <3>1. overdue'[t] = 0
        BY <2>1, <2>3
      <3>. QED
        BY <1>1, <3>1
    <2>. QED
      BY <2>2, <2>3
  <1>. QED
    BY <1>2, <1>3

\* Nobody but the watchdog renews: neither extend() nor a remote client.
LEMMA NoExtendStep ==
  ASSUME TypeOK, Steady, [Next]_vars, NEW t \in Tokens, NoExtend(t)
  PROVE  NoExtend(t)'
  <1> USE DEF store, net, client, history, resource
  <1>c. {"acquire", "extend", "renew", "release"} \subseteq Calls
    BY DEF Calls
  <1>u. "extend" \notin Uses[t] /\ "disarm" \notin Uses[t]
    BY DEF Steady
  <1>t. /\ orphans \in [Tokens -> SUBSET Calls] /\ remote \in [Tokens -> BOOLEAN]
        /\ rpc \in [Tokens -> [Calls -> Phases]]
    BY DEF TypeOK
  <1>r. rpc'[t]["extend"] = "idle"
    <2>1. ~Serve(t, "extend")
      BY DEF Serve, NoExtend
    <2>. QED
      BY <1>c, <1>u, <2>1, RpcStep DEF NoExtend
  <1>k. ASSUME remote'[t] = remote[t],
               "extend" \in orphans'[t] => "extend" \in orphans[t]
        PROVE  NoExtend(t)'
    BY <1>k, <1>r DEF NoExtend
  <1>1. CASE Untouched(t)
    BY <1>k, <1>1 DEF Untouched
  <1>2. ASSUME NEW c \in Calls, Serve(t, c) \/ ServeOrphan(t, c) PROVE NoExtend(t)'
    BY <1>k, <1>t, <1>2 DEF Serve, ServeOrphan
  <1>3. ASSUME NEW c \in Calls, TokenCall(t, c) PROVE NoExtend(t)'
    BY <1>3 DEF TokenCall, NoExtend
  <1>4. ASSUME NEW w \in BOOLEAN, TryLockGranted(t, w) PROVE NoExtend(t)'
    BY <1>k, <1>4 DEF TryLockGranted
  <1>5. CASE TryLock(t) \/ TryLockHeld(t) \/ ExtendReturn(t) \/ Release(t)
               \/ ReleaseReturn(t) \/ WatchdogExit(t) \/ WatchdogRenew(t)
    BY <1>k, <1>5 DEF TryLock, TryLockHeld, ExtendReturn, Release, ReleaseReturn,
                      WatchdogExit, WatchdogRenew
  <1>6. CASE TryLockError(t) \/ ExtendError(t) \/ ReleaseError(t) \/ Crash(t)
    <2>1. PICK calls \in SUBSET Calls : GiveUp(t, calls)
      BY <1>c, <1>6 DEF TryLockError, ExtendError, ReleaseError, Crash
    <2>2. "extend" \in orphans'[t] => "extend" \in orphans[t]
      BY <1>t, <2>1 DEF GiveUp, Unserved, NoExtend
    <2>3. remote' = remote
      BY <1>6 DEF TryLockError, ExtendError, ReleaseError, Crash
    <2>. QED
      BY <1>k, <2>2, <2>3
  <1>7. CASE DropHandle(t)
    <2>1. "extend" \in orphans'[t] => "extend" \in orphans[t]
      BY <1>t, <1>7 DEF DropHandle, Unserved, DetachedRelease, NoExtend
    <2>. QED
      BY <1>k, <1>7, <2>1 DEF DropHandle
  <1>8. CASE WatchdogReturn(t) \/ WatchdogError(t)
    <2>1. PICK poisons \in BOOLEAN, failures \in Nat, late \in SUBSET {"renew"} :
            EndIteration(t, poisons, failures, late)
      BY <1>8, RenewalEnds
    <2>2. late \in SUBSET Calls /\ "extend" \notin late
      BY <1>c
    <2>3. orphans'[t] \subseteq orphans[t] \cup late \cup {"release"}
      BY <2>1, <2>2, EndIterationFrame
    <2>. QED
      BY <1>k, <2>1, <2>2, <2>3 DEF EndIteration
  <1>. QED
    BY <1>u, <1>1, <1>2, <1>3, <1>4, <1>5, <1>6, <1>7, <1>8, OneHandle DEF OwnStep

\* What is known of the mutex itself.
MutexInv == FenceInv /\ ReleaseFlagged /\ \A t \in Tokens : DropInv(t) /\ NoExtend(t)

\* A token that has its lease: what the keys can do to it in one step.
LEMMA LeaseStep ==
  ASSUME Steady, MutexInv, [Next]_vars, NEW t \in Tokens, issued[t] > 0, ~released[t]
  PROVE  \/ Tick
         \/ owner' = owner /\ ttl' = ttl
         \/ owner # t /\ owner' # t
         \/ owner = t /\ owner' = t /\ ttl' = lease[t]
  <1>f. FenceInv /\ TypeOK
    BY DEF MutexInv, FenceInv
  <1>g. owner # t => owner' # t
    BY <1>f, GoneStays
  <1>1. CASE Rests
    BY <1>1 DEF Rests
  <1>2. ~\E u \in Tokens : "force" \in Uses[u]
    BY DEF Steady
  <1>3. ASSUME NEW u \in Tokens, Grants(u), owner = t PROVE FALSE
    BY <1>3, TokensAssumption DEF Grants
  <1>4. ASSUME NEW u \in Tokens, Renews(u), owner = t PROVE owner' = t /\ ttl' = lease[t]
    <2>1. u = t /\ owner' = owner
      BY <1>4 DEF Renews
    <2>2. ~Pending(t, "extend")
      BY DEF MutexInv, NoExtend, Pending
    <2>. QED
      BY <1>4, <2>1, <2>2 DEF Renews
  <1>5. ASSUME NEW u \in Tokens, owner = u, Pending(u, "release"), owner = t PROVE FALSE
    BY <1>5 DEF MutexInv, ReleaseFlagged, Pending
  <1>. QED
    BY <1>f, <1>g, <1>1, <1>2, <1>3, <1>4, <1>5, StoreStep DEF FenceInv

\* Time gone by grows with time only.
LEMMA ElapsedStep ==
  ASSUME Steady, MutexInv, [TimedNext]_timedVars, NEW t \in Tokens, ClockOK(t),
         issued[t] > 0, ~released[t], lease'[t] = lease[t]
  PROVE  /\ Elapsed(t) \in Int /\ Elapsed(t)' \in Int
         /\ Tick => Elapsed(t)' <= Elapsed(t) + 1
         /\ ~Tick => Elapsed(t)' <= Elapsed(t)
         /\ owner' = t => ttl' <= lease[t]
  <1>s. [Next]_vars
    BY TimedIsStep
  <1>t. lease[t] \in Nat /\ ttl \in Nat /\ owner \in Tokens \cup {None} /\ None \notin Tokens
    BY TokensAssumption DEF MutexInv, FenceInv, TypeOK
  <1>o. /\ overdue[t] \in Nat /\ overdue'[t] \in Nat /\ overdue'[t] <= overdue[t] + 1
        /\ owner = t => overdue[t] = 0
        /\ ~Tick \/ owner = t => overdue'[t] <= overdue[t]
    BY OverdueStep DEF ClockOK
  <1>l. owner = t => ttl <= lease[t] /\ ttl > 0
    BY <1>t DEF ClockOK, MutexInv, FenceInv, CounterFollowsOwner
  <1>1. Elapsed(t) \in Int
    BY <1>t, <1>o DEF Elapsed
  <1>2. CASE Tick
    <2>1. ttl' = ttl - 1 \/ (ttl = 0 /\ ttl' = 0)
      BY <1>2, <1>t DEF Tick, Less
    <2>2. CASE owner = t /\ ttl = 1
      <3>1. owner' # t
        BY <1>2, <1>t, <2>2 DEF Tick
      <3>. QED
        BY <1>1, <1>2, <1>t, <1>o, <2>1, <2>2, <3>1 DEF Elapsed
    <2>3. CASE owner = t /\ ttl # 1
      <3>1. owner' = t /\ ttl' = ttl - 1
        BY <1>2, <1>t, <1>l, <2>1, <2>3 DEF Tick
      <3>. QED
        BY <1>1, <1>2, <1>t, <1>l, <2>3, <3>1 DEF Elapsed
    <2>4. CASE owner # t
      <3>1. owner' # t
        BY <1>2, <1>t, <2>4 DEF Tick
      <3>. QED
        BY <1>1, <1>2, <1>t, <1>o, <2>4, <3>1 DEF Elapsed
    <2>. QED
      BY <2>2, <2>3, <2>4
  <1>3. CASE ~Tick
    <2>1. CASE owner # t /\ owner' # t
      BY <1>1, <1>3, <1>t, <1>o, <2>1 DEF Elapsed
    <2>2. CASE owner = t /\ owner' = t /\ ttl' = lease[t]
      BY <1>1, <1>3, <1>t, <1>l, <2>2 DEF Elapsed
    <2>3. CASE owner' = owner /\ ttl' = ttl
      BY <1>1, <1>3, <1>t, <1>o, <1>l, <2>3 DEF Elapsed
    <2>. QED
      BY <1>s, <1>3, <2>1, <2>2, <2>3, LeaseStep
  <1>. QED
    BY <1>2, <1>3

------------------------------------------------------------------------------
(* The clocks of one client. *)

\* The lease of a token is fixed when it is asked for.
LEMMA LeaseFixed ==
  ASSUME TypeOK, [Next]_vars, NEW t \in Tokens
  PROVE  lease'[t] = lease[t] \/ TryLock(t)
  <1> USE DEF store, net, client, history, resource
  <1>1. CASE Untouched(t)
    BY <1>1 DEF Untouched
  <1>2. ASSUME NEW c \in Calls, Serve(t, c) \/ ServeOrphan(t, c) \/ TokenCall(t, c)
        PROVE  lease' = lease
    BY <1>2 DEF Serve, ServeOrphan, TokenCall
  <1>3. ASSUME NEW w \in BOOLEAN, TryLockGranted(t, w) PROVE lease' = lease
    BY <1>3 DEF TryLockGranted
  <1>4. ASSUME \/ Extend(t) \/ Disarm(t) \/ TryLockHeld(t) \/ TryLockError(t)
               \/ ExtendReturn(t) \/ ExtendError(t)
               \/ Release(t) \/ ReleaseReturn(t) \/ ReleaseError(t)
        PROVE  lease' = lease
    BY <1>4 DEF Extend, Disarm, TryLockHeld, TryLockError, ExtendReturn, ExtendError,
                Release, ReleaseReturn, ReleaseError
  <1>5. ASSUME \/ DropHandle(t) \/ Crash(t) \/ WatchdogExit(t) \/ WatchdogRenew(t)
               \/ WatchdogReturn(t) \/ WatchdogError(t)
        PROVE  lease' = lease
    BY <1>5 DEF DropHandle, Crash, WatchdogExit, WatchdogRenew, WatchdogReturn,
                WatchdogError, EndIteration
  <1>. QED
    BY <1>1, <1>2, <1>3, <1>4, <1>5, OneHandle DEF OwnStep

\* Each step keeps the stopwatch and the lease in agreement with the key.
LEMMA ClockStep ==
  ASSUME Steady, MutexInv, [TimedNext]_timedVars, NEW t \in Tokens, ClockOK(t)
  PROVE  ClockOK(t)'
  <1>s. [Next]_vars
    BY TimedIsStep
  <1>f. FenceInv /\ TypeOK
    BY DEF MutexInv, FenceInv
  <1>t. lease[t] \in Nat /\ ttl \in Nat /\ None \notin Tokens
    BY <1>f, TokensAssumption DEF TypeOK
  <1>1. ASSUME owner' = t PROVE ttl' <= lease'[t]
    <2>1. CASE TryLock(t)
      <3>1. owner' = owner /\ handle[t] = "fresh"
        BY <2>1 DEF TryLock, store
      <3>2. issued[t] = 0 /\ owner = t
        BY <1>f, <1>1, <3>1 DEF FenceInv, AcquireOnce
      <3>. QED
        BY <1>f, <1>t, <3>2 DEF FenceInv, CounterFollowsOwner
    <2>2. CASE lease'[t] = lease[t]
      <3>1. CASE Tick
        <4>1. owner = t /\ ttl' <= ttl
          BY <1>1, <1>t, <3>1 DEF Tick, Less
        <4>2. ttl' \in Int
          BY <1>t, <3>1 DEF Tick, Less
        <4>. QED
          BY <1>t, <2>2, <4>1, <4>2 DEF ClockOK
      <3>2. CASE Rests
        BY <1>1, <2>2, <3>2 DEF Rests, ClockOK
      <3>3. ~Frees
        BY <1>1, <1>t DEF Frees
      <3>4. ASSUME NEW u \in Tokens, Grants(u) PROVE ttl' <= lease'[t]
        BY <1>1, <1>t, <2>2, <3>4 DEF Grants
      <3>5. ASSUME NEW u \in Tokens, Renews(u) PROVE ttl' <= lease'[t]
        <4>1. u = t
          BY <1>1, <3>5 DEF Renews
        <4>2. ~Pending(t, "extend")
          BY DEF MutexInv, NoExtend, Pending
        <4>. QED
          BY <1>t, <2>2, <3>5, <4>1, <4>2 DEF Renews
      <3>. QED
        BY <1>f, <1>s, <3>1, <3>2, <3>3, <3>4, <3>5, StoreStep DEF FenceInv
    <2>. QED
      BY <1>f, <1>s, <2>1, <2>2, LeaseFixed
  <1>2. overdue'[t] \in Nat /\ (overdue'[t] # 0 => Believes(t)' /\ owner' # t)
    BY OverdueStep
  <1>. QED
    BY <1>1, <1>2 DEF ClockOK

\* The budget is a number of ticks.
LEMMA BudgetType ==
  ASSUME TypeOK, NEW t \in Tokens
  PROVE  /\ Cadence(t) \in Nat /\ RespTimeout \in Nat /\ Budget(t) \in Nat
         /\ timer[t] \in Nat /\ transient[t] \in Nat
         /\ RespTimeout + Cadence(t) <= Budget(t)
  <1>1. Cadence(t) \in Nat /\ RespTimeout \in Nat
    BY SleepIsNat, RespTimeoutAssumption DEF TypeOK, Cadence
  <1>2. timer[t] \in Nat /\ transient[t] \in Nat
    BY DEF TypeOK
  <1> DEFINE p == RespTimeout + Cadence(t)
  <1>3. p \in Nat
    BY <1>1
  <1> HIDE DEF p
  <1>4. (transient[t] + 1) * p \in Nat /\ p <= (transient[t] + 1) * p
    BY <1>2, <1>3, BudgetGrows
  <1>. QED
    BY <1>1, <1>2, <1>4 DEF Budget, p

\* A client that does nothing keeps within its budget: what time adds on one
\* side it takes from the timer, since a task that is due runs first.
LEMMA QuietClient ==
  ASSUME Steady, MutexInv, [TimedNext]_timedVars, NEW t \in Tokens,
         ClockOK(t), DogOK(t), WithinBudget(t),
         handle'[t] = handle[t], released'[t] = released[t], lost'[t] = lost[t],
         watchdog'[t] = watchdog[t], transient'[t] = transient[t], lease'[t] = lease[t],
         rpc'[t]["acquire"] = rpc[t]["acquire"], rpc'[t]["renew"] = rpc[t]["renew"],
         \/ Tick /\ timer'[t] = Less(timer[t])
         \/ ~Tick /\ timer'[t] = timer[t]
  PROVE  DogOK(t)' /\ WithinBudget(t)'
  <1>f. FenceInv /\ TypeOK
    BY DEF MutexInv, FenceInv
  <1>t. RespTimeout \in Nat /\ Budget(t) \in Nat /\ timer[t] \in Nat
    BY <1>f, BudgetType
  <1>b. (Believes(t)' <=> Believes(t)) /\ Budget(t)' = Budget(t)
    BY DEF Believes, Budget, Cadence
  <1>1. DogOK(t)'
    BY <1>b DEF DogOK, MaxTransient
  <1>2. timer'[t] <= timer[t] /\ timer'[t] \in Nat
    BY <1>t DEF Less
  <1>3. ASSUME issued[t] > 0, ~released[t], watchdog[t] # "off" \/ handle[t] = "trying"
        PROVE  /\ Elapsed(t) \in Int /\ Elapsed(t)' \in Int
               /\ Elapsed(t)' + timer'[t] <= Elapsed(t) + timer[t]
    <2>1. /\ Elapsed(t) \in Int /\ Elapsed(t)' \in Int
          /\ Tick => Elapsed(t)' <= Elapsed(t) + 1
          /\ ~Tick => Elapsed(t)' <= Elapsed(t)
      BY <1>3, ElapsedStep
    <2>2. Tick => timer[t] # 0
      BY <1>3 DEF Tick, Due, Steady
    <2>. QED
      BY <1>t, <2>1, <2>2 DEF Less
  <1>4. rpc[t]["acquire"] = "yes" => issued[t] > 0 /\ handle[t] = "trying" /\ ~released[t]
    BY <1>f DEF FenceInv, AcquireOnce, MutexInv, DropInv
  <1>5. Believes(t) => issued[t] > 0 /\ ~released[t] /\ watchdog[t] # "off"
    BY <1>f DEF FenceInv, AcquireOnce, Believes
  <1>6. rpc[t]["acquire"] = "yes" => Elapsed(t)' + timer'[t] <= RespTimeout
    BY <1>t, <1>2, <1>3, <1>4 DEF WithinBudget
  <1>7. Believes(t) /\ watchdog[t] = "sleep" => Elapsed(t)' + timer'[t] <= Budget(t)
    BY <1>t, <1>2, <1>3, <1>5 DEF WithinBudget
  <1>8. Believes(t) /\ watchdog[t] = "renew" =>
          /\ timer'[t] <= RespTimeout
          /\ Elapsed(t)' + timer'[t] <= Budget(t) + RespTimeout
          /\ rpc[t]["renew"] = "yes" => Elapsed(t)' + timer'[t] <= RespTimeout
    BY <1>t, <1>2, <1>3, <1>5 DEF WithinBudget
  <1>9. handle[t] = "trying" => timer'[t] <= RespTimeout
    BY <1>t, <1>2 DEF WithinBudget
  <1>. QED
    BY <1>b, <1>1, <1>6, <1>7, <1>8, <1>9 DEF WithinBudget

\* A grant or a renewal that Redis runs starts the count again.
LEMMA ServedStarts ==
  ASSUME Steady, MutexInv, NEW t \in Tokens, NEW c \in {"acquire", "renew"},
         Serve(t, c), rpc'[t][c] = "yes"
  PROVE  Elapsed(t)' = 0
  <1>f. FenceInv /\ TypeOK /\ c \in Calls
    BY DEF MutexInv, FenceInv, Calls
  <1>1. Pending(t, c) /\ RunScript(t, c) /\ resets' = resets /\ lease' = lease
    BY DEF Serve, Pending, client
  <1>2. Accepts(t, c)
    <2>1. rpc'[t][c] = IF Accepts(t, c) THEN "yes" ELSE "no"
      BY <1>f DEF Serve, TypeOK
    <2>. QED
      BY <2>1
  <1>3. Grants(t) \/ Renews(t)
    BY <1>f, <1>1, <1>2, ScriptEffect DEF FenceInv
  <1>4. ~Pending(t, "extend")
    BY DEF MutexInv, NoExtend, Pending
  <1>5. owner' = t /\ ttl' = lease[t]
    BY <1>3, <1>4 DEF Grants, Renews
  <1>6. lease[t] \in Nat
    BY <1>f DEF TypeOK
  <1>. QED
    BY <1>1, <1>5, <1>6 DEF Elapsed

\* Each step of the client keeps it within the budget.
LEMMA BudgetStep ==
  ASSUME Steady, MutexInv, [TimedNext]_timedVars, NEW t \in Tokens,
         ClockOK(t), DogOK(t), WithinBudget(t)
  PROVE  DogOK(t)' /\ WithinBudget(t)'
  <1> USE DEF store, net, client, history, resource
  <1>s. [Next]_vars
    BY TimedIsStep
  <1>f. FenceInv /\ TypeOK /\ ReleaseFlagged /\ DropInv(t) /\ NoExtend(t)
    BY DEF MutexInv, FenceInv
  <1>c. {"acquire", "extend", "renew", "release"} \subseteq Calls
    BY DEF Calls
  <1>t. /\ RespTimeout \in Nat /\ Budget(t) \in Nat /\ timer[t] \in Nat
        /\ Cadence(t) \in Nat /\ transient[t] \in Nat
        /\ RespTimeout + Cadence(t) <= Budget(t)
    BY <1>f, BudgetType
  <1>h. /\ handle \in [Tokens -> HandleStates] /\ released \in [Tokens -> BOOLEAN]
        /\ watchdog \in [Tokens -> {"off", "sleep", "renew"}]
        /\ lost \in [Tokens -> BOOLEAN] /\ timer \in [Tokens -> Nat]
        /\ transient \in [Tokens -> Nat] /\ lease \in [Tokens -> Nat]
        /\ rpc \in [Tokens -> [Calls -> Phases]]
    BY <1>f DEF TypeOK
  <1>a. handle[t] \in {"live", "dropping", "dead"} => rpc[t]["acquire"] = "idle" /\ issued[t] > 0
    BY <1>f DEF FenceInv, AcquireOnce
  <1>0. CASE Tick
    <2>1. /\ handle' = handle /\ released' = released /\ lost' = lost /\ rpc' = rpc
          /\ watchdog' = watchdog /\ transient' = transient /\ lease' = lease
          /\ timer'[t] = Less(timer[t])
      BY <1>0 DEF Tick
    <2>. QED
      BY <1>0, <2>1, QuietClient
  <1> SUFFICES ASSUME ~Tick PROVE DogOK(t)' /\ WithinBudget(t)'
    BY <1>0
  \* a step that leaves the handle, its watchdog and their calls alone
  <1>q. ASSUME handle'[t] = handle[t], released'[t] = released[t], lost'[t] = lost[t],
               watchdog'[t] = watchdog[t], transient'[t] = transient[t],
               lease'[t] = lease[t], timer'[t] = timer[t],
               rpc'[t]["acquire"] = rpc[t]["acquire"], rpc'[t]["renew"] = rpc[t]["renew"]
        PROVE  DogOK(t)' /\ WithinBudget(t)'
    BY <1>q, QuietClient
  \* a step after which the handle does not believe
  <1>n. ASSUME ~Believes(t)', handle'[t] \notin {"fresh", "trying"},
               rpc'[t]["acquire"] # "yes",
               rpc'[t]["renew"] # "idle" => watchdog'[t] = "renew"
        PROVE  DogOK(t)' /\ WithinBudget(t)'
    BY <1>n DEF DogOK, WithinBudget
  <1>1. CASE Untouched(t)
    BY <1>c, <1>q, <1>1 DEF Untouched
  <1>2. ASSUME NEW c \in Calls, Serve(t, c) PROVE DogOK(t)' /\ WithinBudget(t)'
    <2>1. /\ handle' = handle /\ released' = released /\ lost' = lost /\ timer' = timer
          /\ watchdog' = watchdog /\ transient' = transient /\ lease' = lease
          /\ rpc[t][c] = "sent" /\ rpc'[t][c] \in {"yes", "no"}
          /\ \A d \in Calls : d # c => rpc'[t][d] = rpc[t][d]
      BY <1>h, <1>2 DEF Serve
    <2>2. CASE c = "acquire"
      <3>1. handle[t] = "trying"
        BY <1>f, <2>1, <2>2 DEF FenceInv, AcquireOnce
      <3>2. rpc'[t]["acquire"] = "yes" => Elapsed(t)' = 0
        BY <1>2, <2>2, ServedStarts
      <3>3. ~Believes(t)' /\ rpc'[t]["renew"] = rpc[t]["renew"]
        BY <1>c, <2>1, <2>2, <3>1 DEF Believes
      <3>. QED
        BY <1>t, <2>1, <3>1, <3>2, <3>3 DEF DogOK, WithinBudget
    <2>3. CASE c = "renew"
      <3>1. watchdog[t] = "renew" /\ rpc'[t]["acquire"] = rpc[t]["acquire"]
        BY <1>c, <2>1, <2>3 DEF DogOK
      <3>2. (Believes(t)' <=> Believes(t)) /\ Budget(t)' = Budget(t)
        BY <2>1 DEF Believes, Budget, Cadence
      <3>3. DogOK(t)'
        BY <2>1, <3>1, <3>2 DEF DogOK, MaxTransient
      <3>4. handle[t] \in {"fresh", "trying"} => FALSE
        BY <3>1 DEF DogOK
      <3>5. rpc[t]["acquire"] # "yes"
        BY <1>f, <3>4 DEF FenceInv, AcquireOnce
      <3>6. rpc'[t]["renew"] = "yes" => Elapsed(t)' = 0
        BY <1>2, <2>3, ServedStarts
      <3>7. ASSUME Believes(t)
            PROVE  /\ timer[t] <= RespTimeout
                   /\ Elapsed(t)' + timer[t] <= Budget(t) + RespTimeout
        <4>1. issued[t] > 0 /\ ~released[t]
          BY <1>a, <3>7 DEF Believes
        <4>2. /\ Elapsed(t) \in Int /\ Elapsed(t)' \in Int
              /\ Elapsed(t)' <= Elapsed(t)
          BY <2>1, <4>1, ElapsedStep
        <4>3. timer[t] <= RespTimeout /\ Elapsed(t) + timer[t] <= Budget(t) + RespTimeout
          BY <3>1, <3>7 DEF WithinBudget
        <4>. QED
          BY <1>t, <4>2, <4>3
      <3>. QED
        BY <1>t, <2>1, <3>1, <3>2, <3>3, <3>4, <3>5, <3>6, <3>7 DEF WithinBudget
    <2>4. CASE c \notin {"acquire", "renew"}
      BY <1>c, <1>q, <2>1, <2>4
    <2>. QED
      BY <2>2, <2>3, <2>4
  <1>3. ASSUME NEW c \in Calls, ServeOrphan(t, c) PROVE DogOK(t)' /\ WithinBudget(t)'
    BY <1>q, <1>3 DEF ServeOrphan
  <1>4. ASSUME NEW c \in Calls, TokenCall(t, c) PROVE FALSE
    BY <1>f, <1>4 DEF TokenCall, NoExtend
  <1>5. ASSUME NEW w \in BOOLEAN, TryLockGranted(t, w) PROVE DogOK(t)' /\ WithinBudget(t)'
    <2>1. handle[t] = "trying" /\ issued[t] > 0 /\ ~released[t]
      BY <1>f, <1>5 DEF TryLockGranted, FenceInv, AcquireOnce, DropInv
    <2>2. /\ watchdog[t] = "off" /\ transient[t] = 0 /\ rpc[t]["renew"] = "idle"
          /\ Elapsed(t) + timer[t] <= RespTimeout
      BY <1>5, <2>1 DEF TryLockGranted, DogOK, WithinBudget
    <2>3. /\ handle'[t] = "live" /\ transient' = transient /\ lease' = lease
          /\ watchdog'[t] \in {"sleep", "off"}
          /\ watchdog'[t] = "sleep" => timer'[t] = Cadence(t)
          /\ released' = released /\ lost' = lost
      BY <1>h, <1>5 DEF TryLockGranted, Cadence
    <2>4. rpc'[t]["acquire"] = "idle" /\ rpc'[t]["renew"] = rpc[t]["renew"]
      BY <1>c, <1>f, <1>5, ReturnFrame DEF TryLockGranted
    <2>5. Elapsed(t) \in Int /\ Elapsed(t)' \in Int /\ Elapsed(t)' <= Elapsed(t)
      BY <2>1, <2>3, ElapsedStep
    <2>6. Budget(t)' = Budget(t)
      BY <2>3 DEF Budget, Cadence
    <2>7. watchdog'[t] = "sleep" => Elapsed(t)' + timer'[t] <= Budget(t)
      BY <1>t, <2>2, <2>3, <2>5
    <2>8. MaxTransient(t) >= 0
      BY DEF MaxTransient
    <2>. QED
      BY <2>2, <2>3, <2>4, <2>6, <2>7, <2>8 DEF DogOK, WithinBudget, MaxTransient
  <1>6. CASE TryLock(t)
    <2>1. /\ handle[t] = "fresh" /\ handle'[t] = "trying" /\ timer'[t] = RespTimeout
          /\ watchdog' = watchdog /\ transient' = transient
      BY <1>h, <1>6 DEF TryLock
    <2>2. rpc'[t]["acquire"] = "sent" /\ rpc'[t]["renew"] = rpc[t]["renew"]
      BY <1>c, <1>f, <1>6, SendFrame DEF TryLock
    <2>3. ~Believes(t)'
      BY <2>1 DEF Believes
    <2>. QED
      BY <1>t, <2>1, <2>2, <2>3 DEF DogOK, WithinBudget
  <1>7. CASE TryLockHeld(t)
    <2>1. handle'[t] = "failed" /\ watchdog' = watchdog
      BY <1>h, <1>7 DEF TryLockHeld
    <2>2. rpc'[t]["acquire"] = "idle" /\ rpc'[t]["renew"] = rpc[t]["renew"]
      BY <1>c, <1>f, <1>7, ReturnFrame DEF TryLockHeld
    <2>. QED
      BY <1>n, <2>1, <2>2 DEF Believes, DogOK
  <1>8. CASE TryLockError(t)
    <2>1. handle'[t] = "failed" /\ watchdog' = watchdog
      BY <1>h, <1>8 DEF TryLockError
    <2>2. rpc'[t]["acquire"] = "idle" /\ rpc'[t]["renew"] = rpc[t]["renew"]
      BY <1>c, <1>h, <1>8 DEF TryLockError, GiveUp
    <2>. QED
      BY <1>n, <2>1, <2>2 DEF Believes, DogOK
  <1>9. ~ExtendReturn(t) /\ ~ExtendError(t)
    BY <1>f DEF ExtendReturn, ExtendError, NoExtend
  <1>10. CASE Release(t) \/ ReleaseReturn(t) \/ ReleaseError(t)
    <2>1. handle' = handle /\ watchdog' = watchdog /\ released'[t]
      BY <1>h, <1>f, <1>10 DEF Release, ReleaseReturn, ReleaseError, ReleaseFlagged
    <2>2. rpc'[t]["acquire"] = rpc[t]["acquire"] /\ rpc'[t]["renew"] = rpc[t]["renew"]
      <3>1. CASE Release(t)
        BY <1>c, <1>f, <3>1, SendFrame DEF Release
      <3>2. CASE ReleaseReturn(t)
        BY <1>c, <1>f, <3>2, ReturnFrame DEF ReleaseReturn
      <3>3. CASE ReleaseError(t)
        BY <1>c, <1>h, <3>3 DEF ReleaseError, GiveUp
      <3>. QED
        BY <1>10, <3>1, <3>2, <3>3
    <2>3. handle[t] \notin {"fresh", "trying"}
      BY <1>f, <1>10 DEF Release, ReleaseReturn, ReleaseError, ReleaseFlagged, DropInv
    <2>4. rpc[t]["acquire"] # "yes"
      BY <1>f, <2>3 DEF FenceInv, AcquireOnce
    <2>. QED
      BY <1>n, <2>1, <2>2, <2>3, <2>4 DEF Believes, DogOK
  <1>11. CASE DropHandle(t)
    <2>1. handle[t] = "live" /\ handle'[t] \in {"dropping", "dead"} /\ watchdog' = watchdog
      BY <1>h, <1>11 DEF DropHandle
    <2>2. rpc'[t]["acquire"] = rpc[t]["acquire"] /\ rpc'[t]["renew"] = rpc[t]["renew"]
      BY <1>c, <1>h, <1>11 DEF DropHandle
    <2>. QED
      BY <1>a, <1>n, <2>1, <2>2 DEF Believes, DogOK
  <1>12. CASE Crash(t)
    <2>1. handle'[t] = "crashed"
      BY <1>h, <1>12 DEF Crash
    <2>2. rpc'[t]["acquire"] = "idle" /\ rpc'[t]["renew"] = "idle"
      BY <1>c, <1>h, <1>12 DEF Crash, GiveUp
    <2>. QED
      BY <1>n, <2>1, <2>2 DEF Believes
  <1>13. CASE WatchdogExit(t)
    <2>1. /\ watchdog[t] = "sleep" /\ watchdog'[t] = "off" /\ handle' = handle /\ rpc' = rpc
      BY <1>h, <1>13 DEF WatchdogExit
    <2>2. handle[t] \notin {"fresh", "trying"} /\ rpc[t]["renew"] = "idle"
      BY <2>1 DEF DogOK
    <2>3. rpc[t]["acquire"] # "yes"
      BY <1>f, <2>2 DEF FenceInv, AcquireOnce
    <2>. QED
      BY <1>n, <2>1, <2>2, <2>3 DEF Believes
  <1>14. CASE WatchdogRenew(t)
    <2>1. /\ watchdog[t] = "sleep" /\ watchdog'[t] = "renew" /\ handle' = handle
          /\ handle[t] = "live" /\ ~released[t] /\ timer[t] = 0 /\ timer'[t] = RespTimeout
          /\ released' = released /\ lost' = lost /\ lease' = lease /\ transient' = transient
      BY <1>h, <1>14 DEF WatchdogRenew
    <2>2. rpc'[t]["acquire"] = rpc[t]["acquire"] /\ rpc'[t]["renew"] = "sent"
      BY <1>c, <1>f, <1>14, SendFrame DEF WatchdogRenew
    <2>3. Believes(t)' => Believes(t)
      BY <2>1 DEF Believes
    <2>4. Elapsed(t) \in Int /\ Elapsed(t)' \in Int /\ Elapsed(t)' <= Elapsed(t)
      BY <1>a, <2>1, ElapsedStep
    <2>5. Budget(t)' = Budget(t)
      BY <2>1 DEF Budget, Cadence
    <2>6. Believes(t) => Elapsed(t)' + timer'[t] <= Budget(t) + RespTimeout
      BY <1>t, <2>1, <2>4 DEF WithinBudget
    <2>7. DogOK(t)'
      BY <2>1, <2>2, <2>3 DEF DogOK, MaxTransient
    <2>. QED
      BY <1>a, <1>t, <2>1, <2>2, <2>3, <2>5, <2>6, <2>7 DEF WithinBudget
  <1>15. CASE WatchdogReturn(t) \/ WatchdogError(t)
    <2>1. watchdog[t] = "renew" /\ rpc[t]["renew"] # "idle"
      BY <1>15 DEF WatchdogReturn, WatchdogError, DogOK
    <2>2. handle[t] \notin {"fresh", "trying"}
      BY <2>1 DEF DogOK
    <2>3. rpc[t]["acquire"] # "yes"
      BY <1>f, <2>2 DEF FenceInv, AcquireOnce
    <2>4. \E poisons \in BOOLEAN, failures \in Nat, late \in SUBSET {"renew"} :
            /\ EndIteration(t, poisons, failures, late)
            /\ \/ poisons
               \/ rpc[t]["renew"] = "yes" /\ failures = 0
               \/ failures = transient[t] + 1 /\ failures <= MaxTransient(t)
      <3>1. CASE WatchdogReturn(t)
        <4>1. EndIteration(t, rpc[t]["renew"] = "no", 0, {})
              /\ rpc[t]["renew"] \in {"yes", "no"}
          BY <3>1 DEF WatchdogReturn
        <4>2. (rpc[t]["renew"] = "no") \in BOOLEAN /\ 0 \in Nat /\ {} \in SUBSET {"renew"}
          OBVIOUS
        <4>. QED
          BY <4>1, <4>2
      <3>2. CASE WatchdogError(t)
        <4> DEFINE g == transient[t] + 1
        <4>1. Policy[t] # "Aggressive"
          BY DEF Steady
        <4>2. EndIteration(t, Surrenders(t, g), g, Unserved(t, {"renew"}))
          BY <3>2, <4>1 DEF WatchdogError
        <4>3. g \in Nat /\ MaxTransient(t) \in Nat
          BY <1>t DEF MaxTransient
        <4> HIDE DEF g
        <4>4. Surrenders(t, g) \in BOOLEAN /\ (Surrenders(t, g) \/ g <= MaxTransient(t))
          BY <4>1, <4>3 DEF Surrenders
        <4>5. Unserved(t, {"renew"}) \in SUBSET {"renew"}
          BY DEF Unserved
        <4>. QED
          BY <4>2, <4>3, <4>4, <4>5 DEF g
      <3>. QED
        BY <1>15, <3>1, <3>2
    <2>5. PICK poisons \in BOOLEAN, failures \in Nat, late \in SUBSET {"renew"} :
            /\ EndIteration(t, poisons, failures, late)
            /\ \/ poisons
               \/ rpc[t]["renew"] = "yes" /\ failures = 0
               \/ failures = transient[t] + 1 /\ failures <= MaxTransient(t)
      BY <2>4
    <2>6. rpc'[t]["acquire"] = rpc[t]["acquire"] /\ rpc'[t]["renew"] = "idle"
      BY <1>c, <1>f, <2>5, ReturnFrame DEF EndIteration
    <2>7. /\ handle'[t] \in {handle[t], "dead"} /\ lease' = lease
          /\ poisons => lost'[t]
          /\ ~poisons => /\ lost'[t] = lost[t] /\ watchdog'[t] = "sleep"
                         /\ timer'[t] = Cadence(t) /\ transient'[t] = failures
      BY <1>h, <2>5 DEF EndIteration, Cadence
    <2>8. handle'[t] = "dead" \/ (handle'[t] = handle[t] /\ released'[t] = released[t])
      BY <1>h, <2>5 DEF EndIteration
    <2>9. CASE ~Believes(t)'
      BY <1>n, <2>2, <2>3, <2>6, <2>7, <2>9
    <2>10. CASE Believes(t)'
      <3>1. ~poisons /\ handle'[t] = "live" /\ Believes(t)
        BY <2>1, <2>7, <2>8, <2>10 DEF Believes
      <3>2. issued[t] > 0 /\ ~released[t]
        BY <1>a, <3>1 DEF Believes
      <3>3. Elapsed(t) \in Int /\ Elapsed(t)' \in Int /\ Elapsed(t)' <= Elapsed(t)
        BY <2>7, <3>2, ElapsedStep
      <3>4. /\ Elapsed(t) + timer[t] <= Budget(t) + RespTimeout
            /\ rpc[t]["renew"] = "yes" => Elapsed(t) + timer[t] <= RespTimeout
        BY <2>1, <3>1 DEF WithinBudget
      <3> DEFINE p == RespTimeout + Cadence(t)
      <3>5. Budget(t)' = (failures + 1) * p /\ Budget(t) = (transient[t] + 1) * p
        BY <2>7, <3>1 DEF Budget, Cadence
      <3>6. p \in Nat
        BY <1>t
      <3> HIDE DEF p
      <3>7. /\ (failures + 1) * p \in Nat /\ p <= (failures + 1) * p
            /\ (transient[t] + 1 + 1) * p = (transient[t] + 1) * p + p
        BY <1>t, <3>6, BudgetGrows
      <3>8. CASE rpc[t]["renew"] = "yes" /\ failures = 0
        <4>1. Elapsed(t)' + Cadence(t) <= p
          BY <1>t, <3>3, <3>4, <3>8 DEF p
        <4>2. Elapsed(t)' + Cadence(t) <= (failures + 1) * p
          BY <1>t, <3>3, <3>6, <3>7, <4>1
        <4>3. failures <= MaxTransient(t)
          BY <3>8 DEF MaxTransient
        <4>. QED
          BY <2>2, <2>3, <2>6, <2>7, <2>8, <3>1, <3>5, <4>2, <4>3
             DEF DogOK, WithinBudget, MaxTransient
      <3>9. CASE failures = transient[t] + 1 /\ failures <= MaxTransient(t)
        <4>1. Elapsed(t)' + Cadence(t) <= Budget(t) + p
          BY <1>t, <3>3, <3>4 DEF p
        <4>2. Budget(t) + p = (failures + 1) * p
          BY <3>5, <3>7, <3>9
        <4>. QED
          BY <2>2, <2>3, <2>6, <2>7, <2>8, <3>1, <3>5, <3>9, <4>1, <4>2
             DEF DogOK, WithinBudget, MaxTransient
      <3>. QED
        BY <2>5, <3>1, <3>8, <3>9
    <2>. QED
      BY <2>9, <2>10
  <1>u. "extend" \notin Uses[t] /\ "disarm" \notin Uses[t]
    BY DEF Steady
  <1>. QED
    BY <1>s, <1>f, <1>u, <1>1, <1>2, <1>3, <1>4, <1>5, <1>6, <1>7, <1>8, <1>9, <1>10,
       <1>11, <1>12, <1>13, <1>14, <1>15, OneHandle DEF OwnStep

\* What is proved to hold of each token in every state.
TimedInv == \A t \in Tokens : ClockOK(t) /\ DogOK(t) /\ WithinBudget(t)

\* Within the budget, a believer is no longer overdue than the window.
LEMMA BudgetBoundsWindow ==
  ASSUME Steady, TypeOK, NEW t \in Tokens, ClockOK(t), DogOK(t), WithinBudget(t),
         Believes(t), owner # t
  PROVE  overdue[t] <= StaleWindow(t)
  <1>t. /\ Cadence(t) \in Nat /\ RespTimeout \in Nat /\ Budget(t) \in Nat
        /\ timer[t] \in Nat /\ transient[t] \in Nat /\ lease[t] \in Nat
        /\ overdue[t] \in Nat
    BY BudgetType DEF TypeOK, ClockOK
  <1>1. lease[t] + overdue[t] <= Budget(t) + RespTimeout
    <2>1. Elapsed(t) = lease[t] + overdue[t]
      BY DEF Elapsed
    <2>2. watchdog[t] = "sleep" \/ watchdog[t] = "renew"
      BY DEF Believes, TypeOK
    <2>3. Elapsed(t) + timer[t] <= Budget(t) + RespTimeout
      BY <1>t, <2>1, <2>2 DEF WithinBudget
    <2>. QED
      BY <1>t, <2>1, <2>3
  <1>2. MaxTransient(t) \in {0, 2} /\ transient[t] \in 0..MaxTransient(t)
    BY <1>t DEF DogOK, MaxTransient
  <1>3. Budget(t) <= (MaxTransient(t) + 1) * (RespTimeout + Cadence(t))
    <2>1. CASE MaxTransient(t) = 0 /\ transient[t] = 0
      BY <1>t, <2>1 DEF Budget
    <2>2. CASE MaxTransient(t) = 2 /\ transient[t] \in {0, 1, 2}
      BY <1>t, <2>2 DEF Budget
    <2>. QED
      BY <1>2, <2>1, <2>2
  <1>4. StaleWindow(t) = (MaxTransient(t) + 2) * RespTimeout
                           + (MaxTransient(t) + 1) * Cadence(t) - lease[t]
    BY DEF StaleWindow, Cadence
  <1>5. CASE MaxTransient(t) = 0
    BY <1>t, <1>1, <1>3, <1>4, <1>5
  <1>6. CASE MaxTransient(t) = 2
    BY <1>t, <1>1, <1>3, <1>4, <1>6
  <1>. QED
    BY <1>2, <1>5, <1>6

\* Whatever the store fails at and whoever takes the key over, a holder under a
\* policy with a limit stops believing in its lease within StaleWindow of its
\* end (the watchdog loop and safety.rs): for every set of tokens, every lease,
\* divisor and response timeout, and any interleaving of their tasks.
THEOREM StaleWindowBoundedHolds ==
  ASSUME Steady
  PROVE  TimedSpec => []StaleWindowBounded
  <1>1. Spec => [](FenceInv /\ ReleaseFlagged /\ \A t \in Tokens : DropInv(t))
    BY FenceInvariant, ReleaseFlaggedHolds, DropInvHolds, PTL
  <1>2. Spec => [](\A t \in Tokens : NoExtend(t))
    <2>1. Init => \A t \in Tokens : NoExtend(t)
      BY DEF Init, NoExtend, Calls
    <2>2. TypeOK /\ (\A t \in Tokens : NoExtend(t)) /\ [Next]_vars
            => (\A t \in Tokens : NoExtend(t))'
      BY NoExtendStep
    <2>. QED
      BY <2>1, <2>2, TypeCorrect, PTL DEF Spec
  <1>3. TimedSpec => []MutexInv
    <2>1. FenceInv /\ ReleaseFlagged /\ (\A t \in Tokens : DropInv(t))
            /\ (\A t \in Tokens : NoExtend(t)) => MutexInv
      BY DEF MutexInv
    <2>. QED
      BY <1>1, <1>2, <2>1, TimedImplementsSpec, PTL
  <1>4. TimedInit => TimedInv
    <2> SUFFICES ASSUME TimedInit, NEW t \in Tokens
                 PROVE  ClockOK(t) /\ DogOK(t) /\ WithinBudget(t)
      BY DEF TimedInv
    <2>1. /\ owner = None /\ handle[t] = "fresh" /\ watchdog[t] = "off"
          /\ transient[t] = 0 /\ overdue[t] = 0
          /\ rpc[t]["renew"] = "idle" /\ rpc[t]["acquire"] = "idle"
      BY DEF TimedInit, Init, Calls
    <2>. QED
      BY <2>1, TokensAssumption DEF ClockOK, DogOK, WithinBudget, Believes
  <1>5. MutexInv /\ TimedInv /\ [TimedNext]_timedVars => TimedInv'
    <2> SUFFICES ASSUME MutexInv, TimedInv, [TimedNext]_timedVars, NEW t \in Tokens
                 PROVE  (ClockOK(t) /\ DogOK(t) /\ WithinBudget(t))'
      BY DEF TimedInv
    <2>. QED
      BY ClockStep, BudgetStep DEF TimedInv
  <1>6. MutexInv /\ TimedInv => StaleWindowBounded
    <2>1. MutexInv => TypeOK
      BY DEF MutexInv, FenceInv
    <2>. QED
      BY <2>1, BudgetBoundsWindow DEF TimedInv, StaleWindowBounded
  <1>. QED
    BY <1>3, <1>4, <1>5, <1>6, PTL DEF TimedSpec
==============================================================================
