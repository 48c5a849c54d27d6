-------------------------- MODULE SingleMutexProofs --------------------------
(***************************************************************************)
(* Proofs about SingleMutex for any set of acquisition attempts, any lease *)
(* durations and any safety policy.                                        *)
(***************************************************************************)
EXTENDS SingleMutex, TLAPS

\* One step of the mutex is a step of one of the listed actions.
LEMMA StepCases ==
  ASSUME Next
  PROVE  \/ Tick
         \/ ForceUnlock /\ \E t \in Tokens : "force" \in Uses[t]
         \/ \E t \in Tokens, c \in Calls :
              Serve(t, c) \/ ServeOrphan(t, c) \/ TokenCall(t, c)
         \/ \E t \in Tokens, w \in BOOLEAN : TryLockGranted(t, w)
         \/ \E t \in Tokens : Extend(t) /\ "extend" \in Uses[t]
         \/ \E t \in Tokens : Disarm(t) /\ "disarm" \in Uses[t]
         \/ \E t \in Tokens :
              \/ TryLock(t) \/ TryLockHeld(t) \/ TryLockError(t)
              \/ ExtendReturn(t) \/ ExtendError(t)
              \/ Release(t) \/ ReleaseReturn(t) \/ ReleaseError(t)
              \/ DropHandle(t) \/ Crash(t) \/ FencedWrite(t)
              \/ WatchdogExit(t) \/ WatchdogRenew(t)
              \/ WatchdogReturn(t) \/ WatchdogError(t)
  BY Zenon DEF Next, Network, Acquisition, User, Watchdog, Fault

\* A fence counter's TTL is a multiple of the lease: longer than it.
LEMMA FenceTtlLonger ==
  ASSUME NEW x \in Ttls
  PROVE  FenceMult * x \in Nat /\ FenceMult * x > x /\ x \in Nat /\ x > 0
  <1>1. x \in Nat /\ x > 0
    BY TtlsAssumption
  <1>2. FenceMult \in Nat /\ FenceMult >= 2
    BY FenceMultAssumption
  <1>3. FenceMult * x >= 2 * x
    BY <1>1, <1>2
  <1>. QED
    BY <1>1, <1>2, <1>3

\* Sleeps are natural numbers.
LEMMA SleepIsNat ==
  ASSUME NEW x \in Nat
  PROVE  x \div RenewDiv \in Nat
  BY RenewDivAssumption

------------------------------------------------------------------------------
(* Requests and replies of the other calls and of the other clients. *)

\* Sending a request (RedisLockManager's script calls) touches one slot of one
\* handle, which it leaves waiting.
LEMMA SendFrame ==
  ASSUME TypeOK, NEW t \in Tokens, NEW d \in Calls, Send(t, d)
  PROVE  /\ \A u \in Tokens, c \in Calls :
              u # t \/ c # d => rpc'[u][c] = rpc[u][c]
         /\ rpc'[t][d] = "sent"
  <1>1. rpc \in [Tokens -> [Calls -> Phases]]
    BY DEF TypeOK
  <1>2. /\ rpc'[t] = [rpc[t] EXCEPT ![d] = "sent"]
        /\ \A u \in Tokens : u # t => rpc'[u] = rpc[u]
    BY <1>1 DEF Send
  <1>3. rpc'[t][d] = "sent" /\ \A c \in Calls : c # d => rpc'[t][c] = rpc[t][c]
    BY <1>1, <1>2
  <1>. QED
    BY <1>2, <1>3

\* Receiving an answer touches one slot of one handle, which becomes free.
LEMMA ReturnFrame ==
  ASSUME TypeOK, NEW t \in Tokens, NEW d \in Calls, Return(t, d)
  PROVE  /\ \A u \in Tokens, c \in Calls :
              u # t \/ c # d => rpc'[u][c] = rpc[u][c]
         /\ rpc'[t][d] = "idle"
  <1>1. rpc \in [Tokens -> [Calls -> Phases]]
    BY DEF TypeOK
  <1>2. /\ rpc'[t] = [rpc[t] EXCEPT ![d] = "idle"]
        /\ \A u \in Tokens : u # t => rpc'[u] = rpc[u]
    BY <1>1 DEF Return
  <1>3. rpc'[t][d] = "idle" /\ \A c \in Calls : c # d => rpc'[t][c] = rpc[t][c]
    BY <1>1, <1>2
  <1>. QED
    BY <1>2, <1>3

\* Both ways a renewal can end are the end of a watchdog iteration.
LEMMA RenewalEnds ==
  ASSUME TypeOK, NEW t \in Tokens, WatchdogReturn(t) \/ WatchdogError(t)
  PROVE  \E poisons \in BOOLEAN, failures \in Nat, late \in SUBSET {"renew"} :
           /\ EndIteration(t, poisons, failures, late)
           /\ poisons => rpc[t]["renew"] = "no" \/ Policy[t] # "Aggressive"
  <1>1. CASE WatchdogReturn(t)
    <2>1. /\ (rpc[t]["renew"] = "no") \in BOOLEAN /\ 0 \in Nat
          /\ {} \in SUBSET {"renew"}
      OBVIOUS
    <2>2. EndIteration(t, rpc[t]["renew"] = "no", 0, {})
      BY <1>1 DEF WatchdogReturn
    <2>. QED
      BY <2>1, <2>2
  <1>2. CASE WatchdogError(t)
    <2> DEFINE failures == IF Policy[t] = "Aggressive" THEN 0 ELSE transient[t] + 1
    <2>1. failures \in Nat
      BY DEF TypeOK
    <2>2. /\ Surrenders(t, failures) \in BOOLEAN
          /\ Surrenders(t, failures) => Policy[t] # "Aggressive"
      BY DEF Surrenders
    <2>3. Unserved(t, {"renew"}) \in SUBSET {"renew"}
      BY DEF Unserved
    <2>4. EndIteration(t, Surrenders(t, failures), failures, Unserved(t, {"renew"}))
      BY <1>2 DEF WatchdogError
    <2> HIDE DEF failures
    <2>. QED
      BY <2>1, <2>2, <2>3, <2>4
  <1>. QED
    BY <1>1, <1>2

\* The end of a watchdog iteration leaves at most the requests it gave up on,
\* and the release that Drop sends, to be run late, and only those of its own
\* handle.
LEMMA EndIterationFrame ==
  ASSUME TypeOK, NEW t \in Tokens, NEW poisons, NEW failures, NEW late \in SUBSET Calls,
         EndIteration(t, poisons, failures, late)
  PROVE  /\ \A u \in Tokens : orphans'[u] \subseteq orphans[u] \cup late \cup {"release"}
         /\ \A u \in Tokens : u # t => orphans'[u] = orphans[u]
         /\ \A u \in Tokens : orphans[u] \subseteq orphans'[u]
  <1>1. orphans \in [Tokens -> SUBSET Calls]
    BY DEF TypeOK
  <1>2. \/ orphans' = [orphans EXCEPT ![t] = @ \cup late \cup DetachedRelease(t)]
        \/ orphans' = [orphans EXCEPT ![t] = @ \cup late]
    BY DEF EndIteration
  <1>. QED
    BY <1>1, <1>2 DEF DetachedRelease

------------------------------------------------------------------------------
(* Type correctness. *)

\* A script run keeps the types of the keys and of the grant history.
LEMMA ScriptType ==
  ASSUME TypeOK, NEW t \in Tokens, NEW c \in Calls, RunScript(t, c)
  PROVE  /\ owner' \in Tokens \cup {None} /\ ttl' \in Nat
         /\ fence' \in Nat /\ fenceTtl' \in Nat
         /\ issued' \in [Tokens -> Nat] /\ grants' \in Nat
         /\ grantNo' \in [Tokens -> Nat] /\ era' \in [Tokens -> Nat]
  <1>0. FenceMult * lease[t] \in Nat
    BY FenceMultAssumption DEF TypeOK
  <1>1. CASE c = "acquire" /\ AcquireScript(t)
    BY <1>0, <1>1 DEF TypeOK, AcquireScript, store, history
  <1>2. CASE c = "extend" /\ \E x \in Ttls : ExtendScript(t, x)
    BY <1>2, FenceTtlLonger DEF TypeOK, ExtendScript, history
  <1>3. CASE c = "renew" /\ ExtendScript(t, lease[t])
    BY <1>0, <1>3 DEF TypeOK, ExtendScript, history
  <1>4. CASE c = "release" /\ ReleaseScript(t)
    BY <1>4 DEF TypeOK, ReleaseScript, history
  <1>. QED
    BY <1>1, <1>2, <1>3, <1>4 DEF RunScript

\* The end of a watchdog iteration keeps the types.
LEMMA EndIterationType ==
  ASSUME TypeOK, NEW t \in Tokens, NEW poisons \in BOOLEAN, NEW failures \in Nat,
         NEW late \in SUBSET Calls,
         EndIteration(t, poisons, failures, late)
  PROVE  TypeOK'
  <1>1. lease[t] \div RenewDiv \in Nat
    BY SleepIsNat DEF TypeOK
  <1>2. DetachedRelease(t) \subseteq Calls
    BY DEF DetachedRelease, Calls
  <1>3. orphans' \in [Tokens -> SUBSET Calls]
    <2>1. orphans \in [Tokens -> SUBSET Calls]
      BY DEF TypeOK
    <2>2. \/ orphans' = [orphans EXCEPT ![t] = @ \cup late \cup DetachedRelease(t)]
          \/ orphans' = [orphans EXCEPT ![t] = @ \cup late]
      BY DEF EndIteration
    <2>. QED
      BY <1>2, <2>1, <2>2
  <1>4. /\ handle' \in [Tokens -> HandleStates]
        /\ released' \in [Tokens -> BOOLEAN]
    BY DEF EndIteration, TypeOK, HandleStates
  <1>5. /\ rpc' \in [Tokens -> [Calls -> Phases]]
    BY DEF EndIteration, Return, TypeOK, Phases, Calls
  <1>. QED
    BY <1>1, <1>3, <1>4, <1>5
       DEF EndIteration, TypeOK, store, history, resource

\* Requests that a client stops awaiting.
LEMMA GiveUpType ==
  ASSUME TypeOK, NEW t \in Tokens, NEW calls \in SUBSET Calls, GiveUp(t, calls)
  PROVE  /\ rpc' \in [Tokens -> [Calls -> Phases]]
         /\ orphans' \in [Tokens -> SUBSET Calls]
  BY DEF GiveUp, Unserved, TypeOK, Phases

\* Every variable of the mutex keeps its type.
THEOREM TypeCorrect == Spec => []TypeOK
  <1>1. Init => TypeOK
    BY DEF Init, TypeOK, Calls, Phases, HandleStates
  <1>2. TypeOK /\ [Next]_vars => TypeOK'
    <2> SUFFICES ASSUME TypeOK, [Next]_vars PROVE TypeOK'
      OBVIOUS
    <2> USE DEF store, net, client, history, resource
    <2>1. CASE UNCHANGED vars
      BY <2>1 DEF vars, TypeOK
    <2>2. CASE Tick
      BY <2>2 DEF Tick, TypeOK, Less
    <2>3. CASE ForceUnlock
      BY <2>3 DEF ForceUnlock, TypeOK
    <2>4. ASSUME NEW t \in Tokens, NEW c \in Calls, Serve(t, c)
          PROVE  TypeOK'
      <3>1. rpc' \in [Tokens -> [Calls -> Phases]]
        BY <2>4 DEF Serve, TypeOK, Phases
      <3>. QED
        BY <2>4, <3>1, ScriptType DEF Serve, TypeOK
    <2>5. ASSUME NEW t \in Tokens, NEW c \in Calls, ServeOrphan(t, c)
          PROVE  TypeOK'
      BY <2>5, ScriptType DEF ServeOrphan, TypeOK
    <2>6. ASSUME NEW t \in Tokens, NEW c \in Calls, TokenCall(t, c)
          PROVE  TypeOK'
      BY <2>6 DEF TokenCall, TypeOK, Calls
    <2>7. ASSUME NEW t \in Tokens, NEW w \in BOOLEAN, TryLockGranted(t, w)
          PROVE  TypeOK'
      BY <2>7, SleepIsNat
         DEF TryLockGranted, Return, TypeOK, Calls, Phases, HandleStates
    <2>8. ASSUME NEW t \in Tokens, TryLock(t)
          PROVE  TypeOK'
      BY <2>8, TtlsAssumption, RespTimeoutAssumption
         DEF TryLock, Send, TypeOK, Calls, Phases, HandleStates
    <2>9. ASSUME NEW t \in Tokens, TryLockHeld(t)
          PROVE  TypeOK'
      BY <2>9 DEF TryLockHeld, Return, TypeOK, Calls, Phases, HandleStates
    <2>10. ASSUME NEW t \in Tokens, TryLockError(t)
           PROVE  TypeOK'
      BY <2>10, GiveUpType DEF TryLockError, TypeOK, Calls, HandleStates
    <2>11. ASSUME NEW t \in Tokens, Extend(t)
           PROVE  TypeOK'
      BY <2>11 DEF Extend, Send, TypeOK, Calls, Phases
    <2>12. ASSUME NEW t \in Tokens, ExtendReturn(t)
           PROVE  TypeOK'
      BY <2>12 DEF ExtendReturn, Return, TypeOK, Calls, Phases
    <2>13. ASSUME NEW t \in Tokens, ExtendError(t)
           PROVE  TypeOK'
      BY <2>13, GiveUpType DEF ExtendError, TypeOK, Calls
    <2>14. ASSUME NEW t \in Tokens, Release(t)
           PROVE  TypeOK'
      BY <2>14 DEF Release, Send, TypeOK, Calls, Phases
    <2>15. ASSUME NEW t \in Tokens, ReleaseReturn(t)
           PROVE  TypeOK'
      BY <2>15 DEF ReleaseReturn, Return, TypeOK, Calls, Phases
    <2>16. ASSUME NEW t \in Tokens, ReleaseError(t)
           PROVE  TypeOK'
      BY <2>16, GiveUpType DEF ReleaseError, TypeOK, Calls
    <2>17. ASSUME NEW t \in Tokens, DropHandle(t)
           PROVE  TypeOK'
      <3>1. orphans' \in [Tokens -> SUBSET Calls]
        BY <2>17 DEF DropHandle, Unserved, DetachedRelease, TypeOK, Calls
      <3>2. rpc' \in [Tokens -> [Calls -> Phases]]
        BY <2>17 DEF DropHandle, TypeOK, Calls, Phases
      <3>3. /\ handle' \in [Tokens -> HandleStates]
            /\ released' \in [Tokens -> BOOLEAN]
        BY <2>17 DEF DropHandle, TypeOK, HandleStates
      <3>. QED
        BY <2>17, <3>1, <3>2, <3>3 DEF DropHandle, TypeOK
    <2>18. ASSUME NEW t \in Tokens, Disarm(t)
           PROVE  TypeOK'
      BY <2>18 DEF Disarm, TypeOK
    <2>19. ASSUME NEW t \in Tokens, Crash(t)
           PROVE  TypeOK'
      BY <2>19, GiveUpType DEF Crash, TypeOK, HandleStates
    <2>20. ASSUME NEW t \in Tokens, FencedWrite(t)
           PROVE  TypeOK'
      BY <2>20 DEF FencedWrite, TypeOK
    <2>21. ASSUME NEW t \in Tokens, WatchdogExit(t)
           PROVE  TypeOK'
      BY <2>21 DEF WatchdogExit, TypeOK
    <2>22. ASSUME NEW t \in Tokens, WatchdogRenew(t)
           PROVE  TypeOK'
      BY <2>22, RespTimeoutAssumption
         DEF WatchdogRenew, Send, TypeOK, Calls, Phases
    <2>23. ASSUME NEW t \in Tokens, WatchdogReturn(t) \/ WatchdogError(t)
           PROVE  TypeOK'
      <3>1. PICK poisons \in BOOLEAN, failures \in Nat, late \in SUBSET {"renew"} :
              EndIteration(t, poisons, failures, late)
        BY <2>23, RenewalEnds
      <3>2. late \in SUBSET Calls
        BY DEF Calls
      <3>. QED
        BY <3>1, <3>2, EndIterationType
    <2>. QED
      BY StepCases, <2>1, <2>2, <2>3, <2>4, <2>5, <2>6, <2>7, <2>8, <2>9, <2>10,
         <2>11, <2>12, <2>13, <2>14, <2>15, <2>16, <2>17, <2>18, <2>19, <2>20,
         <2>21, <2>22, <2>23
  <1>. QED
    BY <1>1, <1>2, PTL DEF Spec

------------------------------------------------------------------------------
(* What a step can do to the keys in Redis. *)

Pending(t, c) == rpc[t][c] = "sent" \/ c \in orphans[t]

Grants(t) ==
  /\ owner = None /\ issued[t] = 0 /\ lease[t] \in Ttls
  /\ owner' = t /\ ttl' = lease[t]
  /\ fence' = fence + 1 /\ fenceTtl' = FenceMult * lease[t]
  /\ issued' = [issued EXCEPT ![t] = fence + 1]
  /\ grants' = grants + 1 /\ grantNo' = [grantNo EXCEPT ![t] = grants + 1]
  /\ era' = [era EXCEPT ![t] = resets] /\ resets' = resets

Renews(t) ==
  /\ owner = t
  /\ \E x \in Ttls : /\ ttl' = x /\ fenceTtl' = FenceMult * x
                     /\ x = lease[t] \/ Pending(t, "extend")
  /\ UNCHANGED <<owner, fence, issued, grants, grantNo, era, resets>>

Frees ==
  /\ owner' = None
  /\ UNCHANGED <<fence, fenceTtl, issued, grants, grantNo, era, resets>>
  /\ ttl' = 0

Rests ==
  UNCHANGED <<owner, ttl, fence, fenceTtl, issued, grants, grantNo, era, resets>>

\* The one script that a pending request stands for: a grant to a token that
\* never had one, a renewal or a release by the owner, or nothing.
LEMMA ScriptEffect ==
  ASSUME TypeOK, AcquireOnce, CounterFollowsOwner, resets' = resets,
         NEW t \in Tokens, NEW c \in Calls, Pending(t, c), RunScript(t, c)
  PROVE  \/ c = "acquire" /\ Grants(t) /\ Accepts(t, c)
         \/ c \in {"extend", "renew"} /\ Renews(t) /\ Accepts(t, c)
         \/ c = "release" /\ owner = t /\ Frees /\ Accepts(t, c)
         \/ Rests /\ owner # t /\ ~Accepts(t, c)
  <1> USE DEF store, history, Rests, Accepts
  <1>0. ASSUME owner = t PROVE issued[t] > 0 /\ lease[t] \in Ttls
    <2>1. issued[t] > 0
      BY <1>0, TokensAssumption DEF CounterFollowsOwner
    <2>2. handle[t] # "fresh"
      BY <2>1 DEF AcquireOnce
    <2>. QED
      BY <2>1, <2>2 DEF AcquireOnce
  <1>1. CASE c = "acquire" /\ AcquireScript(t)
    <2>1. issued[t] = 0 /\ lease[t] \in Ttls /\ owner # t
      BY <1>0, <1>1 DEF Pending, AcquireOnce, TypeOK
    <2>. QED
      BY <1>1, <2>1 DEF AcquireScript, Grants
  <1>2. CASE c = "extend" /\ \E x \in Ttls : ExtendScript(t, x)
    BY <1>2 DEF ExtendScript, Renews
  <1>3. CASE c = "renew" /\ ExtendScript(t, lease[t])
    BY <1>0, <1>3 DEF ExtendScript, Renews
  <1>4. CASE c = "release" /\ ReleaseScript(t)
    BY <1>4 DEF ReleaseScript, Frees
  <1>. QED
    BY <1>1, <1>2, <1>3, <1>4 DEF RunScript

\* The effect of any step on the keys.
LEMMA StoreStep ==
  ASSUME TypeOK, AcquireOnce, CounterFollowsOwner, [Next]_vars
  PROVE  \/ Tick
         \/ Rests
         \/ ForceUnlock /\ Frees /\ \E t \in Tokens : "force" \in Uses[t]
         \/ \E t \in Tokens :
              Grants(t) \/ Renews(t) \/ (owner = t /\ Frees /\ Pending(t, "release"))
  <1> USE DEF store, net, client, history, resource
  <1>1. CASE UNCHANGED vars
    BY <1>1 DEF vars, Rests
  <1>2. CASE ForceUnlock /\ \E t \in Tokens : "force" \in Uses[t]
    BY <1>2 DEF ForceUnlock, Frees
  <1>3. ASSUME NEW t \in Tokens, NEW c \in Calls, Serve(t, c)
        PROVE  \/ Rests
               \/ Grants(t) \/ Renews(t)
               \/ (owner = t /\ Frees /\ Pending(t, "release"))
    <2>1. Pending(t, c) /\ RunScript(t, c) /\ resets' = resets
      BY <1>3 DEF Serve, Pending
    <2>. QED
      BY <2>1, ScriptEffect
  <1>4. ASSUME NEW t \in Tokens, NEW c \in Calls, ServeOrphan(t, c)
        PROVE  \/ Rests
               \/ Grants(t) \/ Renews(t)
               \/ (owner = t /\ Frees /\ Pending(t, "release"))
    <2>1. Pending(t, c) /\ RunScript(t, c) /\ resets' = resets
      BY <1>4 DEF ServeOrphan, Pending
    <2>. QED
      BY <2>1, ScriptEffect
  <1>5. ASSUME NEW t \in Tokens, NEW c \in Calls, TokenCall(t, c)
        PROVE  Rests
    BY <1>5 DEF TokenCall, Rests
  <1>6. ASSUME NEW t \in Tokens, NEW w \in BOOLEAN, TryLockGranted(t, w)
        PROVE  Rests
    BY <1>6 DEF TryLockGranted, Rests
  <1>7. ASSUME NEW t \in Tokens,
               \/ TryLock(t) \/ TryLockHeld(t) \/ TryLockError(t)
               \/ Extend(t) \/ ExtendReturn(t) \/ ExtendError(t)
               \/ Release(t) \/ ReleaseReturn(t) \/ ReleaseError(t)
               \/ DropHandle(t) \/ Disarm(t) \/ Crash(t) \/ FencedWrite(t)
               \/ WatchdogExit(t) \/ WatchdogRenew(t)
               \/ WatchdogReturn(t) \/ WatchdogError(t)
        PROVE  Rests
    BY <1>7 DEF Rests, TryLock, TryLockHeld, TryLockError, Extend, ExtendReturn,
         ExtendError, Release, ReleaseReturn, ReleaseError, DropHandle, Disarm,
         Crash, FencedWrite, WatchdogExit, WatchdogRenew, WatchdogReturn,
         WatchdogError, EndIteration
  <1>. QED
    BY StepCases, <1>1, <1>2, <1>3, <1>4, <1>5, <1>6, <1>7

------------------------------------------------------------------------------
(* The acquire request of a token exists at most once, before its grant. *)

\* A step that leaves acquire requests alone and only lets handles fade.
LEMMA AcquireFrame ==
  ASSUME AcquireOnce, lease' = lease, issued' = issued,
         \A u \in Tokens :
           /\ rpc'[u]["acquire"] = rpc[u]["acquire"]
           /\ "acquire" \in orphans'[u] => "acquire" \in orphans[u]
           /\ \/ handle'[u] = handle[u]
              \/ /\ handle[u] \in {"live", "dropping"}
                 /\ handle'[u] \in {"dropping", "dead"}
  PROVE  AcquireOnce'
  <1> SUFFICES ASSUME NEW u \in Tokens
               PROVE  /\ handle'[u] = "fresh" => issued[u] = 0
                      /\ handle'[u] # "fresh" => lease[u] \in Ttls
                      /\ handle'[u] \in {"live", "dropping", "dead"} => issued[u] > 0
                      /\ rpc[u]["acquire"] # "idle" => handle'[u] = "trying"
                      /\ rpc[u]["acquire"] = "sent" => issued[u] = 0
                      /\ rpc[u]["acquire"] = "yes" => issued[u] > 0
                      /\ "acquire" \in orphans'[u]
                           => issued[u] = 0 /\ handle'[u] \in {"failed", "crashed"}
    BY DEF AcquireOnce
  <1>1. CASE handle'[u] = handle[u]
    BY <1>1 DEF AcquireOnce
  <1>2. CASE /\ handle[u] \in {"live", "dropping"}
             /\ handle'[u] \in {"dropping", "dead"}
    BY <1>2 DEF AcquireOnce
  <1>. QED
    BY <1>1, <1>2

\* Every step keeps the rule that an acquire script runs at most once for a
\* token: as long as one is on its way, late ones of failed calls included, the
\* token has no fence.
LEMMA AcquireOnceStep ==
  ASSUME TypeOK, AcquireOnce, CounterFollowsOwner, [Next]_vars
  PROVE  AcquireOnce'
  <1> USE DEF store, net, client, history, resource
  <1>1. CASE UNCHANGED vars
    BY <1>1 DEF vars, AcquireOnce
  <1>2. CASE Tick
    BY <1>2 DEF Tick, AcquireOnce
  <1>3. CASE ForceUnlock
    BY <1>3 DEF ForceUnlock, AcquireOnce
  <1>4. ASSUME NEW t \in Tokens, NEW c \in Calls, Serve(t, c)
        PROVE  AcquireOnce'
    <2>1. Pending(t, c) /\ RunScript(t, c) /\ resets' = resets
      BY <1>4 DEF Serve, Pending
    <2>2. /\ rpc' = [rpc EXCEPT ![t][c] = IF Accepts(t, c) THEN "yes" ELSE "no"]
          /\ UNCHANGED <<orphans, handle, lease>> /\ rpc[t][c] = "sent"
      BY <1>4 DEF Serve
    <2>3. CASE c = "acquire" /\ Grants(t) /\ Accepts(t, c)
      BY <2>2, <2>3 DEF Grants, AcquireOnce, TypeOK, Calls
    <2>4. CASE issued' = issued /\ (c # "acquire" \/ ~Accepts(t, c))
      BY <2>2, <2>4 DEF AcquireOnce, TypeOK, Calls
    <2>. QED
      BY <2>1, <2>3, <2>4, ScriptEffect DEF Renews, Frees, Rests
  <1>5. ASSUME NEW t \in Tokens, NEW c \in Calls, ServeOrphan(t, c)
        PROVE  AcquireOnce'
    <2>1. Pending(t, c) /\ RunScript(t, c) /\ resets' = resets
      BY <1>5 DEF ServeOrphan, Pending
    <2>2. /\ c \in orphans[t] /\ orphans' = [orphans EXCEPT ![t] = @ \ {c}]
          /\ UNCHANGED <<rpc, handle, lease>>
      BY <1>5 DEF ServeOrphan
    <2>3. CASE c = "acquire" /\ Grants(t)
      BY <2>2, <2>3 DEF Grants, AcquireOnce, TypeOK, Calls
    <2>4. CASE issued' = issued
      BY <2>2, <2>4 DEF AcquireOnce
    <2>. QED
      BY <2>1, <2>3, <2>4, ScriptEffect DEF Renews, Frees, Rests
  <1>6. ASSUME NEW t \in Tokens, NEW c \in Calls, TokenCall(t, c)
        PROVE  AcquireOnce'
    BY <1>6 DEF TokenCall, AcquireOnce
  <1>7. ASSUME NEW t \in Tokens, NEW w \in BOOLEAN, TryLockGranted(t, w)
        PROVE  AcquireOnce'
    BY <1>7 DEF TryLockGranted, Return, AcquireOnce, TypeOK, Calls
  <1>8. ASSUME NEW t \in Tokens, TryLock(t)
        PROVE  AcquireOnce'
    BY <1>8 DEF TryLock, Send, AcquireOnce, TypeOK, Calls
  <1>9. ASSUME NEW t \in Tokens, TryLockHeld(t)
        PROVE  AcquireOnce'
    BY <1>9 DEF TryLockHeld, Return, AcquireOnce, TypeOK, Calls
  <1>10. ASSUME NEW t \in Tokens, TryLockError(t)
         PROVE  AcquireOnce'
    BY <1>10 DEF TryLockError, GiveUp, Unserved, AcquireOnce, TypeOK, Calls
  <1>11. ASSUME NEW t \in Tokens, Extend(t) \/ WatchdogRenew(t) \/ Release(t)
         PROVE  AcquireOnce'
    <2>1. \A u \in Tokens : rpc'[u]["acquire"] = rpc[u]["acquire"]
      BY <1>11, SendFrame DEF Extend, WatchdogRenew, Release, Calls
    <2>2. UNCHANGED <<lease, issued, orphans, handle>>
      BY <1>11 DEF Extend, WatchdogRenew, Release
    <2>. QED
      BY <2>1, <2>2, AcquireFrame
  <1>12. ASSUME NEW t \in Tokens, ExtendReturn(t) \/ ReleaseReturn(t)
         PROVE  AcquireOnce'
    <2>1. \A u \in Tokens : rpc'[u]["acquire"] = rpc[u]["acquire"]
      BY <1>12, ReturnFrame DEF ExtendReturn, ReleaseReturn, Calls
    <2>2. UNCHANGED <<lease, issued, orphans, handle>>
      BY <1>12 DEF ExtendReturn, ReleaseReturn
    <2>. QED
      BY <2>1, <2>2, AcquireFrame
  <1>13. ASSUME NEW t \in Tokens, ExtendError(t) \/ ReleaseError(t)
         PROVE  AcquireOnce'
    <2>1. \A u \in Tokens :
            /\ rpc'[u]["acquire"] = rpc[u]["acquire"]
            /\ "acquire" \in orphans'[u] => "acquire" \in orphans[u]
      BY <1>13 DEF ExtendError, ReleaseError, GiveUp, Unserved, TypeOK, Calls
    <2>2. UNCHANGED <<lease, issued, handle>>
      BY <1>13 DEF ExtendError, ReleaseError
    <2>. QED
      BY <2>1, <2>2, AcquireFrame
  <1>14. ASSUME NEW t \in Tokens, DropHandle(t)
         PROVE  AcquireOnce'
    <2>1. \A u \in Tokens : rpc'[u]["acquire"] = rpc[u]["acquire"]
      BY <1>14 DEF DropHandle, TypeOK, Calls
    <2>2. \A u \in Tokens : "acquire" \in orphans'[u]
                              => "acquire" \in orphans[u]
      BY <1>14 DEF DropHandle, Unserved, DetachedRelease
    <2>3. \A u \in Tokens :
            \/ handle'[u] = handle[u]
            \/ /\ handle[u] \in {"live", "dropping"}
               /\ handle'[u] \in {"dropping", "dead"}
      BY <1>14 DEF DropHandle, TypeOK
    <2>4. UNCHANGED <<lease, issued>>
      BY <1>14 DEF DropHandle
    <2>. QED
      BY <2>1, <2>2, <2>3, <2>4, AcquireFrame
  <1>15. ASSUME NEW t \in Tokens, Disarm(t) \/ FencedWrite(t) \/ WatchdogExit(t)
         PROVE  AcquireOnce'
    BY <1>15 DEF Disarm, FencedWrite, WatchdogExit, AcquireOnce
  <1>16. ASSUME NEW t \in Tokens, Crash(t)
         PROVE  AcquireOnce'
    BY <1>16 DEF Crash, GiveUp, Unserved, AcquireOnce, TypeOK, Calls
  <1>17. ASSUME NEW t \in Tokens, WatchdogReturn(t) \/ WatchdogError(t)
         PROVE  AcquireOnce'
    <2>1. \A u \in Tokens : rpc'[u]["acquire"] = rpc[u]["acquire"]
      BY <1>17, ReturnFrame DEF WatchdogReturn, WatchdogError, EndIteration, Calls
    <2>2. \A u \in Tokens : "acquire" \in orphans'[u]
                              => "acquire" \in orphans[u]
      <3>1. PICK poisons \in BOOLEAN, failures \in Nat, late \in SUBSET {"renew"} :
              EndIteration(t, poisons, failures, late)
        BY <1>17, RenewalEnds
      <3>2. late \in SUBSET Calls /\ "acquire" \notin late
        BY DEF Calls
      <3>. QED
        BY <3>1, <3>2, EndIterationFrame
    <2>3. \A u \in Tokens :
            \/ handle'[u] = handle[u]
            \/ /\ handle[u] \in {"live", "dropping"}
               /\ handle'[u] \in {"dropping", "dead"}
      BY <1>17 DEF WatchdogReturn, WatchdogError, EndIteration, TypeOK
    <2>4. UNCHANGED <<lease, issued>>
      BY <1>17 DEF WatchdogReturn, WatchdogError, EndIteration
    <2>. QED
      BY <2>1, <2>2, <2>3, <2>4, AcquireFrame
  <1>. QED
    BY StepCases, <1>1, <1>2, <1>3, <1>4, <1>5, <1>6, <1>7, <1>8, <1>9, <1>10,
       <1>11, <1>12, <1>13, <1>14, <1>15, <1>16, <1>17

------------------------------------------------------------------------------
(* Fences. *)

\* The inductive invariant behind everything said about fences.
FenceInv ==
  TypeOK /\ AcquireOnce /\ CounterFollowsOwner /\ CounterBoundsFences
    /\ FencesFollowGrants

\* Every step keeps the fence counter alive at least as long as the lock: the
\* scripts of acquire and extend give both their ttl in one step.
LEMMA CounterFollowsOwnerStep ==
  ASSUME TypeOK, AcquireOnce, CounterFollowsOwner, [Next]_vars
  PROVE  CounterFollowsOwner'
  <1>1. CASE Tick
    <2>1. CASE ttl <= 1
      BY <1>1, <2>1 DEF Tick, CounterFollowsOwner
    <2>2. CASE ttl > 1 /\ owner # None
      <3>1. fenceTtl > ttl /\ ttl \in Nat /\ fenceTtl \in Nat
        BY <2>2 DEF CounterFollowsOwner, TypeOK
      <3>2. owner' = owner /\ fence' = fence /\ issued' = issued
        BY <1>1, <2>2, <3>1 DEF Tick, history
      <3>3. fenceTtl' > ttl' /\ ttl' > 0
        BY <1>1, <2>2, <3>1 DEF Tick, Less
      <3>. QED
        BY <2>2, <3>2, <3>3 DEF CounterFollowsOwner
    <2>3. CASE owner = None
      BY <1>1, <2>3 DEF Tick, CounterFollowsOwner
    <2>. QED
      BY <2>1, <2>2, <2>3 DEF TypeOK
  <1>2. CASE Rests
    BY <1>2 DEF Rests, CounterFollowsOwner
  <1>3. CASE Frees
    BY <1>3 DEF Frees, CounterFollowsOwner
  <1>4. ASSUME NEW t \in Tokens, Grants(t)
        PROVE  CounterFollowsOwner'
    BY <1>4, FenceTtlLonger DEF Grants, CounterFollowsOwner, TypeOK
  <1>5. ASSUME NEW t \in Tokens, Renews(t)
        PROVE  CounterFollowsOwner'
    BY <1>5, FenceTtlLonger DEF Renews, CounterFollowsOwner
  <1>. QED
    BY StoreStep, <1>1, <1>2, <1>3, <1>4, <1>5

\* Every step keeps the fence counter at or above every fence it issued since it
\* last started from zero.
LEMMA CounterBoundsFencesStep ==
  ASSUME TypeOK, AcquireOnce, CounterFollowsOwner, CounterBoundsFences, [Next]_vars
  PROVE  CounterBoundsFences'
  <1>1. CASE Tick
    <2>1. UNCHANGED <<issued, grants, grantNo, era>>
      BY <1>1 DEF Tick, history
    <2>2. fenceTtl' = 0 => fence' = 0
      BY <1>1 DEF Tick, Less, TypeOK
    <2>3. CASE fenceTtl > 1
      <3>1. fence' = fence /\ resets' = resets
        BY <1>1, <2>3 DEF Tick, TypeOK
      <3>. QED
        BY <2>1, <2>2, <3>1 DEF CounterBoundsFences
    <2>4. CASE fenceTtl = 1
      <3>1. resets' = resets + 1 /\ resets \in Nat
        BY <1>1, <2>4 DEF Tick, TypeOK
      <3>2. \A t \in Tokens : era[t] \in Nat /\ era[t] <= resets
        BY DEF CounterBoundsFences, TypeOK
      <3>3. \A t \in Tokens : era[t] <= resets' /\ era[t] # resets'
        BY <3>1, <3>2
      <3>. QED
        BY <2>1, <2>2, <3>3 DEF CounterBoundsFences
    <2>5. CASE fenceTtl = 0
      <3>1. resets' = resets /\ fence' = 0 /\ fence = 0
        BY <1>1, <2>5 DEF Tick, CounterBoundsFences
      <3>. QED
        BY <2>1, <2>2, <3>1 DEF CounterBoundsFences
    <2>. QED
      BY <2>3, <2>4, <2>5 DEF TypeOK
  <1>2. CASE Rests
    BY <1>2 DEF Rests, CounterBoundsFences
  <1>3. CASE Frees
    BY <1>3 DEF Frees, CounterBoundsFences
  <1>4. ASSUME NEW t \in Tokens, Grants(t)
        PROVE  CounterBoundsFences'
    <2> USE DEF Grants
    <2>1. fenceTtl' # 0
      BY <1>4, FenceTtlLonger
    <2>2. /\ issued'[t] = fence + 1 /\ grantNo'[t] = grants + 1
          /\ era'[t] = resets /\ fence \in Nat /\ grants \in Nat /\ resets \in Nat
          /\ \A u \in Tokens : u # t =>
               issued'[u] = issued[u] /\ grantNo'[u] = grantNo[u] /\ era'[u] = era[u]
          /\ \A u \in Tokens :
               issued[u] \in Nat /\ grantNo[u] \in Nat /\ era[u] \in Nat
      BY <1>4 DEF TypeOK
    <2>3. \A u \in Tokens :
            /\ issued'[u] = 0 => grantNo'[u] = 0
            /\ grantNo'[u] <= grants'
            /\ era'[u] <= resets'
            /\ era'[u] = resets' => issued'[u] <= fence'
      BY <1>4, <2>2 DEF CounterBoundsFences
    <2>4. \A u, v \in Tokens : issued'[u] > 0 /\ grantNo'[u] = grantNo'[v] => u = v
      <3>1. \A u \in Tokens : grantNo[u] < grants + 1
        BY <2>2 DEF CounterBoundsFences
      <3>. QED
        BY <2>2, <3>1 DEF CounterBoundsFences
    <2>. QED
      BY <2>1, <2>3, <2>4 DEF CounterBoundsFences
  <1>5. ASSUME NEW t \in Tokens, Renews(t)
        PROVE  CounterBoundsFences'
    BY <1>5, FenceTtlLonger DEF Renews, CounterBoundsFences
  <1>. QED
    BY StoreStep, <1>1, <1>2, <1>3, <1>4, <1>5

\* Every step keeps fences in the order of the grants within one life of the
\* counter: a new grant gets a number that acquire.lua counted past all others.
LEMMA FencesFollowGrantsStep ==
  ASSUME FenceInv, [Next]_vars
  PROVE  FencesFollowGrants'
  <1> USE DEF FenceInv
  <1>1. CASE UNCHANGED <<issued, grantNo, era>>
    BY <1>1 DEF FencesFollowGrants
  <1>2. ASSUME NEW t \in Tokens, Grants(t)
        PROVE  FencesFollowGrants'
    <2>1. /\ issued'[t] = fence + 1 /\ grantNo'[t] = grants + 1
          /\ era'[t] = resets /\ fence \in Nat /\ grants \in Nat
          /\ \A u \in Tokens : u # t =>
               issued'[u] = issued[u] /\ grantNo'[u] = grantNo[u] /\ era'[u] = era[u]
          /\ \A u \in Tokens : issued[u] \in Nat /\ grantNo[u] \in Nat
      BY <1>2 DEF Grants, TypeOK
    <2>2. \A u \in Tokens : era[u] = resets => issued[u] < fence + 1
      BY <2>1 DEF CounterBoundsFences
    <2>3. \A u \in Tokens : grantNo[u] < grants + 1
      BY <2>1 DEF CounterBoundsFences
    <2> SUFFICES ASSUME NEW u \in Tokens, NEW v \in Tokens, issued'[u] > 0,
                        era'[u] = era'[v], grantNo'[u] < grantNo'[v]
                 PROVE  issued'[u] < issued'[v]
      BY DEF FencesFollowGrants
    <2>4. CASE u # t /\ v = t
      BY <2>1, <2>2, <2>4
    <2>5. CASE u = t
      BY <2>1, <2>3, <2>5
    <2>6. CASE u # t /\ v # t
      BY <2>1, <2>6 DEF FencesFollowGrants
    <2>. QED
      BY <2>4, <2>5, <2>6
  <1>. QED
    BY StoreStep, <1>1, <1>2 DEF Tick, history, Rests, Frees, Renews

\* The fence invariant holds in every reachable state.
THEOREM FenceInvariant == Spec => []FenceInv
  <1>1. Init => FenceInv
    <2> SUFFICES ASSUME Init PROVE FenceInv
      OBVIOUS
    <2>1. TypeOK
      BY DEF Init, TypeOK, Calls, Phases, HandleStates
    <2>2. AcquireOnce
      BY DEF Init, AcquireOnce, Calls
    <2>3. CounterFollowsOwner /\ CounterBoundsFences /\ FencesFollowGrants
      BY DEF Init, CounterFollowsOwner, CounterBoundsFences, FencesFollowGrants
    <2>. QED
      BY <2>1, <2>2, <2>3 DEF FenceInv
  <1>2. TypeOK' /\ FenceInv /\ [Next]_vars => FenceInv'
    BY AcquireOnceStep, CounterFollowsOwnerStep, CounterBoundsFencesStep,
       FencesFollowGrantsStep DEF FenceInv
  <1>. QED
    BY <1>1, <1>2, TypeCorrect, PTL DEF Spec

\* The fence counter outlives every lease and shows the owner's fence.
THEOREM CounterFollowsOwnerHolds == Spec => []CounterFollowsOwner
  <1>1. FenceInv => CounterFollowsOwner
    BY DEF FenceInv
  <1>. QED
    BY <1>1, FenceInvariant, PTL

\* Between two resets of the counter, fences grow in the order of the grants.
THEOREM FencesFollowGrantsHolds == Spec => []FencesFollowGrants
  <1>1. FenceInv => FencesFollowGrants
    BY DEF FenceInv
  <1>. QED
    BY <1>1, FenceInvariant, PTL

\* The mutex implements the abstract lease lock: one uninterrupted hold per
\* token, and the counter is forgotten only while nobody owns the key.
THEOREM RefinesLeaseLock == Spec => ImplementsLeaseLock
  <1>1. Init => Lease!Init
    BY DEF Init, Lease!Init
  <1>2. FenceInv /\ [Next]_vars => [Lease!Next]_(Lease!vars)
    <2> SUFFICES ASSUME FenceInv, [Next]_vars
                 PROVE  Lease!Next \/ UNCHANGED <<owner, fence, issued>>
      BY DEF Lease!vars
    <2> USE DEF FenceInv
    <2>1. CASE Tick
      <3>1. issued' = issued
        BY <2>1 DEF Tick, history
      <3>2. CASE owner # None
        <4>1. fence' = fence
          BY <2>1, <3>2 DEF Tick, CounterFollowsOwner, TypeOK
        <4>2. owner' = owner \/ owner' = None
          BY <2>1 DEF Tick
        <4>. QED
          BY <3>1, <3>2, <4>1, <4>2 DEF Lease!Next, Lease!Free
      <3>3. CASE owner = None
        <4>1. owner' = None /\ (fence' = fence \/ fence' = 0)
          BY <2>1, <3>3 DEF Tick
        <4>. QED
          BY <3>1, <3>3, <4>1 DEF Lease!Next, Lease!Forget
      <3>. QED
        BY <3>2, <3>3
    <2>2. CASE Rests \/ \E t \in Tokens : Renews(t)
      BY <2>2 DEF Rests, Renews
    <2>3. CASE Frees
      BY <2>3 DEF Frees, Lease!Next, Lease!Free
    <2>4. ASSUME NEW t \in Tokens, Grants(t)
          PROVE  Lease!Next
      <3>1. fence' \in Nat /\ fence' > fence
        BY <2>4 DEF Grants, TypeOK
      <3>2. issued' = [issued EXCEPT ![t] = fence']
        BY <2>4 DEF Grants
      <3>. QED
        BY <2>4, <3>1, <3>2 DEF Grants, Lease!Next, Lease!Grant
    <2>. QED
      BY StoreStep, <2>1, <2>2, <2>3, <2>4
  <1>. QED
    BY <1>1, <1>2, FenceInvariant, PTL DEF Spec, ImplementsLeaseLock, Lease!Spec

------------------------------------------------------------------------------
(* The fenced resource. *)

\* Only a fenced write of a live handle touches the resource.
LEMMA ResourceStep ==
  ASSUME [Next]_vars
  PROVE  \/ UNCHANGED resource
         \/ \E t \in Tokens : FencedWrite(t)
  <1>1. CASE UNCHANGED vars
    BY <1>1 DEF vars
  <1>2. CASE Tick \/ ForceUnlock
    BY <1>2 DEF Tick, ForceUnlock
  <1>3. ASSUME NEW t \in Tokens, NEW c \in Calls,
               Serve(t, c) \/ ServeOrphan(t, c) \/ TokenCall(t, c)
        PROVE  UNCHANGED resource
    BY <1>3 DEF Serve, ServeOrphan, TokenCall
  <1>4. ASSUME NEW t \in Tokens, NEW w \in BOOLEAN, TryLockGranted(t, w)
        PROVE  UNCHANGED resource
    BY <1>4 DEF TryLockGranted
  <1>5. ASSUME NEW t \in Tokens,
               \/ TryLock(t) \/ TryLockHeld(t) \/ TryLockError(t)
               \/ Extend(t) \/ ExtendReturn(t) \/ ExtendError(t)
               \/ Release(t) \/ ReleaseReturn(t) \/ ReleaseError(t)
        PROVE  UNCHANGED resource
    BY <1>5 DEF TryLock, TryLockHeld, TryLockError, Extend, ExtendReturn,
                ExtendError, Release, ReleaseReturn, ReleaseError
  <1>6. ASSUME NEW t \in Tokens, DropHandle(t) \/ Disarm(t) \/ Crash(t)
        PROVE  UNCHANGED resource
    BY <1>6 DEF DropHandle, Disarm, Crash
  <1>7. ASSUME NEW t \in Tokens,
               \/ WatchdogExit(t) \/ WatchdogRenew(t)
               \/ WatchdogReturn(t) \/ WatchdogError(t)
        PROVE  UNCHANGED resource
    BY <1>7 DEF WatchdogExit, WatchdogRenew, WatchdogReturn, WatchdogError,
                EndIteration
  <1>. QED
    BY StepCases, <1>1, <1>2, <1>3, <1>4, <1>5, <1>6, <1>7

\* Every step keeps last_fence equal to the fence of the last accepted writer:
\* a token is granted once, so no later grant changes the writer's fence.
LEMMA WriterRememberedStep ==
  ASSUME FenceInv, WriterRemembered, [Next]_vars
  PROVE  WriterRemembered'
  <1> USE DEF FenceInv
  <1>1. ASSUME NEW t \in Tokens, FencedWrite(t)
        PROVE  WriterRemembered'
    BY <1>1 DEF FencedWrite, history, WriterRemembered, TypeOK
  <1>2. CASE UNCHANGED resource
    <2>1. ASSUME issued' = issued
          PROVE  WriterRemembered'
      BY <1>2, <2>1 DEF resource, WriterRemembered
    <2>2. ASSUME NEW t \in Tokens, Grants(t)
          PROVE  WriterRemembered'
      <3>1. issued[t] = 0 /\ \A u \in Tokens : u # t => issued'[u] = issued[u]
        BY <2>2 DEF Grants, TypeOK
      <3>2. lastWriter # None => lastWriter \in Tokens /\ lastWriter # t
        BY <3>1 DEF WriterRemembered, TypeOK
      <3>. QED
        BY <1>2, <3>1, <3>2 DEF resource, WriterRemembered
    <2>. QED
      BY StoreStep, <2>1, <2>2 DEF Tick, history, Rests, Frees, Renews
  <1>. QED
    BY ResourceStep, <1>1, <1>2

\* Between two resets of the counter, a resource that applies FencingToken::
\* supersedes accepts writes in the order of the grants only, however long a
\* stale holder goes on writing.
THEOREM FencedWritesInOrderHolds == Spec => FencedWritesInOrder
  <1>1. Init => WriterRemembered
    BY DEF Init, WriterRemembered
  <1>2. FenceInv /\ WriterRemembered /\ [Next]_vars => WriterRemembered'
    BY WriterRememberedStep
  <1>3. FenceInv /\ WriterRemembered /\ [Next]_vars
          => [(lastWriter # None /\ lastWriter' # lastWriter
                 /\ era[lastWriter] = era[lastWriter'])
                => grantNo[lastWriter'] > grantNo[lastWriter]]_vars
    <2> SUFFICES ASSUME FenceInv, WriterRemembered, [Next]_vars,
                        lastWriter # None, lastWriter' # lastWriter,
                        era[lastWriter] = era[lastWriter']
                 PROVE  grantNo[lastWriter'] > grantNo[lastWriter]
      OBVIOUS
    <2> USE DEF FenceInv
    <2>1. PICK t \in Tokens : FencedWrite(t)
      BY ResourceStep DEF resource
    <2>2. lastWriter' = t /\ issued[t] > lastFence
      BY <2>1 DEF FencedWrite
    <2>3. /\ lastWriter \in Tokens
          /\ lastFence = issued[lastWriter] /\ issued[lastWriter] > 0
      BY DEF WriterRemembered, TypeOK
    <2>4. /\ issued[t] \in Nat /\ issued[lastWriter] \in Nat
          /\ grantNo[t] \in Nat /\ grantNo[lastWriter] \in Nat
      BY <2>3 DEF TypeOK
    <2>5. ~(grantNo[t] < grantNo[lastWriter])
      BY <2>2, <2>3, <2>4 DEF FencesFollowGrants
    <2>6. grantNo[t] # grantNo[lastWriter]
      BY <2>2, <2>3, <2>4 DEF CounterBoundsFences
    <2>. QED
      BY <2>2, <2>4, <2>5, <2>6
  <1>. QED
    BY <1>1, <1>2, <1>3, FenceInvariant, PTL DEF Spec, FencedWritesInOrder

------------------------------------------------------------------------------
(* Releases, losses and drops. *)

\* Release requests exist only for handles marked as released.
LEMMA ReleaseFlaggedStep ==
  ASSUME TypeOK, ReleaseFlagged, [Next]_vars
  PROVE  ReleaseFlagged'
  <1> USE DEF store, net, client, history, resource
  <1>1. CASE UNCHANGED vars
    BY <1>1 DEF vars, ReleaseFlagged
  <1>2. CASE Tick \/ ForceUnlock
    BY <1>2 DEF Tick, ForceUnlock, ReleaseFlagged
  <1>3. ASSUME NEW t \in Tokens, NEW c \in Calls, Serve(t, c)
        PROVE  ReleaseFlagged'
    <2>1. \A u \in Tokens : rpc'[u]["release"] # "idle" => rpc[u]["release"] # "idle"
      BY <1>3 DEF Serve, TypeOK, Calls
    <2>. QED
      BY <1>3, <2>1 DEF Serve, ReleaseFlagged
  <1>4. ASSUME NEW t \in Tokens, NEW c \in Calls, ServeOrphan(t, c) \/ TokenCall(t, c)
        PROVE  ReleaseFlagged'
    <2>1. \A u \in Tokens : "release" \in orphans'[u]
                              => "release" \in orphans[u] \/ remote[u]
      BY <1>4 DEF ServeOrphan, TokenCall, TypeOK
    <2>. QED
      BY <1>4, <2>1 DEF ServeOrphan, TokenCall, ReleaseFlagged
  <1>5. ASSUME NEW t \in Tokens, NEW w \in BOOLEAN, TryLockGranted(t, w)
        PROVE  ReleaseFlagged'
    BY <1>5, ReturnFrame DEF TryLockGranted, ReleaseFlagged, Calls
  <1>6. ASSUME NEW t \in Tokens, TryLock(t) \/ Extend(t) \/ WatchdogRenew(t)
        PROVE  ReleaseFlagged'
    BY <1>6, SendFrame DEF TryLock, Extend, WatchdogRenew, ReleaseFlagged, Calls
  <1>7. ASSUME NEW t \in Tokens, TryLockHeld(t) \/ ExtendReturn(t) \/ ReleaseReturn(t)
        PROVE  ReleaseFlagged'
    <2>1. \A u \in Tokens : rpc'[u]["release"] # "idle" => rpc[u]["release"] # "idle"
      BY <1>7, ReturnFrame DEF TryLockHeld, ExtendReturn, ReleaseReturn, Calls
    <2>. QED
      BY <1>7, <2>1 DEF TryLockHeld, ExtendReturn, ReleaseReturn, ReleaseFlagged
  <1>8. ASSUME NEW t \in Tokens,
               TryLockError(t) \/ ExtendError(t) \/ ReleaseError(t) \/ Crash(t)
        PROVE  ReleaseFlagged'
    <2>1. PICK calls \in SUBSET Calls : GiveUp(t, calls)
      BY <1>8 DEF TryLockError, ExtendError, ReleaseError, Crash, Calls
    <2>2. \A u \in Tokens :
            /\ rpc'[u]["release"] # "idle" => rpc[u]["release"] # "idle"
            /\ "release" \in orphans'[u]
                 => "release" \in orphans[u] \/ rpc[u]["release"] = "sent"
      BY <2>1 DEF GiveUp, Unserved, TypeOK, Calls
    <2>3. UNCHANGED <<released, remote>>
      BY <1>8 DEF TryLockError, ExtendError, ReleaseError, Crash
    <2>. QED
      BY <2>2, <2>3 DEF ReleaseFlagged
  <1>9. ASSUME NEW t \in Tokens, Release(t)
        PROVE  ReleaseFlagged'
    <2>1. \A u \in Tokens : u # t => rpc'[u]["release"] = rpc[u]["release"]
      BY <1>9, SendFrame DEF Release, Calls
    <2>. QED
      BY <1>9, <2>1 DEF Release, ReleaseFlagged, TypeOK
  <1>10. ASSUME NEW t \in Tokens, Disarm(t)
         PROVE  ReleaseFlagged'
    BY <1>10 DEF Disarm, ReleaseFlagged, TypeOK
  <1>11. ASSUME NEW t \in Tokens, FencedWrite(t) \/ WatchdogExit(t)
         PROVE  ReleaseFlagged'
    BY <1>11 DEF FencedWrite, WatchdogExit, ReleaseFlagged
  <1>12. ASSUME NEW t \in Tokens, DropHandle(t)
         PROVE  ReleaseFlagged'
    <2>1. \A u \in Tokens : u # t => /\ rpc'[u] = rpc[u]
                                     /\ orphans'[u] = orphans[u]
                                     /\ released'[u] = released[u]
      BY <1>12 DEF DropHandle, TypeOK
    <2>2. /\ rpc'[t]["release"] = "idle"
          /\ remote' = remote
          /\ released'[t] = (released[t] \/ watchdog[t] # "renew")
      BY <1>12 DEF DropHandle, TypeOK, Calls
    <2>3. "release" \in orphans'[t]
            => \/ "release" \in orphans[t] \/ rpc[t]["release"] = "sent"
               \/ watchdog[t] # "renew"
      BY <1>12 DEF DropHandle, Unserved, TypeOK
    <2>. QED
      BY <2>1, <2>2, <2>3 DEF ReleaseFlagged
  <1>13. ASSUME NEW t \in Tokens, WatchdogReturn(t) \/ WatchdogError(t)
         PROVE  ReleaseFlagged'
    <2>0. PICK poisons \in BOOLEAN, failures \in Nat, late \in SUBSET {"renew"} :
            EndIteration(t, poisons, failures, late)
      BY <1>13, RenewalEnds
    <2>1. /\ EndIteration(t, poisons, failures, late)
          /\ late \in SUBSET Calls /\ "release" \notin late
      BY <2>0 DEF Calls
    <2>2. \A u \in Tokens : rpc'[u]["release"] = rpc[u]["release"]
      BY <2>1, ReturnFrame DEF EndIteration, Calls
    <2>3. \A u \in Tokens : u # t => orphans'[u] = orphans[u] /\ released'[u] = released[u]
      BY <2>1, EndIterationFrame DEF EndIteration, TypeOK
    <2>4. CASE handle[t] = "dropping"
      BY <2>1, <2>2, <2>3, <2>4 DEF EndIteration, TypeOK, ReleaseFlagged
    <2>5. CASE handle[t] # "dropping"
      <3>1. released' = released /\ remote' = remote
            /\ ("release" \in orphans'[t] => "release" \in orphans[t])
        BY <2>1, <2>5 DEF EndIteration, TypeOK
      <3>. QED
        BY <2>2, <2>3, <3>1 DEF ReleaseFlagged
    <2>. QED
      BY <2>4, <2>5
  <1>. QED
    BY StepCases, <1>1, <1>2, <1>3, <1>4, <1>5, <1>6, <1>7, <1>8, <1>9, <1>10,
       <1>11, <1>12, <1>13

\* No release request is ever under way without mark_released.
LEMMA ReleaseFlaggedHolds == Spec => []ReleaseFlagged
  <1>1. Init => ReleaseFlagged
    BY DEF Init, ReleaseFlagged, Calls
  <1>2. TypeOK /\ ReleaseFlagged /\ [Next]_vars => ReleaseFlagged'
    BY ReleaseFlaggedStep
  <1>. QED
    BY <1>1, <1>2, TypeCorrect, PTL DEF Spec

\* Ownership of t ends by expiry, by force, or after t's own release.
THEOREM HoldEndsByOwnerHolds == Spec => HoldEndsByOwner
  <1>1. FenceInv /\ ReleaseFlagged /\ [Next]_vars
          => [\A t \in Tokens :
                owner = t /\ owner' # t => Tick \/ ForceUnlock \/ released[t]]_vars
    <2> SUFFICES ASSUME FenceInv, ReleaseFlagged, [Next]_vars,
                        NEW t \in Tokens, owner = t, owner' # t
                 PROVE  Tick \/ ForceUnlock \/ released[t]
      OBVIOUS
    <2> USE DEF FenceInv
    <2>1. CASE Rests
      BY <2>1 DEF Rests
    <2>2. ASSUME NEW u \in Tokens, owner = u, Pending(u, "release")
          PROVE  released[t]
      BY <2>2 DEF Pending, ReleaseFlagged
    <2>3. ASSUME NEW u \in Tokens, Grants(u) \/ Renews(u)
          PROVE  FALSE
      BY <2>3, TokensAssumption DEF Grants, Renews
    <2>. QED
      BY StoreStep, <2>1, <2>2, <2>3
  <1>. QED
    BY <1>1, FenceInvariant, ReleaseFlaggedHolds, PTL DEF Spec, HoldEndsByOwner

------------------------------------------------------------------------------
(* Verdicts: what a client is told stays true. *)

\* A token that was granted the key and no longer owns it never owns it again.
LEMMA GoneStays ==
  ASSUME FenceInv, [Next]_vars, NEW t \in Tokens, issued[t] > 0
  PROVE  issued'[t] > 0 /\ (owner # t => owner' # t)
  <1> USE DEF FenceInv
  <1>1. CASE Tick
    BY <1>1, TokensAssumption DEF Tick, history
  <1>2. CASE Rests \/ Frees \/ \E u \in Tokens : Renews(u)
    BY <1>2, TokensAssumption DEF Rests, Frees, Renews
  <1>3. ASSUME NEW u \in Tokens, Grants(u)
        PROVE  issued'[t] > 0 /\ owner' # t
    <2>1. u # t
      BY <1>3 DEF Grants
    <2>. QED
      BY <1>3, <2>1 DEF Grants, TypeOK
  <1>. QED
    BY StoreStep, <1>1, <1>2, <1>3

\* How the slot of a call can change: it is freed, its request is served, or a
\* request is sent by a live handle.
LEMMA RpcStep ==
  ASSUME TypeOK, [Next]_vars, NEW u \in Tokens, NEW d \in Calls, rpc'[u][d] # rpc[u][d]
  PROVE  \/ rpc'[u][d] = "idle"
         \/ Serve(u, d)
         \/ /\ rpc'[u][d] = "sent"
            /\ handle[u] = "live" \/ d = "acquire"
            /\ d = "extend" => "extend" \in Uses[u]
  <1> USE DEF store, net, client, history, resource
  <1>c. {"acquire", "extend", "renew", "release"} \subseteq Calls
    BY DEF Calls
  <1>1. CASE UNCHANGED vars
    BY <1>1 DEF vars
  <1>2. CASE Tick \/ ForceUnlock
    BY <1>2 DEF Tick, ForceUnlock
  <1>3. ASSUME NEW t \in Tokens, NEW c \in Calls, Serve(t, c) PROVE Serve(u, d)
    <2>1. t = u /\ c = d
      BY <1>3 DEF Serve, TypeOK
    <2>. QED
      BY <1>3, <2>1
  <1>4. ASSUME NEW t \in Tokens, NEW c \in Calls, ServeOrphan(t, c) \/ TokenCall(t, c)
        PROVE  FALSE
    BY <1>4 DEF ServeOrphan, TokenCall
  <1>5. ASSUME NEW t \in Tokens, NEW c \in Calls, Return(t, c) PROVE rpc'[u][d] = "idle"
    BY <1>5, ReturnFrame
  <1>6. ASSUME NEW t \in Tokens, NEW c \in Calls, Send(t, c)
        PROVE  t = u /\ c = d /\ rpc'[u][d] = "sent"
    BY <1>6, SendFrame
  <1>7. ASSUME NEW t \in Tokens, NEW calls \in SUBSET Calls, GiveUp(t, calls)
        PROVE  rpc'[u][d] = "idle"
    BY <1>7 DEF GiveUp, TypeOK
  <1>8. ASSUME NEW t \in Tokens, NEW w \in BOOLEAN, TryLockGranted(t, w)
        PROVE  rpc'[u][d] = "idle"
    BY <1>c, <1>5, <1>8 DEF TryLockGranted
  <1>9. ASSUME NEW t \in Tokens, TryLockHeld(t) \/ ExtendReturn(t) \/ ReleaseReturn(t)
        PROVE  rpc'[u][d] = "idle"
    BY <1>c, <1>5, <1>9 DEF TryLockHeld, ExtendReturn, ReleaseReturn
  <1>10. ASSUME NEW t \in Tokens,
                TryLockError(t) \/ ExtendError(t) \/ ReleaseError(t) \/ Crash(t)
         PROVE  rpc'[u][d] = "idle"
    BY <1>c, <1>7, <1>10 DEF TryLockError, ExtendError, ReleaseError, Crash
  <1>11. ASSUME NEW t \in Tokens, TryLock(t)
         PROVE  rpc'[u][d] = "sent" /\ d = "acquire"
    BY <1>c, <1>6, <1>11 DEF TryLock
  <1>12. ASSUME NEW t \in Tokens, Release(t) \/ WatchdogRenew(t)
         PROVE  rpc'[u][d] = "sent" /\ handle[u] = "live" /\ d # "extend"
    BY <1>c, <1>6, <1>12 DEF Release, WatchdogRenew
  <1>13. ASSUME NEW t \in Tokens, Disarm(t) \/ FencedWrite(t) \/ WatchdogExit(t)
         PROVE  FALSE
    BY <1>13 DEF Disarm, FencedWrite, WatchdogExit
  <1>14. ASSUME NEW t \in Tokens, DropHandle(t) PROVE rpc'[u][d] = "idle"
    BY <1>14 DEF DropHandle, TypeOK
  <1>15. ASSUME NEW t \in Tokens, WatchdogReturn(t) \/ WatchdogError(t)
         PROVE  rpc'[u][d] = "idle"
    BY <1>c, <1>5, <1>15, RenewalEnds DEF EndIteration
  <1>16. ASSUME NEW t \in Tokens, Extend(t), "extend" \in Uses[t]
         PROVE  rpc'[u][d] = "sent" /\ handle[u] = "live" /\ "extend" \in Uses[u]
    BY <1>c, <1>6, <1>16 DEF Extend
  <1>. QED
    BY StepCases, <1>1, <1>2, <1>3, <1>4, <1>8, <1>9, <1>10, <1>11, <1>12, <1>13,
       <1>14, <1>15, <1>16

\* What a handle is told comes from the answer to one of its calls; only a
\* policy other than Aggressive poisons without one.
LEMMA VerdictStep ==
  ASSUME TypeOK, [Next]_vars, NEW u \in Tokens
  PROVE  /\ \/ result'[u] = result[u]
            \/ result'[u] = "error" /\ rpc[u]["release"] # "idle"
            \/ rpc[u]["release"] \in {"yes", "no"}
         /\ lost'[u] => \/ lost[u]
                        \/ rpc[u]["extend"] = "no"
                        \/ rpc[u]["renew"] = "no"
                        \/ rpc[u]["renew"] # "idle" /\ Policy[u] # "Aggressive"
  <1> USE DEF store, net, client, history, resource
  <1> DEFINE Same == result'[u] = result[u] /\ lost'[u] = lost[u]
  <1>1. CASE UNCHANGED vars
    BY <1>1 DEF vars
  <1>2. CASE Tick \/ ForceUnlock
    BY <1>2 DEF Tick, ForceUnlock
  <1>3. ASSUME NEW t \in Tokens, NEW c \in Calls,
               Serve(t, c) \/ ServeOrphan(t, c) \/ TokenCall(t, c)
        PROVE  Same
    BY <1>3 DEF Serve, ServeOrphan, TokenCall
  <1>4. ASSUME NEW t \in Tokens, NEW w \in BOOLEAN, TryLockGranted(t, w) PROVE Same
    BY <1>4 DEF TryLockGranted
  <1>5. ASSUME NEW t \in Tokens,
               \/ TryLock(t) \/ TryLockHeld(t) \/ TryLockError(t)
               \/ Extend(t) \/ ExtendError(t) \/ Release(t)
        PROVE  Same
    BY <1>5 DEF TryLock, TryLockHeld, TryLockError, Extend, ExtendError, Release
  <1>6. ASSUME NEW t \in Tokens,
               \/ DropHandle(t) \/ Disarm(t) \/ Crash(t) \/ FencedWrite(t)
               \/ WatchdogExit(t) \/ WatchdogRenew(t)
        PROVE  Same
    BY <1>6 DEF DropHandle, Disarm, Crash, FencedWrite, WatchdogExit, WatchdogRenew
  <1>7. ASSUME NEW t \in Tokens, ExtendReturn(t)
        PROVE  result'[u] = result[u] /\ (lost'[u] => lost[u] \/ rpc[u]["extend"] = "no")
    BY <1>7 DEF ExtendReturn, TypeOK
  <1>8. ASSUME NEW t \in Tokens, ReleaseReturn(t)
        PROVE  /\ lost'[u] = lost[u]
               /\ result'[u] = result[u] \/ rpc[u]["release"] \in {"yes", "no"}
    BY <1>8 DEF ReleaseReturn, TypeOK
  <1>9. ASSUME NEW t \in Tokens, ReleaseError(t)
        PROVE  /\ lost'[u] = lost[u]
               /\ \/ result'[u] = result[u]
                  \/ result'[u] = "error" /\ rpc[u]["release"] # "idle"
    BY <1>9 DEF ReleaseError, TypeOK
  <1>10. ASSUME NEW t \in Tokens, WatchdogReturn(t) \/ WatchdogError(t)
         PROVE  /\ result'[u] = result[u]
                /\ lost'[u] => \/ lost[u]
                               \/ rpc[u]["renew"] = "no"
                               \/ rpc[u]["renew"] # "idle" /\ Policy[u] # "Aggressive"
    <2>1. PICK poisons \in BOOLEAN, failures \in Nat, late \in SUBSET {"renew"} :
            /\ EndIteration(t, poisons, failures, late)
            /\ poisons => rpc[t]["renew"] = "no" \/ Policy[t] # "Aggressive"
      BY <1>10, RenewalEnds
    <2>2. rpc[t]["renew"] # "idle"
      BY <1>10 DEF WatchdogReturn, WatchdogError
    <2>3. result' = result /\ lost' = [lost EXCEPT ![t] = lost[t] \/ poisons]
      BY <2>1 DEF EndIteration
    <2>4. lost'[u] => lost[u] \/ (u = t /\ poisons)
      BY <2>3 DEF TypeOK
    <2>. QED
      BY <2>1, <2>2, <2>3, <2>4
  <1>. QED
    BY StepCases, <1>1, <1>2, <1>3, <1>4, <1>5, <1>6, <1>7, <1>8, <1>9, <1>10

\* Each step keeps the answers on their way back true.
LEMMA AnswersStayTrueStep ==
  ASSUME FenceInv, AnswersStayTrue, [Next]_vars
  PROVE  AnswersStayTrue'
  <1>c. {"acquire", "extend", "renew", "release"} \subseteq Calls
    BY DEF Calls
  <1>t. TypeOK /\ AcquireOnce /\ CounterFollowsOwner
    BY DEF FenceInv
  <1> SUFFICES ASSUME NEW t \in Tokens
               PROVE  /\ \A c \in {"extend", "renew", "release"} :
                           rpc'[t][c] # "idle" => issued'[t] > 0
                      /\ \A c \in {"extend", "renew"} : rpc'[t][c] = "no" => owner' # t
                      /\ rpc'[t]["release"] \in {"yes", "no"} => owner' # t
                      /\ result'[t] # "none" \/ lost'[t] => issued'[t] > 0
    BY DEF AnswersStayTrue
  <1>1. ASSUME NEW c \in {"extend", "renew", "release"}, rpc'[t][c] # "idle"
        PROVE  issued[t] > 0
    <2>1. c \in Calls /\ c # "acquire"
      BY <1>c
    <2>2. CASE rpc'[t][c] = rpc[t][c] \/ Serve(t, c)
      BY <1>1, <2>2 DEF AnswersStayTrue, Serve
    <2>3. CASE handle[t] = "live"
      BY <1>t, <2>3 DEF AcquireOnce
    <2>. QED
      BY <1>t, <1>1, <2>1, <2>2, <2>3, RpcStep
  <1>2. ASSUME NEW c \in {"extend", "renew", "release"}, rpc'[t][c] \in {"yes", "no"},
               c # "release" => rpc'[t][c] = "no"
        PROVE  owner' # t
    <2>0. issued[t] > 0 /\ c \in Calls
      BY <1>c, <1>1, <1>2
    <2>1. CASE rpc'[t][c] = rpc[t][c]
      <3>1. owner # t
        BY <1>2, <2>1 DEF AnswersStayTrue
      <3>. QED
        BY <2>0, <3>1, GoneStays
    <2>2. CASE Serve(t, c)
      <3>1. Pending(t, c) /\ RunScript(t, c) /\ resets' = resets
        BY <2>2 DEF Serve, Pending
      <3>2. \/ c \in {"extend", "renew"} /\ Accepts(t, c)
            \/ Frees
            \/ Rests /\ owner # t
        BY <1>t, <2>0, <3>1, ScriptEffect
      <3>3. c # "release" => ~Accepts(t, c)
        <4>1. rpc'[t][c] = IF Accepts(t, c) THEN "yes" ELSE "no"
          BY <1>t, <2>0, <2>2 DEF Serve, TypeOK
        <4>. QED
          BY <1>2, <4>1
      <3>. QED
        BY <3>2, <3>3, TokensAssumption DEF Frees, Rests
    <2>. QED
      BY <1>t, <1>2, <2>0, <2>1, <2>2, RpcStep
  <1>3. ASSUME result'[t] # "none" \/ lost'[t] PROVE issued[t] > 0
    <2>1. result[t] # "none" \/ lost[t] => issued[t] > 0
      BY DEF AnswersStayTrue
    <2>2. \A c \in {"extend", "renew", "release"} : rpc[t][c] # "idle" => issued[t] > 0
      BY DEF AnswersStayTrue
    <2>. QED
      BY <1>t, <1>3, <2>1, <2>2, VerdictStep
  <1>. QED
    BY <1>1, <1>2, <1>3, GoneStays

\* Verdicts of release() and poisoning by a definitive answer are final.
VerdictInv == AnswersStayTrue /\ ReleaseVerdictFinal /\ PoisonIsDefinitive

\* The invariant of the verdicts is inductive.
LEMMA VerdictInvHolds == Spec => []VerdictInv
  <1>1. Init => VerdictInv
    BY DEF Init, VerdictInv, AnswersStayTrue, ReleaseVerdictFinal, PoisonIsDefinitive, Calls
  <1>2. FenceInv /\ VerdictInv /\ [Next]_vars => VerdictInv'
    <2> SUFFICES ASSUME FenceInv, VerdictInv, [Next]_vars PROVE VerdictInv'
      OBVIOUS
    <2>t. TypeOK
      BY DEF FenceInv
    <2>1. AnswersStayTrue'
      BY AnswersStayTrueStep DEF VerdictInv
    <2>2. ASSUME NEW t \in Tokens, result'[t] \in {"ok", "lost"} PROVE owner' # t
      <3>1. CASE result'[t] = result[t]
        BY <2>2, <3>1, GoneStays DEF VerdictInv, ReleaseVerdictFinal, AnswersStayTrue
      <3>2. CASE rpc[t]["release"] \in {"yes", "no"}
        BY <3>2, GoneStays DEF VerdictInv, AnswersStayTrue
      <3>. QED
        BY <2>t, <2>2, <3>1, <3>2, VerdictStep
    <2>3. ASSUME NEW t \in Tokens, Policy[t] = "Aggressive", lost'[t] PROVE owner' # t
      <3>1. CASE lost[t]
        BY <2>3, <3>1, GoneStays DEF VerdictInv, PoisonIsDefinitive, AnswersStayTrue
      <3>2. CASE rpc[t]["extend"] = "no" \/ rpc[t]["renew"] = "no"
        BY <3>2, GoneStays DEF VerdictInv, AnswersStayTrue
      <3>. QED
        BY <2>t, <2>3, <3>1, <3>2, VerdictStep
    <2>. QED
      BY <2>1, <2>2, <2>3 DEF VerdictInv, ReleaseVerdictFinal, PoisonIsDefinitive
  <1>. QED
    BY <1>1, <1>2, FenceInvariant, PTL DEF Spec

\* When release() has reported Ok or Lost the key is not owned under that token
\* any more, and no renewal, extension or late request brings it back.
THEOREM ReleaseVerdictFinalHolds == Spec => []ReleaseVerdictFinal
  <1>1. VerdictInv => ReleaseVerdictFinal
    BY DEF VerdictInv
  <1>. QED
    BY <1>1, VerdictInvHolds, PTL

\* Under the Aggressive policy a poisoned handle has lost the key for good, in
\* every interleaving of its extensions and of its watchdog.
THEOREM PoisonIsDefinitiveHolds == Spec => []PoisonIsDefinitive
  <1>1. VerdictInv => PoisonIsDefinitive
    BY DEF VerdictInv
  <1>. QED
    BY <1>1, VerdictInvHolds, PTL

------------------------------------------------------------------------------
(* The detached release of a dropped handle. *)

\* A step of others, as far as the handle of t can see.
Untouched(t) ==
  /\ handle'[t] = handle[t] /\ released'[t] = released[t] /\ remote'[t] = remote[t]
  /\ result'[t] = result[t] /\ orphans'[t] = orphans[t]
  /\ lease'[t] = lease[t] /\ lost'[t] = lost[t] /\ watchdog'[t] = watchdog[t]
  /\ transient'[t] = transient[t] /\ (Tick \/ timer'[t] = timer[t])
  /\ \A c \in Calls : rpc'[t][c] = rpc[t][c]

\* A step of t's own client, or of Redis on a request of t.
OwnStep(t) ==
  \/ \E c \in Calls : Serve(t, c) \/ ServeOrphan(t, c) \/ TokenCall(t, c)
  \/ \E w \in BOOLEAN : TryLockGranted(t, w)
  \/ Extend(t) /\ "extend" \in Uses[t]
  \/ Disarm(t) /\ "disarm" \in Uses[t]
  \/ TryLock(t) \/ TryLockHeld(t) \/ TryLockError(t)
  \/ ExtendReturn(t) \/ ExtendError(t)
  \/ Release(t) \/ ReleaseReturn(t) \/ ReleaseError(t)
  \/ DropHandle(t) \/ Crash(t)
  \/ WatchdogExit(t) \/ WatchdogRenew(t) \/ WatchdogReturn(t) \/ WatchdogError(t)

\* Handles do not touch each other.
LEMMA OneHandle ==
  ASSUME TypeOK, [Next]_vars, NEW t \in Tokens
  PROVE  OwnStep(t) \/ Untouched(t)
  <1> USE DEF store, net, client, history, resource
  <1> SUFFICES ASSUME ~OwnStep(t) PROVE Untouched(t)
    OBVIOUS
  <1>c. {"acquire", "extend", "renew", "release"} \subseteq Calls
    BY DEF Calls
  <1>1. CASE UNCHANGED vars
    BY <1>1 DEF vars, Untouched
  <1>2. CASE Tick \/ ForceUnlock
    BY <1>2 DEF Tick, ForceUnlock, Untouched
  <1>3. ASSUME NEW u \in Tokens, NEW c \in Calls, Serve(u, c) PROVE Untouched(t)
    <2>1. u # t
      BY <1>3 DEF OwnStep
    <2>2. rpc'[t] = rpc[t]
      BY <1>3, <2>1 DEF Serve, TypeOK
    <2>. QED
      BY <1>3, <2>2 DEF Serve, Untouched
  <1>4. ASSUME NEW u \in Tokens, NEW c \in Calls, ServeOrphan(u, c) \/ TokenCall(u, c)
        PROVE  Untouched(t)
    <2>1. u # t
      BY <1>4 DEF OwnStep
    <2>. QED
      BY <1>4, <2>1 DEF ServeOrphan, TokenCall, TypeOK, Untouched
  <1>5. ASSUME NEW u \in Tokens, NEW w \in BOOLEAN, TryLockGranted(u, w) PROVE Untouched(t)
    <2>1. u # t
      BY <1>5 DEF OwnStep
    <2>2. \A c \in Calls : rpc'[t][c] = rpc[t][c]
      BY <1>c, <1>5, <2>1, ReturnFrame DEF TryLockGranted
    <2>. QED
      BY <1>5, <2>1, <2>2 DEF TryLockGranted, TypeOK, Untouched
  <1>6. ASSUME NEW u \in Tokens,
               \/ TryLock(u) \/ (Extend(u) /\ "extend" \in Uses[u])
               \/ Release(u) \/ WatchdogRenew(u)
        PROVE  Untouched(t)
    <2>1. u # t
      BY <1>6 DEF OwnStep
    <2>2. \A c \in Calls : rpc'[t][c] = rpc[t][c]
      BY <1>c, <1>6, <2>1, SendFrame DEF TryLock, Extend, Release, WatchdogRenew
    <2>. QED
      BY <1>6, <2>1, <2>2 DEF TryLock, Extend, Release, WatchdogRenew, TypeOK, Untouched
  <1>7. ASSUME NEW u \in Tokens, TryLockHeld(u) \/ ExtendReturn(u) \/ ReleaseReturn(u)
        PROVE  Untouched(t)
    <2>1. u # t
      BY <1>7 DEF OwnStep
    <2>2. \A c \in Calls : rpc'[t][c] = rpc[t][c]
      BY <1>c, <1>7, <2>1, ReturnFrame DEF TryLockHeld, ExtendReturn, ReleaseReturn
    <2>. QED
      BY <1>7, <2>1, <2>2 DEF TryLockHeld, ExtendReturn, ReleaseReturn, TypeOK, Untouched
  <1>8. ASSUME NEW u \in Tokens,
               TryLockError(u) \/ ExtendError(u) \/ ReleaseError(u) \/ Crash(u)
        PROVE  Untouched(t)
    <2>1. u # t
      BY <1>8 DEF OwnStep
    <2>2. PICK calls \in SUBSET Calls : GiveUp(u, calls)
      BY <1>c, <1>8 DEF TryLockError, ExtendError, ReleaseError, Crash
    <2>3. rpc'[t] = rpc[t] /\ orphans'[t] = orphans[t]
      BY <2>1, <2>2 DEF GiveUp, TypeOK
    <2>. QED
      BY <1>8, <2>1, <2>3
         DEF TryLockError, ExtendError, ReleaseError, Crash, TypeOK, Untouched
  <1>9. ASSUME NEW u \in Tokens, DropHandle(u) PROVE Untouched(t)
    <2>1. u # t
      BY <1>9 DEF OwnStep
    <2>. QED
      BY <1>9, <2>1 DEF DropHandle, TypeOK, Untouched
  <1>10. ASSUME NEW u \in Tokens, Disarm(u), "disarm" \in Uses[u] PROVE Untouched(t)
    <2>1. u # t
      BY <1>10 DEF OwnStep
    <2>. QED
      BY <1>10, <2>1 DEF Disarm, TypeOK, Untouched
  <1>11. ASSUME NEW u \in Tokens, FencedWrite(u) PROVE Untouched(t)
    BY <1>11 DEF FencedWrite, Untouched
  <1>12. ASSUME NEW u \in Tokens, WatchdogReturn(u) \/ WatchdogError(u) PROVE Untouched(t)
    <2>1. u # t
      BY <1>12 DEF OwnStep
    <2>2. PICK poisons \in BOOLEAN, failures \in Nat, late \in SUBSET {"renew"} :
            EndIteration(u, poisons, failures, late)
      BY <1>12, RenewalEnds
    <2>3. late \in SUBSET Calls
      BY <1>c
    <2>4. orphans'[t] = orphans[t]
      BY <2>1, <2>2, <2>3, EndIterationFrame
    <2>5. \A c \in Calls : rpc'[t][c] = rpc[t][c]
      BY <1>c, <2>1, <2>2, ReturnFrame DEF EndIteration
    <2>6. handle'[t] = handle[t] /\ released'[t] = released[t]
      BY <2>1, <2>2 DEF EndIteration, TypeOK
    <2>7. /\ watchdog'[t] = watchdog[t] /\ timer'[t] = timer[t]
          /\ transient'[t] = transient[t] /\ lost'[t] = lost[t]
      BY <2>1, <2>2 DEF EndIteration, TypeOK
    <2>. QED
      BY <2>2, <2>4, <2>5, <2>6, <2>7 DEF EndIteration, Untouched
  <1>13. ASSUME NEW u \in Tokens, WatchdogExit(u) PROVE Untouched(t)
    <2>1. u # t
      BY <1>13 DEF OwnStep
    <2>. QED
      BY <1>13, <2>1 DEF WatchdogExit, TypeOK, Untouched
  <1>. QED
    BY StepCases, <1>1, <1>2, <1>3, <1>4, <1>5, <1>6, <1>7, <1>8, <1>9, <1>10,
       <1>11, <1>12, <1>13

\* Why a dropped handle may still own its key.
Accounted(t) == "release" \in orphans[t] \/ remote[t] \/ result[t] = "error"

\* Nobody marks an attempt as released before it has a handle; a mark has its
\* reason; and a key still owned under a dropped handle has its release on the
\* way, or a reason why not.
DropInv(t) ==
  /\ handle[t] \in {"fresh", "trying"} => ~released[t]
  /\ handle[t] = "live" /\ released[t]
       => remote[t] \/ result[t] # "none" \/ rpc[t]["release"] # "idle"
  /\ handle[t] = "dropping" /\ released[t] /\ owner = t => Accounted(t)
  /\ handle[t] = "dead" /\ owner = t => Accounted(t)

\* A handle that is going owned its key before the step, if it does after it.
LEMMA NotRegranted ==
  ASSUME FenceInv, [Next]_vars, NEW t \in Tokens,
         handle[t] \in {"live", "dropping", "dead"}, owner' = t
  PROVE  owner = t
  <1>1. issued[t] > 0
    BY DEF FenceInv, AcquireOnce
  <1>. QED
    BY <1>1, GoneStays

\* Whichever of the user and the watchdog lets go last sends the release.
LEMMA DropInvStep ==
  ASSUME FenceInv, VerdictInv, [Next]_vars, NEW t \in Tokens, DropInv(t)
  PROVE  DropInv(t)'
  <1> USE DEF store, net, client, history, resource
  <1>c. {"acquire", "extend", "renew", "release"} \subseteq Calls
    BY DEF Calls
  <1>t. TypeOK
    BY DEF FenceInv
  <1>h. /\ handle \in [Tokens -> HandleStates] /\ released \in [Tokens -> BOOLEAN]
        /\ remote \in [Tokens -> BOOLEAN] /\ orphans \in [Tokens -> SUBSET Calls]
        /\ result \in [Tokens -> {"none", "ok", "lost", "error"}]
    BY <1>t DEF TypeOK
  <1>n. handle[t] \in {"live", "dropping", "dead"} /\ owner' = t => owner = t
    BY NotRegranted
  \* a step that keeps the handle and every reason for its mark
  <1>k. ASSUME /\ handle'[t] = handle[t] /\ released'[t] = released[t]
               /\ remote'[t] = remote[t] /\ result'[t] = result[t]
               /\ "release" \in orphans[t] => "release" \in orphans'[t] \/ owner' # t
               /\ rpc[t]["release"] # "idle" => rpc'[t]["release"] # "idle"
        PROVE  DropInv(t)'
    BY <1>k, <1>n DEF DropInv, Accounted
  <1>1. CASE Untouched(t)
    BY <1>c, <1>k, <1>1 DEF Untouched
  <1>2. ASSUME NEW c \in Calls, Serve(t, c) PROVE DropInv(t)'
    <2>1. rpc[t]["release"] # "idle" => rpc'[t]["release"] # "idle"
      BY <1>c, <1>t, <1>2 DEF Serve, TypeOK
    <2>. QED
      BY <1>k, <1>2, <2>1 DEF Serve
  <1>3. ASSUME NEW c \in Calls, ServeOrphan(t, c) PROVE DropInv(t)'
    <2>1. c = "release" => owner' # t
      <3>1. Pending(t, c) /\ RunScript(t, c) /\ resets' = resets
        BY <1>3 DEF ServeOrphan, Pending
      <3>2. c = "release" => Frees \/ (Rests /\ owner # t)
        BY <3>1, ScriptEffect DEF FenceInv
      <3>. QED
        BY <3>2, TokensAssumption DEF Frees, Rests
    <2>2. "release" \in orphans[t] => "release" \in orphans'[t] \/ c = "release"
      BY <1>h, <1>3 DEF ServeOrphan
    <2>. QED
      BY <1>k, <1>3, <2>1, <2>2 DEF ServeOrphan
  <1>4. ASSUME NEW c \in Calls, TokenCall(t, c) PROVE DropInv(t)'
    <2>1. orphans[t] \subseteq orphans'[t]
      BY <1>h, <1>4 DEF TokenCall
    <2>. QED
      BY <1>k, <1>4, <2>1 DEF TokenCall
  <1>5. ASSUME NEW w \in BOOLEAN, TryLockGranted(t, w) PROVE DropInv(t)'
    <2>1. handle[t] = "trying"
      BY <1>5 DEF TryLockGranted, FenceInv, AcquireOnce
    <2>. QED
      BY <1>h, <1>5, <2>1 DEF TryLockGranted, DropInv
  <1>6. CASE TryLock(t)
    BY <1>h, <1>6 DEF TryLock, DropInv
  <1>7. CASE TryLockHeld(t) \/ TryLockError(t) \/ Crash(t)
    BY <1>h, <1>7 DEF TryLockHeld, TryLockError, Crash, DropInv
  <1>8. CASE Extend(t) \/ WatchdogRenew(t)
    <2>1. rpc'[t]["release"] = rpc[t]["release"]
      BY <1>c, <1>t, <1>8, SendFrame DEF Extend, WatchdogRenew
    <2>. QED
      BY <1>k, <1>8, <2>1 DEF Extend, WatchdogRenew
  <1>9. CASE ExtendReturn(t)
    <2>1. rpc'[t]["release"] = rpc[t]["release"]
      BY <1>c, <1>t, <1>9, ReturnFrame DEF ExtendReturn
    <2>. QED
      BY <1>k, <1>9, <2>1 DEF ExtendReturn
  <1>10. CASE ExtendError(t)
    <2>1. rpc'[t]["release"] = rpc[t]["release"] /\ orphans[t] \subseteq orphans'[t]
      BY <1>c, <1>t, <1>10 DEF ExtendError, GiveUp, TypeOK
    <2>. QED
      BY <1>k, <1>10, <2>1 DEF ExtendError
  <1>11. CASE Release(t)
    <2>1. rpc'[t]["release"] = "sent"
      BY <1>c, <1>t, <1>11, SendFrame DEF Release
    <2>. QED
      BY <1>11, <2>1 DEF Release, DropInv
  <1>12. CASE ReleaseReturn(t)
    <2>1. owner' # t
      BY <1>12 DEF ReleaseReturn, VerdictInv, AnswersStayTrue
    <2>2. result'[t] # "none" /\ handle' = handle /\ released' = released
      BY <1>h, <1>12 DEF ReleaseReturn
    <2>. QED
      BY <2>1, <2>2 DEF DropInv
  <1>13. CASE ReleaseError(t)
    <2>1. result'[t] = "error" /\ handle' = handle /\ released' = released
      BY <1>h, <1>13 DEF ReleaseError
    <2>. QED
      BY <2>1 DEF DropInv, Accounted
  <1>14. CASE Disarm(t)
    <2>1. remote'[t] /\ handle' = handle /\ handle[t] = "live"
      BY <1>h, <1>14 DEF Disarm
    <2>. QED
      BY <2>1 DEF DropInv, Accounted
  <1>15. CASE DropHandle(t)
    <2>1. /\ handle[t] = "live" /\ handle'[t] \in {"dropping", "dead"}
          /\ owner' = owner /\ remote' = remote /\ result' = result
          /\ handle'[t] = "dead" => watchdog[t] # "renew"
          /\ handle'[t] = "dropping" => (released'[t] => released[t])
      BY <1>h, <1>15 DEF DropHandle
    <2>2. /\ "release" \in orphans[t] => "release" \in orphans'[t]
          /\ rpc[t]["release"] = "sent" => "release" \in orphans'[t]
          /\ watchdog[t] # "renew" /\ ~released[t] => "release" \in orphans'[t]
      BY <1>h, <1>15 DEF DropHandle, Unserved, DetachedRelease
    <2>3. ASSUME released[t], owner = t PROVE Accounted(t)'
      <3>1. rpc[t]["release"] \in Phases
        BY <1>c, <1>t DEF TypeOK
      <3>2. rpc[t]["release"] \in {"idle", "sent"}
        BY <2>3, <3>1 DEF VerdictInv, AnswersStayTrue, Phases
      <3>3. result[t] \in {"none", "error"}
        BY <1>h, <2>3 DEF VerdictInv, ReleaseVerdictFinal
      <3>. QED
        BY <2>1, <2>2, <2>3, <3>2, <3>3 DEF DropInv, Accounted
    <2>4. ASSUME ~released[t], handle'[t] = "dead" PROVE Accounted(t)'
      BY <2>1, <2>2, <2>4 DEF Accounted
    <2>. QED
      BY <2>1, <2>3, <2>4 DEF DropInv
  <1>16. CASE WatchdogReturn(t) \/ WatchdogError(t)
    <2>1. PICK poisons \in BOOLEAN, failures \in Nat, late \in SUBSET {"renew"} :
            EndIteration(t, poisons, failures, late)
      BY <1>t, <1>16, RenewalEnds
    <2>2. late \in SUBSET Calls
      BY <1>c
    <2>3. orphans[t] \subseteq orphans'[t]
      BY <1>t, <2>1, <2>2, EndIterationFrame
    <2>4. rpc'[t]["release"] = rpc[t]["release"]
      BY <1>c, <1>t, <2>1, ReturnFrame DEF EndIteration
    <2>5. remote' = remote /\ result' = result /\ owner' = owner
      BY <2>1 DEF EndIteration
    <2>6. CASE handle[t] # "dropping"
      <3>1. handle' = handle /\ released' = released
        BY <2>1, <2>6 DEF EndIteration
      <3>. QED
        BY <1>k, <2>3, <2>4, <2>5, <3>1
    <2>7. CASE handle[t] = "dropping"
      <3>1. handle'[t] = "dead" /\ (~released[t] => "release" \in orphans'[t])
        BY <1>h, <2>1, <2>7 DEF EndIteration, DetachedRelease
      <3>. QED
        BY <2>3, <2>5, <2>7, <3>1 DEF DropInv, Accounted
    <2>. QED
      BY <2>6, <2>7
  <1>17. CASE WatchdogExit(t)
    BY <1>k, <1>17 DEF WatchdogExit
  <1>. QED
    BY <1>t, <1>1, <1>2, <1>3, <1>4, <1>5, <1>6, <1>7, <1>8, <1>9, <1>10, <1>11,
       <1>12, <1>13, <1>14, <1>15, <1>16, <1>17, OneHandle DEF OwnStep

\* The account of released and dropped handles is kept in every state.
LEMMA DropInvHolds == Spec => [](\A t \in Tokens : DropInv(t))
  <1>1. Init => \A t \in Tokens : DropInv(t)
    BY DEF Init, DropInv
  <1>2. FenceInv /\ VerdictInv /\ (\A t \in Tokens : DropInv(t)) /\ [Next]_vars
          => (\A t \in Tokens : DropInv(t))'
    BY DropInvStep
  <1>. QED
    BY <1>1, <1>2, FenceInvariant, VerdictInvHolds, PTL DEF Spec

\* After the last clone is gone the key stays owned only while its release is
\* under way, unless a remote client owns the token or release() itself failed:
\* for every race between the user's drop and the watchdog's renewal.
THEOREM DropLeavesReleaseHolds == Spec => []DropLeavesRelease
  <1>1. (\A t \in Tokens : DropInv(t)) => DropLeavesRelease
    BY DEF DropInv, Accounted, DropLeavesRelease
  <1>. QED
    BY <1>1, DropInvHolds, PTL

------------------------------------------------------------------------------
(* A consequence of the refinement. *)

\* A hold that ended is over: whatever renewals, extensions, late acquires or
\* retries are still under way, the same token never owns the key again, so a
\* handle that was told of its loss never has to reckon with being the owner
\* after all (acquire.lua, extend.lua, the fresh OwnerId of each attempt).
THEOREM LostForGood ==
  ASSUME NEW t \in Tokens
  PROVE  Spec => [](issued[t] > 0 /\ owner # t => [](owner # t))
  <1> DEFINE Gone == issued[t] > 0 /\ owner # t
  <1>1. TypeOK /\ Gone /\ [Lease!Next]_(Lease!vars) => Gone'
    <2> SUFFICES ASSUME TypeOK, Gone, [Lease!Next]_(Lease!vars) PROVE Gone'
      OBVIOUS
    <2>1. ASSUME NEW u \in Tokens, Lease!Grant(u)
          PROVE  Gone'
      BY <2>1 DEF Lease!Grant, TypeOK
    <2>2. CASE Lease!Free \/ Lease!Forget \/ UNCHANGED Lease!vars
      BY <2>2, TokensAssumption DEF Lease!Free, Lease!Forget, Lease!vars
    <2>. QED
      BY <2>1, <2>2 DEF Lease!Next
  <1>2. Gone => owner # t
    OBVIOUS
  <1>3. Gone <=> issued[t] > 0 /\ owner # t
    OBVIOUS
  <1> HIDE DEF Gone
  <1>. QED
    BY <1>1, <1>2, <1>3, TypeCorrect, RefinesLeaseLock, PTL
    DEF ImplementsLeaseLock, Lease!Spec
==============================================================================
