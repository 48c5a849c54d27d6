----------------------------- MODULE SingleMutex -----------------------------
(***************************************************************************)
(* The single-instance Redis mutex: the three Lua scripts on the lock key  *)
(* and its fence counter, the client handle (RedisLockHandle and its       *)
(* shared state), the watchdog task, and a resource that checks fencing    *)
(* tokens.  One lock key; the members of Tokens are the acquisition        *)
(* attempts on it, by any number of processes.                             *)
(*                                                                         *)
(* Time is counted in ticks and kept as time to live, as PTTL reports it,  *)
(* so no clock value appears in the state.                                 *)
(***************************************************************************)
EXTENDS Integers, FiniteSets

CONSTANTS
  Tokens,       \* one owner token per attempt: OwnerId::generate, never reused
  None,         \* the key does not exist
  Ttls,         \* lease durations a caller may ask for, in ticks
  FenceMult,    \* FENCE_TTL_MULTIPLIER
  RenewDiv,     \* RENEWAL_DIVISOR
  RespTimeout,  \* RedisConfig::response_timeout, in ticks
  Policy,       \* LockOptions::safety_policy of each attempt
  Prompt,       \* TRUE: no task is ever scheduled late, no caller is paused
  Uses          \* which optional operations and faults each attempt meets

ASSUME TokensAssumption == None \notin Tokens
ASSUME TtlsAssumption == Ttls \subseteq Nat \ {0}     \* LockOptions::validate
ASSUME FenceMultAssumption == FenceMult \in Nat /\ FenceMult >= 2
ASSUME RenewDivAssumption == RenewDiv \in Nat \ {0}
ASSUME RespTimeoutAssumption == RespTimeout \in Nat
ASSUME PolicyAssumption ==
  Policy \in [Tokens -> {"Cowardly", "Balanced", "Aggressive"}]
ASSUME PromptAssumption == Prompt \in BOOLEAN
ASSUME UsesAssumption ==
  Uses \in [Tokens -> SUBSET {"watchdog", "no watchdog", "extend", "release",
                              "drop", "disarm", "force", "write", "error",
                              "crash"}]

VARIABLES
  \* Redis
  owner,      \* value of the lock key, or None
  ttl,        \* its PTTL, 0 without the key
  fence,      \* value of the fence counter, 0 without the key
  fenceTtl,   \* its PTTL
  \* requests and replies
  rpc,        \* rpc[t][c]: the call c that the client of t awaits
  orphans,    \* orphans[t]: requests under way whose reply nobody awaits
  \* HandleShared of each attempt, and its watchdog task
  handle,     \* life cycle of the attempt and of its handle
  lease,      \* the ttl asked for
  issued,     \* the fence in the acquire reply, 0 before a grant
  released,   \* HandleShared::released
  lost,       \* HandleShared::poisoned and the `lost` channel, set together
  remote,     \* the handle was disarmed: a remote client owns the token
  watchdog,   \* where the watchdog task is
  timer,      \* ticks until its sleep, or its request, is due
  transient,  \* transient_failures
  result,     \* what the release() that ran the script returned
  \* the protected resource
  lastFence,  \* last_fence column
  \* history, read by properties only
  lastWriter, \* the token of the last accepted write
  grants,     \* number of grants so far
  grantNo,    \* the place of each token in the order of grants
  resets,     \* times the fence counter expired
  era         \* the value of resets when each token was granted

store    == <<owner, ttl, fence, fenceTtl>>
net      == <<rpc, orphans>>
client   == <<handle, lease, released, lost, remote, watchdog, timer,
              transient, result>>
history  == <<issued, grants, grantNo, era>>
resource == <<lastFence, lastWriter>>
vars     == <<store, net, client, history, resource, resets>>

Calls == {"acquire", "extend", "renew", "release"}
Phases == {"idle", "sent", "yes", "no"}
HandleStates == {"fresh", "trying", "failed", "live", "dropping", "dead", "crashed"}

------------------------------------------------------------------------------
(* Small vocabulary. *)

\* SafetyPolicy::max_transient_failures; Aggressive is u32::MAX, which the
\* count of failures does not reach.
MaxTransient(t) == IF Policy[t] = "Cowardly" THEN 0 ELSE 2
\* Variant: one failure too many is tolerated (`>` against the wrong bound).
SurrendersLate(t, failures) ==
  Policy[t] # "Aggressive" /\ failures > MaxTransient(t) + 1

Surrenders(t, failures) ==
  Policy[t] # "Aggressive" /\ failures > MaxTransient(t)

\* Those of t's calls whose request Redis has not run yet.
Unserved(t, calls) == {c \in calls : rpc[t][c] = "sent"}

\* The client stops awaiting some calls (error, timeout, cancelled future):
\* a request on its way may still reach Redis.
GiveUp(t, calls) ==
  /\ rpc' = [rpc EXCEPT ![t] = [c \in Calls |-> IF c \in calls THEN "idle"
                                                ELSE rpc[t][c]]]
  /\ orphans' = [orphans EXCEPT ![t] = @ \cup Unserved(t, calls)]

Send(t, c) == rpc' = [rpc EXCEPT ![t][c] = "sent"]
Return(t, c) == rpc' = [rpc EXCEPT ![t][c] = "idle"]

------------------------------------------------------------------------------
(* The Lua scripts.  Each runs atomically in Redis. *)

\* Variants: SET without PX (PTTL is -1 then); SET whoever owns the key.
AcquireWithoutExpiry(t) ==
  IF owner \in {None, t}
  THEN /\ owner' = t /\ ttl' = -1
       /\ fence' = fence + 1 /\ fenceTtl' = FenceMult * lease[t]
       /\ issued' = [issued EXCEPT ![t] = fence + 1]
       /\ grants' = grants + 1 /\ grantNo' = [grantNo EXCEPT ![t] = grants + 1]
       /\ era' = [era EXCEPT ![t] = resets]
  ELSE UNCHANGED <<store, history>>

AcquireOverwrites(t) ==
  /\ owner' = t /\ ttl' = lease[t]
  /\ fence' = fence + 1 /\ fenceTtl' = FenceMult * lease[t]
  /\ issued' = [issued EXCEPT ![t] = fence + 1]
  /\ grants' = grants + 1 /\ grantNo' = [grantNo EXCEPT ![t] = grants + 1]
  /\ era' = [era EXCEPT ![t] = resets]

\* acquire.lua: statuses 1 and 2 have the same effect on the keys.
AcquireScript(t) ==
  IF owner \in {None, t}
  THEN /\ owner' = t
       /\ ttl' = lease[t]
       /\ fence' = fence + 1
       /\ fenceTtl' = FenceMult * lease[t]
       /\ issued' = [issued EXCEPT ![t] = fence + 1]
       /\ grants' = grants + 1
       /\ grantNo' = [grantNo EXCEPT ![t] = grants + 1]
       /\ era' = [era EXCEPT ![t] = resets]
  ELSE UNCHANGED <<store, history>>

\* Variants: the fence counter is not kept alive; a missing key is set again.
ExtendLeaseOnly(t, x) ==
  /\ IF owner = t THEN ttl' = x ELSE UNCHANGED ttl
  /\ UNCHANGED <<owner, fence, fenceTtl, history>>

ExtendRevives(t, x) ==
  /\ IF owner \in {None, t}
     THEN owner' = t /\ ttl' = x /\ fenceTtl' = FenceMult * x
     ELSE UNCHANGED <<owner, ttl, fenceTtl>>
  /\ UNCHANGED <<fence, history>>

\* extend.lua
ExtendScript(t, x) ==
  /\ IF owner = t
     THEN ttl' = x /\ fenceTtl' = FenceMult * x
     ELSE UNCHANGED <<ttl, fenceTtl>>
  /\ UNCHANGED <<owner, fence, history>>

\* Variants: DEL without comparing the token; DEL of the counter as well.
ReleaseUnchecked(t) ==
  /\ owner' = None /\ ttl' = 0
  /\ UNCHANGED <<fence, fenceTtl, history>>

ReleaseForgetsFence(t) ==
  /\ IF owner = t
     THEN owner' = None /\ ttl' = 0 /\ fence' = 0 /\ fenceTtl' = 0
     ELSE UNCHANGED store
  /\ UNCHANGED history

\* release.lua
ReleaseScript(t) ==
  /\ IF owner = t
     THEN owner' = None /\ ttl' = 0
     ELSE UNCHANGED <<owner, ttl>>
  /\ UNCHANGED <<fence, fenceTtl, history>>

\* The script behind each call.  The watchdog renews with the grant-time ttl;
\* extend() and extend_with_token take any valid one.
RunScript(t, c) ==
  \/ c = "acquire" /\ AcquireScript(t)
  \/ c = "extend" /\ \E x \in Ttls : ExtendScript(t, x)
  \/ c = "renew" /\ ExtendScript(t, lease[t])
  \/ c = "release" /\ ReleaseScript(t)

\* Whether the script's answer is positive.
Accepts(t, c) == owner = t \/ (c = "acquire" /\ owner = None)

Serve(t, c) ==
  /\ rpc[t][c] = "sent"
  /\ RunScript(t, c)
  /\ rpc' = [rpc EXCEPT ![t][c] = IF Accepts(t, c) THEN "yes" ELSE "no"]
  /\ UNCHANGED <<orphans, client, resource, resets>>

ServeOrphan(t, c) ==
  /\ c \in orphans[t]
  /\ RunScript(t, c)
  /\ orphans' = [orphans EXCEPT ![t] = @ \ {c}]
  /\ UNCHANGED <<rpc, client, resource, resets>>

\* force_unlock: DEL without an ownership check; the counter stays.
ForceUnlock ==
  /\ owner' = None
  /\ ttl' = 0
  /\ UNCHANGED <<fence, fenceTtl, net, client, history, resource, resets>>

------------------------------------------------------------------------------
(* Acquisition: try_lock_with, and one attempt of try_lock_for. *)

TryLock(t) ==
  /\ handle[t] = "fresh"
  /\ handle' = [handle EXCEPT ![t] = "trying"]
  /\ \E x \in Ttls : lease' = [lease EXCEPT ![t] = x]
  /\ timer' = [timer EXCEPT ![t] = RespTimeout]
  /\ Send(t, "acquire")
  /\ UNCHANGED <<store, orphans, released, lost, remote, watchdog, transient,
                 result, history, resource, resets>>

\* Status 1 or 2: the handle is built and the watchdog spawned if asked for.
TryLockGranted(t, withWatchdog) ==
  /\ rpc[t]["acquire"] = "yes"
  /\ handle' = [handle EXCEPT ![t] = "live"]
  /\ watchdog' = [watchdog EXCEPT ![t] = IF withWatchdog THEN "sleep" ELSE "off"]
  /\ timer' = [timer EXCEPT ![t] = IF withWatchdog THEN lease[t] \div RenewDiv ELSE 0]
  /\ Return(t, "acquire")
  /\ UNCHANGED <<store, orphans, lease, released, lost, remote, transient,
                 result, history, resource, resets>>

\* Status 0: Error::Held.
TryLockHeld(t) ==
  /\ rpc[t]["acquire"] = "no"
  /\ handle' = [handle EXCEPT ![t] = "failed"]
  /\ timer' = [timer EXCEPT ![t] = 0]
  /\ Return(t, "acquire")
  /\ UNCHANGED <<store, orphans, lease, released, lost, remote, watchdog,
                 transient, result, history, resource, resets>>

\* Error::Backend, or try_lock_for's per-attempt timeout cancels the call.
TryLockError(t) ==
  /\ handle[t] = "trying"
  /\ handle' = [handle EXCEPT ![t] = "failed"]
  /\ timer' = [timer EXCEPT ![t] = 0]
  /\ GiveUp(t, {"acquire"})
  /\ UNCHANGED <<store, lease, released, lost, remote, watchdog, transient,
                 result, history, resource, resets>>

------------------------------------------------------------------------------
(* The handle: extend, release, disarm, Drop. *)

\* extend(): after release() it returns Lost without a request.
Extend(t) ==
  /\ handle[t] = "live"
  /\ ~released[t]
  /\ rpc[t]["extend"] = "idle"
  /\ Send(t, "extend")
  /\ UNCHANGED <<store, orphans, client, history, resource, resets>>

\* A negative answer poisons the handle (mark_lost) and returns Lost.
ExtendReturn(t) ==
  /\ rpc[t]["extend"] \in {"yes", "no"}
  /\ lost' = [lost EXCEPT ![t] = @ \/ rpc[t]["extend"] = "no"]
  /\ Return(t, "extend")
  /\ UNCHANGED <<store, orphans, handle, lease, released, remote, watchdog,
                 timer, transient, result, history, resource, resets>>

ExtendError(t) ==
  /\ rpc[t]["extend"] # "idle"
  /\ GiveUp(t, {"extend"})
  /\ UNCHANGED <<store, client, history, resource, resets>>

\* release(): mark_released first, so a second call returns Ok at once.
Release(t) ==
  /\ handle[t] = "live"
  /\ ~released[t]
  /\ released' = [released EXCEPT ![t] = TRUE]
  /\ Send(t, "release")
  /\ UNCHANGED <<store, orphans, handle, lease, lost, remote, watchdog, timer,
                 transient, result, history, resource, resets>>

\* A negative answer is Error::Lost; it does not poison the handle.
ReleaseReturn(t) ==
  /\ rpc[t]["release"] \in {"yes", "no"}
  /\ result' = [result EXCEPT ![t] = IF rpc[t]["release"] = "yes" THEN "ok"
                                     ELSE "lost"]
  /\ Return(t, "release")
  /\ UNCHANGED <<store, orphans, handle, lease, released, lost, remote,
                 watchdog, timer, transient, history, resource, resets>>

\* Error::Backend: the flag stays set, the lock may still be owned.
ReleaseError(t) ==
  /\ rpc[t]["release"] # "idle"
  /\ result' = [result EXCEPT ![t] = "error"]
  /\ GiveUp(t, {"release"})
  /\ UNCHANGED <<store, handle, lease, released, lost, remote, watchdog,
                 timer, transient, history, resource, resets>>

\* disarm(): the server hands the grant to the remote client.
Disarm(t) ==
  /\ handle[t] = "live"
  /\ ~released[t]
  /\ released' = [released EXCEPT ![t] = TRUE]
  /\ remote' = [remote EXCEPT ![t] = TRUE]
  /\ UNCHANGED <<store, net, handle, lease, lost, watchdog, timer, transient,
                 result, history, resource, resets>>

\* unlock_with_token and extend_with_token, on behalf of the remote client.
TokenCall(t, c) ==
  /\ remote[t]
  /\ c \in {"extend", "release"}
  /\ orphans' = [orphans EXCEPT ![t] = @ \cup {c}]
  /\ UNCHANGED <<store, rpc, client, history, resource, resets>>

\* Variant: only the user's own drop releases, not the watchdog's.
DetachedReleaseUserOnly(t) ==
  IF released[t] \/ watchdog[t] = "renew" THEN {} ELSE {"release"}

\* What HandleShared::drop leaves in the network: one detached release, unless
\* the handle was released before.
DetachedRelease(t) == IF released[t] THEN {} ELSE {"release"}

\* The last clone is dropped; its calls under way are cancelled.  HandleShared
\* itself lives on while the watchdog, mid-renewal, holds an upgraded reference.
DropHandle(t) ==
  /\ handle[t] = "live"
  /\ LET mid == watchdog[t] = "renew" IN
     /\ handle' = [handle EXCEPT ![t] = IF mid THEN "dropping" ELSE "dead"]
     /\ released' = [released EXCEPT ![t] = @ \/ ~mid]
     /\ orphans' = [orphans EXCEPT ![t] =
                      @ \cup Unserved(t, {"extend", "release"})
                        \cup (IF mid THEN {} ELSE DetachedRelease(t))]
  /\ rpc' = [rpc EXCEPT ![t]["extend"] = "idle", ![t]["release"] = "idle"]
  /\ UNCHANGED <<store, lease, lost, remote, watchdog, timer, transient,
                 result, history, resource, resets>>

\* The client process dies: nothing is released, requests may still arrive.
Crash(t) ==
  /\ handle[t] \in {"trying", "live", "dropping"}
  /\ handle' = [handle EXCEPT ![t] = "crashed"]
  /\ watchdog' = [watchdog EXCEPT ![t] = "off"]
  /\ timer' = [timer EXCEPT ![t] = 0]
  /\ transient' = [transient EXCEPT ![t] = 0]
  /\ GiveUp(t, Calls)
  /\ UNCHANGED <<store, lease, released, lost, remote, result, history,
                 resource, resets>>

------------------------------------------------------------------------------
(* The watchdog task: spawn_watchdog's loop. *)

\* The sleep is over: the weak reference is upgraded and `released` read.
WatchdogExit(t) ==
  /\ watchdog[t] = "sleep" /\ timer[t] = 0
  /\ handle[t] # "live" \/ released[t]
  /\ watchdog' = [watchdog EXCEPT ![t] = "off"]
  /\ transient' = [transient EXCEPT ![t] = 0]
  /\ UNCHANGED <<store, net, handle, lease, released, lost, remote, timer,
                 result, history, resource, resets>>

\* Variant: the task keeps the handle alive and does not look at `released`.
WatchdogRenewAnyway(t) ==
  /\ watchdog[t] = "sleep" /\ timer[t] = 0
  /\ watchdog' = [watchdog EXCEPT ![t] = "renew"]
  /\ timer' = [timer EXCEPT ![t] = RespTimeout]
  /\ Send(t, "renew")
  /\ UNCHANGED <<store, orphans, handle, lease, released, lost, remote,
                 transient, result, history, resource, resets>>

WatchdogRenew(t) ==
  /\ watchdog[t] = "sleep" /\ timer[t] = 0
  /\ handle[t] = "live" /\ ~released[t]
  /\ watchdog' = [watchdog EXCEPT ![t] = "renew"]
  /\ timer' = [timer EXCEPT ![t] = RespTimeout]
  /\ Send(t, "renew")
  /\ UNCHANGED <<store, orphans, handle, lease, released, lost, remote,
                 transient, result, history, resource, resets>>

\* The end of one iteration: the task sleeps again, or poisons the handle and
\* ends.  Its reference is dropped; if it was the last, so is HandleShared.
EndIteration(t, poisons, failures, late) ==
  /\ watchdog' = [watchdog EXCEPT ![t] = IF poisons THEN "off" ELSE "sleep"]
  /\ timer' = [timer EXCEPT ![t] = IF poisons THEN 0 ELSE lease[t] \div RenewDiv]
  /\ transient' = [transient EXCEPT ![t] = IF poisons THEN 0 ELSE failures]
  /\ lost' = [lost EXCEPT ![t] = @ \/ poisons]
  /\ IF handle[t] = "dropping"
     THEN /\ handle' = [handle EXCEPT ![t] = "dead"]
          /\ released' = [released EXCEPT ![t] = TRUE]
          /\ orphans' = [orphans EXCEPT ![t] = @ \cup late \cup DetachedRelease(t)]
     ELSE /\ orphans' = [orphans EXCEPT ![t] = @ \cup late]
          /\ UNCHANGED <<handle, released>>
  /\ Return(t, "renew")
  /\ UNCHANGED <<store, lease, remote, result, history, resource, resets>>

WatchdogReturn(t) ==
  /\ rpc[t]["renew"] \in {"yes", "no"}
  /\ EndIteration(t, rpc[t]["renew"] = "no", 0, {})

\* Variants: every error poisons; no error is ever counted.
WatchdogErrorPoisons(t) ==
  /\ rpc[t]["renew"] # "idle"
  /\ EndIteration(t, TRUE, 0, Unserved(t, {"renew"}))

WatchdogErrorUncounted(t) ==
  /\ rpc[t]["renew"] # "idle"
  /\ EndIteration(t, FALSE, transient[t], Unserved(t, {"renew"}))

\* A backend error: connection refused, or no reply within response_timeout.
\* An Aggressive holder's count is never read, so it is not kept.
WatchdogError(t) ==
  /\ rpc[t]["renew"] # "idle"
  /\ LET failures == IF Policy[t] = "Aggressive" THEN 0 ELSE transient[t] + 1 IN
     EndIteration(t, Surrenders(t, failures), failures, Unserved(t, {"renew"}))

------------------------------------------------------------------------------
(* The protected resource and the passage of time. *)

\* Variant: the fence is compared but not stored.
FencedWriteForgets(t) ==
  /\ handle[t] = "live"
  /\ issued[t] > lastFence
  /\ lastWriter' = t
  /\ UNCHANGED <<store, net, client, history, lastFence, resets>>

\* A fenced update by a holder that has not noticed any loss: FencingToken::
\* supersedes, `$fence > last_fence`.
FencedWrite(t) ==
  /\ handle[t] = "live"
  /\ issued[t] > lastFence
  /\ lastFence' = issued[t]
  /\ lastWriter' = t
  /\ UNCHANGED <<store, net, client, history, resets>>

Due(t) == timer[t] = 0 /\ (watchdog[t] # "off" \/ handle[t] = "trying")

Less(n) == IF n = 0 THEN 0 ELSE n - 1

\* Redis expires keys; sleeps and response timeouts run down.  With Prompt, a
\* task whose time has come runs before time goes on.
Tick ==
  /\ Prompt => \A t \in Tokens : ~Due(t)
  /\ ttl' = Less(ttl)
  /\ owner' = IF ttl <= 1 THEN None ELSE owner
  /\ fenceTtl' = Less(fenceTtl)
  /\ fence' = IF fenceTtl <= 1 THEN 0 ELSE fence
  /\ resets' = IF fenceTtl = 1 THEN resets + 1 ELSE resets
  /\ timer' = [t \in Tokens |-> Less(timer[t])]
  /\ UNCHANGED <<net, handle, lease, released, lost, remote, watchdog,
                 transient, result, history, resource>>

------------------------------------------------------------------------------
Init ==
  /\ owner = None /\ ttl = 0
  /\ fence = 0 /\ fenceTtl = 0
  /\ rpc = [t \in Tokens |-> [c \in Calls |-> "idle"]]
  /\ orphans = [t \in Tokens |-> {}]
  /\ handle = [t \in Tokens |-> "fresh"]
  /\ lease = [t \in Tokens |-> 0]
  /\ issued = [t \in Tokens |-> 0]
  /\ released = [t \in Tokens |-> FALSE]
  /\ lost = [t \in Tokens |-> FALSE]
  /\ remote = [t \in Tokens |-> FALSE]
  /\ watchdog = [t \in Tokens |-> "off"]
  /\ timer = [t \in Tokens |-> 0]
  /\ transient = [t \in Tokens |-> 0]
  /\ result = [t \in Tokens |-> "none"]
  /\ lastFence = 0 /\ lastWriter = None
  /\ grants = 0 /\ grantNo = [t \in Tokens |-> 0]
  /\ resets = 0 /\ era = [t \in Tokens |-> 0]

\* Requests are served in any order and perhaps never: a request that is lost
\* is one that stays in `orphans`.
Network(t) == \E c \in Calls : Serve(t, c) \/ ServeOrphan(t, c)

Acquisition(t) ==
  \/ TryLock(t)
  \/ TryLockHeld(t)
  \/ "watchdog" \in Uses[t] /\ TryLockGranted(t, TRUE)
  \/ "no watchdog" \in Uses[t] /\ TryLockGranted(t, FALSE)

User(t) ==
  \/ "extend" \in Uses[t] /\ Extend(t)
  \/ ExtendReturn(t)
  \/ "release" \in Uses[t] /\ Release(t)
  \/ ReleaseReturn(t)
  \/ "drop" \in Uses[t] /\ DropHandle(t)
  \/ "disarm" \in Uses[t] /\ Disarm(t)
  \/ \E c \in Calls : TokenCall(t, c)
  \/ "write" \in Uses[t] /\ FencedWrite(t)

Watchdog(t) == WatchdogExit(t) \/ WatchdogRenew(t) \/ WatchdogReturn(t)

Fault(t) ==
  \/ /\ "error" \in Uses[t]
     /\ TryLockError(t) \/ ExtendError(t) \/ ReleaseError(t) \/ WatchdogError(t)
  \/ "crash" \in Uses[t] /\ Crash(t)

Next ==
  \/ Tick
  \/ \E t \in Tokens : "force" \in Uses[t] /\ ForceUnlock
  \/ \E t \in Tokens : Network(t) \/ Acquisition(t) \/ User(t) \/ Watchdog(t)
                      \/ Fault(t)

Spec == Init /\ [][Next]_vars

\* Time passes, sleeping tasks wake, and every request the watchdog sends ends
\* with a reply or, after response_timeout, with an error.
FairSpec ==
  /\ Spec
  /\ WF_vars(Tick)
  /\ \A t \in Tokens : /\ WF_vars(WatchdogExit(t) \/ WatchdogRenew(t))
                       /\ WF_vars(WatchdogReturn(t) \/ WatchdogError(t))

------------------------------------------------------------------------------
(* Properties. *)

TypeOK ==
  /\ owner \in Tokens \cup {None} /\ ttl \in Nat
  /\ fence \in Nat /\ fenceTtl \in Nat
  /\ rpc \in [Tokens -> [Calls -> Phases]]
  /\ orphans \in [Tokens -> SUBSET Calls]
  /\ handle \in [Tokens -> HandleStates]
  /\ lease \in [Tokens -> Nat]
  /\ issued \in [Tokens -> Nat]
  /\ released \in [Tokens -> BOOLEAN]
  /\ lost \in [Tokens -> BOOLEAN]
  /\ remote \in [Tokens -> BOOLEAN]
  /\ watchdog \in [Tokens -> {"off", "sleep", "renew"}]
  /\ timer \in [Tokens -> Nat]
  /\ transient \in [Tokens -> Nat]
  /\ result \in [Tokens -> {"none", "ok", "lost", "error"}]
  /\ lastFence \in Nat /\ lastWriter \in Tokens \cup {None}
  /\ grants \in Nat /\ grantNo \in [Tokens -> Nat]
  /\ resets \in Nat /\ era \in [Tokens -> Nat]

\* While an acquisition owns the key, the fence counter is there, will outlive
\* the lease, and still shows the fence issued to that acquisition: nobody has
\* been granted a fence since (acquire.lua, extend.lua, ADR 0012).
CounterFollowsOwner ==
  owner # None => fence = issued[owner] /\ fence > 0 /\ fenceTtl > ttl /\ ttl > 0

\* Of two acquisitions granted between two resets of the counter, the later
\* one carries the larger fence, whatever expired, was released, forced or
\* delivered late between the two grants.
FencesFollowGrants ==
  \A t, u \in Tokens :
    (issued[t] > 0 /\ era[t] = era[u] /\ grantNo[t] < grantNo[u])
      => issued[t] < issued[u]

\* A resource that applies FencingToken::supersedes accepts no write of an
\* acquisition granted before the last accepted writer, unless the counter was
\* reset between the two grants.
FencedWritesInOrder ==
  [][(lastWriter # None /\ lastWriter' # lastWriter
        /\ era[lastWriter] = era[lastWriter'])
      => grantNo[lastWriter'] > grantNo[lastWriter]]_vars

\* The same without the exception: "even then, strict-greater comparison keeps
\* safety" (docs/decisions/0012).
FencedWritesNeverRegress ==
  [][lastWriter # None /\ lastWriter' # lastWriter
      => grantNo[lastWriter'] > grantNo[lastWriter]]_vars

\* A key stops being owned by t only when its lease runs out, an administrator
\* forces it, or t itself was released first: no late release, drop or renewal
\* of another acquisition ends it (release.lua).
HoldEndsByOwner ==
  [][\A t \in Tokens :
       owner = t /\ owner' # t => Tick \/ ForceUnlock \/ released[t]]_vars

\* When release() reported Ok or Lost, the key is not owned under that token,
\* and no renewal still under way brings it back.
ReleaseVerdictFinal ==
  \A t \in Tokens : result[t] \in {"ok", "lost"} => owner # t

\* Under the Aggressive policy a poisoned handle has definitely lost the key
\* ("only definitive not-owner answers poison", core/src/safety.rs).
PoisonIsDefinitive ==
  \A t \in Tokens : Policy[t] = "Aggressive" /\ lost[t] => owner # t

\* After the last clone is gone the key stays owned only while a release is
\* under way, unless the handle was disarmed or its own release() failed:
\* whichever of the user and the watchdog drops HandleShared last, exactly
\* that one sends the detached release.
DropLeavesRelease ==
  \A t \in Tokens :
    handle[t] = "dead" /\ owner = t
      => "release" \in orphans[t] \/ remote[t] \/ result[t] = "error"

\* The strengthening that makes the invariants above inductive.  A token's
\* acquire request exists at most once and before its grant, so an owner that
\* is gone cannot come back.
AcquireOnce ==
  \A t \in Tokens :
    /\ handle[t] = "fresh" => issued[t] = 0
    /\ handle[t] # "fresh" => lease[t] \in Ttls
    /\ handle[t] \in {"live", "dropping", "dead"} => issued[t] > 0
    /\ rpc[t]["acquire"] # "idle" => handle[t] = "trying"
    /\ rpc[t]["acquire"] = "sent" => issued[t] = 0
    /\ rpc[t]["acquire"] = "yes" => issued[t] > 0
    /\ "acquire" \in orphans[t]
         => issued[t] = 0 /\ handle[t] \in {"failed", "crashed"}

\* Fences of the counter's present life are bounded by the counter.
CounterBoundsFences ==
  /\ fenceTtl = 0 => fence = 0
  /\ \A t \in Tokens :
       /\ issued[t] = 0 => grantNo[t] = 0
       /\ grantNo[t] <= grants
       /\ era[t] <= resets
       /\ era[t] = resets => issued[t] <= fence
  /\ \A t, u \in Tokens :
       issued[t] > 0 /\ grantNo[t] = grantNo[u] => t = u

\* The resource remembers the fence of the last accepted writer.
WriterRemembered ==
  lastWriter # None => lastFence = issued[lastWriter] /\ lastFence > 0

\* An answer on its way back that denies ownership, or reports the release,
\* is still true when it arrives.
AnswersStayTrue ==
  \A t \in Tokens :
    /\ \A c \in {"extend", "renew", "release"} :
         rpc[t][c] # "idle" => issued[t] > 0
    /\ \A c \in {"extend", "renew"} : rpc[t][c] = "no" => owner # t
    /\ rpc[t]["release"] \in {"yes", "no"} => owner # t
    /\ result[t] # "none" \/ lost[t] => issued[t] > 0

\* No release request exists without mark_released.
ReleaseFlagged ==
  \A t \in Tokens :
    remote[t] \/ rpc[t]["release"] # "idle" \/ "release" \in orphans[t]
      => released[t]

\* release() does not flip the loss signal: "Voluntary `release()` does NOT
\* flip the signal" (docs/decisions/0014).
ReleaseIsNotLoss ==
  [][\A t \in Tokens : ~lost[t] /\ lost'[t] => result[t] # "ok"]_vars

\* The mutex implements the abstract lease lock.
Lease == INSTANCE LeaseLock WITH
  owner <- owner, fence <- fence, issued <- issued
ImplementsLeaseLock == Lease!Spec

\* A handle whose watchdog runs, and which nothing has told of a loss.
Believes(t) ==
  handle[t] = "live" /\ ~released[t] /\ ~lost[t] /\ watchdog[t] # "off"

\* A holder that lost the key learns of it (or lets go by itself), even when
\* the store only answers with errors; not under Aggressive.
LossIsNoticed ==
  \A t \in Tokens : (Believes(t) /\ owner # t) ~> ~Believes(t)

\* The watchdog of a released or dropped handle ends: the task holds only a
\* weak reference.
WatchdogEnds ==
  \A t \in Tokens :
    (released[t] \/ handle[t] \in {"dropping", "dead", "crashed"})
      ~> watchdog[t] = "off"

\* A key whose client crashed, dropped the handle, or gave up waiting for the
\* grant is free for good after some time.
AbandonedKeyIsFreed ==
  \A t \in Tokens :
    (handle[t] \in {"failed", "dead", "crashed"} /\ ~remote[t])
      ~> [](owner # t)

\* What abandoned and stale handles come to: the holder learns of its loss, its
\* watchdog ends, its key is free.
HandlesRecover == LossIsNoticed /\ WatchdogEnds /\ AbandonedKeyIsFreed
==============================================================================
