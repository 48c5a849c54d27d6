------------------------------- MODULE Redlock -------------------------------
(***************************************************************************)
(* The quorum lock over N independent Redis masters: sequential rounds of  *)
(* the mutex scripts over the ring, rollback, the fence allocator on the   *)
(* first master, the handle and its watchdog.  One lock key; the members   *)
(* of Tokens are the acquisition rounds on it, by any number of processes. *)
(*                                                                         *)
(* A script runs atomically on its master, and what the client does with   *)
(* the reply is local to it, so a call that is answered is one step.  A    *)
(* call that fails or times out may still be run by the master later.      *)
(***************************************************************************)
EXTENDS Integers, FiniteSets

CONSTANTS
  Tokens,    \* one owner token per round: OwnerId::generate
  None,      \* the key does not exist on a master
  N,         \* number of masters
  Ttl,       \* the lease of every handle, in ticks
  RenewDiv,  \* RENEWAL_DIVISOR
  Faulty,    \* masters that may fail to answer a call in time
  Prompt,    \* TRUE: the fence is allocated before the round's lease runs out
  Uses       \* which of the optional operations and faults occur

ASSUME TokensAssumption == None \notin Tokens
ASSUME RingAssumption == N \in Nat /\ N >= 3           \* RedlockConfig::validate
ASSUME TtlAssumption == Ttl \in Nat \ {0}              \* LockOptions::validate
ASSUME RenewDivAssumption == RenewDiv \in Nat \ {0}
ASSUME PromptAssumption == Prompt \in BOOLEAN
ASSUME UsesAssumption ==
  Uses \subseteq {"timeout", "error", "extend", "release", "drop", "crash",
                  "watchdog"}

VARIABLES
  \* the masters
  holder,    \* holder[n]: value of the lock key on master n, or None
  left,      \* left[n]: its PTTL, 0 without the key
  counter,   \* __palisade__:fence-allocator, never expires
  late,      \* late[t]: scripts sent to a master that nobody waits for
  \* the client side of each token
  phase,     \* life cycle of the round and of its handle
  round,     \* round[t][k]: the loop over the masters for each kind of call
  age,       \* ticks since the acquisition round started, up to Ttl, until
             \* the handle is made
  fence,     \* RedlockShared::fence, 0 before
  gone,      \* RedlockShared::gone
  lost,      \* RedlockShared::poisoned and the `lost` channel, set together
  watchdog, timer, transient,
  result,    \* what release() returned
  \* history, read by properties only
  quorums,   \* rounds that collected a quorum in time, so far
  quorumNo   \* the place of each token among them

ring    == <<holder, left>>
handle  == <<age, gone, lost, watchdog, timer, transient, result>>
history == <<quorums, quorumNo>>
vars    == <<ring, counter, late, phase, round, handle, fence, history>>

Nodes == 1 .. N
Allocator == 1
\* Variant: half of the ring.
HalfRing == N \div 2
Quorum == N \div 2 + 1

Kinds == {"acquire", "rollback", "extend", "renew", "release"}
Scripts == {"acquire", "extend", "release"}
Phases == {"fresh", "acquiring", "allocating", "rollback", "held", "error",
           "live", "dropping", "dead", "crashed"}

\* The script behind each kind of round.
ScriptOf(k) == CASE k = "acquire" -> "acquire"
                 [] k \in {"extend", "renew"} -> "extend"
                 [] k \in {"rollback", "release"} -> "release"

\* A loop over some masters: those still to be called, those that answered 1
\* (or 2), and whether one answered 0.
Rounds == [on : BOOLEAN, todo : SUBSET Nodes, ok : SUBSET Nodes, denied : BOOLEAN]
Idle == [on |-> FALSE, todo |-> {}, ok |-> {}, denied |-> FALSE]
Over(nodes) == [on |-> TRUE, todo |-> nodes, ok |-> {}, denied |-> FALSE]

Calling(t, k) == round[t][k].on /\ round[t][k].todo # {}
Finished(t, k) == round[t][k].on /\ round[t][k].todo = {}
NextNode(t, k) == CHOOSE n \in round[t][k].todo : \A m \in round[t][k].todo : n <= m
HasQuorum(t, k) == Cardinality(round[t][k].ok) >= Quorum

Start(t, k, nodes) == round' = [round EXCEPT ![t][k] = Over(nodes)]
Stop(t, k) == round' = [round EXCEPT ![t][k] = Idle]

\* The request of round k that is under way when its future is dropped.
UnderWay(t, k) == {<<ScriptOf(k), n>> : n \in IF Calling(t, k) THEN {NextNode(t, k)}
                                              ELSE {}}

------------------------------------------------------------------------------
(* The scripts, on one master. *)

Accepts(t, s, n) == holder[n] = t \/ (s = "acquire" /\ holder[n] = None)

\* Variant: the lease and the fence-counter ttl arguments are swapped.
RunScriptSwapped(t, s, n) ==
  IF ~Accepts(t, s, n) THEN UNCHANGED ring
  ELSE /\ holder' = [holder EXCEPT ![n] = IF s = "release" THEN None ELSE t]
       /\ left' = [left EXCEPT ![n] = IF s = "release" THEN 0 ELSE 10 * Ttl]

\* acquire.lua, extend.lua and release.lua.
RunScript(t, s, n) ==
  IF ~Accepts(t, s, n) THEN UNCHANGED ring
  ELSE /\ holder' = [holder EXCEPT ![n] = IF s = "release" THEN None ELSE t]
       /\ left' = [left EXCEPT ![n] = IF s = "release" THEN 0 ELSE Ttl]

\* A loop after an answer: 1 (or 2) counts, 0 is a refusal.
Answered(r, n, yes) == [r EXCEPT !.todo = @ \ {n},
                                 !.ok = IF yes THEN @ \cup {n} ELSE @,
                                 !.denied = @ \/ ~yes]

\* One call of a round, answered in time.
CallNode(t, k) ==
  /\ Calling(t, k)
  /\ LET n == NextNode(t, k)
         yes == Accepts(t, ScriptOf(k), n) IN
     /\ RunScript(t, ScriptOf(k), n)
     /\ round' = [round EXCEPT ![t][k] = Answered(@, n, yes)]
  /\ UNCHANGED <<counter, late, phase, handle, fence, history>>

\* One call that fails or whose time slice elapses: the loop goes on.
CallFails(t, k) ==
  /\ Calling(t, k)
  /\ NextNode(t, k) \in Faulty
  /\ round' = [round EXCEPT ![t][k].todo = @ \ {NextNode(t, k)}]
  /\ late' = [late EXCEPT ![t] = @ \cup UnderWay(t, k)]
  /\ UNCHANGED <<ring, counter, phase, handle, fence, history>>

\* A master runs a script whose reply nobody awaits any more.
ServeLate(t, s, n) ==
  /\ <<s, n>> \in late[t]
  /\ RunScript(t, s, n)
  /\ late' = [late EXCEPT ![t] = @ \ {<<s, n>>}]
  /\ UNCHANGED <<counter, phase, round, handle, fence, history>>

------------------------------------------------------------------------------
(* try_lock *)

TryLock(t) ==
  /\ phase[t] = "fresh"
  /\ phase' = [phase EXCEPT ![t] = "acquiring"]
  /\ Start(t, "acquire", Nodes)
  /\ UNCHANGED <<ring, counter, late, handle, fence, history>>

\* A connection error on one master returns at once, without a rollback.
AcquireError(t) ==
  /\ Calling(t, "acquire")
  /\ NextNode(t, "acquire") \in Faulty
  /\ phase' = [phase EXCEPT ![t] = "error"]
  /\ late' = [late EXCEPT ![t] = @ \cup UnderWay(t, "acquire")]
  /\ Stop(t, "acquire")
  /\ UNCHANGED <<ring, counter, handle, fence, history>>

\* Variant: the validity budget is not looked at.
InTimeAlways(t) == TRUE

\* The round took less than MAX_ROUND_FRACTION of the lease.
InTime(t) == 10 * age[t] < 9 * Ttl

\* Variant: the last master granted is not rolled back.
RollbackOf(nodes) == {n \in nodes : \E m \in nodes : m > n}

\* What is rolled back: everything the round took.
Taken(nodes) == nodes

Decide(t) ==
  /\ Finished(t, "acquire")
  /\ IF HasQuorum(t, "acquire") /\ InTime(t)
     THEN /\ phase' = [phase EXCEPT ![t] = "allocating"]
          /\ quorums' = quorums + 1
          /\ quorumNo' = [quorumNo EXCEPT ![t] = quorums + 1]
          /\ Stop(t, "acquire")
     ELSE /\ phase' = [phase EXCEPT ![t] = "rollback"]
          /\ round' = [round EXCEPT ![t]["acquire"].on = FALSE,
                                    ![t]["rollback"] = Over(Taken(round[t]["acquire"].ok))]
          /\ UNCHANGED history
  /\ UNCHANGED <<ring, counter, late, handle, fence>>

\* allocate_fence, then make_handle with its watchdog.
AllocateFence(t) ==
  /\ phase[t] = "allocating"
  /\ phase' = [phase EXCEPT ![t] = "live"]
  /\ counter' = counter + 1
  /\ fence' = [fence EXCEPT ![t] = counter + 1]
  /\ watchdog' = [watchdog EXCEPT ![t] = "sleep"]
  /\ timer' = [timer EXCEPT ![t] = Ttl \div RenewDiv]
  /\ age' = [age EXCEPT ![t] = 0]
  /\ UNCHANGED <<ring, late, round, gone, lost, transient, result, history>>

\* The allocator does not answer: the quorum is left to expire.
AllocateError(t) ==
  /\ phase[t] = "allocating"
  /\ Allocator \in Faulty
  /\ phase' = [phase EXCEPT ![t] = "error"]
  /\ counter' \in {counter, counter + 1}
  /\ UNCHANGED <<ring, late, round, handle, fence, history>>

\* Error::Held
RollbackDone(t) ==
  /\ Finished(t, "rollback")
  /\ phase' = [phase EXCEPT ![t] = "held"]
  /\ Stop(t, "rollback")
  /\ UNCHANGED <<ring, counter, late, handle, fence, history>>

------------------------------------------------------------------------------
(* The handle. *)

Extend(t) ==
  /\ phase[t] = "live" /\ ~gone[t]
  /\ ~round[t]["extend"].on
  /\ Start(t, "extend", Nodes)
  /\ UNCHANGED <<ring, counter, late, phase, handle, fence, history>>

\* fire_extend's verdict: a quorum of successes; else one refusal is a loss.
ExtendDone(t) ==
  /\ Finished(t, "extend")
  /\ lost' = [lost EXCEPT ![t] = @ \/ (~HasQuorum(t, "extend") /\ round[t]["extend"].denied)]
  /\ Stop(t, "extend")
  /\ UNCHANGED <<ring, counter, late, phase, age, gone, watchdog, timer,
                 transient, result, fence, history>>

Release(t) ==
  /\ phase[t] = "live" /\ ~gone[t]
  /\ gone' = [gone EXCEPT ![t] = TRUE]
  /\ Start(t, "release", Nodes)
  /\ UNCHANGED <<ring, counter, late, phase, age, lost, watchdog, timer,
                 transient, result, fence, history>>

\* run_release's verdict; nobody reads the one of a detached release.
ReleaseDone(t) ==
  /\ Finished(t, "release")
  /\ result' = [result EXCEPT ![t] =
       CASE phase[t] # "live" -> @
         [] round[t]["release"].ok # {} -> "ok"
         [] round[t]["release"].ok = {} /\ round[t]["release"].denied -> "lost"
         [] OTHER -> "error"]
  /\ Stop(t, "release")
  /\ UNCHANGED <<ring, counter, late, phase, age, gone, lost, watchdog, timer,
                 transient, fence, history>>

\* RedlockShared::drop: a detached release round, unless marked gone before.
Detached(t, r) == IF gone[t] THEN r ELSE [r EXCEPT !["release"] = Over(Nodes)]

\* The last clone is dropped: calls under way are cancelled, and RedlockShared
\* goes with it unless the watchdog holds an upgraded reference.
DropHandle(t) ==
  /\ phase[t] = "live"
  /\ LET mid == watchdog[t] = "renew"
         stopped == [round[t] EXCEPT !["extend"] = Idle, !["release"] = Idle] IN
     /\ phase' = [phase EXCEPT ![t] = IF mid THEN "dropping" ELSE "dead"]
     /\ gone' = [gone EXCEPT ![t] = @ \/ ~mid]
     /\ round' = [round EXCEPT ![t] = IF mid THEN stopped ELSE Detached(t, stopped)]
  /\ late' = [late EXCEPT ![t] = @ \cup UnderWay(t, "extend") \cup UnderWay(t, "release")]
  /\ UNCHANGED <<ring, counter, age, lost, watchdog, timer, transient, result,
                 fence, history>>

\* The process dies: nothing is released.
Crash(t) ==
  /\ phase[t] \in {"acquiring", "allocating", "rollback", "live", "dropping"}
  /\ phase' = [phase EXCEPT ![t] = "crashed"]
  /\ round' = [round EXCEPT ![t] = [k \in Kinds |-> Idle]]
  /\ late' = [late EXCEPT ![t] = @ \cup UNION {UnderWay(t, k) : k \in Kinds}]
  /\ watchdog' = [watchdog EXCEPT ![t] = "off"]
  /\ UNCHANGED <<ring, counter, age, gone, lost, timer, transient, result,
                 fence, history>>

------------------------------------------------------------------------------
(* The watchdog task. *)

WatchdogExit(t) ==
  /\ watchdog[t] = "sleep" /\ timer[t] = 0
  /\ phase[t] # "live" \/ gone[t]
  /\ watchdog' = [watchdog EXCEPT ![t] = "off"]
  /\ UNCHANGED <<ring, counter, late, phase, round, age, gone, lost, timer,
                 transient, result, fence, history>>

\* Variant: the task holds a strong reference and does not look at `gone`.
WatchdogRenewAnyway(t) ==
  /\ watchdog[t] = "sleep" /\ timer[t] = 0
  /\ watchdog' = [watchdog EXCEPT ![t] = "renew"]
  /\ Start(t, "renew", Nodes)
  /\ UNCHANGED <<ring, counter, late, phase, age, gone, lost, timer, transient,
                 result, fence, history>>

WatchdogRenew(t) ==
  /\ watchdog[t] = "sleep" /\ timer[t] = 0
  /\ phase[t] = "live" /\ ~gone[t]
  /\ watchdog' = [watchdog EXCEPT ![t] = "renew"]
  /\ Start(t, "renew", Nodes)
  /\ UNCHANGED <<ring, counter, late, phase, age, gone, lost, timer, transient,
                 result, fence, history>>

\* Variant: a failed round is not counted.
FailuresUncounted(t) == 0

\* transient_failures after this round: MAX_CONSECUTIVE_RENEW_FAILURES is 2.
Failures(t) == IF HasQuorum(t, "renew") THEN 0 ELSE transient[t] + 1

\* The end of a renewal round; if the task held the last reference, the
\* release is detached now.
RenewDone(t) ==
  /\ Finished(t, "renew")
  /\ LET poisons == ~HasQuorum(t, "renew")
                      /\ (round[t]["renew"].denied \/ Failures(t) >= 2) IN
     /\ watchdog' = [watchdog EXCEPT ![t] = IF poisons THEN "off" ELSE "sleep"]
     /\ timer' = [timer EXCEPT ![t] = IF poisons THEN 0 ELSE Ttl \div RenewDiv]
     /\ transient' = [transient EXCEPT ![t] = IF poisons THEN 0 ELSE Failures(t)]
     /\ lost' = [lost EXCEPT ![t] = @ \/ poisons]
  /\ LET stopped == [round[t] EXCEPT !["renew"] = Idle] IN
     IF phase[t] = "dropping"
     THEN /\ phase' = [phase EXCEPT ![t] = "dead"]
          /\ gone' = [gone EXCEPT ![t] = TRUE]
          /\ round' = [round EXCEPT ![t] = Detached(t, stopped)]
     ELSE /\ round' = [round EXCEPT ![t] = stopped]
          /\ UNCHANGED <<phase, gone>>
  /\ UNCHANGED <<ring, counter, late, age, result, fence, history>>

------------------------------------------------------------------------------
Less(n) == IF n = 0 THEN 0 ELSE n - 1

\* Masters expire keys, at the same pace; rounds grow older.
Tick ==
  /\ Prompt => \A t \in Tokens : phase[t] = "allocating" => age[t] + 1 < Ttl
  /\ left' = [n \in Nodes |-> Less(left[n])]
  /\ holder' = [n \in Nodes |-> IF left[n] <= 1 THEN None ELSE holder[n]]
  /\ age' = [t \in Tokens |-> IF phase[t] \in {"acquiring", "allocating"} /\ age[t] < Ttl
                              THEN age[t] + 1 ELSE age[t]]
  /\ timer' = [t \in Tokens |-> Less(timer[t])]
  /\ UNCHANGED <<counter, late, phase, round, gone, lost, watchdog, transient,
                 result, fence, history>>

Init ==
  /\ holder = [n \in Nodes |-> None]
  /\ left = [n \in Nodes |-> 0]
  /\ counter = 0
  /\ late = [t \in Tokens |-> {}]
  /\ phase = [t \in Tokens |-> "fresh"]
  /\ round = [t \in Tokens |-> [k \in Kinds |-> Idle]]
  /\ age = [t \in Tokens |-> 0]
  /\ fence = [t \in Tokens |-> 0]
  /\ gone = [t \in Tokens |-> FALSE]
  /\ lost = [t \in Tokens |-> FALSE]
  /\ watchdog = [t \in Tokens |-> "off"]
  /\ timer = [t \in Tokens |-> 0]
  /\ transient = [t \in Tokens |-> 0]
  /\ result = [t \in Tokens |-> "none"]
  /\ quorums = 0
  /\ quorumNo = [t \in Tokens |-> 0]

Network(t) ==
  \/ \E k \in Kinds : CallNode(t, k)
  \/ "timeout" \in Uses /\ \E k \in Kinds : CallFails(t, k)
  \/ \E s \in Scripts, n \in Nodes : ServeLate(t, s, n)

Acquisition(t) ==
  \/ TryLock(t) \/ Decide(t) \/ AllocateFence(t) \/ RollbackDone(t)
  \/ "error" \in Uses /\ (AcquireError(t) \/ AllocateError(t))

User(t) ==
  \/ "extend" \in Uses /\ Extend(t)
  \/ "release" \in Uses /\ Release(t)
  \/ "drop" \in Uses /\ DropHandle(t)
  \/ "crash" \in Uses /\ Crash(t)
  \/ ExtendDone(t) \/ ReleaseDone(t)

Watchdog(t) ==
  "watchdog" \in Uses /\ (WatchdogExit(t) \/ WatchdogRenew(t) \/ RenewDone(t))

Next ==
  \/ Tick
  \/ \E t \in Tokens : Network(t) \/ Acquisition(t) \/ User(t) \/ Watchdog(t)

Spec == Init /\ [][Next]_vars

\* Time passes, and the watchdog task is scheduled; each of its calls is
\* answered or fails.
FairSpec ==
  /\ Spec
  /\ WF_vars(Tick)
  /\ \A t \in Tokens :
       /\ WF_vars(Watchdog(t))
       /\ WF_vars(CallNode(t, "renew") \/ CallFails(t, "renew"))

------------------------------------------------------------------------------
(* Properties. *)

TypeOK ==
  /\ holder \in [Nodes -> Tokens \cup {None}]
  /\ left \in [Nodes -> 0 .. Ttl]
  /\ counter \in Nat
  /\ late \in [Tokens -> SUBSET (Scripts \X Nodes)]
  /\ phase \in [Tokens -> Phases]
  /\ round \in [Tokens -> [Kinds -> Rounds]]
  /\ age \in [Tokens -> 0 .. Ttl]
  /\ fence \in [Tokens -> Nat]
  /\ gone \in [Tokens -> BOOLEAN]
  /\ lost \in [Tokens -> BOOLEAN]
  /\ watchdog \in [Tokens -> {"off", "sleep", "renew"}]
  /\ timer \in [Tokens -> Nat]
  /\ transient \in [Tokens -> Nat]
  /\ result \in [Tokens -> {"none", "ok", "lost", "error"}]
  /\ quorums \in Nat
  /\ quorumNo \in [Tokens -> Nat]

OwnsQuorum(t) == Cardinality({n \in Nodes : holder[n] = t}) >= Quorum

\* When a round decides that it has the lock, it still owns a quorum of the
\* masters, however long the calls took: the grants of the round outlive 90% of
\* the lease measured from its start.
GrantDecidedOnQuorum ==
  [][\A t \in Tokens :
       phase[t] = "acquiring" /\ phase'[t] = "allocating" => OwnsQuorum(t)]_vars

\* Of two handles, the one whose round won its quorum later has the larger
\* fence: "One linearizable counter gives a total order" (docs/decisions/0020).
\* It needs the allocator to answer while the round's lease lasts.
FencesFollowQuorums ==
  \A t, u \in Tokens :
    fence[t] > 0 /\ fence[u] > 0 /\ quorumNo[t] < quorumNo[u] => fence[t] < fence[u]

\* After Error::Held a master that granted a lease to the round has released
\* it, or still has the release to run: nothing the round knows of is left to
\* expire by itself.
RollbackReleasesAll ==
  \A t \in Tokens : phase[t] = "held" =>
    \A n \in round[t]["acquire"].ok : holder[n] = t => <<"release", n>> \in late[t]

\* An attempt that leaves an unanswered request or a failed round behind gives
\* every master back in the end: expiry frees the ring.
AbandonedRingIsFreed ==
  \A t \in Tokens :
    phase[t] \in {"held", "error", "dead", "crashed"}
      ~> [](\A n \in Nodes : holder[n] # t)

Believes(t) == phase[t] = "live" /\ ~gone[t] /\ ~lost[t]

\* No holder believes for ever in a quorum that it does not have.
QuorumLossIsNoticed ==
  \A t \in Tokens : []<>~(Believes(t) /\ ~OwnsQuorum(t))

\* What failed rounds and stale handles come to: the ring is free, the holder
\* knows.
RingRecovers == AbandonedRingIsFreed /\ QuorumLossIsNoticed
==============================================================================
