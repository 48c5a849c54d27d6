----------------------------- MODULE RemoteProofs -----------------------------
(***************************************************************************)
(* What the etcd backend, the gRPC client and the watch hub promise, for   *)
(* any number of attempts, handles, sessions and watchers, any faults and  *)
(* any timers that fit together; then the parts side by side, as Remote    *)
(* composes them.                                                          *)
(***************************************************************************)
EXTENDS Remote, FiniteSetTheorems, TLAPS

------------------------------------------------------------------------------
(* The etcd backend. *)

\* The constants: lease_secs() never returns 0, and the key is not a token.
EtcdConstants ==
  None \notin Tokens /\ EtcdTtl \in Nat \ {0} /\ MaxSendErrors \in Nat

\* The key is there only under a lease that has not ended.
KeyUnderLease == owner # None => lease[owner] > 0

\* The owner carries the fence of the last grant; all fences are revisions that
\* etcd has reached, and an attempt without its transaction has none.
RevisionsFence ==
  /\ lastGrant <= revision
  /\ \A t \in Tokens : /\ issued[t] <= lastGrant
                       /\ stage[t] \in {"fresh", "leased"} => issued[t] = 0 /\ owner # t
  /\ owner # None => issued[owner] = lastGrant /\ lastGrant > 0

EtcdInv == Etcd!TypeOK /\ KeyUnderLease /\ RevisionsFence

\* Every step keeps the types.
LEMMA EtcdTypeStep ==
  ASSUME EtcdConstants, Etcd!TypeOK, [Etcd!Next]_(Etcd!vars)
  PROVE  Etcd!TypeOK'
  <1> USE DEF EtcdConstants, Etcd!TypeOK, Etcd!Stages, Etcd!Goto, Etcd!Delete, Etcd!Put,
              Etcd!grantVars
  <1>1. CASE UNCHANGED Etcd!vars
    BY <1>1 DEF Etcd!vars
  <1>2. CASE Etcd!Tick
    BY <1>2 DEF Etcd!Tick
  <1>3. ASSUME NEW t \in Tokens, Etcd!Step(t) PROVE Etcd!TypeOK'
    <2>1. CASE Etcd!GrantLease(t)
      BY <2>1 DEF Etcd!GrantLease
    <2>2. CASE Etcd!Acquire(t)
      <3>0. /\ stage' = [stage EXCEPT ![t] = "live"]
            /\ issued' = [issued EXCEPT ![t] = revision + 1]
        BY <2>2 DEF Etcd!Acquire
      <3>1. issued' \in [Tokens -> Nat] /\ stage' \in [Tokens -> Etcd!Stages]
        BY <3>0
      <3>2. watchdog' \in [Tokens -> {"off", "open", "sleep", "send"}]
        BY <2>2 DEF Etcd!Acquire
      <3>. QED
        BY <2>2, <3>1, <3>2 DEF Etcd!Acquire
    <2>3. CASE Etcd!AcquireFails(t)
      BY <2>3 DEF Etcd!AcquireFails
    <2>4. CASE Etcd!Revoke(t)
      BY <2>4 DEF Etcd!Revoke
    <2>5. CASE Etcd!TryLockFor(t) \/ Etcd!Release(t) \/ Etcd!Drop(t)
      BY <2>5 DEF Etcd!TryLockFor, Etcd!Release, Etcd!Drop
    <2>6. CASE Etcd!ReleaseInner(t)
      <3>1. lost' \in [Tokens -> BOOLEAN]
        BY <2>6, Zenon DEF Etcd!ReleaseInner
      <3>. QED
        BY <2>6, <3>1 DEF Etcd!ReleaseInner
    <2>7. CASE Etcd!Extend(t)
      BY <2>7 DEF Etcd!Extend
    <2>8. CASE Etcd!OpenStream(t)
      BY <2>8 DEF Etcd!OpenStream, Etcd!MarkLost
    <2>9. CASE Etcd!WakeUp(t)
      BY <2>9 DEF Etcd!WakeUp
    <2>10. CASE Etcd!KeepAlive(t)
      BY <2>10 DEF Etcd!KeepAlive, Etcd!MarkLost
    <2>11. CASE Etcd!KeepAliveFails(t)
      <3>1. errors' \in 0..MaxSendErrors
        BY <2>11 DEF Etcd!KeepAliveFails
      <3>2. /\ lost' \in [Tokens -> BOOLEAN]
            /\ watchdog' \in [Tokens -> {"off", "open", "sleep", "send"}]
        BY <2>11 DEF Etcd!KeepAliveFails, Etcd!MarkLost
      <3>. QED
        BY <2>11, <3>1, <3>2 DEF Etcd!KeepAliveFails
    <2>12. CASE Etcd!Crash(t)
      BY <2>12 DEF Etcd!Crash
    <2>. QED
      BY <1>3, <2>1, <2>2, <2>3, <2>4, <2>5, <2>6, <2>7, <2>8, <2>9, <2>10, <2>11, <2>12
      DEF Etcd!Step, Etcd!Dog
  <1>. QED
    BY <1>1, <1>2, <1>3 DEF Etcd!Next

\* What one step does to the key: it is put under a live lease by an attempt
\* that had none and found it free, it is deleted, or nothing happens to it.
LEMMA KeyStep ==
  ASSUME EtcdConstants, Etcd!TypeOK, [Etcd!Next]_(Etcd!vars)
  PROVE  \/ \E t \in Tokens : /\ stage[t] = "leased" /\ stage'[t] # "leased"
                              /\ stage'[t] # "fresh" /\ lease[t] > 0 /\ owner = None
                              /\ Etcd!Put(t) /\ lease' = lease
                              /\ \A u \in Tokens \ {t} : stage'[u] = stage[u]
         \/ /\ owner # None /\ owner' = None /\ revision' = revision + 1
            /\ UNCHANGED <<issued, lastGrant>>
         \/ UNCHANGED <<owner, revision, issued, lastGrant>>
  <1> USE DEF EtcdConstants, Etcd!Goto, Etcd!Delete, Etcd!grantVars
  <1>1. CASE UNCHANGED Etcd!vars
    BY <1>1 DEF Etcd!vars
  <1>2. CASE Etcd!Tick
    BY <1>2 DEF Etcd!Tick
  <1>3. ASSUME NEW t \in Tokens, Etcd!Acquire(t) \/ Etcd!AcquireFails(t)
        PROVE  \/ /\ stage[t] = "leased" /\ stage'[t] # "leased"
                  /\ stage'[t] # "fresh" /\ lease[t] > 0 /\ owner = None
                  /\ Etcd!Put(t) /\ lease' = lease
                  /\ \A u \in Tokens \ {t} : stage'[u] = stage[u]
               \/ UNCHANGED <<owner, revision, issued, lastGrant>>
    <2>1. CASE Etcd!Acquire(t)
      BY <2>1 DEF Etcd!Acquire, Etcd!TypeOK
    <2>2. CASE Etcd!AcquireFails(t)
      BY <2>2 DEF Etcd!AcquireFails, Etcd!TypeOK
    <2>. QED
      BY <1>3, <2>1, <2>2
  <1>4. ASSUME NEW t \in Tokens, Etcd!Revoke(t) \/ Etcd!ReleaseInner(t)
        PROVE  \/ /\ owner # None /\ owner' = None /\ revision' = revision + 1
                  /\ UNCHANGED <<issued, lastGrant>>
               \/ UNCHANGED <<owner, revision, issued, lastGrant>>
    BY <1>4 DEF Etcd!Revoke, Etcd!ReleaseInner
  <1>5. ASSUME NEW t \in Tokens,
               \/ Etcd!GrantLease(t) \/ Etcd!TryLockFor(t) \/ Etcd!Release(t)
               \/ Etcd!Drop(t) \/ Etcd!Extend(t)
               \/ Etcd!OpenStream(t) \/ Etcd!Dog(t) \/ Etcd!Crash(t)
        PROVE  UNCHANGED <<owner, revision, issued, lastGrant>>
    BY <1>5 DEF Etcd!GrantLease, Etcd!TryLockFor, Etcd!Release, Etcd!Drop, Etcd!Extend,
                Etcd!OpenStream, Etcd!Dog, Etcd!WakeUp,
                Etcd!KeepAlive, Etcd!KeepAliveFails, Etcd!Crash
  <1>. QED
    BY <1>1, <1>2, <1>3, <1>4, <1>5 DEF Etcd!Next, Etcd!Step

\* No step takes the lease of the owner away without the key.
LEMMA LeaseStep ==
  ASSUME EtcdConstants, Etcd!TypeOK, KeyUnderLease, [Etcd!Next]_(Etcd!vars),
         owner' # None, owner' = owner
  PROVE  lease'[owner] > 0
  <1> USE DEF EtcdConstants, KeyUnderLease, Etcd!grantVars
  <1>t. owner \in Tokens /\ lease[owner] \in Nat /\ lease[owner] > 0
    BY DEF Etcd!TypeOK
  <1>1. CASE UNCHANGED Etcd!vars
    BY <1>1, <1>t DEF Etcd!vars
  <1>2. CASE Etcd!Tick
    <2>1. lease[owner] > 1
      BY <1>2, <1>t DEF Etcd!Tick, Etcd!Delete
    <2>. QED
      BY <1>2, <1>t, <2>1 DEF Etcd!Tick
  <1>3. ASSUME NEW t \in Tokens, Etcd!Step(t) PROVE lease'[owner] > 0
    <2>1. CASE Etcd!GrantLease(t)
      BY <1>t, <2>1 DEF Etcd!GrantLease, Etcd!TypeOK
    <2>2. CASE Etcd!Revoke(t)
      BY <1>t, <2>2 DEF Etcd!Revoke, Etcd!Delete, Etcd!TypeOK
    <2>3. CASE Etcd!Extend(t)
      BY <1>t, <2>3 DEF Etcd!Extend, Etcd!TypeOK
    <2>4. CASE Etcd!KeepAlive(t)
      BY <1>t, <2>4 DEF Etcd!KeepAlive, Etcd!TypeOK
    <2>5. CASE ~(Etcd!GrantLease(t) \/ Etcd!Revoke(t) \/ Etcd!Extend(t) \/ Etcd!KeepAlive(t))
      <3>1. lease' = lease
        BY <1>3, <2>5 DEF Etcd!Step, Etcd!Dog, Etcd!Acquire, Etcd!AcquireFails, Etcd!TryLockFor,
                          Etcd!Release, Etcd!Drop,
                          Etcd!ReleaseInner, Etcd!OpenStream, Etcd!WakeUp, Etcd!KeepAliveFails,
                          Etcd!Crash
      <3>. QED
        BY <1>t, <3>1
    <2>. QED
      BY <2>1, <2>2, <2>3, <2>4, <2>5
  <1>. QED
    BY <1>1, <1>2, <1>3 DEF Etcd!Next

\* An attempt is before its transaction only if it was so before the step.
LEMMA StageStep ==
  ASSUME EtcdConstants, Etcd!TypeOK, [Etcd!Next]_(Etcd!vars), NEW u \in Tokens,
         stage'[u] \in {"fresh", "leased"}
  PROVE  stage[u] \in {"fresh", "leased"}
  <1> USE DEF Etcd!Goto
  <1>1. CASE UNCHANGED Etcd!vars \/ Etcd!Tick
    BY <1>1 DEF Etcd!vars, Etcd!Tick
  <1>2. ASSUME NEW t \in Tokens, Etcd!Step(t) PROVE stage[u] \in {"fresh", "leased"}
    <2>1. \/ stage' = stage
          \/ t # u /\ stage'[u] = stage[u]
          \/ t = u /\ (Etcd!GrantLease(t) \/ stage'[u] \notin {"fresh", "leased"})
      BY <1>2 DEF Etcd!TypeOK, Etcd!Step, Etcd!Dog, Etcd!GrantLease, Etcd!Acquire,
                  Etcd!AcquireFails, Etcd!Revoke, Etcd!TryLockFor,
                  Etcd!Release, Etcd!Drop, Etcd!ReleaseInner, Etcd!Extend, Etcd!OpenStream,
                  Etcd!WakeUp, Etcd!KeepAlive,
                  Etcd!KeepAliveFails, Etcd!Crash
    <2>. QED
      BY <2>1 DEF Etcd!GrantLease
  <1>. QED
    BY <1>1, <1>2 DEF Etcd!Next

\* Every step keeps the invariant.
LEMMA EtcdInvStep ==
  ASSUME EtcdConstants, EtcdInv, [Etcd!Next]_(Etcd!vars)
  PROVE  EtcdInv'
  <1>t. Etcd!TypeOK /\ Etcd!TypeOK'
    BY EtcdTypeStep DEF EtcdInv
  <1>i. KeyUnderLease /\ RevisionsFence /\ None \notin Tokens
    BY DEF EtcdInv, EtcdConstants
  <1>n. /\ revision \in Nat /\ lastGrant \in Nat
        /\ issued \in [Tokens -> Nat] /\ lease \in [Tokens -> Nat]
    BY <1>t DEF Etcd!TypeOK
  <1> SUFFICES KeyUnderLease' /\ RevisionsFence'
    BY <1>t DEF EtcdInv
  <1>1. ASSUME NEW t \in Tokens,
               stage[t] = "leased", stage'[t] # "leased", stage'[t] # "fresh",
               lease[t] > 0, owner = None, Etcd!Put(t), lease' = lease,
               \A u \in Tokens \ {t} : stage'[u] = stage[u]
        PROVE  KeyUnderLease' /\ RevisionsFence'
    <2>1. /\ owner' = t /\ revision' = revision + 1 /\ lastGrant' = revision + 1
          /\ issued' = [issued EXCEPT ![t] = revision + 1]
      BY <1>1 DEF Etcd!Put
    <2>2. KeyUnderLease'
      BY <1>1, <2>1 DEF KeyUnderLease
    <2>3. RevisionsFence'
      BY <1>1, <1>i, <1>n, <2>1 DEF RevisionsFence
    <2>. QED
      BY <2>2, <2>3
  <1>2. CASE /\ owner # None /\ owner' = None /\ revision' = revision + 1
             /\ UNCHANGED <<issued, lastGrant>>
    BY <1>2, <1>i, <1>n, <1>t, StageStep DEF KeyUnderLease, RevisionsFence
  <1>3. CASE UNCHANGED <<owner, revision, issued, lastGrant>>
    <2>1. KeyUnderLease'
      BY <1>3, <1>i, <1>t, LeaseStep DEF KeyUnderLease
    <2>2. RevisionsFence'
      BY <1>3, <1>i, <1>n, <1>t, StageStep DEF RevisionsFence
    <2>. QED
      BY <2>1, <2>2
  <1>. QED
    BY <1>t, <1>1, <1>2, <1>3, KeyStep

\* The types, that the key of an owner is always under a lease that runs, and
\* that revisions order the grants (etcd/src/lib.rs, all of it).
THEOREM EtcdInvariant ==
  ASSUME EtcdConstants
  PROVE  Etcd!Spec => []EtcdInv
  <1>1. Etcd!Init => EtcdInv
    BY DEF EtcdConstants, Etcd!Init, EtcdInv, Etcd!TypeOK, Etcd!Stages, KeyUnderLease,
           RevisionsFence
  <1>2. EtcdInv /\ [Etcd!Next]_(Etcd!vars) => EtcdInv'
    BY EtcdInvStep
  <1>. QED
    BY <1>1, <1>2, PTL DEF Etcd!Spec

\* Two handles never own the key, a lost key is not regained under the same
\* token, and the revision of each transaction is larger than that of all
\* before it: the backend implements the lock with leases.
THEOREM EtcdRefinesLeaseLock ==
  ASSUME EtcdConstants
  PROVE  Etcd!Spec => Etcd!ImplementsLeaseLock
  <1>1. Etcd!Init => Etcd!Lease!Init
    BY DEF Etcd!Init, Etcd!Lease!Init
  <1>2. EtcdInv /\ [Etcd!Next]_(Etcd!vars) => [Etcd!Lease!Next]_(Etcd!Lease!vars)
    <2> SUFFICES ASSUME EtcdInv, [Etcd!Next]_(Etcd!vars) PROVE [Etcd!Lease!Next]_(Etcd!Lease!vars)
      OBVIOUS
    <2>t. Etcd!TypeOK /\ RevisionsFence
      BY DEF EtcdInv
    <2>1. ASSUME NEW t \in Tokens, stage[t] = "leased", owner = None, Etcd!Put(t)
          PROVE  Etcd!Lease!Grant(t)
      BY <2>1, <2>t DEF Etcd!Put, Etcd!TypeOK, RevisionsFence, Etcd!Lease!Grant
    <2>2. CASE /\ owner # None /\ owner' = None
               /\ UNCHANGED <<issued, lastGrant>>
      BY <2>2 DEF Etcd!Lease!Next, Etcd!Lease!Free
    <2>3. CASE UNCHANGED <<owner, revision, issued, lastGrant>>
      BY <2>3 DEF Etcd!Lease!vars
    <2>. QED
      BY <2>t, <2>1, <2>2, <2>3, KeyStep DEF Etcd!Lease!Next
  <1>. QED
    BY <1>1, <1>2, EtcdInvariant, PTL DEF Etcd!Spec, Etcd!Lease!Spec, Etcd!ImplementsLeaseLock

------------------------------------------------------------------------------
(* The client. *)

\* The timers of the code: MAX_CONSECUTIVE_RENEW_FAILURES renewals fit into a
\* lease with time to spare (2 and a third of the lease there).
Timers ==
  /\ None \notin Tokens /\ None \notin Sessions
  /\ LeaseTtl \in Nat \ {0} /\ SessionTtl \in Nat /\ Renew \in Nat /\ Cadence \in Nat
  /\ MaxFailures \in Nat \ {0} /\ MaxMisses \in Nat

ClientConstants == Timers /\ Renew * MaxFailures < LeaseTtl

\* What the store still gives a watchdog: the ticks to its next renewal, the
\* renewals it may still miss, and one tick.
Reserve(t) == dog[t] + Renew * (MaxFailures - 1 - failures[t]) + 1

\* The bookkeeping of an acquisition: a call that has not been made has left
\* nothing behind, a watchdog that runs has not used up its failures, and a
\* process that is down has no tasks.
Tasks ==
  \A t \in Tokens :
    /\ life[t] = "fresh" => dog[t] = -1 /\ failures[t] = 0 /\ boundTo[t] = None
    /\ dog[t] # -1 => failures[t] < MaxFailures /\ up

\* The session in use has a heartbeat task, and the silence that the server sees
\* together with the time to the next heartbeat is within what the misses allow.
SessionBeats ==
  up /\ ~ moved /\ session # None =>
    /\ beat[session] # -1
    /\ age[session] # -1 /\ misses[session] # MaxMisses =>
         age[session] + beat[session] <= Cadence * (misses[session] + 1)

\* The watchdog of a handle that reports nothing, on a session that lives.
QuietHandle(t) ==
  /\ life[t] = "live" /\ dog[t] # -1 /\ ~ told[t]
  /\ boundTo[t] # None => age[boundTo[t]] # -1

\* Such a handle has its key, with a reserve.
QuietHolds == \A t \in Tokens : QuietHandle(t) => held = t /\ ttl >= Reserve(t)

ClientInv == Client!TypeOK /\ Tasks /\ SessionBeats /\ QuietHolds

\* The types without the flags.
Typed ==
  /\ held \in Tokens \cup {None} /\ ttl \in 0..LeaseTtl
  /\ age \in [Sessions -> -1..SessionTtl + 1]
  /\ boundTo \in [Tokens -> Sessions \cup {None}]
  /\ session \in Sessions \cup {None}
  /\ beat \in [Sessions -> -1..Cadence] /\ misses \in [Sessions -> 0..MaxMisses]
  /\ life \in [Tokens -> {"fresh", "live", "releasing", "gone"}]
  /\ dog \in [Tokens -> -1..Renew]
  /\ failures \in [Tokens -> 0..MaxFailures]

\* Initially nothing is held, watched or registered.
LEMMA ClientInit == ASSUME ClientConstants, Client!Init PROVE ClientInv
  <1>1. Timers
    BY DEF ClientConstants
  <1>2. Typed
    BY <1>1 DEF Timers, Client!Init, Typed
  <1>3. up \in BOOLEAN /\ moved \in BOOLEAN /\ told \in [Tokens -> BOOLEAN]
    BY Zenon DEF Client!Init
  <1>4. Tasks
    BY <1>1 DEF Timers, Client!Init, Tasks
  <1>5. SessionBeats
    BY DEF Client!Init, SessionBeats
  <1>6. QuietHolds
    BY DEF Client!Init, QuietHolds, QuietHandle
  <1> QED BY <1>2, <1>3, <1>4, <1>5, <1>6 DEF ClientInv, Client!TypeOK, Typed

\* Every step keeps the flags what they are.
LEMMA ClientFlagStep ==
  ASSUME up \in BOOLEAN, moved \in BOOLEAN, told \in [Tokens -> BOOLEAN],
         [Client!Next]_(Client!vars)
  PROVE  up' \in BOOLEAN /\ moved' \in BOOLEAN /\ told' \in [Tokens -> BOOLEAN]
  <1>1. UNCHANGED up \/ up' = FALSE
    BY DEF Client!Next, Client!Process, Client!Session, Client!Handle, Client!Dog, Client!Beat,
           Client!vars, Client!client, Client!server, Client!handles, Client!Tick,
       Client!Crash, Client!CloseSession, Client!WithToken, Client!AttachSession,
       Client!Heartbeat, Client!HeartbeatEnds, Client!Sweep, Client!TryLock,
       Client!TryLockFails, Client!Watchdog, Client!WatchdogFails, Client!WatchdogEnds,
       Client!Extend, Client!Release, Client!RunUnlock
  <1>2. UNCHANGED moved \/ moved' = TRUE
    BY DEF Client!Next, Client!Process, Client!Session, Client!Handle, Client!Dog, Client!Beat,
           Client!vars, Client!client, Client!server, Client!handles, Client!Tick,
       Client!Crash, Client!CloseSession, Client!WithToken, Client!AttachSession,
       Client!Heartbeat, Client!HeartbeatEnds, Client!Sweep, Client!TryLock,
       Client!TryLockFails, Client!Watchdog, Client!WatchdogFails, Client!WatchdogEnds,
       Client!Extend, Client!Release, Client!RunUnlock
  <1>3. UNCHANGED told \/ \E t \in Tokens : told' = [told EXCEPT ![t] = TRUE]
    BY DEF Client!Next, Client!Process, Client!Session, Client!Handle, Client!Dog, Client!Beat,
           Client!vars, Client!client, Client!server, Client!handles, Client!Tick,
       Client!Crash, Client!CloseSession, Client!WithToken, Client!AttachSession,
       Client!Heartbeat, Client!HeartbeatEnds, Client!Sweep, Client!TryLock,
       Client!TryLockFails, Client!Watchdog, Client!WatchdogFails, Client!WatchdogEnds,
       Client!Extend, Client!Release, Client!RunUnlock, Client!MarkLost
  <1>4. ASSUME NEW t \in Tokens, told' = [told EXCEPT ![t] = TRUE]
        PROVE  told' \in [Tokens -> BOOLEAN]
    BY <1>4, Zenon
  <1> QED BY <1>1, <1>2, <1>3, <1>4, Zenon

\* Every step keeps the types and the bookkeeping.
LEMMA ClientTypeStep ==
  ASSUME Timers, Typed, Tasks, [Client!Next]_(Client!vars)
  PROVE  Typed' /\ Tasks'
  <1> USE DEF Timers, Typed, Tasks
  <1>1. CASE UNCHANGED Client!vars
    BY <1>1 DEF Client!vars, Client!server, Client!client, Client!handles
  <1>2. CASE Client!Tick
    BY <1>2 DEF Client!Tick, Client!Down
  <1>3. CASE Client!Crash
    BY <1>3 DEF Client!Crash, Client!server
  <1>4. CASE Client!CloseSession
    BY <1>4 DEF Client!CloseSession, Client!EndSession, Client!Unlock, Client!server, Client!handles
  <1>5. CASE Client!WithToken
    <2>1. /\ beat' = [s \in Sessions |-> -1]
          /\ UNCHANGED <<held, ttl, age, boundTo, up, session, misses, life, dog, failures>>
      BY <1>5, Zenon DEF Client!WithToken, Client!server, Client!handles
    <2> QED BY <2>1
  <1>6. ASSUME NEW s \in Sessions, Client!Session(s) PROVE Typed' /\ Tasks'
    <2>1. CASE Client!AttachSession(s)
      <3>1. /\ age' = [age EXCEPT ![s] = 0]
            /\ session' \in {session, s}
            /\ beat' = beat \/ beat' = [beat EXCEPT ![s] = Cadence]
            /\ UNCHANGED <<held, ttl, boundTo, up, misses, life, dog, failures>>
        BY <2>1, Zenon DEF Client!AttachSession, Client!handles
      <3> QED BY <3>1
    <2>2. CASE Client!Heartbeat(s)
      BY <2>2 DEF Client!Heartbeat, Client!handles
    <2>3. CASE Client!HeartbeatEnds(s)
      BY <2>3 DEF Client!HeartbeatEnds, Client!server, Client!handles
    <2>4. CASE Client!Sweep(s)
      BY <2>4 DEF Client!Sweep, Client!EndSession, Client!Unlock, Client!client, Client!handles
    <2> QED BY <1>6, <2>1, <2>2, <2>3, <2>4 DEF Client!Session, Client!Beat
  <1>7. ASSUME NEW t \in Tokens, Client!Handle(t) PROVE Typed' /\ Tasks'
    <2>1. CASE Client!TryLock(t)
      <3>1. /\ up /\ life[t] = "fresh" /\ held' = t /\ ttl' = LeaseTtl
            /\ boundTo' = [boundTo EXCEPT ![t] = session]
            /\ age' = IF session = None THEN age ELSE [age EXCEPT ![session] = 0]
            /\ \E x \in {"live", "gone"} : life' = [life EXCEPT ![t] = x]
            /\ dog' = dog \/ dog' = [dog EXCEPT ![t] = Renew]
            /\ UNCHANGED <<up, session, beat, misses, failures>>
        BY <2>1, Zenon DEF Client!TryLock, Client!client
      <3> QED BY <3>1
    <2>2. CASE Client!TryLockFails(t)
      BY <2>2 DEF Client!TryLockFails, Client!server, Client!client
    <2>3. CASE Client!Watchdog(t)
      BY <2>3 DEF Client!Watchdog, Client!ExtendAtServer, Client!client
    <2>4. CASE Client!WatchdogFails(t)
      BY <2>4 DEF Client!WatchdogFails, Client!ExtendAtServer, Client!Surrenders, Client!client
    <2>5. CASE Client!WatchdogEnds(t)
      BY <2>5 DEF Client!WatchdogEnds, Client!server, Client!client
    <2>6. CASE Client!Extend(t)
      BY <2>6 DEF Client!Extend, Client!ExtendAtServer, Client!client
    <2>7. CASE Client!Release(t)
      BY <2>7 DEF Client!Release, Client!server, Client!client
    <2>8. CASE Client!RunUnlock(t)
      BY <2>8 DEF Client!RunUnlock, Client!Unlock, Client!client
    <2> QED BY <1>7, <2>1, <2>2, <2>3, <2>4, <2>5, <2>6, <2>7, <2>8 DEF Client!Handle, Client!Dog
  <1> QED BY <1>1, <1>2, <1>3, <1>4, <1>5, <1>6, <1>7 DEF Client!Next, Client!Process

\* One more miss allows one more cadence, one more failure costs one renewal.
LEMMA Steps ==
  ASSUME NEW k \in Nat, NEW n \in Int
  PROVE  k * n \in Int /\ k * (n + 1) = k * n + k /\ (n >= 0 => k * n >= 0)
  OBVIOUS

\* Every step keeps the session's heartbeats going.
LEMMA SessionStep ==
  ASSUME Timers, Typed, SessionBeats, [Client!Next]_(Client!vars)
  PROVE  SessionBeats'
  <1> USE DEF Timers, Typed, SessionBeats
  <1>0. \A s \in Sessions : /\ Cadence * (misses[s] + 1) \in Int
                            /\ Cadence * (misses[s] + 1) >= Cadence
                            /\ Cadence * (misses[s] + 2) = Cadence * (misses[s] + 1) + Cadence
    <2> TAKE s \in Sessions
    <2>1. misses[s] \in Int /\ misses[s] + 1 \in Int /\ misses[s] >= 0
      OBVIOUS
    <2>2. (misses[s] + 1) + 1 = misses[s] + 2
      BY <2>1
    <2> QED BY <2>1, <2>2, Steps
  <1>1. CASE UNCHANGED Client!vars
    BY <1>1 DEF Client!vars, Client!server, Client!client, Client!handles
  <1>2. CASE Client!Tick
    <2>1. SUFFICES ASSUME up, ~ moved, session # None
                   PROVE  /\ beat'[session] # -1
                          /\ age'[session] # -1 /\ misses[session] # MaxMisses =>
                               age'[session] + beat'[session] <= Cadence * (misses[session] + 1)
      BY <1>2 DEF Client!Tick
    <2>2. beat[session] \in 1..Cadence /\ beat'[session] = beat[session] - 1
      BY <1>2, <2>1 DEF Client!Tick, Client!Down
    <2>3. age'[session] = age[session] \/ (age[session] # -1 /\ age'[session] = age[session] + 1)
      BY <1>2, <2>1 DEF Client!Tick
    <2> QED BY <2>1, <2>2, <2>3, <1>0
  <1>3. CASE Client!Crash
    BY <1>3 DEF Client!Crash, Client!server
  <1>4. CASE Client!CloseSession
    BY <1>4 DEF Client!CloseSession, Client!EndSession, Client!Unlock, Client!server, Client!handles
  <1>5. CASE Client!WithToken
    BY <1>5 DEF Client!WithToken, Client!server, Client!handles
  <1>6. ASSUME NEW s \in Sessions, Client!Session(s) PROVE SessionBeats'
    <2>1. CASE Client!AttachSession(s)
      <3>1. /\ beat[s] = -1 /\ misses[s] = 0 /\ age' = [age EXCEPT ![s] = 0]
            /\ \/ session' = s /\ beat' = [beat EXCEPT ![s] = Cadence]
               \/ UNCHANGED <<session, beat>>
            /\ UNCHANGED <<up, moved, misses>>
        BY <2>1, Zenon DEF Client!AttachSession, Client!handles
      <3>2. CASE session' = s
        BY <3>1, <3>2, <1>0
      <3>3. CASE session' # s
        BY <3>1, <3>3, <1>0
      <3> QED BY <3>2, <3>3
    <2>2. CASE Client!Heartbeat(s)
      BY <2>2, <1>0 DEF Client!Heartbeat, Client!handles
    <2>3. CASE Client!HeartbeatEnds(s)
      BY <2>3 DEF Client!HeartbeatEnds, Client!server, Client!handles
    <2>4. CASE Client!Sweep(s)
      BY <2>4 DEF Client!Sweep, Client!EndSession, Client!Unlock, Client!client, Client!handles
    <2> QED BY <1>6, <2>1, <2>2, <2>3, <2>4 DEF Client!Session, Client!Beat
  <1>7. ASSUME NEW t \in Tokens, Client!Handle(t) PROVE SessionBeats'
    <2>1. CASE Client!TryLock(t)
      <3>1. /\ age' = IF session = None THEN age ELSE [age EXCEPT ![session] = 0]
            /\ UNCHANGED <<up, moved, session, beat, misses>>
        BY <2>1, Zenon DEF Client!TryLock, Client!client
      <3> QED BY <3>1, <1>0
    <2>2. CASE UNCHANGED <<age, Client!client>>
      BY <2>2 DEF Client!client
    <2> QED BY <1>7, <2>1, <2>2 DEF Client!Handle, Client!Dog, Client!TryLockFails,
                                    Client!Watchdog, Client!WatchdogFails,
               Client!WatchdogEnds, Client!Extend, Client!Release, Client!RunUnlock, Client!server
  <1> QED BY <1>1, <1>2, <1>3, <1>4, <1>5, <1>6, <1>7 DEF Client!Next, Client!Process

\* A renewal fills the reserve, and one failure costs one renewal of it.
LEMMA Budget ==
  ASSUME ClientConstants, NEW f \in Nat, f < MaxFailures
  PROVE  /\ Renew * (MaxFailures - 1 - f) \in Nat
         /\ Renew + Renew * (MaxFailures - 1 - f) < LeaseTtl
         /\ Renew * (MaxFailures - 1 - f) = Renew * (MaxFailures - 1 - (f + 1)) + Renew
         /\ f + 1 < MaxFailures => Renew * (MaxFailures - 1 - (f + 1)) \in Nat
  <1> DEFINE n == MaxFailures - 1 - f
  <1> USE DEF ClientConstants, Timers
  <1>1. n \in Nat /\ n - 1 \in Int /\ MaxFailures - 1 - (f + 1) = n - 1
    OBVIOUS
  <1>2. Renew * n \in Nat /\ Renew * n = Renew * (n - 1) + Renew
    BY <1>1, Steps
  <1>3. Renew * MaxFailures = Renew * n + Renew * (f + 1)
    <2>1. MaxFailures = n + (f + 1)
      OBVIOUS
    <2>2. \A k, a, b \in Nat : k * (a + b) = k * a + k * b
      OBVIOUS
    <2> HIDE DEF n
    <2> QED BY <1>1, <2>1, <2>2
  <1>4. Renew * (f + 1) \in Int /\ Renew * (f + 1) >= Renew
    BY Steps
  <1>5. f + 1 < MaxFailures => Renew * (n - 1) \in Nat
    BY <1>1, Steps
  <1> HIDE DEF n
  <1>6. Renew * n + Renew < LeaseTtl
    BY <1>2, <1>3, <1>4
  <1> QED BY <1>1, <1>2, <1>5, <1>6 DEF n

\* mark_lost touches one handle.
LEMMA Marked ==
  ASSUME told \in [Tokens -> BOOLEAN], NEW t \in Tokens, Client!MarkLost(t)
  PROVE  told'[t] /\ \A x \in Tokens : x # t => told'[x] = told[x]
  BY Zenon DEF Client!MarkLost

\* A step that leaves a quiet handle, its key and its session alone keeps its
\* reserve.
LEMMA Undisturbed ==
  ASSUME ClientConstants, Typed, QuietHolds, NEW x \in Tokens,
         life'[x] = life[x], dog'[x] = dog[x], failures'[x] = failures[x],
         boundTo'[x] = boundTo[x], told'[x] = told[x],
         boundTo[x] # None /\ age[boundTo[x]] = -1 => age'[boundTo[x]] = -1,
         held = x /\ (boundTo[x] # None => age'[boundTo[x]] # -1) => held' = x /\ ttl' >= ttl,
         ttl' \in Nat
  PROVE  QuietHandle(x)' => held' = x /\ ttl' >= Reserve(x)'
  <1> SUFFICES ASSUME QuietHandle(x)' PROVE held' = x /\ ttl' >= Reserve(x)'
    OBVIOUS
  <1>1. QuietHandle(x) /\ (boundTo[x] # None => age'[boundTo[x]] # -1)
    BY Zenon DEF QuietHandle
  <1>2. held = x /\ ttl >= Reserve(x)
    BY <1>1 DEF QuietHolds
  <1>3. Reserve(x)' = Reserve(x)
    BY DEF Reserve
  <1>4. Reserve(x) \in Int /\ ttl \in Nat
    <2>1. Renew \in Int /\ MaxFailures - 1 - failures[x] \in Int /\ dog[x] \in Int
      BY DEF Typed, ClientConstants, Timers
    <2>2. Renew * (MaxFailures - 1 - failures[x]) \in Int
      BY <2>1, Steps DEF ClientConstants, Timers
    <2> QED BY <2>1, <2>2 DEF Reserve, Typed, ClientConstants, Timers
  <1> QED BY <1>1, <1>2, <1>3, <1>4

\* The end of a session takes the key of a handle that is bound to it, and of
\* no other.
LEMMA EndSessionStep ==
  ASSUME ClientConstants, Typed, QuietHolds, NEW s \in Sessions, Client!EndSession(s),
         UNCHANGED Client!handles
  PROVE  QuietHolds'
  <1> SUFFICES ASSUME NEW x \in Tokens
               PROVE  QuietHandle(x)' => held' = x /\ ttl' >= Reserve(x)'
    BY DEF QuietHolds
  <1> USE DEF ClientConstants, Timers, Typed
  <1>1. UNCHANGED <<life, told, dog, failures, boundTo>> /\ ttl' \in Nat
    BY DEF Client!EndSession, Client!Unlock, Client!handles
  <1>2. boundTo[x] # None /\ age[boundTo[x]] = -1 => age'[boundTo[x]] = -1
    BY DEF Client!EndSession
  <1>3. held = x /\ (boundTo[x] # None => age'[boundTo[x]] # -1) => held' = x /\ ttl' >= ttl
    BY DEF Client!EndSession
  <1> QED BY <1>1, <1>2, <1>3, Undisturbed

\* A call that only concerns the session, or nothing of the key, disturbs no
\* handle.
LEMMA AsideStep ==
  ASSUME ClientConstants, Typed, QuietHolds,
         UNCHANGED <<life, told, dog, failures, boundTo, held>>, ttl' \in Nat, ttl' >= ttl,
         \A x \in Tokens :
           boundTo[x] # None /\ age[boundTo[x]] = -1 => age'[boundTo[x]] = -1
  PROVE  QuietHolds'
  <1> SUFFICES ASSUME NEW x \in Tokens
               PROVE  QuietHandle(x)' => held' = x /\ ttl' >= Reserve(x)'
    BY DEF QuietHolds
  <1> QED BY Undisturbed

\* Every step leaves each quiet handle its key and its reserve.
LEMMA QuietStep ==
  ASSUME ClientConstants, Client!TypeOK, Tasks, QuietHolds, [Client!Next]_(Client!vars)
  PROVE  QuietHolds'
  <1>0. /\ Timers /\ Typed /\ told \in [Tokens -> BOOLEAN]
        /\ \A x \in Tokens : dog[x] # -1 => failures[x] \in Nat /\ failures[x] < MaxFailures
    BY DEF Client!TypeOK, Typed, Tasks, ClientConstants
  <1>1. CASE UNCHANGED Client!vars
    BY <1>1 DEF Client!vars, Client!server, Client!client, Client!handles, QuietHolds,
                QuietHandle, Reserve
  <1>2. CASE Client!Tick
    <2> SUFFICES ASSUME NEW x \in Tokens, QuietHandle(x)'
                 PROVE  held' = x /\ ttl' >= Reserve(x)'
      BY DEF QuietHolds
    <2>1. UNCHANGED <<life, told, failures, boundTo>>
      BY <1>2 DEF Client!Tick
    <2>2. dog[x] \in 1..Renew /\ dog'[x] = dog[x] - 1
      <3>1. dog'[x] # -1
        BY Zenon DEF QuietHandle
      <3> QED BY <1>0, <1>2, <3>1 DEF Client!Tick, Client!Down, Typed, Timers
    <2>3. boundTo[x] # None /\ age[boundTo[x]] = -1 => age'[boundTo[x]] = -1
      BY <1>0, <1>2 DEF Client!Tick, Typed
    <2>4. QuietHandle(x)
      <3>1. life[x] = "live" /\ ~ told[x] /\ (boundTo[x] # None => age'[boundTo[x]] # -1)
        BY <2>1, Zenon DEF QuietHandle
      <3>2. dog[x] # -1
        BY <2>2
      <3> QED BY <3>1, <3>2, <2>3, Zenon DEF QuietHandle
    <2>5. held = x /\ ttl >= Reserve(x)
      BY <2>4 DEF QuietHolds
    <2>6. Renew * (MaxFailures - 1 - failures[x]) \in Nat
      BY <1>0, <2>2, Budget
    <2> QED BY <1>0, <1>2, <2>1, <2>2, <2>5, <2>6 DEF Client!Tick, Client!Down, Reserve, Typed,
                                                      Timers
  <1>3. CASE Client!Crash
    <2>1. \A x \in Tokens : dog'[x] = -1
      BY <1>3 DEF Client!Crash
    <2> QED BY <2>1 DEF QuietHolds, QuietHandle
  <1>4. CASE Client!CloseSession
    <2>1. /\ session \in Sessions /\ UNCHANGED Client!handles
          /\ (Client!EndSession(session) \/ UNCHANGED Client!server)
      BY <1>0, <1>4 DEF Client!CloseSession, Typed
    <2>2. CASE Client!EndSession(session)
      BY <1>0, <2>1, <2>2, EndSessionStep
    <2>3. CASE UNCHANGED Client!server
      BY <1>0, <2>1, <2>3, AsideStep DEF Client!server, Client!handles, Typed, Timers
    <2> QED BY <2>1, <2>2, <2>3
  <1>5. CASE Client!WithToken
    <2>1. UNCHANGED <<held, ttl, age, boundTo, life, told, dog, failures>>
      BY <1>5, Zenon DEF Client!WithToken, Client!server, Client!handles
    <2> QED BY <1>0, <2>1, AsideStep DEF Typed, Timers
  <1>6. ASSUME NEW s \in Sessions, Client!Session(s) PROVE QuietHolds'
    <2>1. CASE Client!AttachSession(s)
      <3>1. /\ s \notin {boundTo[x] : x \in Tokens} /\ age' = [age EXCEPT ![s] = 0]
            /\ UNCHANGED <<held, ttl, boundTo, life, told, dog, failures>>
        BY <2>1, Zenon DEF Client!AttachSession, Client!handles
      <3> QED BY <1>0, <3>1, AsideStep DEF Typed, Timers
    <2>2. CASE Client!Heartbeat(s)
      <3>1. /\ UNCHANGED <<held, ttl, boundTo, life, told, dog, failures>>
            /\ age' = age \/ age' = [age EXCEPT ![s] = IF @ = -1 THEN -1 ELSE 0]
        BY <2>2, Zenon DEF Client!Heartbeat, Client!handles
      <3>2. \A x \in Tokens :
              boundTo[x] # None /\ age[boundTo[x]] = -1 => age'[boundTo[x]] = -1
        BY <1>0, <3>1 DEF Typed
      <3> QED BY <1>0, <3>1, <3>2, AsideStep DEF Typed, Timers
    <2>3. CASE Client!HeartbeatEnds(s)
      BY <1>0, <2>3, AsideStep DEF Client!HeartbeatEnds, Client!server, Client!handles, Typed,
                                   Timers
    <2>4. CASE Client!Sweep(s)
      BY <1>0, <2>4, EndSessionStep DEF Client!Sweep
    <2> QED BY <1>6, <2>1, <2>2, <2>3, <2>4 DEF Client!Session, Client!Beat
  <1>7. ASSUME NEW t \in Tokens, Client!Handle(t) PROVE QuietHolds'
    <2> SUFFICES ASSUME NEW x \in Tokens
                 PROVE  QuietHandle(x)' => held' = x /\ ttl' >= Reserve(x)'
      BY DEF QuietHolds
    <2>1. CASE Client!TryLock(t)
      <3>1. /\ life[t] = "fresh" /\ held = None /\ held' = t /\ ttl' = LeaseTtl
            /\ session # None => age[session] # -1
            /\ boundTo' = [boundTo EXCEPT ![t] = session]
            /\ age' = IF session = None THEN age ELSE [age EXCEPT ![session] = 0]
            /\ \E y \in {"live", "gone"} : life' = [life EXCEPT ![t] = y]
            /\ dog' = dog \/ dog' = [dog EXCEPT ![t] = Renew]
            /\ UNCHANGED <<told, failures>>
        BY <2>1, Zenon DEF Client!TryLock, Client!client
      <3>2. CASE x = t
        <4>1. dog[t] = -1 /\ failures[t] = 0
          BY <3>1 DEF Tasks
        <4>2. CASE dog' = dog
          BY <3>2, <4>1, <4>2 DEF QuietHandle
        <4>3. CASE dog' = [dog EXCEPT ![t] = Renew]
          <5>1. dog'[t] = Renew /\ failures'[t] = 0
            BY <1>0, <3>1, <4>1, <4>3 DEF Typed
          <5>2. /\ Renew * (MaxFailures - 1 - 0) \in Nat
                /\ Renew + Renew * (MaxFailures - 1 - 0) < LeaseTtl
            BY <1>0, Budget DEF Timers
          <5> QED BY <1>0, <3>1, <3>2, <5>1, <5>2 DEF Reserve, Timers
        <4> QED BY <3>1, <4>2, <4>3
      <3>3. CASE x # t
        <4>1. /\ life'[x] = life[x] /\ dog'[x] = dog[x] /\ boundTo'[x] = boundTo[x]
              /\ told'[x] = told[x]
          BY <1>0, <3>1, <3>3 DEF Typed
        <4>2. boundTo[x] # None /\ age[boundTo[x]] = -1 => age'[boundTo[x]] = -1
          BY <1>0, <3>1 DEF Typed
        <4>3. QuietHandle(x)' => QuietHandle(x)
          BY <4>1, <4>2, Zenon DEF QuietHandle
        <4>4. ~ QuietHandle(x)
          BY <1>0, <3>1 DEF QuietHolds, ClientConstants, Timers
        <4> QED BY <4>3, <4>4
      <3> QED BY <3>2, <3>3
    <2>2. CASE Client!TryLockFails(t) \/ Client!Release(t)
      <3>1. /\ UNCHANGED <<held, ttl, age, boundTo, told, dog, failures>>
            /\ \E y \in {"gone", "releasing"} : life' = [life EXCEPT ![t] = y]
        BY <2>2, Zenon DEF Client!TryLockFails, Client!Release, Client!server, Client!client
      <3>2. CASE x = t
        <4>1. life'[t] # "live"
          BY <1>0, <3>1 DEF Typed
        <4> QED BY <3>2, <4>1 DEF QuietHandle
      <3>3. CASE x # t
        <4>1. life'[x] = life[x]
          BY <1>0, <3>1, <3>3 DEF Typed
        <4> QED BY <1>0, <3>1, <4>1, Undisturbed DEF Typed, Timers
      <3> QED BY <3>2, <3>3
    <2>3. CASE Client!Watchdog(t) \/ Client!Extend(t)
      <3>1. /\ ttl' = IF held = t THEN LeaseTtl ELSE ttl
            /\ UNCHANGED <<held, age, boundTo, life>>
            /\ held = t => UNCHANGED told
            /\ held # t => Client!MarkLost(t)
        BY <2>3, Zenon DEF Client!Watchdog, Client!Extend, Client!ExtendAtServer, Client!client
      <3>2. ttl' \in Nat /\ ttl' >= ttl
        BY <1>0, <3>1 DEF Typed, Timers
      <3>3. CASE x # t
        <4>1. told'[x] = told[x]
          BY <1>0, <3>1, <3>3, Marked
        <4>2. dog'[x] = dog[x] /\ failures'[x] = failures[x]
          BY <1>0, <2>3, <3>3 DEF Client!Watchdog, Client!Extend, Typed
        <4> QED BY <1>0, <3>1, <3>2, <4>1, <4>2, Undisturbed
      <3>4. CASE x = t /\ held # t
        <4>1. told'[t]
          BY <1>0, <3>1, <3>4, Marked
        <4> QED BY <3>4, <4>1, Zenon DEF QuietHandle
      <3>5. CASE x = t /\ held = t /\ Client!Extend(t)
        BY <1>0, <3>1, <3>2, <3>5, Undisturbed DEF Client!Extend
      <3>6. CASE x = t /\ held = t /\ Client!Watchdog(t)
        <4>1. dog'[t] = Renew /\ failures'[t] = 0
          BY <1>0, <3>6 DEF Client!Watchdog, Typed
        <4>2. /\ Renew * (MaxFailures - 1 - 0) \in Nat
              /\ Renew + Renew * (MaxFailures - 1 - 0) < LeaseTtl
          BY <1>0, Budget DEF Timers
        <4> QED BY <1>0, <3>1, <3>6, <4>1, <4>2 DEF Reserve, Timers
      <3> QED BY <2>3, <3>3, <3>4, <3>5, <3>6
    <2>4. CASE Client!WatchdogFails(t)
      <3>1. /\ dog[t] = 0 /\ ttl' \in {ttl, IF held = t THEN LeaseTtl ELSE ttl}
            /\ UNCHANGED <<held, age, boundTo, life>>
            /\ failures' = [failures EXCEPT ![t] = @ + 1]
            /\ \/ Client!MarkLost(t) /\ dog' = [dog EXCEPT ![t] = -1]
               \/ /\ UNCHANGED told /\ dog' = [dog EXCEPT ![t] = Renew]
                  /\ ~ Client!Surrenders(failures'[t])
        BY <2>4, Zenon DEF Client!WatchdogFails, Client!ExtendAtServer, Client!client
      <3>2. ttl' \in Nat /\ ttl' >= ttl
        BY <1>0, <3>1 DEF Typed, Timers
      <3>3. CASE x # t
        <4>1. told'[x] = told[x]
          BY <1>0, <3>1, <3>3, Marked
        <4>2. dog'[x] = dog[x] /\ failures'[x] = failures[x]
          BY <1>0, <3>1, <3>3 DEF Typed
        <4> QED BY <1>0, <3>1, <3>2, <4>1, <4>2, Undisturbed
      <3>4. CASE x = t /\ Client!MarkLost(t)
        <4>1. told'[t]
          BY <1>0, <3>4, Marked
        <4> QED BY <3>4, <4>1, Zenon DEF QuietHandle
      <3>5. CASE /\ x = t /\ UNCHANGED told
                 /\ dog' = [dog EXCEPT ![t] = Renew] /\ ~ Client!Surrenders(failures'[t])
        <4>1. dog'[t] = Renew /\ dog[t] = 0 /\ failures'[t] = failures[t] + 1
          BY <1>0, <3>1, <3>5 DEF Typed, Timers
        <4>2. failures[t] \in Nat /\ failures[t] + 1 < MaxFailures
          BY <1>0, <3>5, <4>1 DEF Client!Surrenders, Typed, Timers
        <4>3. QuietHandle(t)' => QuietHandle(t)
          <5>1. dog[t] # -1
            BY <4>1
          <5> QED BY <3>1, <3>5, <5>1, Zenon DEF QuietHandle
        <4>4. QuietHandle(t)' => held = t /\ ttl >= Reserve(t)
          BY <4>3 DEF QuietHolds
        <4>5. Reserve(t)' = Reserve(t) /\ Reserve(t) \in Int
          <5>1. /\ Renew * (MaxFailures - 1 - failures[t]) \in Nat
                /\ Renew * (MaxFailures - 1 - (failures[t] + 1)) \in Nat
                /\ Renew * (MaxFailures - 1 - failures[t])
                     = Renew * (MaxFailures - 1 - (failures[t] + 1)) + Renew
            BY <1>0, <4>2, Budget DEF Timers
          <5> QED BY <1>0, <4>1, <5>1 DEF Reserve, Timers
        <4> QED BY <1>0, <3>1, <3>2, <3>5, <4>4, <4>5 DEF Typed, Timers
      <3> QED BY <3>1, <3>3, <3>4, <3>5
    <2>5. CASE Client!WatchdogEnds(t)
      <3>1. life'[t] # "live" /\ UNCHANGED <<held, ttl, age, boundTo, life, told, failures>>
        BY <2>5 DEF Client!WatchdogEnds, Client!server
      <3>2. CASE x = t
        BY <3>1, <3>2 DEF QuietHandle
      <3>3. CASE x # t
        <4>1. dog'[x] = dog[x]
          BY <1>0, <2>5, <3>3 DEF Client!WatchdogEnds, Typed
        <4> QED BY <1>0, <3>1, <4>1, Undisturbed DEF Typed, Timers
      <3> QED BY <3>2, <3>3
    <2>6. CASE Client!RunUnlock(t)
      <3>1. /\ life' = [life EXCEPT ![t] = "gone"]
            /\ UNCHANGED <<age, boundTo, told, dog, failures>>
            /\ held # t => UNCHANGED <<held, ttl>>
            /\ ttl' \in Nat
        BY <1>0, <2>6 DEF Client!RunUnlock, Client!Unlock, Typed, Timers
      <3>2. CASE x = t
        <4>1. life'[t] # "live"
          BY <1>0, <3>1 DEF Typed
        <4> QED BY <3>2, <4>1 DEF QuietHandle
      <3>3. CASE x # t
        <4>1. life'[x] = life[x]
          BY <1>0, <3>1, <3>3 DEF Typed
        <4>2. held = x => held' = x /\ ttl' >= ttl
          BY <1>0, <3>1, <3>3 DEF Typed, Timers
        <4> QED BY <1>0, <3>1, <4>1, <4>2, Undisturbed
      <3> QED BY <3>2, <3>3
    <2> QED BY <1>7, <2>1, <2>2, <2>3, <2>4, <2>5, <2>6 DEF Client!Handle, Client!Dog
  <1> QED BY <1>1, <1>2, <1>3, <1>4, <1>5, <1>6, <1>7 DEF Client!Next, Client!Process

\* The inductive invariant holds in every reachable state: types, tasks,
\* heartbeats of the session in use and reserves of the quiet handles.
THEOREM ClientInvariant == ASSUME ClientConstants PROVE Client!Spec => []ClientInv
  <1>1. Client!Init => ClientInv
    BY ClientInit
  <1>2. ClientInv /\ [Client!Next]_(Client!vars) => ClientInv'
    <2> SUFFICES ASSUME ClientInv, [Client!Next]_(Client!vars) PROVE ClientInv'
      OBVIOUS
    <2>1. /\ Timers /\ Typed /\ Tasks /\ Client!TypeOK /\ SessionBeats /\ QuietHolds
          /\ up \in BOOLEAN /\ moved \in BOOLEAN /\ told \in [Tokens -> BOOLEAN]
      BY DEF ClientInv, Client!TypeOK, Typed, ClientConstants
    <2>2. Typed' /\ Tasks'
      BY <2>1, ClientTypeStep
    <2>3. up' \in BOOLEAN /\ moved' \in BOOLEAN /\ told' \in [Tokens -> BOOLEAN]
      BY <2>1, ClientFlagStep
    <2>4. SessionBeats' /\ QuietHolds'
      BY <2>1, SessionStep, QuietStep
    <2> QED BY <2>2, <2>3, <2>4 DEF ClientInv, Client!TypeOK, Typed
  <1> QED BY <1>1, <1>2, PTL DEF Client!Spec

\* HoldsSurviveBlips: a session in use grows old only by heartbeats that failed,
\* one cadence for each, and a key whose watchdog reports nothing is still its
\* handle's, whatever renewals failed, unless its session has ended.
THEOREM HoldsSurviveBlipsHolds == ASSUME ClientConstants
                                  PROVE  Client!Spec => []Client!HoldsSurviveBlips
  <1>1. ClientInv => Client!HoldsSurviveBlips
    <2> SUFFICES ASSUME ClientInv PROVE Client!SilenceNeedsMisses /\ Client!QuietWatchdogHolds
      BY DEF Client!HoldsSurviveBlips
    <2> USE DEF ClientInv
    <2>1. Client!SilenceNeedsMisses
      <3> SUFFICES ASSUME up, ~ moved, session # None, age[session] # -1,
                          misses[session] # MaxMisses
                   PROVE  age[session] <= Cadence * (misses[session] + 1)
        BY DEF Client!SilenceNeedsMisses
      <3>1. /\ session \in Sessions /\ beat[session] # -1
            /\ age[session] + beat[session] <= Cadence * (misses[session] + 1)
        BY DEF SessionBeats, Client!TypeOK
      <3>2. beat[session] \in Nat /\ age[session] \in Int /\ misses[session] + 1 \in Int
        BY <3>1 DEF Client!TypeOK, ClientConstants, Timers
      <3>3. Cadence * (misses[session] + 1) \in Int
        BY <3>2, Steps DEF ClientConstants, Timers
      <3> QED BY <3>1, <3>2, <3>3
    <2>2. Client!QuietWatchdogHolds
      BY DEF Client!QuietWatchdogHolds, QuietHolds, QuietHandle
    <2> QED BY <2>1, <2>2
  <1> QED BY <1>1, ClientInvariant, PTL

------------------------------------------------------------------------------
(* The watch hub. *)

\* One principal's calls are finitely many; the limits and the bounds are numbers.
HubConstants ==
  IsFiniteSet(Subs) /\ Limits \subseteq Nat /\ MaxChanges \in Nat /\ MaxProbeErrors \in Nat

\* The instance counts the way FiniteSets does.
LEMMA HubCounts == ASSUME NEW S PROVE Hub!Cardinality(S) = Cardinality(S)
  BY DEF Hub!Cardinality, Cardinality

\* The calls in one of the given states.
In(states) == {s \in Subs : consumer[s] \in states}

Counted == {"denied", "slot", "on", "left"}
Streams == {"slot", "on", "left"}
Subscribed == {"on", "left", "off"}

\* The poller of the entry runs and no other; whoever listens, listens to the
\* entry's channel.
OnePoller ==
  /\ \A c \in Hub!Channels : poller[c] # "off" <=> c = entry
  /\ \A s \in Subs : chan[s] \in {0, entry}
  /\ entry # 0 => entry \in Hub!Channels

\* Every channel was opened by a subscription of its own; the counter is exact
\* and the streams are within the limit.
HubCounters ==
  /\ opened <= Cardinality(In(Subscribed))
  /\ watchers = Cardinality(In(Counted))
  /\ limit > 0 => Cardinality(In(Streams)) <= limit

HubInv == Hub!TypeOK /\ OnePoller /\ HubCounters

\* A call that moves changes the count of a set of states by one at most.
LEMMA Moves ==
  ASSUME HubConstants, consumer \in [Subs -> Hub!Calls], NEW s \in Subs, NEW to,
         consumer' = [consumer EXCEPT ![s] = to], NEW A
  PROVE  /\ Cardinality(In(A)) \in Nat
         /\ consumer[s] \in A /\ to \notin A =>
              Cardinality(In(A)') = Cardinality(In(A)) - 1
         /\ consumer[s] \notin A /\ to \in A =>
              Cardinality(In(A)') = Cardinality(In(A)) + 1
         /\ (consumer[s] \in A <=> to \in A) => In(A)' = In(A)
  <1>1. IsFiniteSet(In(A)) /\ Cardinality(In(A)) \in Nat
    BY FS_Subset, FS_CardinalityType DEF HubConstants, In
  <1>2. consumer[s] \in A /\ to \notin A => In(A)' = In(A) \ {s} /\ s \in In(A)
    BY DEF In
  <1>3. consumer[s] \notin A /\ to \in A => In(A)' = In(A) \cup {s} /\ s \notin In(A)
    BY DEF In
  <1>4. (consumer[s] \in A <=> to \in A) => In(A)' = In(A)
    BY DEF In
  <1>5. s \in In(A) => Cardinality(In(A) \ {s}) = Cardinality(In(A)) - 1
    BY <1>1, FS_RemoveElement
  <1>6. s \notin In(A) => Cardinality(In(A) \cup {s}) = Cardinality(In(A)) + 1
    BY <1>1, FS_AddElement
  <1> QED BY <1>1, <1>2, <1>3, <1>4, <1>5, <1>6

\* The counts of larger sets of calls are larger, and bounded by the calls.
LEMMA CountsOrdered ==
  ASSUME HubConstants
  PROVE  /\ \A A : Cardinality(In(A)) \in Nat /\ Cardinality(In(A)) <= Cardinality(Subs)
         /\ Cardinality(Subs) \in Nat
         /\ Cardinality(In(Streams)) <= Cardinality(In(Counted))
  <1>1. \A A : In(A) \subseteq Subs
    BY DEF In
  <1>2. \A A : IsFiniteSet(In(A)) /\ Cardinality(In(A)) <= Cardinality(Subs)
    BY <1>1, FS_Subset DEF HubConstants
  <1>3. In(Streams) \subseteq In(Counted)
    BY DEF In, Streams, Counted
  <1> QED BY <1>2, <1>3, FS_Subset, FS_CardinalityType DEF HubConstants

\* Initially nobody called.
LEMMA HubInit == ASSUME HubConstants, Hub!Init PROVE HubInv
  <1>1. In(Subscribed) = {} /\ In(Counted) = {} /\ In(Streams) = {}
    BY DEF Hub!Init, In, Subscribed, Counted, Streams
  <1>2. Cardinality({}) = 0 /\ Cardinality(Subs) \in Nat
    BY FS_EmptySet, CountsOrdered
  <1>3. HubCounters
    BY <1>1, <1>2 DEF HubCounters, Hub!Init, HubConstants
  <1>4. OnePoller
    BY <1>2, HubCounts DEF OnePoller, Hub!Init, Hub!Channels
  <1>5. Hub!TypeOK
    BY <1>2, HubCounts DEF HubConstants, Hub!TypeOK, Hub!Init, Hub!Channels, Hub!Calls
  <1> QED BY <1>3, <1>4, <1>5 DEF HubInv

\* A call that moves keeps the counters, if the counters follow its move.
LEMMA CallCounts ==
  ASSUME HubConstants, HubInv, NEW s \in Subs, NEW to \in Hub!Calls,
         consumer' = [consumer EXCEPT ![s] = to], limit' = limit,
         opened' = IF consumer[s] \notin Subscribed /\ to \in Subscribed /\ entry = 0
                     THEN opened + 1 ELSE opened,
         consumer[s] \in Subscribed => to \in Subscribed,
         watchers' = IF consumer[s] \notin Counted /\ to \in Counted THEN watchers + 1
                     ELSE IF consumer[s] \in Counted /\ to \notin Counted THEN watchers - 1
                     ELSE watchers,
         consumer[s] \notin Streams /\ to \in Streams =>
           consumer[s] \notin Counted /\ (limit > 0 => watchers < limit)
  PROVE  /\ HubCounters'
         /\ watchers' \in 0..Cardinality(Subs)
         /\ opened' \in 0..Cardinality(Subs) /\ opened' >= opened
  <1>1. consumer \in [Subs -> Hub!Calls] /\ opened \in Nat /\ watchers \in Nat /\ limit \in Nat
    BY CountsOrdered, HubCounts DEF HubInv, HubConstants, Hub!TypeOK
  <1>2. /\ opened <= Cardinality(In(Subscribed)) /\ watchers = Cardinality(In(Counted))
        /\ limit > 0 => Cardinality(In(Streams)) <= limit
    BY DEF HubInv, HubCounters
  <1>3. Cardinality(Subs) \in Nat /\ Cardinality(In(Streams)) <= Cardinality(In(Counted))
    BY CountsOrdered
  <1>4. /\ Cardinality(In(Subscribed)') \in Nat /\ Cardinality(In(Subscribed)') <= Cardinality(Subs)
        /\ Cardinality(In(Counted)') \in Nat /\ Cardinality(In(Counted)') <= Cardinality(Subs)
    <2>1. In(Subscribed)' \subseteq Subs /\ In(Counted)' \subseteq Subs
      BY DEF In
    <2> QED BY <2>1, FS_Subset, FS_CardinalityType DEF HubConstants
  <1>5. opened' <= Cardinality(In(Subscribed)') /\ opened' \in Nat /\ opened' >= opened
    <2>0. Cardinality(In(Subscribed)) \in Nat
      BY CountsOrdered
    <2>1. CASE consumer[s] \notin Subscribed /\ to \in Subscribed
      <3>1. Cardinality(In(Subscribed)') = Cardinality(In(Subscribed)) + 1
        BY <1>1, <2>1, Moves
      <3>2. opened' \in {opened, opened + 1}
        OBVIOUS
      <3> QED BY <1>1, <1>2, <2>0, <3>1, <3>2
    <2>2. CASE ~ (consumer[s] \notin Subscribed /\ to \in Subscribed)
      <3>1. In(Subscribed)' = In(Subscribed)
        BY <1>1, <2>2, Moves
      <3>2. opened' = opened
        BY <2>2
      <3> QED BY <1>1, <1>2, <3>1, <3>2
    <2> QED BY <2>1, <2>2
  <1>6. watchers' = Cardinality(In(Counted)')
    BY <1>1, <1>2, Moves
  <1>7. limit > 0 => Cardinality(In(Streams)') <= limit
    <2>0. SUFFICES ASSUME limit > 0 PROVE Cardinality(In(Streams)') <= limit
      OBVIOUS
    <2>1. CASE consumer[s] \notin Streams /\ to \in Streams
      <3>1. /\ Cardinality(In(Streams)') = Cardinality(In(Streams)) + 1
            /\ Cardinality(In(Streams)) \in Nat
        BY <1>1, <2>1, Moves
      <3>2. Cardinality(In(Streams)) <= watchers /\ watchers < limit
        BY <1>2, <1>3, <2>0, <2>1
      <3> QED BY <1>1, <3>1, <3>2 DEF HubConstants
    <2>2. CASE ~ (consumer[s] \notin Streams /\ to \in Streams)
      <3>1. \/ Cardinality(In(Streams)') = Cardinality(In(Streams)) - 1
            \/ In(Streams)' = In(Streams)
        BY <1>1, <2>2, Moves
      <3>2. Cardinality(In(Streams)) \in Nat
        BY CountsOrdered
      <3> QED BY <1>1, <1>2, <2>0, <3>1, <3>2
    <2> QED BY <2>1, <2>2
  <1>8. HubCounters'
    BY <1>5, <1>6, <1>7 DEF HubCounters
  <1>9. opened' \in 0..Cardinality(Subs) /\ watchers' \in 0..Cardinality(Subs)
    BY <1>3, <1>4, <1>5, <1>6
  <1> QED BY <1>5, <1>8, <1>9

\* A step of a call keeps the invariant.
LEMMA CallStep ==
  ASSUME HubConstants, HubInv, NEW s \in Subs,
         Hub!CheckWatch(s) \/ Hub!Answer(s) \/ Hub!Disconnect(s)
  PROVE  HubInv'
  <1>0. /\ Hub!TypeOK /\ OnePoller /\ consumer[s] \in Hub!Calls
        /\ Cardinality(Subs) \in Nat /\ watchers \in Nat /\ opened \in Nat /\ limit \in Nat
    BY CountsOrdered, HubCounts DEF HubInv, HubConstants, Hub!TypeOK
  <1>1. CASE ~ Hub!Subscribe(s)
    <2>1. /\ UNCHANGED <<changes, limit, misprobed, entry, opened, value, poller, chan>>
          /\ UNCHANGED <<marked, seen>>
          /\ \E to \in Hub!Calls :
               /\ consumer' = [consumer EXCEPT ![s] = to]
               /\ consumer[s] \in Subscribed <=> to \in Subscribed
               /\ watchers' = IF consumer[s] \notin Counted /\ to \in Counted THEN watchers + 1
                              ELSE IF consumer[s] \in Counted /\ to \notin Counted THEN watchers - 1
                              ELSE watchers
               /\ consumer[s] \notin Streams /\ to \in Streams =>
                    consumer[s] \notin Counted /\ (limit > 0 => watchers < limit)
      <3>1. CASE Hub!CheckWatch(s)
        <4>1. /\ UNCHANGED <<changes, limit, misprobed, entry, opened, value, poller, chan>>
              /\ UNCHANGED <<marked, seen>>
              /\ consumer[s] = "new" /\ watchers' = watchers + 1
              /\ consumer' = [consumer EXCEPT ![s] =
                   IF limit > 0 /\ watchers >= limit THEN "denied" ELSE "slot"]
          BY <3>1 DEF Hub!CheckWatch, Hub!store, Hub!tasks
        <4>2. CASE limit > 0 /\ watchers >= limit
          BY <4>1, <4>2 DEF Hub!Calls, Counted, Streams, Subscribed
        <4>3. CASE ~ (limit > 0 /\ watchers >= limit)
          <5>1. limit > 0 => watchers < limit
            BY <1>0, <4>3 DEF HubConstants
          <5>2. consumer' = [consumer EXCEPT ![s] = "slot"] /\ "slot" \in Hub!Calls
            BY <4>1, <4>3 DEF Hub!Calls
          <5> QED BY <4>1, <5>1, <5>2 DEF Counted, Streams, Subscribed
        <4> QED BY <4>2, <4>3
      <3>2. CASE Hub!GiveBack(s)
        BY <3>2 DEF Hub!GiveBack, Hub!store, Hub!tasks, Hub!Calls, Counted, Streams, Subscribed
      <3>3. CASE Hub!StreamEnds(s)
        BY <3>3 DEF Hub!StreamEnds, Hub!store, Hub!tasks, Hub!Calls, Counted, Streams, Subscribed
      <3>4. CASE Hub!Disconnect(s)
        BY <3>4 DEF Hub!Disconnect, Hub!store, Hub!tasks, Hub!Calls, Counted, Streams, Subscribed
      <3> QED BY <1>1, <3>1, <3>2, <3>3, <3>4 DEF Hub!Answer
    <2>2. /\ HubCounters' /\ watchers' \in 0..Cardinality(Subs)
      BY <2>1, CallCounts
    <2>3. OnePoller'
      BY <1>0, <2>1 DEF OnePoller, Hub!Channels
    <2>4. consumer' \in [Subs -> Hub!Calls]
      BY <1>0, <2>1 DEF Hub!TypeOK
    <2>5. Hub!TypeOK'
      BY <1>0, <2>1, <2>2, <2>4, HubCounts DEF Hub!TypeOK, Hub!Channels, Hub!Calls
    <2> QED BY <2>2, <2>3, <2>5 DEF HubInv
  <1>2. CASE Hub!Subscribe(s)
    <2>1. /\ consumer[s] = "slot" /\ consumer' = [consumer EXCEPT ![s] = "on"]
          /\ UNCHANGED <<changes, limit, misprobed, value, marked, seen, watchers>>
          /\ entry # 0 => /\ chan' = [chan EXCEPT ![s] = entry]
                          /\ UNCHANGED <<entry, opened, poller>>
          /\ entry = 0 => /\ opened' = opened + 1 /\ entry' = opened + 1
                          /\ chan' = [chan EXCEPT ![s] = opened + 1]
                          /\ poller' = [poller EXCEPT ![opened + 1] = "check"]
      BY <1>2 DEF Hub!Subscribe, Hub!store
    <2>2. /\ HubCounters' /\ watchers' \in 0..Cardinality(Subs)
          /\ opened' \in 0..Cardinality(Subs) /\ opened' >= opened
      BY <2>1, CallCounts DEF Hub!Calls, Counted, Streams, Subscribed
    <2>3. consumer' \in [Subs -> Hub!Calls]
      BY <1>0, <2>1 DEF Hub!TypeOK, Hub!Calls
    <2>4. CASE entry # 0
      <3>1. OnePoller'
        BY <1>0, <2>1, <2>4 DEF OnePoller, Hub!Channels, Hub!TypeOK
      <3>2. Hub!TypeOK'
        BY <1>0, <2>1, <2>2, <2>3, <2>4, HubCounts DEF Hub!TypeOK, Hub!Channels, Hub!Calls
      <3> QED BY <2>2, <3>1, <3>2 DEF HubInv
    <2>5. CASE entry = 0
      <3>1. opened + 1 \in Hub!Channels
        BY <1>0, <2>1, <2>2, <2>5, HubCounts DEF Hub!Channels
      <3>2. \A x \in Subs : chan[x] = 0
        BY <1>0, <2>5 DEF OnePoller
      <3>3. OnePoller'
        <4>1. \A c \in Hub!Channels : poller[c] = "off"
          BY <1>0, <2>5, HubCounts DEF OnePoller, Hub!Channels
        <4>2. \A c \in Hub!Channels : poller'[c] # "off" <=> c = opened + 1
          BY <1>0, <2>1, <2>5, <3>1, <4>1 DEF Hub!TypeOK
        <4>3. \A x \in Subs : chan'[x] \in {0, opened + 1}
          BY <1>0, <2>1, <2>5, <3>2 DEF Hub!TypeOK
        <4>4. entry' = opened + 1
          BY <2>1, <2>5
        <4> QED BY <3>1, <4>2, <4>3, <4>4 DEF OnePoller, Hub!Channels
      <3>4. Hub!TypeOK'
        <4>1. opened' = opened + 1 /\ entry' = opened + 1 /\ opened' \in 0..Cardinality(Subs)
          BY <2>1, <2>2, <2>5
        <4>2. poller' \in [Hub!Channels -> {"off", "check", "retire", "probe", "sleep"}]
          BY <1>0, <2>1, <2>5 DEF Hub!TypeOK
        <4>3. chan' \in [Subs -> 0..opened']
          BY <1>0, <2>1, <2>5, <3>2, <4>1 DEF Hub!TypeOK
        <4> QED BY <1>0, <2>1, <2>2, <2>3, <4>1, <4>2, <4>3, HubCounts
                DEF Hub!TypeOK, Hub!Channels
      <3> QED BY <2>2, <3>3, <3>4 DEF HubInv
    <2> QED BY <2>4, <2>5
  <1> QED BY <1>1, <1>2

\* Every step keeps the invariant.
LEMMA HubStep == ASSUME HubConstants, HubInv, [Hub!Next]_(Hub!vars) PROVE HubInv'
  <1>0. Hub!TypeOK /\ OnePoller /\ HubCounters /\ Cardinality(Subs) \in Nat
    BY CountsOrdered DEF HubInv
  <1> USE DEF HubConstants
  <1>1. ASSUME UNCHANGED <<opened, consumer, watchers, limit>> PROVE HubCounters'
    BY <1>0, <1>1 DEF HubCounters, In
  <1>2. CASE UNCHANGED Hub!vars
    BY <1>0, <1>1, <1>2
       DEF Hub!vars, Hub!store, Hub!tasks, HubInv, OnePoller, Hub!TypeOK, Hub!Channels, Hub!Calls
  <1>3. CASE Hub!Change
    <2>1. UNCHANGED <<entry, opened, value, poller, chan, marked, consumer, seen, watchers,
                      limit, misprobed>>
      BY <1>3 DEF Hub!Change, Hub!tasks
    <2>2. Hub!TypeOK' /\ OnePoller'
      BY <1>0, <1>3, <2>1 DEF Hub!Change, OnePoller, Hub!TypeOK, Hub!Channels, Hub!Calls
    <2> QED BY <1>1, <2>1, <2>2 DEF HubInv
  <1>4. ASSUME NEW s \in Subs, Hub!Forward(s) PROVE HubInv'
    <2>1. /\ UNCHANGED <<changes, limit, misprobed, entry, opened, value, poller>>
          /\ UNCHANGED <<consumer, watchers>>
          /\ chan[s] # 0
          /\ marked' = [marked EXCEPT ![s] = value[chan[s]]]
          /\ seen' \in {seen, [seen EXCEPT ![s] = value[chan[s]]]}
          /\ chan' \in {chan, [chan EXCEPT ![s] = 0]}
      BY <1>4 DEF Hub!Forward, Hub!store, Hub!tasks
    <2>2. chan[s] \in Hub!Channels /\ value[chan[s]] \in -1..MaxChanges
      BY <1>0, <2>1 DEF OnePoller, Hub!TypeOK
    <2>3. OnePoller'
      BY <1>0, <2>1 DEF OnePoller, Hub!TypeOK, Hub!Channels
    <2>4. /\ marked' \in [Subs -> -2..MaxChanges] /\ seen' \in [Subs -> -1..MaxChanges]
          /\ chan' \in [Subs -> 0..opened]
      BY <1>0, <2>1, <2>2 DEF Hub!TypeOK
    <2>5. Hub!TypeOK'
      BY <1>0, <2>1, <2>4 DEF Hub!TypeOK, Hub!Channels, Hub!Calls
    <2> QED BY <1>1, <2>1, <2>3, <2>5 DEF HubInv
  <1>5. ASSUME NEW c \in Hub!Channels, Hub!Poll(c) PROVE HubInv'
    <2>1. UNCHANGED <<opened, chan, marked, consumer, seen, watchers, limit>>
      BY <1>5 DEF Hub!store, Hub!Poll, Hub!Check, Hub!Retire, Hub!Probe, Hub!ProbeFails, Hub!Wake
    <2>2. CASE Hub!Check(c)
      BY <1>0, <1>1, <2>1, <2>2
         DEF Hub!Check, Hub!store, HubInv, OnePoller, Hub!TypeOK, Hub!Channels, Hub!Calls
    <2>3. CASE Hub!Retire(c)
      <3>1. c = entry /\ entry # 0
        BY <1>0, <2>3, HubCounts DEF Hub!Retire, OnePoller, Hub!Channels
      <3>2. CASE Hub!Receivers(entry) = {}
        <4>1. /\ entry' = 0 /\ poller' = [poller EXCEPT ![c] = "off"]
              /\ UNCHANGED <<changes, limit, misprobed, value>>
          BY <2>3, <3>1, <3>2 DEF Hub!Retire, Hub!store
        <4>2. \A s \in Subs : chan[s] = 0
          BY <1>0, <3>2 DEF OnePoller, Hub!Receivers
        <4>3. OnePoller'
          BY <1>0, <2>1, <3>1, <4>1, <4>2, HubCounts DEF OnePoller, Hub!Channels, Hub!TypeOK
        <4>4. Hub!TypeOK'
          BY <1>0, <2>1, <4>1 DEF Hub!TypeOK, Hub!Channels, Hub!Calls
        <4> QED BY <1>1, <2>1, <4>3, <4>4 DEF HubInv
      <3>3. CASE Hub!Receivers(entry) # {}
        BY <1>0, <1>1, <2>1, <2>3, <3>3
           DEF Hub!Retire, Hub!store, HubInv, OnePoller, Hub!TypeOK, Hub!Channels, Hub!Calls
      <3> QED BY <3>2, <3>3
    <2>4. CASE Hub!Probe(c)
      BY <1>0, <1>1, <2>1, <2>4
         DEF Hub!Probe, Hub!store, HubInv, OnePoller, Hub!TypeOK, Hub!Channels, Hub!Calls
    <2>5. CASE Hub!ProbeFails(c)
      BY <1>0, <1>1, <2>1, <2>5
         DEF Hub!ProbeFails, HubInv, OnePoller, Hub!TypeOK, Hub!Channels, Hub!Calls
    <2>6. CASE Hub!Wake(c)
      BY <1>0, <1>1, <2>1, <2>6
         DEF Hub!Wake, Hub!store, HubInv, OnePoller, Hub!TypeOK, Hub!Channels, Hub!Calls
    <2> QED BY <1>5, <2>2, <2>3, <2>4, <2>5, <2>6 DEF Hub!Poll
  <1> QED BY <1>2, <1>3, <1>4, <1>5, CallStep DEF Hub!Next, Hub!Quiet

\* HubConsistent: whoever listens has a running poller, a key never has two, a
\* subscription that races the poller's retirement included; the watcher count
\* of the principal is exact, and its streams are within max_watchers.
THEOREM HubConsistentHolds ==
  ASSUME HubConstants
  PROVE  Hub!Spec => [](Hub!TypeOK /\ Hub!HubConsistent)
  <1>1. Hub!Init => HubInv
    BY HubInit
  <1>2. HubInv /\ [Hub!Next]_(Hub!vars) => HubInv'
    BY HubStep
  <1>3. HubInv => Hub!TypeOK /\ Hub!HubConsistent
    <2> SUFFICES ASSUME HubInv PROVE Hub!SubscribersArePolled /\ Hub!WatcherSlotsExact
      BY DEF HubInv, Hub!HubConsistent
    <2>1. Hub!SubscribersArePolled
      BY DEF HubInv, OnePoller, Hub!SubscribersArePolled
    <2>2. Hub!WatcherSlotsExact
      BY HubCounts DEF HubInv, HubCounters, In, Counted, Streams, Hub!WatcherSlotsExact
    <2> QED BY <2>1, <2>2
  <1> QED BY <1>1, <1>2, <1>3, PTL DEF Hub!Spec

------------------------------------------------------------------------------
(* The server. *)

\* One step of the server is a step of one of the listed actions.
LEMMA ServerCases ==
  ASSUME Server!Next
  PROVE  \/ Server!Tick \/ Server!SweepList \/ Server!SweepNext \/ Server!Drain
         \/ \E k \in Keys : Server!LeaseExpires(k) \/ Server!UnlockForce(k)
         \/ \E p \in Principals : Server!RegistryDecrement(p)
         \/ \E k \in Keys, g \in Tokens \cup {None} : Server!RegistryRemove(k, g)
         \/ \E g \in Tokens, k \in Keys, p \in Principals, s \in Main \cup {None} :
              Server!TryLock(g, k, p, s)
         \/ \E g \in Tokens : \/ Server!Bind(g) \/ Server!Admit(g) \/ Server!Undo(g)
                              \/ Server!Unlock(g)
         \/ \E s \in Main : \/ Server!Register(s) \/ Server!Heartbeat(s) \/ Server!Close(s)
                            \/ Server!CloseDropped(s) \/ Server!Silence(s)
                            \/ Server!SweepVisit(s)
         \/ \E s \in Main, k \in Keys, g \in Tokens : Server!ReleaseBound(s, k, g)
  BY Zenon DEF Server!Next, Server!Registry, Server!Handler, Server!Client, Server!Sweeper

\* A call that has started knows its key and its principal.
Started ==
  \A g \in Tokens : pc[g] # "new" => key[g] \in Keys /\ who[g] \in Principals

ServerInv == Server!TypeOK /\ Started

\* Clearing a key's owner keeps the type of the store.
LEMMA ServerReleaseType ==
  ASSUME keyOwner \in [Keys -> Tokens \cup {None}], NEW g, NEW k, Server!StoreRelease(g, k)
  PROVE  keyOwner' \in [Keys -> Tokens \cup {None}]
  BY DEF Server!StoreRelease

\* Every variable of the server keeps its type.
LEMMA ServerTypeStep == ServerInv /\ [Server!Next]_(Server!vars) => ServerInv'
  <1> SUFFICES ASSUME ServerInv, [Server!Next]_(Server!vars) PROVE ServerInv'
    OBVIOUS
  <1> USE DEF ServerInv, Server!TypeOK, Started
  <1>1. CASE UNCHANGED Server!vars
    BY <1>1 DEF Server!vars, Server!calls, Server!sessions, Server!registry
  <1>2. CASE Server!Tick
    BY <1>2, SweepAssumption DEF Server!Tick, Server!calls, Server!registry
  <1>3. CASE Server!SweepList \/ Server!SweepNext \/ Server!Drain
    BY <1>3 DEF Server!SweepList, Server!SweepNext, Server!Drain, Server!calls, Server!sessions,
                Server!registry
  <1>4. ASSUME NEW k \in Keys, Server!LeaseExpires(k) \/ Server!UnlockForce(k) PROVE ServerInv'
    BY <1>4 DEF Server!LeaseExpires, Server!UnlockForce, Server!calls, Server!sessions,
                Server!registry
  <1>5. ASSUME NEW p \in Principals, Server!RegistryDecrement(p) PROVE ServerInv'
    BY <1>5 DEF Server!RegistryDecrement, Server!calls, Server!sessions
  <1>6. ASSUME NEW k \in Keys, NEW g \in Tokens \cup {None}, Server!RegistryRemove(k, g)
        PROVE  ServerInv'
    BY <1>6 DEF Server!RegistryRemove, Server!calls, Server!sessions
  <1>7. ASSUME NEW g \in Tokens, NEW k \in Keys, NEW p \in Principals,
               NEW s \in Main \cup {None}, Server!TryLock(g, k, p, s)
        PROVE  ServerInv'
    BY <1>7 DEF Server!TryLock, Server!sessions, Server!registry
  <1>8. ASSUME NEW g \in Tokens, Server!Bind(g) PROVE ServerInv'
    BY <1>8, SweepAssumption DEF Server!Bind, Server!registry
  <1>9. ASSUME NEW g \in Tokens, Server!Admit(g) PROVE ServerInv'
    BY <1>9 DEF Server!Admit, Server!sessions
  <1>10. ASSUME NEW g \in Tokens, Server!Undo(g) PROVE ServerInv'
    BY <1>10, ServerReleaseType DEF Server!Undo, Server!sessions, Server!registry
  <1>11. ASSUME NEW g \in Tokens, Server!Unlock(g) PROVE ServerInv'
    BY <1>11, ServerReleaseType DEF Server!Unlock, Server!sessions
  <1>12. ASSUME NEW s \in Main, Server!Register(s) \/ Server!Heartbeat(s) \/ Server!Silence(s)
         PROVE  ServerInv'
    BY <1>12, SweepAssumption DEF Server!Register, Server!Heartbeat, Server!Silence, Server!calls,
                                  Server!registry
  <1>13. ASSUME NEW s \in Main, Server!Close(s) \/ Server!SweepVisit(s) PROVE ServerInv'
    BY <1>13 DEF Server!Close, Server!SweepVisit, Server!Remove, Server!calls, Server!registry
  <1>14. ASSUME NEW s \in Main, Server!CloseDropped(s) PROVE ServerInv'
    BY <1>14 DEF Server!CloseDropped, Server!registry
  <1>15. ASSUME NEW s \in Main, NEW k \in Keys, NEW g \in Tokens,
                Server!ReleaseBound(s, k, g)
         PROVE  ServerInv'
    BY <1>15, ServerReleaseType DEF Server!ReleaseBound, Server!registry
  <1>. QED
    BY <1>1, <1>2, <1>3, <1>4, <1>5, <1>6, <1>7, <1>8, <1>9, <1>10, <1>11, <1>12,
       <1>13, <1>14, <1>15, ServerCases
------------------------------------------------------------------------------
(* The parts side by side: every behaviour is one of its subject. *)

\* Operations and faults that do not occur only take steps away.
LEMMA FewerUses ==
  /\ ClientMany!Process => Client!Process
  /\ \A s : ClientMany!Session(s) => Client!Session(s)
  /\ \A t : ClientMany!Handle(t) => Client!Handle(t)
  <1>f. ClientMany!Faulty => Client!Faulty
    BY ManyAssumption DEF ClientMany!Faulty, Client!Faulty
  <1>1. ClientMany!Process => Client!Process
    <2>1. ClientMany!Tick => Client!Tick
      BY Zenon DEF ClientMany!Tick, Client!Tick, ClientMany!Down, Client!Down
    <2>2. ClientMany!Crash => Client!Crash
      BY ManyAssumption, Zenon
      DEF ClientMany!Crash, Client!Crash, ClientMany!server, Client!server
    <2>3. ClientMany!CloseSession => Client!CloseSession
      BY <1>f, Zenon
      DEF ClientMany!CloseSession, Client!CloseSession, ClientMany!EndSession,
          Client!EndSession, ClientMany!Unlock, Client!Unlock, ClientMany!server, Client!server,
          ClientMany!handles, Client!handles
    <2>4. ClientMany!WithToken => Client!WithToken
      BY ManyAssumption, Zenon
      DEF ClientMany!WithToken, Client!WithToken, ClientMany!server, Client!server,
          ClientMany!handles, Client!handles
    <2>. QED
      BY <2>1, <2>2, <2>3, <2>4 DEF ClientMany!Process, Client!Process
  <1>2. ASSUME NEW s, ClientMany!Session(s) PROVE Client!Session(s)
    <2>1. ClientMany!AttachSession(s) => Client!AttachSession(s)
      BY <1>f, ManyAssumption, Zenon
      DEF ClientMany!AttachSession, Client!AttachSession, ClientMany!handles, Client!handles
    <2>2. ClientMany!Beat(s) => Client!Beat(s)
      BY <1>f, Zenon
      DEF ClientMany!Beat, Client!Beat, ClientMany!Heartbeat, Client!Heartbeat,
          ClientMany!HeartbeatEnds, Client!HeartbeatEnds, ClientMany!server, Client!server,
          ClientMany!handles, Client!handles
    <2>3. ClientMany!Sweep(s) => Client!Sweep(s)
      BY Zenon
      DEF ClientMany!Sweep, Client!Sweep, ClientMany!EndSession, Client!EndSession,
          ClientMany!Unlock, Client!Unlock, ClientMany!client, Client!client,
          ClientMany!handles, Client!handles
    <2>. QED
      BY <1>2, <2>1, <2>2, <2>3 DEF ClientMany!Session, Client!Session
  <1>3. ASSUME NEW t, ClientMany!Handle(t) PROVE Client!Handle(t)
    <2>1. ClientMany!TryLock(t) => Client!TryLock(t)
      BY <1>f, ManyAssumption, Zenon
      DEF ClientMany!TryLock, Client!TryLock, ClientMany!client, Client!client
    <2>2. ClientMany!TryLockFails(t) => Client!TryLockFails(t)
      BY Zenon
      DEF ClientMany!TryLockFails, Client!TryLockFails, ClientMany!server, Client!server,
          ClientMany!client, Client!client
    <2>3. ClientMany!Watchdog(t) => Client!Watchdog(t)
      BY Zenon
      DEF ClientMany!Watchdog, Client!Watchdog, ClientMany!ExtendAtServer,
          Client!ExtendAtServer, ClientMany!MarkLost, Client!MarkLost, ClientMany!client,
          Client!client
    <2>4. ClientMany!WatchdogFails(t) => Client!WatchdogFails(t)
      BY <1>f, Zenon
      DEF ClientMany!WatchdogFails, Client!WatchdogFails, ClientMany!ExtendAtServer,
          Client!ExtendAtServer, ClientMany!MarkLost, Client!MarkLost, ClientMany!Surrenders,
          Client!Surrenders, ClientMany!client, Client!client
    <2>5. ClientMany!WatchdogEnds(t) => Client!WatchdogEnds(t)
      BY Zenon
      DEF ClientMany!WatchdogEnds, Client!WatchdogEnds, ClientMany!server, Client!server,
          ClientMany!client, Client!client
    <2>6. ClientMany!Extend(t) => Client!Extend(t)
      BY ManyAssumption, Zenon
      DEF ClientMany!Extend, Client!Extend, ClientMany!ExtendAtServer, Client!ExtendAtServer,
          ClientMany!MarkLost, Client!MarkLost, ClientMany!client, Client!client
    <2>7. ClientMany!Release(t) => Client!Release(t)
      BY Zenon
      DEF ClientMany!Release, Client!Release, ClientMany!server, Client!server,
          ClientMany!client, Client!client
    <2>8. ClientMany!RunUnlock(t) => Client!RunUnlock(t)
      BY <1>f, Zenon
      DEF ClientMany!RunUnlock, Client!RunUnlock, ClientMany!Unlock, Client!Unlock,
          ClientMany!client, Client!client
    <2>. QED
      BY <1>3, <2>1, <2>2, <2>3, <2>4, <2>5, <2>6, <2>7, <2>8
      DEF ClientMany!Handle, Client!Handle, ClientMany!Dog, Client!Dog
  <1>. QED
    BY <1>1, <1>2, <1>3

\* A step leaves the subject and is one of it.
LEMMA SubjectMoves ==
  ASSUME [Next]_vars
  PROVE  /\ subject' = subject
         /\ subject = "etcd" => [Etcd!Next]_(Etcd!vars)
         /\ subject = "hub" => [Hub!Next]_(Hub!vars)
         /\ IsClient => [Client!Next]_(Client!vars)
         /\ subject = "server" => [Server!Next]_(Server!vars)
         /\ ~(subject = "etcd") => UNCHANGED etcdVars
  <1>1. CASE UNCHANGED vars
    BY <1>1, Zenon
    DEF vars, etcdVars, hubVars, clientVars, serverVars, Etcd!vars, Etcd!grantVars, Hub!vars,
        Hub!store, Hub!tasks, Client!vars, Client!server, Client!client, Client!handles,
        Server!vars, Server!calls, Server!sessions, Server!registry
  <1>2. CASE Next
    <2>1. subject' = subject
      BY <1>2 DEF Next
    <2>2. /\ subject = "etcd" => Etcd!Next
          /\ subject = "hub" => Hub!Next
          /\ subject = "server" => Server!Next
      BY <1>2, Zenon DEF Next, EtcdNext, HubNext, ClientNext, ClientManyNext, ServerNext
    <2>3. subject = "client" => Client!Next
      BY <1>2, SomeAssumption, Zenon
      DEF Next, EtcdNext, HubNext, ClientNext, ClientManyNext, ServerNext, Client!Next
    <2>4. subject = "client many" => Client!Next
      BY <1>2, FewerUses, Zenon
      DEF Next, EtcdNext, HubNext, ClientNext, ClientManyNext, ServerNext, Client!Next
    <2>5. ASSUME NEW part, Others(part), part # "etcd" PROVE UNCHANGED etcdVars
      BY <2>5 DEF Others
    <2>6. ~(subject = "etcd") => UNCHANGED etcdVars
      BY <1>2, <2>5 DEF Next, EtcdNext, HubNext, ClientNext, ClientManyNext, ServerNext
    <2>. QED
      BY <2>1, <2>2, <2>3, <2>4, <2>6 DEF IsClient
  <1>. QED
    BY <1>1, <1>2

\* So a behaviour of the composition satisfies the specification of its subject.
LEMMA SubjectSpecs ==
  Spec => /\ subject = "etcd" => Etcd!Spec
          /\ subject = "hub" => Hub!Spec
          /\ IsClient => Client!Spec
          /\ subject = "server" => Server!Spec
  <1>1. Init => Etcd!Init /\ Hub!Init /\ Client!Init /\ Server!Init
    BY DEF Init
  <1>2. subject = "etcd" /\ [Next]_vars => [Etcd!Next]_(Etcd!vars) /\ (subject = "etcd")'
    BY SubjectMoves
  <1>3. subject = "hub" /\ [Next]_vars => [Hub!Next]_(Hub!vars) /\ (subject = "hub")'
    BY SubjectMoves
  <1>4. IsClient /\ [Next]_vars => [Client!Next]_(Client!vars) /\ IsClient'
    BY SubjectMoves DEF IsClient
  <1>5. subject = "server" /\ [Next]_vars => [Server!Next]_(Server!vars) /\ (subject = "server")'
    BY SubjectMoves
  <1>. QED
    BY <1>1, <1>2, <1>3, <1>4, <1>5, PTL
    DEF Spec, Etcd!Spec, Hub!Spec, Client!Spec, Server!Spec

\* The subject stays what it is.
LEMMA SubjectStays ==
  [Next]_vars =>
    /\ ~(subject = "etcd") => (~(subject = "etcd"))' /\ UNCHANGED etcdVars
    /\ ~(subject = "hub") => (~(subject = "hub"))'
    /\ ~ IsClient => (~ IsClient)'
    /\ ~(subject = "server") => (~(subject = "server"))'
  BY SubjectMoves DEF IsClient

\* The types of every part hold throughout (etcd/src/lib.rs, watch_hub.rs, the
\* client's lib.rs, and sessions.rs, auth.rs and service.rs of the server).
THEOREM RemoteTypes ==
  ASSUME EtcdConstants, HubConstants, ClientConstants
  PROVE  Spec => []TypeOK
  <1>1. Etcd!Spec => []Etcd!TypeOK
    <2>1. EtcdInv => Etcd!TypeOK
      BY DEF EtcdInv
    <2>. QED
      BY <2>1, EtcdInvariant, PTL
  <1>2. Hub!Spec => []Hub!TypeOK
    BY HubConsistentHolds, PTL
  <1>3. Client!Spec => []Client!TypeOK
    <2>1. ClientInv => Client!TypeOK
      BY DEF ClientInv
    <2>. QED
      BY <2>1, ClientInvariant, PTL
  <1>4. Server!Spec => []Server!TypeOK
    <2>1. Server!Init => ServerInv
      BY SweepAssumption DEF Server!Init, ServerInv, Server!TypeOK, Started
    <2>2. ServerInv => Server!TypeOK
      BY DEF ServerInv
    <2>. QED
      BY <2>1, <2>2, ServerTypeStep, PTL DEF Server!Spec
  <1>. QED
    BY <1>1, <1>2, <1>3, <1>4, SubjectSpecs, SubjectStays, PTL DEF Spec, TypeOK

\* The hub has one poller for whoever watches and an exact quota, in every
\* behaviour of the composition (watch_hub.rs, auth.rs).
THEOREM HubConsistentAlways ==
  ASSUME HubConstants
  PROVE  Spec => []HubConsistent
  <1>1. Hub!Spec => []Hub!HubConsistent
    BY HubConsistentHolds, PTL
  <1>. QED
    BY <1>1, SubjectSpecs, SubjectStays, PTL DEF Spec, HubConsistent

\* Failed calls cost neither session nor key, for a client of some handles with
\* every fault as for one of many (the client's lib.rs).
THEOREM HoldsSurviveBlipsAlways ==
  ASSUME ClientConstants
  PROVE  Spec => []HoldsSurviveBlips
  <1>1. Client!Spec => []Client!HoldsSurviveBlips
    BY HoldsSurviveBlipsHolds
  <1>. QED
    BY <1>1, SubjectSpecs, SubjectStays, PTL DEF Spec, HoldsSurviveBlips

\* The etcd backend implements the lock with leases in every behaviour
\* (etcd/src/lib.rs).
THEOREM ImplementsLeaseLockAlways ==
  ASSUME EtcdConstants
  PROVE  Spec => ImplementsLeaseLock
  <1>1. Etcd!Spec => Etcd!Lease!Spec
    BY EtcdRefinesLeaseLock DEF Etcd!ImplementsLeaseLock
  <1>2. Init => Etcd!Lease!Init
    BY DEF Init, Etcd!Init, Etcd!Lease!Init
  <1>3. UNCHANGED etcdVars => [Etcd!Lease!Next]_(Etcd!Lease!vars)
    BY DEF etcdVars, Etcd!Lease!vars
  <1>. QED
    BY <1>1, <1>2, <1>3, SubjectSpecs, SubjectStays, PTL
    DEF Spec, ImplementsLeaseLock, Etcd!ImplementsLeaseLock, Etcd!Lease!Spec

\* A token whose key is gone never owns it again: no keep-alive, retry or late
\* transaction brings the hold back under the revision it had (etcd/src/lib.rs).
THEOREM EtcdLostForGood ==
  ASSUME EtcdConstants, NEW t \in Tokens
  PROVE  Etcd!Spec => [](issued[t] > 0 /\ owner # t => [](owner # t))
  <1> DEFINE Gone == issued[t] > 0 /\ owner # t
  <1>1. EtcdInv /\ Gone /\ [Etcd!Lease!Next]_(Etcd!Lease!vars) => Gone'
    <2> SUFFICES ASSUME Etcd!TypeOK, Gone, [Etcd!Lease!Next]_(Etcd!Lease!vars) PROVE Gone'
      BY DEF EtcdInv
    <2>1. ASSUME NEW u \in Tokens, Etcd!Lease!Grant(u)
          PROVE  Gone'
      BY <2>1 DEF Etcd!Lease!Grant, Etcd!TypeOK
    <2>2. CASE Etcd!Lease!Free \/ Etcd!Lease!Forget \/ UNCHANGED Etcd!Lease!vars
      BY <2>2 DEF Etcd!Lease!Free, Etcd!Lease!Forget, Etcd!Lease!vars, EtcdConstants
    <2>. QED
      BY <2>1, <2>2 DEF Etcd!Lease!Next
  <1>2. Gone => owner # t
    OBVIOUS
  <1>3. Gone <=> issued[t] > 0 /\ owner # t
    OBVIOUS
  <1> HIDE DEF Gone
  <1>. QED
    BY <1>1, <1>2, <1>3, EtcdInvariant, EtcdRefinesLeaseLock, PTL
    DEF Etcd!ImplementsLeaseLock, Etcd!Lease!Spec
==============================================================================
