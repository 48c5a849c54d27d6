------------------------------ MODULE EtcdLock -------------------------------
(***************************************************************************)
(* The etcd backend for one key: a lease is granted, a transaction puts    *)
(* the key under that lease if the key does not exist, the watchdog keeps  *)
(* the lease alive, release deletes the key and revokes the lease.  etcd   *)
(* deletes the key when its lease ends.  Fencing tokens are revisions.     *)
(***************************************************************************)
EXTENDS Integers, FiniteSets

CONSTANTS
  Tokens,     \* acquisition attempts, one token and one lease each
  None,       \* the key does not exist
  LeaseTtl,   \* lease_secs(ttl), in ticks
  MaxErrors,  \* bound on the keep-alives whose sending fails
  EtcdUses    \* which of the optional operations and faults occur

VARIABLES
  owner,      \* value of the key
  lease,      \* ticks left of each attempt's lease, 0 without one
  revision,   \* etcd's revision, as far as this key moves it
  stage,      \* where each attempt, or its handle, is
  issued,     \* FencingToken of the handle: the revision of its transaction
  lost,       \* HandleShared::poisoned and the `lost` channel
  watchdog,   \* the watchdog task: "off", "open", "sleep", "send"
  lastGrant,  \* history: the revision of the last grant
  errors      \* history: keep-alives whose sending failed

grantVars == <<issued, lastGrant, errors>>
vars == <<owner, lease, revision, stage, lost, watchdog, grantVars>>

\* "leased": lease granted; "undo": the lease is to be revoked; "live": a
\* handle with gone = false; "releasing", "dropping": gone, the transaction is
\* under way; "revoking": the key is deleted.
Stages == {"fresh", "leased", "undo", "live", "releasing", "dropping",
           "revoking", "gone"}

TypeOK ==
  /\ owner \in Tokens \cup {None}
  /\ lease \in [Tokens -> Nat]
  /\ revision \in Nat
  /\ stage \in [Tokens -> Stages]
  /\ issued \in [Tokens -> Nat]
  /\ lost \in [Tokens -> BOOLEAN]
  /\ watchdog \in [Tokens -> {"off", "open", "sleep", "send"}]
  /\ lastGrant \in Nat
  /\ errors \in 0..MaxErrors

Init ==
  /\ owner = None
  /\ lease = [t \in Tokens |-> 0]
  /\ revision = 0
  /\ stage = [t \in Tokens |-> "fresh"]
  /\ issued = [t \in Tokens |-> 0]
  /\ lost = [t \in Tokens |-> FALSE]
  /\ watchdog = [t \in Tokens |-> "off"]
  /\ lastGrant = 0
  /\ errors = 0

Goto(t, s) == stage' = [stage EXCEPT ![t] = s]

\* The key is deleted if t owns it: by a transaction, or with its lease.
Delete(t) ==
  IF owner = t THEN owner' = None /\ revision' = revision + 1
  ELSE UNCHANGED <<owner, revision>>

\* Variant: the revision before the put.
PutBefore(t) ==
  /\ owner' = t
  /\ revision' = revision + 1
  /\ issued' = [issued EXCEPT ![t] = revision]
  /\ lastGrant' = revision
  /\ UNCHANGED errors

\* The put of the acquiring transaction.
Put(t) ==
  /\ owner' = t
  /\ revision' = revision + 1
  /\ issued' = [issued EXCEPT ![t] = revision + 1]
  /\ lastGrant' = revision + 1
  /\ UNCHANGED errors

------------------------------------------------------------------------------
(* try_lock_with *)

GrantLease(t) ==
  /\ stage[t] = "fresh"
  /\ lease' = [lease EXCEPT ![t] = LeaseTtl]
  /\ \/ Goto(t, "leased")
     \/ "error" \in EtcdUses /\ Goto(t, "gone")
  /\ UNCHANGED <<owner, revision, lost, watchdog, grantVars>>

\* The transaction succeeds; make_handle starts the watchdog if asked to.
Acquire(t) ==
  /\ stage[t] = "leased" /\ lease[t] > 0
  /\ owner = None
  /\ Put(t)
  /\ Goto(t, "live")
  /\ \/ watchdog' = [watchdog EXCEPT ![t] = "open"]
     \/ "no watchdog" \in EtcdUses /\ UNCHANGED watchdog
  /\ UNCHANGED <<lease, lost>>

\* Held; or the lease has expired, or the call failed: Error::Backend, after
\* which the transaction may have been applied.
AcquireFails(t) ==
  /\ stage[t] = "leased"
  /\ \/ /\ owner # None \/ lease[t] = 0 \/ "error" \in EtcdUses
        /\ UNCHANGED <<owner, revision, grantVars>>
     \/ /\ "error" \in EtcdUses
        /\ owner = None /\ lease[t] > 0
        /\ Put(t)
  /\ Goto(t, "undo")
  /\ UNCHANGED <<lease, lost, watchdog>>

\* Revoke: the lease ends and its key goes with it.  Errors are ignored.
Revoke(t) ==
  /\ stage[t] \in {"undo", "revoking"}
  /\ Goto(t, "gone")
  /\ \/ lease' = [lease EXCEPT ![t] = 0] /\ Delete(t)
     \/ "error" \in EtcdUses /\ UNCHANGED <<lease, owner, revision>>
  /\ UNCHANGED <<lost, watchdog, grantVars>>

TryLockFor(t) ==
  /\ stage[t] = "fresh"
  /\ Goto(t, "gone")
  /\ UNCHANGED <<owner, lease, revision, lost, watchdog, grantVars>>

------------------------------------------------------------------------------
(* The handle. *)

Release(t) ==
  /\ stage[t] = "live"
  /\ Goto(t, "releasing")
  /\ UNCHANGED <<owner, lease, revision, lost, watchdog, grantVars>>

Drop(t) ==
  /\ stage[t] = "live"
  /\ Goto(t, "dropping")
  /\ UNCHANGED <<owner, lease, revision, lost, watchdog, grantVars>>

\* release_inner: the transaction; Lost, without a revocation, if it refuses.
ReleaseInner(t) ==
  /\ stage[t] \in {"releasing", "dropping"}
  /\ \/ /\ Delete(t)
        /\ Goto(t, IF owner = t THEN "revoking" ELSE "gone")
        /\ lost' = [lost EXCEPT ![t] = @ \/ (owner # t /\ stage[t] = "releasing")]
     \/ /\ "error" \in EtcdUses
        /\ Goto(t, "gone")
        /\ UNCHANGED <<owner, revision, lost>>
  /\ UNCHANGED <<lease, watchdog, grantVars>>

\* extend: one keep-alive; it only checks, the ttl is ignored.  A send that fails
\* is Error::Backend, a stream that breaks counts as loss.
Extend(t) ==
  /\ "extend" \in EtcdUses
  /\ stage[t] = "live" /\ ~ lost[t]
  /\ lease' = [lease EXCEPT ![t] = IF @ > 0 THEN LeaseTtl ELSE 0]
  /\ \/ lease[t] > 0 /\ UNCHANGED lost
     \/ /\ lease[t] = 0 \/ "error" \in EtcdUses
        /\ lost' = [lost EXCEPT ![t] = TRUE]
  /\ UNCHANGED <<owner, revision, stage, watchdog, grantVars>>

------------------------------------------------------------------------------
(* The watchdog task. *)

\* weak.upgrade() fails for a handle that is dropped; one that was released may
\* be dropped by now, or not.
MarkLost(t) ==
  /\ \/ stage[t] # "dropping" /\ lost' = [lost EXCEPT ![t] = TRUE]
     \/ stage[t] \notin {"live", "releasing"} /\ UNCHANGED lost
  /\ watchdog' = [watchdog EXCEPT ![t] = "off"]

OpenStream(t) ==
  /\ watchdog[t] = "open"
  /\ \/ watchdog' = [watchdog EXCEPT ![t] = "sleep"] /\ UNCHANGED lost
     \/ "error" \in EtcdUses /\ MarkLost(t)
  /\ UNCHANGED <<owner, lease, revision, stage, grantVars>>

\* Variant: `gone` is not looked at.
WakeUpAnyway(t) ==
  /\ watchdog[t] = "sleep"
  /\ watchdog' = [watchdog EXCEPT ![t] = "send"]
  /\ UNCHANGED <<owner, lease, revision, stage, lost, grantVars>>

\* After the sleep: stop if the handle is gone or dropped.
WakeUp(t) ==
  /\ watchdog[t] = "sleep"
  /\ watchdog' = [watchdog EXCEPT ![t] = IF stage[t] = "live" THEN "send" ELSE "off"]
  /\ UNCHANGED <<owner, lease, revision, stage, lost, grantVars>>

\* Variant: an answer with ttl 0 is taken for a transient failure.
KeepAliveForgives(t) ==
  /\ watchdog[t] = "send"
  /\ lease' = [lease EXCEPT ![t] = IF @ > 0 THEN LeaseTtl ELSE 0]
  /\ watchdog' = [watchdog EXCEPT ![t] = "sleep"]
  /\ UNCHANGED <<owner, revision, stage, lost, grantVars>>

\* The keep-alive and its answer: ttl > 0, or the lease is dead.
KeepAlive(t) ==
  /\ watchdog[t] = "send"
  /\ IF lease[t] > 0
     THEN /\ lease' = [lease EXCEPT ![t] = LeaseTtl]
          /\ watchdog' = [watchdog EXCEPT ![t] = "sleep"]
          /\ UNCHANGED lost
     ELSE MarkLost(t) /\ UNCHANGED lease
  /\ UNCHANGED <<owner, revision, stage, grantVars>>

\* A failed send is tried again after the next sleep, for ever in the code; a
\* stream that breaks counts as loss.
KeepAliveFails(t) ==
  /\ "error" \in EtcdUses
  /\ watchdog[t] = "send"
  /\ \/ /\ errors < MaxErrors
        /\ errors' = errors + 1
        /\ watchdog' = [watchdog EXCEPT ![t] = "sleep"]
        /\ UNCHANGED lost
     \/ MarkLost(t) /\ UNCHANGED errors
  /\ UNCHANGED <<owner, lease, revision, stage, issued, lastGrant>>

\* The process dies with everything it runs.
Crash(t) ==
  /\ "crash" \in EtcdUses
  /\ stage[t] \notin {"fresh", "gone"}
  /\ Goto(t, "gone")
  /\ watchdog' = [watchdog EXCEPT ![t] = "off"]
  /\ UNCHANGED <<owner, lease, revision, lost, grantVars>>

\* etcd: leases run down, and a lease that ends takes its key along.
Tick ==
  /\ lease' = [t \in Tokens |-> IF lease[t] > 0 THEN lease[t] - 1 ELSE 0]
  /\ IF owner # None /\ lease[owner] <= 1 THEN Delete(owner)
     ELSE UNCHANGED <<owner, revision>>
  /\ UNCHANGED <<stage, lost, watchdog, grantVars>>

Dog(t) == WakeUp(t) \/ KeepAlive(t) \/ KeepAliveFails(t)

Step(t) ==
  \/ GrantLease(t) \/ Acquire(t) \/ AcquireFails(t) \/ Revoke(t) \/ TryLockFor(t)
  \/ Release(t) \/ Drop(t) \/ ReleaseInner(t) \/ Extend(t)
  \/ OpenStream(t) \/ Dog(t) \/ Crash(t)

Next == Tick \/ \E t \in Tokens : Step(t)

Spec == Init /\ [][Next]_vars

\* Time passes and tasks run; MaxErrors keeps sends from failing for ever.
Fairness == WF_vars(Tick) /\ \A t \in Tokens : WF_vars(OpenStream(t)) /\ WF_vars(Dog(t))

------------------------------------------------------------------------------
(* Properties. *)

\* The backend's promise: LeaseLock, with revisions for fencing tokens.
Lease == INSTANCE LeaseLock WITH
  owner <- owner, fence <- lastGrant, issued <- issued
ImplementsLeaseLock == Lease!Spec

\* A handle with a watchdog learns that its lease is dead, or is given up.
LossIsNoticed ==
  \A t \in Tokens :
    (watchdog[t] # "off" /\ stage[t] = "live" /\ owner # t)
      ~> (lost[t] \/ stage[t] # "live")

\* The key of a process that died, or of a call that failed half-way, is freed.
AbandonedKeyIsFreed == \A t \in Tokens : (stage[t] = "gone" /\ owner = t) ~> (owner # t)

\* What abandoned and stale handles come to.
HandlesRecover == LossIsNoticed /\ AbandonedKeyIsFreed
==============================================================================
