------------------------------ MODULE MultiLock ------------------------------
(***************************************************************************)
(* try_lock_all and MultiLockHandle::release_all over several single-key   *)
(* mutexes.  A key is its owner only: leases may end at any time.  Keys    *)
(* are numbers, in the order in which `sorted` has them.                   *)
(***************************************************************************)
EXTENDS Naturals, FiniteSets

CONSTANTS
  Procs,      \* callers, one call of try_lock_all each
  Keys,       \* a set of numbers
  None,       \* no owner
  MultiUses   \* which faults occur: "error", "timeout", "expiry"

VARIABLES
  want,       \* the keys of each call
  owner,      \* owner of each key
  pc,         \* where the call, or the handle it returned, is
  have,       \* keys with a handle in `handles`
  cause,      \* rollback_err
  leaked      \* history: keys whose request or release failed

vars == <<want, owner, pc, have, cause, leaked>>

Init ==
  /\ want \in [Procs -> {S \in SUBSET Keys : Cardinality(S) >= 2}]
  /\ owner = [k \in Keys |-> None]
  /\ pc = [p \in Procs |-> "acquire"]
  /\ have = [p \in Procs |-> {}]
  /\ cause = [p \in Procs |-> "none"]
  /\ leaked = [p \in Procs |-> {}]

Least(S) == CHOOSE k \in S : \A j \in S : k <= j
Greatest(S) == CHOOSE k \in S : \A j \in S : j <= k

\* Variant: the keys are taken as the caller gave them, one caller's backwards.
NextKeyAsGiven(p) ==
  LET open == want[p] \ have[p]
  IN  IF p = CHOOSE q \in Procs : TRUE THEN Greatest(open) ELSE Least(open)

\* `for key in &sorted`
NextKey(p) == Least(want[p] \ have[p])

Goto(p, l) == pc' = [pc EXCEPT ![p] = l]

\* One try_lock_with of the walk: Ok, or Held.
Acquire(p) ==
  /\ pc[p] = "acquire"
  /\ LET k == NextKey(p)
     IN  IF owner[k] = None
         THEN /\ owner' = [owner EXCEPT ![k] = p]
              /\ have' = [have EXCEPT ![p] = @ \cup {k}]
              /\ IF have'[p] = want[p] THEN Goto(p, "held") ELSE UNCHANGED pc
              /\ UNCHANGED cause
         ELSE /\ Goto(p, "rollback")
              /\ cause' = [cause EXCEPT ![p] = "Held"]
              /\ UNCHANGED <<owner, have>>
  /\ UNCHANGED <<want, leaked>>

\* Error::Backend; the script may have run.
AcquireFails(p) ==
  /\ "error" \in MultiUses
  /\ pc[p] = "acquire"
  /\ LET k == NextKey(p)
     IN  \/ UNCHANGED <<owner, leaked>>
         \/ /\ owner[k] = None
            /\ owner' = [owner EXCEPT ![k] = p]
            /\ leaked' = [leaked EXCEPT ![p] = @ \cup {k}]
  /\ Goto(p, "rollback")
  /\ cause' = [cause EXCEPT ![p] = "Backend"]
  /\ UNCHANGED <<want, have>>

\* One release of the reverse walk, by the rollback or by release_all; its
\* result is ignored or remembered, the walk goes on.
ReleaseKey(p) ==
  LET k == Greatest(have[p])
  IN  /\ have' = [have EXCEPT ![p] = @ \ {k}]
      /\ \/ /\ owner' = [owner EXCEPT ![k] = IF @ = p THEN None ELSE @]
            /\ UNCHANGED leaked
         \/ /\ "error" \in MultiUses
            /\ leaked' = [leaked EXCEPT ![p] = @ \cup {k}]
            /\ UNCHANGED owner
      /\ UNCHANGED <<want, cause>>

\* Variant: the rollback stops after one release.
RollbackOnce(p) ==
  /\ pc[p] = "rollback"
  /\ IF have[p] # {} THEN ReleaseKey(p) ELSE UNCHANGED <<want, owner, have, cause, leaked>>
  /\ Goto(p, IF cause[p] = "Held" THEN "sleep" ELSE "failed")

\* The rollback; then Held sleeps and retries, Backend is returned.
Rollback(p) ==
  /\ pc[p] = "rollback"
  /\ IF have[p] # {} THEN ReleaseKey(p) /\ UNCHANGED pc
     ELSE /\ Goto(p, IF cause[p] = "Held" THEN "sleep" ELSE "failed")
          /\ UNCHANGED <<want, owner, have, cause, leaked>>

Retry(p) ==
  /\ pc[p] = "sleep"
  /\ Goto(p, "acquire")
  /\ cause' = [cause EXCEPT ![p] = "none"]
  /\ UNCHANGED <<want, owner, have, leaked>>

Timeout(p) ==
  /\ "timeout" \in MultiUses
  /\ pc[p] = "sleep"
  /\ Goto(p, "failed")
  /\ UNCHANGED <<want, owner, have, cause, leaked>>

ReleaseAll(p) ==
  /\ pc[p] \in {"held", "releasing"}
  /\ IF have[p] # {} THEN ReleaseKey(p) /\ Goto(p, "releasing")
     ELSE Goto(p, "done") /\ UNCHANGED <<want, owner, have, cause, leaked>>

\* A lease runs out: always so for a key nobody has a handle of any more.
Expire(k) ==
  /\ owner[k] # None
  /\ "expiry" \in MultiUses \/ k \notin have[owner[k]]
  /\ owner' = [owner EXCEPT ![k] = None]
  /\ UNCHANGED <<want, pc, have, cause, leaked>>

Run(p) == Acquire(p) \/ Rollback(p) \/ Retry(p) \/ ReleaseAll(p)

Step(p) == Run(p) \/ AcquireFails(p) \/ Timeout(p)

Ended == (\A p \in Procs : pc[p] \in {"done", "failed"}) /\ UNCHANGED vars

Next == Ended \/ (\E p \in Procs : Step(p)) \/ (\E k \in Keys : Expire(k))

Spec == Init /\ [][Next]_vars

\* Callers run and release what they hold; abandoned leases end.
Fairness ==
  /\ \A p \in Procs : WF_vars(Run(p))
  /\ \A k \in Keys : WF_vars(Expire(k))

------------------------------------------------------------------------------
(* Properties. *)

\* All or nothing: a call that sleeps before its retry, failed or was released
\* owns no key, except those whose own request failed.
NothingLeftBehind ==
  \A p \in Procs : pc[p] \in {"sleep", "failed", "done"} =>
    \A k \in Keys : owner[k] = p => k \in leaked[p]

\* ADR 0019: concurrent callers neither deadlock nor roll each other back for
\* ever, whatever their key sets: everyone gets all keys or an error.
EveryoneFinishes == \A p \in Procs : <>(pc[p] \in {"done", "failed"})
==============================================================================
