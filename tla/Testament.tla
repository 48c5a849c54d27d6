------------------------------ MODULE Testament ------------------------------
(***************************************************************************)
(* Semantic locks and testaments on one Redis key.  A semantic acquisition *)
(* evaluates predicates on the hash `key:data` inside the granting script; *)
(* a plain try_lock competes for the same key.  A holder stores a will     *)
(* under `key:will`, with an expiry of its own, by a request that may      *)
(* arrive when the key is another holder's.                                *)
(***************************************************************************)
EXTENDS Leases

CONSTANT WillTtls   \* expiries that set_testament is called with

VARIABLES
  owner,    \* the token stored at the key
  pttl,     \* its PTTL
  data,     \* the hash: whether it exists, and whether the predicates hold
  grant,    \* the fence of each attempt that was granted, 0 for the others
  will,     \* author of the stored will
  willTtl,  \* its PTTL
  saying    \* the set or clear request of each token that is under way

vars == <<leaseVars, owner, pttl, data, grant, will, willTtl, saying>>
keyVars == <<owner, pttl, data, grant>>
willVars == <<will, willTtl, saying>>

Data == [exists : BOOLEAN, holds : BOOLEAN]
Silent == [ask |-> "none"]

TypeOK ==
  /\ LeasesTypeOK
  /\ owner \in Tokens \cup {None} /\ will \in Tokens \cup {None}
  /\ pttl \in Nat /\ willTtl \in Nat
  /\ data \in Data
  /\ grant \in [Tokens -> Nat]
  /\ saying \in [Tokens -> {Silent, [ask |-> "clear"]}
                             \cup [ask : {"set"}, ttl : WillTtls]]

Init ==
  /\ LeasesInit
  /\ owner = None /\ pttl = 0 /\ data \in Data
  /\ grant = [t \in Tokens |-> 0]
  /\ will = None /\ willTtl = 0
  /\ saying = [t \in Tokens |-> Silent]

------------------------------------------------------------------------------
(* Acquisition and release. *)

\* Variant: the predicates decide, the key's owner does not.
MeetsOnly == data.exists /\ data.holds

\* The script's conditions: the hash exists (a missing field alone does not
\* do), the key does not, and the predicates hold.
Meets == data.exists /\ owner = None /\ data.holds

\* SET with PX, INCR of the fence.
Take(t, x) ==
  /\ owner' = t
  /\ pttl' = x
  /\ grant' = [grant EXCEPT ![t] = fence + 1]
  /\ Granted(t, x)
  /\ UNCHANGED <<data, willVars>>

Acquire(t, x) == phase[t] = "fresh" /\ Meets /\ Take(t, x)

TryLock(t, x) == phase[t] = "fresh" /\ owner = None /\ Take(t, x)

\* Error::Held, or a call that fails before the script.
Refused(t) == Abandoned(t) /\ UNCHANGED <<keyVars, willVars>>

\* mark_gone() by release() or by Drop, which spawns the same request.
Release(t) ==
  /\ MarkGone(t, "releasing")
  /\ UNCHANGED <<keyVars, willVars>>

\* The release script; the will stays.
Released(t) ==
  /\ phase[t] = "releasing"
  /\ Ended(t)
  /\ IF owner = t THEN owner' = None /\ pttl' = 0 ELSE UNCHANGED <<owner, pttl>>
  /\ UNCHANGED <<data, grant, willVars>>

------------------------------------------------------------------------------
(* Wills. *)

\* A caller with the owner token of its handle sends a will, or clears it.
SetTestament(t, y) ==
  /\ phase[t] = "live" /\ saying[t] = Silent
  /\ saying' = [saying EXCEPT ![t] = [ask |-> "set", ttl |-> y]]
  /\ UNCHANGED <<leaseVars, keyVars, will, willTtl>>

ClearTestament(t) ==
  /\ phase[t] = "live" /\ saying[t] = Silent
  /\ saying' = [saying EXCEPT ![t] = [ask |-> "clear"]]
  /\ UNCHANGED <<leaseVars, keyVars, will, willTtl>>

\* Variant: the owner is compared when a will is deleted only.
WillSetByAnyone(t) ==
  /\ saying[t].ask = "set"
  /\ will' = t /\ willTtl' = saying[t].ttl
  /\ saying' = [saying EXCEPT ![t] = Silent]
  /\ UNCHANGED <<leaseVars, keyVars>>

\* WILL_SET: for the owner of the key only, Error::Lost for others.
WillSet(t) ==
  /\ saying[t].ask = "set"
  /\ IF owner = t THEN will' = t /\ willTtl' = saying[t].ttl ELSE UNCHANGED <<will, willTtl>>
  /\ saying' = [saying EXCEPT ![t] = Silent]
  /\ UNCHANGED <<leaseVars, keyVars>>

\* WILL_DEL: likewise.
WillDel(t) ==
  /\ saying[t].ask = "clear"
  /\ IF owner = t THEN will' = None /\ willTtl' = 0 ELSE UNCHANGED <<will, willTtl>>
  /\ saying' = [saying EXCEPT ![t] = Silent]
  /\ UNCHANGED <<leaseVars, keyVars>>

\* Error::Backend: the request does not reach Redis.
WillFails(t) ==
  /\ saying[t] # Silent
  /\ saying' = [saying EXCEPT ![t] = Silent]
  /\ UNCHANGED <<leaseVars, keyVars, will, willTtl>>

------------------------------------------------------------------------------
\* The application changes the hash.
ChangeData ==
  /\ data' \in Data \ {data}
  /\ UNCHANGED <<leaseVars, owner, pttl, grant, willVars>>

Tick ==
  /\ LeasesTick
  /\ pttl' = Less(pttl)
  /\ owner' = IF pttl <= 1 THEN None ELSE owner
  /\ willTtl' = Less(willTtl)
  /\ will' = IF willTtl <= 1 THEN None ELSE will
  /\ UNCHANGED <<data, grant, saying>>

Step(t) ==
  \/ \E x \in Ttls : Acquire(t, x) \/ TryLock(t, x)
  \/ \E y \in WillTtls : SetTestament(t, y)
  \/ Refused(t) \/ Release(t) \/ Released(t)
  \/ ClearTestament(t) \/ WillSet(t) \/ WillDel(t) \/ WillFails(t)

Next == ChangeData \/ Tick \/ \E t \in Tokens : Step(t)

Spec == Init /\ [][Next]_vars

------------------------------------------------------------------------------
(* Properties. *)

\* Semantic and plain acquisitions exclude each other: whoever counts on a
\* lease owns the key, whatever late releases arrive.
LeaseOwnsKey == \A t \in Tokens : left[t] > 0 => owner = t

\* A late set_testament of an earlier holder never replaces the will of a
\* later one: the authors follow each other in the order of their fences.
WillsFollowGrants ==
  [][will # None /\ will' # None /\ will' # will => grant[will'] > grant[will]]_vars
==============================================================================
