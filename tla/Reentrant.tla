------------------------------ MODULE Reentrant ------------------------------
(***************************************************************************)
(* The reentrant mutex: a hash with the caller-supplied owner and a hold   *)
(* count.  Every handle stands for one hold; several handles, of this hold *)
(* of the lock or of an earlier one, carry the same owner.                 *)
(***************************************************************************)
EXTENDS Leases

CONSTANT Owners

VARIABLES
  hash,     \* owner, count and PTTL
  ownerOf,  \* the OwnerId of each handle
  counted,  \* history: the handles that `count` stands for
  spoilt    \* history: owners one of whose handles was used on a hold of the lock
            \* that it does not belong to, or that called release_all()

reentrant == <<hash, ownerOf, counted, spoilt>>
vars == <<leaseVars, reentrant>>

Absent == [owner |-> None, count |-> 0, ttl |-> 0]

TypeOK ==
  /\ LeasesTypeOK
  /\ hash \in [owner : Owners \cup {None}, count : Nat, ttl : Nat]
  /\ ownerOf \in [Tokens -> Owners \cup {None}]
  /\ counted \subseteq Tokens /\ spoilt \subseteq Owners

Init ==
  /\ LeasesInit
  /\ hash = Absent
  /\ ownerOf = [t \in Tokens |-> None]
  /\ counted = {} /\ spoilt = {}

Owns(t) == hash.owner # None /\ hash.owner = ownerOf[t]

\* History of a step that leaves the handles S in the count.
Covers(S) == counted' = IF hash'.owner = None THEN {} ELSE S
Spoils(t, S) == spoilt' = IF Owns(t) /\ S THEN spoilt \cup {ownerOf[t]} ELSE spoilt

------------------------------------------------------------------------------
TryLock(t, o, x) ==
  /\ phase[t] = "fresh"
  /\ hash.owner \in {None, o}
  /\ hash' = [owner |-> o, count |-> hash.count + 1, ttl |-> x]
  /\ ownerOf' = [ownerOf EXCEPT ![t] = o]
  /\ Covers(counted \cup {t})
  /\ Granted(t, x)
  /\ UNCHANGED spoilt

TryLockFor(t) == Abandoned(t) /\ UNCHANGED reentrant

ReleaseOne(t) == "release" \in Uses /\ MarkGone(t, "releasing") /\ UNCHANGED reentrant

ReleaseAll(t) == "release all" \in Uses /\ MarkGone(t, "clearing") /\ UNCHANGED reentrant

Drop(t) == "drop" \in Uses /\ MarkGone(t, "dropping") /\ UNCHANGED reentrant

\* Variants: the hash is not deleted with the last hold; the owner is not compared.
DecrementKeeps(t, x) ==
  IF ~ Owns(t) THEN hash ELSE [hash EXCEPT !.count = @ - 1, !.ttl = IF x > 0 THEN x ELSE @]

DecrementAnyones(t, x) ==
  IF hash.owner = None THEN hash
  ELSE IF hash.count <= 1 THEN Absent
  ELSE [hash EXCEPT !.count = @ - 1, !.ttl = x]

\* reentrant_release.lua; a refresh of 0, from Drop, leaves the expiry alone.
Decrement(t, x) ==
  IF ~ Owns(t) THEN hash
  ELSE IF hash.count <= 1 THEN Absent
  ELSE [hash EXCEPT !.count = @ - 1, !.ttl = IF x > 0 THEN x ELSE @]

OneReleased(t) ==
  /\ phase[t] \in {"releasing", "dropping"}
  /\ hash' = Decrement(t, IF phase[t] = "dropping" THEN 0 ELSE lease[t])
  /\ Covers(counted \ {t})
  /\ Spoils(t, t \notin counted)
  /\ Ended(t)
  /\ UNCHANGED ownerOf

AllReleased(t) ==
  /\ phase[t] = "clearing"
  /\ hash' = IF Owns(t) THEN Absent ELSE hash
  /\ Covers(counted)
  /\ Spoils(t, counted # {t})
  /\ Ended(t)
  /\ UNCHANGED ownerOf

ReleaseLost(t) ==
  /\ "error" \in Uses /\ phase[t] \in Ending
  /\ Ended(t)
  /\ UNCHANGED reentrant

Extend(t, x) == AskExtend(t, x) /\ UNCHANGED reentrant

ExtendRuns(t) ==
  /\ asked[t] # 0
  /\ hash' = IF Owns(t) THEN [hash EXCEPT !.ttl = asked[t]] ELSE hash
  /\ Extended(t, Owns(t))
  /\ Spoils(t, t \notin counted)
  /\ UNCHANGED <<ownerOf, counted>>

ExtendLost(t) == ExtendFails(t) /\ UNCHANGED reentrant

Tick ==
  /\ hash' = IF hash.ttl <= 1 THEN Absent ELSE [hash EXCEPT !.ttl = @ - 1]
  /\ Covers(counted)
  /\ LeasesTick
  /\ UNCHANGED <<ownerOf, spoilt>>

Step(t) ==
  \/ \E x \in Ttls : Extend(t, x) \/ \E o \in Owners : TryLock(t, o, x)
  \/ TryLockFor(t) \/ ReleaseOne(t) \/ ReleaseAll(t) \/ Drop(t)
  \/ OneReleased(t) \/ AllReleased(t) \/ ReleaseLost(t)
  \/ ExtendRuns(t) \/ ExtendLost(t)

Next == Tick \/ \E t \in Tokens : Step(t)

Spec == Init /\ [][Next]_vars

------------------------------------------------------------------------------
(* Properties. *)

\* A hold whose lease runs is counted, so that no other owner is admitted next
\* to it: late releases, drops and extends of former owners change nothing.  The
\* owner's own stale handles may (see `spoilt`): the hash has a count, and not
\* the handles that it stands for.  Needs leases of one length, as a re-entry
\* with a shorter one shortens the lease of every hold.
CountCoversHolds ==
  \A o \in Owners \ spoilt :
    LET holds == {t \in Tokens : ownerOf[t] = o /\ left[t] > 0}
    IN  holds # {} => hash.owner = o /\ hash.count >= Cardinality(holds)
==============================================================================
