------------------------------- MODULE Leases --------------------------------
(***************************************************************************)
(* What the client handles of the Redis primitives have in common: an      *)
(* attempt that may end in a handle, the `gone` flag that is swapped       *)
(* before the release request leaves, an extend whose request is under way *)
(* while other things happen, and the detached release of Drop.  The       *)
(* modules RwLock, Semaphore, Reentrant and FairLock extend this one and   *)
(* add the Redis structure and the scripts.                                *)
(*                                                                         *)
(* Time is counted in ticks; left[t] is what remains of the lease that     *)
(* Redis granted to t, as t may count on it.                               *)
(***************************************************************************)
EXTENDS Integers, FiniteSets

CONSTANTS
  Tokens,   \* acquisition attempts, one owner token (UUID) each
  None,     \* no value
  Ttls,     \* lease durations, in ticks
  Uses      \* which of the optional operations and faults occur

ASSUME LeasesAssumption == None \notin Tokens /\ Ttls \subseteq Nat \ {0}

VARIABLES
  phase,    \* life of each attempt and of its handle
  left,     \* ticks left of the lease granted to it
  lease,    \* the ttl it asked for
  asked,    \* the ttl of its extend() under way, 0 without one
  fence     \* the fence counter: INCR by every grant, never expired here

leaseVars == <<phase, left, lease, asked, fence>>

\* "live": a handle with gone = false; "releasing", "dropping", "clearing":
\* gone, with the request of release(), Drop or release_all() under way.
Ending == {"releasing", "dropping", "clearing"}
Phases == {"fresh", "live", "gone"} \cup Ending

LeasesTypeOK ==
  /\ phase \in [Tokens -> Phases]
  /\ left \in [Tokens -> Nat]
  /\ lease \in [Tokens -> Ttls \cup {0}]
  /\ asked \in [Tokens -> Ttls \cup {0}]
  /\ fence \in Nat

LeasesInit ==
  /\ phase = [t \in Tokens |-> "fresh"]
  /\ left = [t \in Tokens |-> 0]
  /\ lease = [t \in Tokens |-> 0]
  /\ asked = [t \in Tokens |-> 0]
  /\ fence = 0

Less(n) == IF n > 0 THEN n - 1 ELSE 0

\* The script granted t.  Without its reply the call ends in Error::Backend:
\* the store has the grant and nobody a handle.
Granted(t, x) ==
  /\ fence' = fence + 1
  /\ lease' = [lease EXCEPT ![t] = x]
  /\ \/ /\ phase' = [phase EXCEPT ![t] = "live"]
        /\ left' = [left EXCEPT ![t] = x]
     \/ /\ "error" \in Uses
        /\ phase' = [phase EXCEPT ![t] = "gone"]
        /\ UNCHANGED left
  /\ UNCHANGED asked

\* try_..._for reached its deadline, or its call failed before the script.
Abandoned(t) ==
  /\ phase[t] = "fresh"
  /\ phase' = [phase EXCEPT ![t] = "gone"]
  /\ UNCHANGED <<left, lease, asked, fence>>

\* mark_gone() by the first of release(), release_all() and Drop.
MarkGone(t, how) ==
  /\ phase[t] = "live"
  /\ phase' = [phase EXCEPT ![t] = how]
  /\ left' = [left EXCEPT ![t] = 0]
  /\ UNCHANGED <<lease, asked, fence>>

\* The release request of t was served, or is lost.
Ended(t) ==
  /\ phase' = [phase EXCEPT ![t] = "gone"]
  /\ UNCHANGED <<left, lease, asked, fence>>

\* extend() sees gone = false and sends its request.
AskExtend(t, x) ==
  /\ "extend" \in Uses
  /\ phase[t] = "live"
  /\ asked[t] = 0
  /\ asked' = [asked EXCEPT ![t] = x]
  /\ UNCHANGED <<phase, left, lease, fence>>

\* The extend script ran: a refusal sets gone.
Extended(t, ok) ==
  /\ asked' = [asked EXCEPT ![t] = 0]
  /\ IF phase[t] # "live" THEN UNCHANGED <<phase, left>>
     ELSE IF ok THEN /\ left' = [left EXCEPT ![t] = asked[t]]
                     /\ UNCHANGED phase
     ELSE /\ phase' = [phase EXCEPT ![t] = "gone"]
          /\ left' = [left EXCEPT ![t] = 0]
  /\ UNCHANGED <<lease, fence>>

\* A request that never reaches Redis, or a script error.
ExtendFails(t) ==
  /\ "error" \in Uses
  /\ asked[t] # 0
  /\ asked' = [asked EXCEPT ![t] = 0]
  /\ UNCHANGED <<phase, left, lease, fence>>

LeasesTick ==
  /\ left' = [t \in Tokens |-> Less(left[t])]
  /\ UNCHANGED <<phase, lease, asked, fence>>
==============================================================================
