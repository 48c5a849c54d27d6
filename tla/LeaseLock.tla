------------------------------ MODULE LeaseLock ------------------------------
(***************************************************************************)
(* What Palisade promises of one lock key, whatever the backend: at most   *)
(* one acquisition owns the key, an acquisition owns it during one         *)
(* uninterrupted interval only (a lost lease is never regained under the   *)
(* same token), every grant is stamped with a fencing token larger than    *)
(* all before it, and the store forgets the tokens only while nobody owns  *)
(* the key.  Why ownership ends (release, expiry, force unlock) is left    *)
(* open.                                                                   *)
(***************************************************************************)
EXTENDS Naturals

CONSTANTS Tokens,   \* one token per acquisition attempt (a fresh UUID)
          None      \* no owner

VARIABLES owner,    \* the token that owns the key, or None
          fence,    \* the last fencing token, 0 when the store has forgotten it
          issued    \* the fence issued to each token, 0 before its grant

vars == <<owner, fence, issued>>

Init ==
  /\ owner = None
  /\ fence = 0
  /\ issued = [t \in Tokens |-> 0]

Grant(t) ==
  /\ owner = None
  /\ issued[t] = 0
  /\ owner' = t
  /\ fence' \in Nat /\ fence' > fence
  /\ issued' = [issued EXCEPT ![t] = fence']

Free ==
  /\ owner # None
  /\ owner' = None
  /\ UNCHANGED <<fence, issued>>

Forget ==
  /\ owner = None
  /\ fence' = 0
  /\ UNCHANGED <<owner, issued>>

Next == Free \/ Forget \/ \E t \in Tokens : Grant(t)

Spec == Init /\ [][Next]_vars
==============================================================================
