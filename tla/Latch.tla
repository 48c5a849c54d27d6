-------------------------------- MODULE Latch --------------------------------
(***************************************************************************)
(* RedisCountDownLatch: every party creates the latch (SET NX, so that the *)
(* first count stands), counts down once, or waits until the count is 0.   *)
(***************************************************************************)
EXTENDS Integers, FiniteSets

CONSTANTS
  Parties,      \* callers that count down
  Waiters,      \* callers of wait_until_zero
  Counts        \* initial counts the creators may ask for

VARIABLES
  latch,        \* the key's value, -1 without the key
  at,           \* progress of each caller
  initial,      \* history: the count that the key was created with
  downs         \* history: count-downs that found the latch open

vars == <<latch, at, initial, downs>>

Init ==
  /\ latch = -1
  /\ at = [p \in Parties \cup Waiters |-> "new"]
  /\ initial = 0
  /\ downs = 0

Move(p, l) == at' = [at EXCEPT ![p] = l]

\* initial_counts refuses 0; SET NX.
Create(p, n) ==
  /\ at[p] = "new"
  /\ IF latch = -1 THEN latch' = n /\ initial' = n ELSE UNCHANGED <<latch, initial>>
  /\ Move(p, "ready")
  /\ UNCHANGED downs

\* Variant: the script stops at 1.
CountDownShort(p) ==
  /\ p \in Parties /\ at[p] = "ready"
  /\ latch' = IF latch > 1 THEN latch - 1 ELSE latch
  /\ downs' = IF latch > 0 THEN downs + 1 ELSE downs
  /\ Move(p, "done")
  /\ UNCHANGED initial

\* A vanished key and a count of 0 are left alone.
CountDown(p) ==
  /\ p \in Parties /\ at[p] = "ready"
  /\ latch' = IF latch > 0 THEN latch - 1 ELSE latch
  /\ downs' = IF latch > 0 THEN downs + 1 ELSE downs
  /\ Move(p, "done")
  /\ UNCHANGED initial

\* eval_remaining: Error::Backend, after which the script may have run.
CountDownFails(p) ==
  /\ p \in Parties /\ at[p] = "ready"
  /\ \/ latch > 0 /\ latch' = latch - 1 /\ downs' = downs + 1
     \/ UNCHANGED <<latch, downs>>
  /\ Move(p, "failed")
  /\ UNCHANGED initial

\* eval_remaining: a missing key (-1) counts as 0.
Remaining == IF latch < 0 THEN 0 ELSE latch

\* Variant: the value DECR + 1 of the last count-down is taken for the rest.
WaitOffByOne(p) ==
  /\ p \in Waiters /\ at[p] = "ready"
  /\ Remaining <= 1
  /\ Move(p, "done")
  /\ UNCHANGED <<latch, initial, downs>>

WaitUntilZero(p) ==
  /\ p \in Waiters /\ at[p] = "ready"
  /\ Remaining = 0
  /\ Move(p, "done")
  /\ UNCHANGED <<latch, initial, downs>>

WaitTimesOut(p) ==
  /\ p \in Waiters /\ at[p] = "ready"
  /\ Remaining # 0
  /\ Move(p, "failed")
  /\ UNCHANGED <<latch, initial, downs>>

Call(p) ==
  \/ \E n \in Counts \ {0} : Create(p, n)
  \/ CountDown(p) \/ WaitUntilZero(p)

Over == (\A p \in Parties \cup Waiters : at[p] \in {"done", "failed"}) /\ UNCHANGED vars

Next == Over \/ \E p \in Parties \cup Waiters : Call(p) \/ CountDownFails(p) \/ WaitTimesOut(p)

Spec == Init /\ [][Next]_vars
Fairness == \A p \in Parties \cup Waiters : WF_vars(Call(p))

------------------------------------------------------------------------------
(* Properties. *)

\* Whatever counts the racing creators ask for, a waiter passes only after as
\* many parties counted down as the winning creator asked for.
PassAfterAll == \A p \in Waiters : at[p] = "done" => downs = initial /\ initial > 0

\* Once enough parties have counted down, every waiter's poll ends.
WaitersPass ==
  \A p \in Waiters : (initial > 0 /\ downs = initial /\ at[p] = "ready") ~> (at[p] # "ready")
==============================================================================
