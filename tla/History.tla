------------------------------- MODULE History -------------------------------
(***************************************************************************)
(* The history checker of the test kit, which judges the simulator's and   *)
(* the clients' histories of one key, against a definition of its verdict. *)
(* A behaviour is a history that grows; times never go back, as events are *)
(* sorted by their times.                                                  *)
(***************************************************************************)
EXTENDS Integers, Sequences, SequencesExt

CONSTANTS
  Workers,    \* workers
  Ttl,        \* ttl_ms
  MaxFence,   \* bound on fences
  MaxGap,     \* bound on the time between two events
  MaxEvents   \* bound on the length, before the event that is judged

VARIABLES
  history,    \* the events so far
  active,     \* what the loop of check() carries: the holds
  accepted    \* and last_accepted_fence

vars == <<history, active, accepted>>

Holder(e) == [worker |-> e.worker, expires |-> e.t + Ttl]

\* Variant: a lease still holds at the time of its expiry.
ValidTooLong(e) == {a \in active : a.expires >= e.t}

\* The holds that survive retain() at the time of an event, and the worker's own.
Valid(e) == {a \in active : a.expires > e.t}
Mine(e) == {a \in Valid(e) : a.worker = e.worker}

\* One turn of the loop finds no violation.
Passes(e) ==
  /\ e.kind = "Grant" => Valid(e) = {} /\ e.fence # 0
  /\ e.kind = "ReleaseOk" => Mine(e) # {}
  /\ e.kind = "ReleaseLost" => \A a \in Mine(e) : e.t >= a.expires
  /\ e.kind = "WriteAccepted" => Mine(e) # {} /\ e.fence > accepted

------------------------------------------------------------------------------
Init == history = << >> /\ active = {} /\ accepted = 0

\* Times may repeat but not go back.  "WriteRejected" stands for "Deny", too: both
\* only expire what has expired.
Events(from) ==
  LET E(kinds, fences) ==
        [t : from..(from + MaxGap), worker : Workers, kind : kinds, fence : fences]
  IN E({"Grant", "WriteAccepted"}, 0..MaxFence)
       \cup E({"ReleaseOk", "ReleaseLost", "WriteRejected"}, {0})

\* Every event that may come next.
Coming == Events(IF history = << >> THEN 0 ELSE Last(history).t)

\* The recorder adds an event and the loop takes its turn; at a violation check()
\* returns, and what follows does not matter.
Record(e) ==
  /\ Len(history) < MaxEvents
  /\ Passes(e)
  /\ history' = Append(history, e)
  /\ active' = IF e.kind = "Grant" THEN Valid(e) \cup {Holder(e)}
               ELSE IF e.kind = "ReleaseOk" THEN Valid(e) \ Mine(e)
               ELSE Valid(e)
  /\ accepted' = IF e.kind = "WriteAccepted" THEN e.fence ELSE accepted

Done == Len(history) = MaxEvents /\ UNCHANGED vars

Next == Done \/ \E e \in Coming : Record(e)

Spec == Init /\ [][Next]_vars

------------------------------------------------------------------------------
(* Property. *)

\* The worker granted at i validly holds at j: it has not released in
\* between, and its lease has not expired.
Holds(h, i, j) ==
  /\ i < j /\ h[i].kind = "Grant" /\ h[j].t < h[i].t + Ttl
  /\ \A k \in (i + 1)..(j - 1) : ~(h[k].kind = "ReleaseOk" /\ h[k].worker = h[i].worker)

Correct(h, j) ==
  LET holds == {i \in 1..Len(h) : Holds(h, i, j)}
      mine == {i \in holds : h[i].worker = h[j].worker}
  IN /\ h[j].kind = "Grant" => holds = {} /\ h[j].fence > 0
     /\ h[j].kind \in {"ReleaseOk", "WriteAccepted"} => mine # {}
     /\ h[j].kind = "ReleaseLost" => mine = {}
     /\ h[j].kind = "WriteAccepted" =>
          \A i \in 1..(j - 1) : h[i].kind = "WriteAccepted" => h[i].fence < h[j].fence
     /\ h[j].kind = "WriteAccepted" => h[j].fence > 0

\* check() finds a violation in a history if and only if two workers hold at
\* once, a release or an accepted write comes from a worker that does not
\* hold, a holder is told that it lost, or accepted fences do not grow.
VerdictExact ==
  \A e \in Coming : LET h == Append(history, e)
                    IN Passes(e) <=> \A j \in 1..Len(h) : Correct(h, j)
==============================================================================
