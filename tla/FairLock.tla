------------------------------ MODULE FairLock -------------------------------
(***************************************************************************)
(* The fair lock: a key, a queue of waiting tokens, a heartbeat key per    *)
(* waiter, and a release that hands the key to the oldest waiter whose     *)
(* heartbeat is alive.  The queue is written oldest first here; the code   *)
(* pushes on the left and pops on the right.                               *)
(***************************************************************************)
EXTENDS Leases, Sequences, SequencesExt

CONSTANTS
  HbTtl,       \* life of a heartbeat: max(ttl, 2 s)
  HandoffTtl,  \* lease of a key handed over: 30 s
  QueueMult    \* life of the queue, in leases: 10

VARIABLES
  lock, lockTtl,    \* the key and its PTTL
  queue, queueTtl,  \* the list and its PTTL
  hb                \* PTTL of each waiter's heartbeat key, 0 without it

fair == <<lock, lockTtl, queue, queueTtl, hb>>
vars == <<leaseVars, fair>>

TypeOK ==
  /\ LeasesTypeOK
  /\ lock \in Tokens \cup {None} /\ lockTtl \in Nat
  /\ queue \in Seq(Tokens) /\ queueTtl \in Nat
  /\ hb \in [Tokens -> Nat]

Init ==
  /\ LeasesInit
  /\ lock = None /\ lockTtl = 0
  /\ queue = <<>> /\ queueTtl = 0
  /\ hb = [t \in Tokens |-> 0]

------------------------------------------------------------------------------
(* Polls of try_lock_fair and try_lock_fair_for: fair_acquire.lua. *)

Lock(t, x) == lock' = t /\ lockTtl' = x

\* The key was handed over to t, or is free and nobody waits.
PollGranted(t, x) ==
  /\ phase[t] = "fresh"
  /\ lock = t \/ (lock = None /\ queue = <<>>)
  /\ Lock(t, x)
  /\ Granted(t, x)
  /\ UNCHANGED <<queue, queueTtl, hb>>

\* The key is free and somebody waits: the loop over the queue concatenates
\* ARGV[5], which try_lock_fair_as does not pass.  Lua raises an error before
\* any effect and the caller gets Error::Backend.
PollError(t) ==
  /\ phase[t] = "fresh"
  /\ lock = None /\ queue # <<>>
  /\ phase' = [phase EXCEPT ![t] = "gone"]
  /\ UNCHANGED <<left, lease, asked, fence, fair>>

\* Somebody else has the key: join the queue, or stay in it.
PollQueued(t, x) ==
  /\ phase[t] = "fresh"
  /\ lock \notin {None, t}
  /\ queue' = IF Contains(queue, t) THEN queue ELSE Append(queue, t)
  /\ queueTtl' = QueueMult * x
  /\ hb' = [hb EXCEPT ![t] = HbTtl]
  /\ UNCHANGED <<lock, lockTtl, leaseVars>>

\* The deadline of try_lock_fair_for (or the single poll of try_lock_fair)
\* leaves the queue entry and the heartbeat behind.
TryLockFor(t) == "timeout" \in Uses /\ Abandoned(t) /\ UNCHANGED fair

------------------------------------------------------------------------------
(* The handle. *)

Release(t) == "release" \in Uses /\ MarkGone(t, "releasing") /\ UNCHANGED fair

Drop(t) == "drop" \in Uses /\ MarkGone(t, "dropping") /\ UNCHANGED fair

LiveWaiters == {i \in 1..Len(queue) : hb[queue[i]] > 0}

\* Variants: the newest live waiter; a key handed over without expiry.
HandoffNewest ==
  IF LiveWaiters = {} THEN lock' = None /\ lockTtl' = 0 /\ queue' = <<>>
  ELSE LET i == CHOOSE i \in LiveWaiters : \A j \in LiveWaiters : j <= i
       IN  Lock(queue[i], HandoffTtl) /\ queue' = SubSeq(queue, i + 1, Len(queue))

HandoffForever ==
  IF LiveWaiters = {} THEN lock' = None /\ lockTtl' = 0 /\ queue' = <<>>
  ELSE LET i == CHOOSE i \in LiveWaiters : \A j \in LiveWaiters : i <= j
       IN  Lock(queue[i], 0) /\ queue' = SubSeq(queue, i + 1, Len(queue))

\* fair_release.lua: pop and discard until a waiter has a heartbeat.
Handoff ==
  IF LiveWaiters = {} THEN lock' = None /\ lockTtl' = 0 /\ queue' = <<>>
  ELSE LET i == CHOOSE i \in LiveWaiters : \A j \in LiveWaiters : i <= j
       IN  Lock(queue[i], HandoffTtl) /\ queue' = SubSeq(queue, i + 1, Len(queue))

Released(t) ==
  /\ phase[t] = "releasing"
  /\ IF lock = t THEN Handoff ELSE UNCHANGED <<lock, lockTtl, queue>>
  /\ queueTtl' = IF queue' = <<>> THEN 0 ELSE queueTtl
  /\ Ended(t)
  /\ UNCHANGED hb

\* The detached task passes one key only: DEL, then an error at LLEN.
Dropped(t) ==
  /\ phase[t] = "dropping"
  /\ IF lock = t THEN lock' = None /\ lockTtl' = 0 ELSE UNCHANGED <<lock, lockTtl>>
  /\ Ended(t)
  /\ UNCHANGED <<queue, queueTtl, hb>>

ReleaseLost(t) ==
  /\ "error" \in Uses /\ phase[t] \in Ending
  /\ Ended(t)
  /\ UNCHANGED fair

Extend(t, x) == AskExtend(t, x) /\ UNCHANGED fair

\* extend.lua with one key: the owner's lease is extended, then the PEXPIRE of
\* the missing fence key raises an error; anybody else gets 0, and Lost.
ExtendRuns(t) ==
  /\ asked[t] # 0
  /\ IF lock = t
     THEN /\ lockTtl' = asked[t]
          /\ asked' = [asked EXCEPT ![t] = 0]
          /\ UNCHANGED <<phase, left, lease, fence>>
     ELSE Extended(t, FALSE) /\ UNCHANGED lockTtl
  /\ UNCHANGED <<lock, queue, queueTtl, hb>>

Tick ==
  /\ lockTtl' = Less(lockTtl)
  /\ lock' = IF lockTtl = 1 THEN None ELSE lock
  /\ queueTtl' = Less(queueTtl)
  /\ queue' = IF queueTtl = 1 THEN <<>> ELSE queue
  /\ hb' = [t \in Tokens |-> Less(hb[t])]
  /\ LeasesTick

Poll(t) == PollError(t) \/ \E x \in Ttls : PollGranted(t, x) \/ PollQueued(t, x)

Step(t) ==
  \/ Poll(t) \/ TryLockFor(t)
  \/ Release(t) \/ Drop(t) \/ Released(t) \/ Dropped(t) \/ ReleaseLost(t)
  \/ ExtendRuns(t) \/ \E x \in Ttls : Extend(t, x)

Next == Tick \/ \E t \in Tokens : Step(t)

Spec == Init /\ [][Next]_vars

\* Time passes, and a caller of try_lock_fair_for goes on polling.
Fairness == WF_vars(Tick) /\ \A t \in Tokens : WF_vars(Poll(t))

------------------------------------------------------------------------------
(* Properties. *)

Place(t) == IF Contains(queue, t) THEN CHOOSE i \in 1..Len(queue) : queue[i] = t
            ELSE Len(queue) + 1

\* ADR 0018: nobody gets the key, by a grant or by a hand-over, past an earlier
\* waiter with a heartbeat.
NoBarging ==
  [][\A t \in Tokens : lock' = t /\ lock # t =>
       \A i \in LiveWaiters : i >= Place(t)]_vars

\* Every caller that polls ends with the key or an error, although waiters give
\* up at any time, holders die and the key may be handed to one that is gone.
WaitersSettle == \A t \in Tokens : (phase[t] = "fresh") ~> (phase[t] # "fresh")

\* The key of a token that is gone (dead holder, or a waiter that gave up and
\* was handed the key) comes free.
GoneTokenLosesLock == \A t \in Tokens : (phase[t] = "gone" /\ lock = t) ~> (lock # t)

\* ADR 0018: a free key with a live waiter at the head of the queue is granted
\* to that waiter's own poll.
HeadWaiterServed ==
  [][\A t \in Tokens :
       lock = None /\ queue # <<>> /\ queue[1] = t /\ phase[t] = "fresh" =>
         phase'[t] # "gone"]_vars

\* No caller and no key is stuck.
FairGoesOn == WaitersSettle /\ GoneTokenLosesLock
==============================================================================
