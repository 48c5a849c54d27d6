----------------------------- MODULE Primitives ------------------------------
(***************************************************************************)
(* The Redis primitives side by side, and the history checker.  A          *)
(* behaviour picks one of them, the subject, which moves; the others stay  *)
(* in their initial states.  Tokens has the attempts of the larger         *)
(* instances, Few those of the smaller ones.                               *)
(***************************************************************************)
EXTENDS Leases, Sequences

CONSTANTS
  Lengths,                        \* lease durations, RwLock excepted
  Few,                            \* some of the Tokens
  MaxPermits,                     \* Semaphore
  Owners,                         \* Reentrant
  HbTtl, HandoffTtl, QueueMult,   \* FairLock
  Procs, Pair, Keys, MultiUses,   \* MultiLock; Pair has some of the Procs
  Parties, Waiters, Counts,       \* Latch
  WillTtls,                       \* Testament
  Workers, EventTtl,              \* History
  MaxFence, MaxGap, MaxEvents

ASSUME LengthsAssumption == Lengths \subseteq Nat \ {0}
ASSUME SomeAssumption == Few \subseteq Tokens /\ Pair \subseteq Procs

VARIABLES
  subject,
  rw, writers, lapsed,
  zset, score, zttl,
  hash, ownerOf, counted, spoilt,
  lock, lockTtl, queue, queueTtl, hb,
  want, owner, pc, have, cause, leaked,
  latch, at, initial, downs,
  holder, pttl, data, grant, will, willTtl, saying,
  history, active, accepted

rwVars == <<rw, writers, lapsed>>
semVars == <<zset, score, zttl>>
reVars == <<hash, ownerOf, counted, spoilt>>
fairVars == <<lock, lockTtl, queue, queueTtl, hb>>
multiVars == <<want, owner, pc, have, cause, leaked>>
latchVars == <<latch, at, initial, downs>>
willVars == <<holder, pttl, data, grant, will, willTtl, saying>>
logVars == <<history, active, accepted>>
vars == <<subject, leaseVars, rwVars, semVars, reVars, fairVars, multiVars, latchVars,
          willVars, logVars>>

Rw == INSTANCE RwLock
Sem == INSTANCE Semaphore WITH Ttls <- Lengths
Re == INSTANCE Reentrant WITH Ttls <- Lengths
Fair == INSTANCE FairLock WITH Ttls <- Lengths
Multi == INSTANCE MultiLock
Latch == INSTANCE Latch
Will == INSTANCE Testament WITH Ttls <- Lengths, owner <- holder
Log == INSTANCE History WITH Ttl <- EventTtl

Subjects == {"rw", "rw few", "sem", "re", "fair", "fair few", "multi", "multi few", "latch",
             "will", "history"}

Init ==
  /\ subject \in Subjects
  /\ Rw!Init /\ Sem!Init /\ Re!Init /\ Fair!Init /\ Latch!Init /\ Will!Init /\ Log!Init
  /\ Multi!Init
  /\ subject # "will" => data = [exists |-> FALSE, holds |-> FALSE]
  /\ subject \notin {"multi", "multi few"} => \A p \in Procs : want[p] = Keys
  /\ subject = "multi few" => \A p \in Procs \ Pair : want[p] = Keys

\* The variables of every primitive but one stay as they are.
Others(part) ==
  /\ IF part \in {"multi", "latch", "history"} THEN UNCHANGED leaseVars ELSE TRUE
  /\ IF part = "rw" THEN TRUE ELSE UNCHANGED rwVars
  /\ IF part = "sem" THEN TRUE ELSE UNCHANGED semVars
  /\ IF part = "re" THEN TRUE ELSE UNCHANGED reVars
  /\ IF part = "fair" THEN TRUE ELSE UNCHANGED fairVars
  /\ IF part = "multi" THEN TRUE ELSE UNCHANGED multiVars
  /\ IF part = "latch" THEN TRUE ELSE UNCHANGED latchVars
  /\ IF part = "will" THEN TRUE ELSE UNCHANGED willVars
  /\ IF part = "history" THEN TRUE ELSE UNCHANGED logVars

\* All attempts, without extensions; then some of them with every operation and fault.
RwNext == subject = "rw" /\ Rw!Next /\ UNCHANGED asked /\ Others("rw")
RwFewNext ==
  /\ subject = "rw few"
  /\ Rw!Tick \/ \E t \in Few : Rw!Step(t)
  /\ Others("rw")
SemNext == subject = "sem" /\ Sem!Next /\ Others("sem")
ReNext == subject = "re" /\ Re!Next /\ Others("re")
\* A holder that extends for ever starves the others: not for liveness.
FairNext == subject = "fair" /\ Fair!Next /\ UNCHANGED asked /\ Others("fair")
FairFewNext ==
  /\ subject = "fair few"
  /\ Fair!Tick \/ \E t \in Few : Fair!Step(t)
  /\ Others("fair")
\* All callers, whose releases reach Redis; then some of them with every fault.
MultiNext ==
  /\ subject = "multi"
  /\ Multi!Ended \/ (\E p \in Procs : Multi!Run(p) /\ UNCHANGED leaked)
  /\ Others("multi")
MultiFewNext ==
  /\ subject = "multi few"
  /\ \/ \E p \in Pair : Multi!Step(p)
     \/ \E k \in Keys : Multi!Expire(k)
     \/ (\A p \in Pair : pc[p] \in {"done", "failed"}) /\ UNCHANGED multiVars
  /\ Others("multi")
LatchNext == subject = "latch" /\ Latch!Next /\ Others("latch")
WillNext ==
  /\ subject = "will"
  /\ Will!ChangeData \/ Will!Tick \/ \E t \in Few : Will!Step(t)
  /\ Others("will")
HistoryNext == subject = "history" /\ Log!Next /\ Others("history")

Next ==
  /\ \/ RwNext \/ RwFewNext \/ SemNext \/ ReNext \/ FairNext \/ FairFewNext
     \/ MultiNext \/ MultiFewNext \/ LatchNext \/ WillNext \/ HistoryNext
  /\ UNCHANGED subject

fairAll == <<leaseVars, fairVars>>

\* The fairness of FairLock, MultiLock and Latch, for the subject.
Spec ==
  /\ Init /\ [][Next]_vars
  /\ WF_fairAll(subject = "fair" /\ Fair!Tick)
  /\ \A t \in Tokens : WF_fairAll(subject = "fair" /\ Fair!Poll(t))
  /\ \A p \in Procs : WF_multiVars(subject = "multi" /\ Multi!Run(p))
  /\ \A k \in Keys : WF_multiVars(subject = "multi" /\ Multi!Expire(k))
  /\ \A p \in Parties \cup Waiters : WF_latchVars(subject = "latch" /\ Latch!Call(p))

------------------------------------------------------------------------------
(* The properties, as the component modules state them. *)

IsRw == subject \in {"rw", "rw few"}
IsFair == subject \in {"fair", "fair few"}
IsMulti == subject \in {"multi", "multi few"}

\* Types of the structures and handles of the subject.
TypeOK ==
  /\ IsRw => Rw!TypeOK
  /\ subject = "sem" => Sem!TypeOK
  /\ subject = "re" => Re!TypeOK
  /\ IsFair => Fair!TypeOK
  /\ subject = "will" => Will!TypeOK

\* RwLock: writers are alone, and late releases keep the reader count.
ReadersAndWriters == IsRw => Rw!ReadersAndWriters

\* RwLock: only registered readers cut a reader's lease short.
ReadersCutByReaders == Rw!ReadersCutByReaders

\* Semaphore: never more running permits than max_permits, all in the set.
PermitsRespected == subject = "sem" => Sem!PermitsRespected

\* Reentrant: the count covers the running holds of an owner.
CountCoversHolds == subject = "re" => Re!CountCoversHolds

\* FairLock: nobody overtakes an earlier live waiter.
NoBarging == Fair!NoBarging

\* MultiLock: a call that failed or retries holds nothing.
NothingLeftBehind == IsMulti => Multi!NothingLeftBehind

\* Latch: a waiter passes only after the count-downs of the winning creator.
PassAfterAll == subject = "latch" => Latch!PassAfterAll

\* Testament: semantic and plain leases exclude each other.
LeaseOwnsKey == subject = "will" => Will!LeaseOwnsKey

\* Testament: no late will replaces a successor's.
WillsFollowGrants == Will!WillsFollowGrants

\* History: the checker's verdict is the definition's.
VerdictExact == subject = "history" => Log!VerdictExact

\* FairLock, MultiLock, Latch: no caller waits for ever, and no key is held for
\* ever by a caller that is gone.
CallersGoOn ==
  /\ subject = "fair" => Fair!FairGoesOn
  /\ subject = "multi" => Multi!EveryoneFinishes
  /\ subject = "latch" => Latch!WaitersPass
==============================================================================
