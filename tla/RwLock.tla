------------------------------- MODULE RwLock --------------------------------
(***************************************************************************)
(* The reader-writer lock: one hash with a mode, the registered readers or *)
(* the writer, and one expiry for all of them.                             *)
(***************************************************************************)
EXTENDS Leases

VARIABLES
  rw,       \* the hash: mode, reader fields (or the owner), count, PTTL
  writers,  \* the attempts with write_mode
  lapsed    \* history: the attempts whose lease ran out under a live handle

vars == <<leaseVars, rw, writers, lapsed>>

Absent == [mode |-> "none", who |-> {}, readers |-> 0, ttl |-> 0]

TypeOK ==
  /\ LeasesTypeOK
  /\ rw \in [mode : {"none", "r", "w"}, who : SUBSET Tokens, readers : Nat, ttl : Nat]
  /\ writers \subseteq Tokens
  /\ lapsed \subseteq Tokens

Init == LeasesInit /\ rw = Absent /\ writers = {} /\ lapsed = {}

------------------------------------------------------------------------------
(* The scripts. *)

\* Variant: a reader may join a writer.
ReadAdmitsAlways(t) == t \notin rw.who

\* Denied while a writer holds, or for a token that is registered.
ReadAdmits(t) == rw.mode = "none" \/ (rw.mode = "r" /\ t \notin rw.who)

ReadAcquire(t, x) ==
  [mode |-> "r", who |-> rw.who \cup {t}, readers |-> rw.readers + 1, ttl |-> x]

\* Variant: a writer is denied by another writer only.
WriteAdmitsOverReaders(t) == rw.mode # "w" \/ rw.who = {t}

WriteAdmits(t) == rw.mode = "none" \/ (rw.mode = "w" /\ rw.who = {t})

WriteAcquire(t, x) == [mode |-> "w", who |-> {t}, readers |-> 0, ttl |-> x]

\* Variant: a late reader decrements the count, too.
ReadReleaseUnregistered(t, x) ==
  IF rw.mode # "r" THEN rw
  ELSE IF t \notin rw.who THEN [rw EXCEPT !.readers = IF @ > 1 THEN @ - 1 ELSE @]
  ELSE IF rw.readers - 1 <= 0 \/ x = 0 THEN Absent
  ELSE [mode |-> "r", who |-> rw.who \ {t}, readers |-> rw.readers - 1, ttl |-> x]

\* PEXPIRE with 0, as Drop passes it, deletes the key.
ReadRelease(t, x) ==
  IF rw.mode # "r" \/ t \notin rw.who THEN rw
  ELSE IF rw.readers - 1 <= 0 \/ x = 0 THEN Absent
  ELSE [mode |-> "r", who |-> rw.who \ {t}, readers |-> rw.readers - 1, ttl |-> x]

WriteRelease(t) == IF rw.mode = "w" /\ rw.who = {t} THEN Absent ELSE rw

\* In mode r every token may extend, registered or not.
Extends(t) == rw.mode = "r" \/ (rw.mode = "w" /\ rw.who = {t})

------------------------------------------------------------------------------
(* The operations. *)

TryRead(t, x) ==
  /\ phase[t] = "fresh"
  /\ ReadAdmits(t)
  /\ rw' = ReadAcquire(t, x)
  /\ Granted(t, x)
  /\ UNCHANGED <<writers, lapsed>>

TryWrite(t, x) ==
  /\ phase[t] = "fresh"
  /\ WriteAdmits(t)
  /\ rw' = WriteAcquire(t, x)
  /\ writers' = writers \cup {t}
  /\ Granted(t, x)
  /\ UNCHANGED lapsed

TryFor(t) == Abandoned(t) /\ UNCHANGED <<rw, writers, lapsed>>

Release(t) == "release" \in Uses /\ MarkGone(t, "releasing") /\ UNCHANGED <<rw, writers, lapsed>>

Drop(t) ==
  /\ "drop" \in Uses
  /\ MarkGone(t, "dropping")
  /\ UNCHANGED <<rw, writers, lapsed>>

\* The release request is served.
ReadReleased(t) ==
  /\ phase[t] \in Ending /\ t \notin writers
  /\ rw' = ReadRelease(t, IF phase[t] = "dropping" THEN 0 ELSE lease[t])
  /\ Ended(t)
  /\ UNCHANGED <<writers, lapsed>>

WriteReleased(t) ==
  /\ phase[t] \in Ending /\ t \in writers
  /\ rw' = WriteRelease(t)
  /\ Ended(t)
  /\ UNCHANGED <<writers, lapsed>>

ReleaseLost(t) ==
  /\ "error" \in Uses /\ phase[t] \in Ending
  /\ Ended(t)
  /\ UNCHANGED <<rw, writers, lapsed>>

Extend(t, x) == AskExtend(t, x) /\ UNCHANGED <<rw, writers, lapsed>>

ExtendRuns(t) ==
  /\ asked[t] # 0
  /\ rw' = IF Extends(t) THEN [rw EXCEPT !.ttl = asked[t]] ELSE rw
  /\ Extended(t, Extends(t))
  /\ UNCHANGED <<writers, lapsed>>

ExtendLost(t) == ExtendFails(t) /\ UNCHANGED <<rw, writers, lapsed>>

Tick ==
  /\ rw' = IF rw.ttl <= 1 THEN Absent ELSE [rw EXCEPT !.ttl = @ - 1]
  /\ LeasesTick
  /\ lapsed' = lapsed \cup {t \in Tokens : left[t] = 1}
  /\ UNCHANGED writers

Step(t) ==
  \/ \E x \in Ttls : TryRead(t, x) \/ TryWrite(t, x) \/ Extend(t, x)
  \/ TryFor(t) \/ Release(t) \/ Drop(t)
  \/ ReadReleased(t) \/ WriteReleased(t) \/ ReleaseLost(t)
  \/ ExtendRuns(t) \/ ExtendLost(t)

Next == Tick \/ \E t \in Tokens : Step(t)

Spec == Init /\ [][Next]_vars

------------------------------------------------------------------------------
(* Properties. *)

\* While a writer's lease runs the structure is its own: no reader or writer is
\* admitted next to it, and nothing that expired handles do (late releases, late
\* extends, drops) shortens or ends it.  About leases that never ran out: in mode
\* r the script extends anybody's, a writer's that is gone included.
WriterLeaseExclusive ==
  \A t \in writers \ lapsed : left[t] > 0 =>
    rw.mode = "w" /\ rw.who = {t} /\ rw.ttl >= left[t]

\* Late releases of expired readers never corrupt the reader count.
ReaderCountExact ==
  rw.readers = IF rw.mode = "r" THEN Cardinality(rw.who) ELSE 0

\* The structure covers the lease of reader t: no writer is admitted next to it.
Covered(t) == rw.mode = "r" /\ t \in rw.who /\ rw.ttl >= left[t]

\* A reader is registered as long as its lease runs, whatever writers and expired
\* handles do.  Only registered readers can cut it short, because one expiry
\* serves them all: by a Drop, which passes a refresh of 0 and deletes the
\* structure, or by asking for a shorter lease.
ReadersCutByReaders ==
  [][\A t \in Tokens \ (writers \cup lapsed) :
       left[t] > 0 /\ left'[t] > 0 /\ Covered(t) /\ ~ Covered(t)' =>
         \/ \E u \in rw.who \ {t} : phase[u] = "dropping" /\ phase'[u] = "gone"
         \/ rw'.mode = "r" /\ t \in rw'.who /\ rw'.ttl < rw.ttl]_vars

\* What try_read and try_write rely on.
ReadersAndWriters == WriterLeaseExclusive /\ ReaderCountExact
==============================================================================
