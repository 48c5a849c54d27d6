------------------------------ MODULE LockServer ------------------------------
(***************************************************************************)
(* One server process: the lock service's handlers, the session book with  *)
(* its sweeper, and the registry that enforces max_keys, over a store that *)
(* keeps one owner per key (LeaseLock).  The members of Grants are the     *)
(* try_lock calls; each would own its key under a token of its own.        *)
(*                                                                         *)
(* A step is what runs without another task in between: one script on the  *)
(* store, or one critical section of the book or of the registry.          *)
(***************************************************************************)
EXTENDS Integers, FiniteSets

CONSTANTS
  Grants,      \* try_lock and try_lock_for calls
  Keys,
  Principals,
  Sessions,    \* session tokens
  None,        \* no owner, no principal, or a call without a session
  MaxKeys,     \* PrincipalConfig::max_keys of every principal, 0: no ceiling
  SessionTtl,  \* ttl of every session, in ticks
  Uses         \* which of the optional operations and faults occur

ASSUME NoneAssumption ==
  None \notin Grants /\ None \notin Principals /\ None \notin Sessions
ASSUME MaxKeysAssumption == MaxKeys \in Nat
ASSUME SessionTtlAssumption == SessionTtl \in Nat \ {0}
ASSUME UsesAssumption ==
  Uses \subseteq {"expiry", "error", "force", "close", "silence", "drain"}

VARIABLES
  owner,       \* the store: the call whose token is in the lock key, or None
  \* the calls
  pc,          \* where the handler of each call is
  key, who, session,
  failed,      \* calls whose key is left to its lease by an error or a dropped request
  ready,       \* PalisadeService::ready
  \* SessionBook
  book,        \* whether each session is in the map
  idle,        \* ticks since last_seen, up to SessionTtl + 1
  locks,       \* SessionEntry::locks
  silent,      \* sessions whose client is dead
  expired,     \* the sweeper's list of sessions to visit
  visiting,    \* the session whose locks the sweeper releases now
  releasing,   \* what is left of a removed session's locks to release
  \* HeldRegistry
  holders, counts,
  freeing,     \* keys for which registry.release is about to be called, and by
               \* whom: a call that was unlocked, or None for an administrator
  leaving      \* release() calls between its two critical sections

calls    == <<pc, key, who, session, failed>>
sessions == <<book, idle, locks, silent, expired, visiting, releasing>>
registry == <<holders, counts, freeing, leaving>>
vars     == <<owner, calls, ready, sessions, registry>>

Held(p) == {k \in Keys : holders[k] = p}

\* The store's key is in the name of call g.
Owns(g) == \E k \in Keys : key[g] = k /\ owner[k] = g

------------------------------------------------------------------------------
(* The store. *)

\* unlock_with_token and release(): the ownership-checked script.
StoreRelease(g, k) == owner' = [owner EXCEPT ![k] = IF @ = g THEN None ELSE @]

LeaseExpires(k) ==
  /\ owner[k] # None
  /\ owner' = [owner EXCEPT ![k] = None]
  /\ UNCHANGED <<calls, ready, sessions, registry>>

------------------------------------------------------------------------------
(* try_lock and try_lock_for *)

\* check_ready, then the acquire script.  Held ends the call; so does an error
\* whose script ran all the same, or a client that hangs up on the handler.
TryLock(g, k, p, s) ==
  /\ pc[g] = "new" /\ ready
  /\ s # None => book[s] # "new" /\ s \notin silent
  /\ key' = [key EXCEPT ![g] = k]
  /\ who' = [who EXCEPT ![g] = p]
  /\ session' = [session EXCEPT ![g] = s]
  /\ \/ /\ owner[k] # None
        /\ pc' = [pc EXCEPT ![g] = "over"]
        /\ UNCHANGED <<owner, failed>>
     \/ /\ owner[k] = None
        /\ owner' = [owner EXCEPT ![k] = g]
        /\ \/ pc' = [pc EXCEPT ![g] = "acquired"] /\ UNCHANGED failed
           \/ /\ "error" \in Uses
              /\ pc' = [pc EXCEPT ![g] = "over"] /\ failed' = failed \cup {g}
  /\ UNCHANGED <<ready, sessions, registry>>

\* Variant: the answer of sessions.bind is not looked at.
BindUnchecked(g) ==
  /\ pc[g] = "acquired"
  /\ pc' = [pc EXCEPT ![g] = "bound"]
  /\ IF session[g] # None /\ book[session[g]] = "open"
     THEN /\ locks' = [locks EXCEPT ![session[g]] = @ \cup {<<key[g], g>>}]
          /\ idle' = [idle EXCEPT ![session[g]] = 0]
     ELSE UNCHANGED <<locks, idle>>
  /\ UNCHANGED <<owner, key, who, session, failed, ready, book, silent, expired,
                 visiting, releasing, registry>>

\* Variant: key and token, both strings, are handed to bind in the wrong order.
BindSwapped(g) ==
  /\ pc[g] = "acquired"
  /\ pc' = [pc EXCEPT ![g] = "bound"]
  /\ IF session[g] # None /\ book[session[g]] = "open"
     THEN /\ locks' = [locks EXCEPT ![session[g]] = @ \cup {<<g, key[g]>>}]
          /\ idle' = [idle EXCEPT ![session[g]] = 0]
     ELSE UNCHANGED <<locks, idle>>
  /\ UNCHANGED <<owner, key, who, session, failed, ready, book, silent, expired,
                 visiting, releasing, registry>>

\* sessions.bind refreshes last_seen, of an expired session too; without the
\* session the grant is undone.
Bind(g) ==
  /\ pc[g] = "acquired"
  /\ \/ /\ session[g] = None
        /\ pc' = [pc EXCEPT ![g] = "bound"]
        /\ UNCHANGED <<locks, idle>>
     \/ /\ session[g] # None /\ book[session[g]] = "open"
        /\ pc' = [pc EXCEPT ![g] = "bound"]
        /\ locks' = [locks EXCEPT ![session[g]] = @ \cup {<<key[g], g>>}]
        /\ idle' = [idle EXCEPT ![session[g]] = 0]
     \/ /\ session[g] # None /\ book[session[g]] = "gone"
        /\ pc' = [pc EXCEPT ![g] = "undo"]
        /\ UNCHANGED <<locks, idle>>
  /\ UNCHANGED <<owner, key, who, session, failed, ready, book, silent, expired,
                 visiting, releasing, registry>>

\* Variants: a call over the ceiling is refused without undoing its grant; a
\* key that is tracked already is counted again.
AdmitWithoutUndo(g) ==
  /\ pc[g] = "bound"
  /\ LET k == key[g] p == who[g] IN
     IF holders[k] = None /\ MaxKeys > 0 /\ counts[p] >= MaxKeys
     THEN pc' = [pc EXCEPT ![g] = "rejected"] /\ UNCHANGED <<holders, counts>>
     ELSE /\ pc' = [pc EXCEPT ![g] = "granted"]
          /\ holders' = [holders EXCEPT ![k] = IF @ = None THEN p ELSE @]
          /\ counts' = [counts EXCEPT ![p] = IF holders[k] = None THEN @ + 1 ELSE @]
  /\ UNCHANGED <<owner, key, who, session, failed, ready, sessions, freeing, leaving>>

AdmitCountsTwice(g) ==
  /\ pc[g] = "bound"
  /\ LET k == key[g] p == who[g] IN
     IF MaxKeys > 0 /\ counts[p] >= MaxKeys
     THEN pc' = [pc EXCEPT ![g] = "undo"] /\ UNCHANGED <<holders, counts>>
     ELSE /\ pc' = [pc EXCEPT ![g] = "granted"]
          /\ holders' = [holders EXCEPT ![k] = p]
          /\ counts' = [counts EXCEPT ![p] = @ + 1]
  /\ UNCHANGED <<owner, key, who, session, failed, ready, sessions, freeing, leaving>>

\* registry.try_acquire: a key that is tracked already passes; a principal at
\* its ceiling is refused and the grant undone; then disarm and the reply.
Admit(g) ==
  /\ pc[g] = "bound"
  /\ LET k == key[g] p == who[g] IN
     \/ /\ holders[k] # None
        /\ pc' = [pc EXCEPT ![g] = "granted"]
        /\ UNCHANGED <<holders, counts>>
     \/ /\ holders[k] = None /\ MaxKeys > 0 /\ counts[p] >= MaxKeys
        /\ pc' = [pc EXCEPT ![g] = "undo"]
        /\ UNCHANGED <<holders, counts>>
     \/ /\ holders[k] = None /\ (MaxKeys = 0 \/ counts[p] < MaxKeys)
        /\ pc' = [pc EXCEPT ![g] = "granted"]
        /\ holders' = [holders EXCEPT ![k] = p]
        /\ counts' = [counts EXCEPT ![p] = @ + 1]
  /\ UNCHANGED <<owner, key, who, session, failed, ready, sessions, freeing, leaving>>

\* h.release() of a call that is turned down; its error is ignored.
Undo(g) ==
  /\ pc[g] = "undo"
  /\ pc' = [pc EXCEPT ![g] = "rejected"]
  /\ \/ StoreRelease(g, key[g]) /\ UNCHANGED failed
     \/ "error" \in Uses /\ failed' = failed \cup {g} /\ UNCHANGED owner
  /\ UNCHANGED <<key, who, session, ready, sessions, registry>>

------------------------------------------------------------------------------
(* unlock and unlock_force *)

\* The client unlocks: registry.release only if the script released, and only
\* if the handler lives to see its answer.
Unlock(g) ==
  /\ pc[g] = "granted"
  /\ pc' = [pc EXCEPT ![g] = "over"]
  /\ StoreRelease(g, key[g])
  /\ \/ freeing' = IF Owns(g) THEN freeing \cup {<<key[g], g>>} ELSE freeing
     \/ "error" \in Uses /\ UNCHANGED freeing
  /\ UNCHANGED <<key, who, session, failed, ready, sessions, holders, counts, leaving>>

\* One administrator per key at a time.
UnlockForce(k) ==
  /\ <<k, None>> \notin freeing
  /\ owner' = [owner EXCEPT ![k] = None]
  /\ \/ freeing' = freeing \cup {<<k, None>>}
     \/ "error" \in Uses /\ UNCHANGED freeing
  /\ UNCHANGED <<calls, ready, sessions, holders, counts, leaving>>

\* HeldRegistry::release, first critical section: whoever is recorded under
\* the key by now loses the entry.
RegistryRemove(k, g) ==
  /\ <<k, g>> \in freeing
  /\ freeing' = freeing \ {<<k, g>>}
  /\ holders' = [holders EXCEPT ![k] = None]
  /\ leaving' = IF holders[k] = None THEN leaving
                ELSE [leaving EXCEPT ![holders[k]] = @ + 1]
  /\ UNCHANGED <<owner, calls, ready, sessions, counts>>

\* ... and the second: saturating_sub.
RegistryDecrement(p) ==
  /\ leaving[p] > 0
  /\ leaving' = [leaving EXCEPT ![p] = @ - 1]
  /\ counts' = [counts EXCEPT ![p] = IF @ = 0 THEN 0 ELSE @ - 1]
  /\ UNCHANGED <<owner, calls, ready, sessions, holders, freeing>>

------------------------------------------------------------------------------
(* Sessions. *)

Register(s) ==
  /\ book[s] = "new"
  /\ book' = [book EXCEPT ![s] = "open"]
  /\ idle' = [idle EXCEPT ![s] = 0]
  /\ UNCHANGED <<owner, calls, ready, locks, silent, expired, visiting, releasing,
                 registry>>

\* An accepted heartbeat, of an expired session too.
Heartbeat(s) ==
  /\ book[s] = "open" /\ s \notin silent
  /\ idle' = [idle EXCEPT ![s] = 0]
  /\ UNCHANGED <<owner, calls, ready, book, locks, silent, expired, visiting,
                 releasing, registry>>

\* The client of the session dies.
Silence(s) ==
  /\ book[s] = "open" /\ s \notin silent
  /\ silent' = silent \cup {s}
  /\ UNCHANGED <<owner, calls, ready, book, idle, locks, expired, visiting,
                 releasing, registry>>

\* Variant: the entry is dropped and its locks are forgotten.
RemoveForgets(s) ==
  /\ book' = [book EXCEPT ![s] = "gone"]
  /\ releasing' = [releasing EXCEPT ![s] = {}]
  /\ locks' = [locks EXCEPT ![s] = {}]

\* remove(): the entry leaves the map together with its locks.
Remove(s) ==
  /\ book' = [book EXCEPT ![s] = "gone"]
  /\ releasing' = [releasing EXCEPT ![s] = locks[s]]
  /\ locks' = [locks EXCEPT ![s] = {}]

Close(s) ==
  /\ book[s] = "open" /\ s \notin silent
  /\ Remove(s)
  /\ UNCHANGED <<owner, calls, ready, idle, silent, expired, visiting, registry>>

\* The client hangs up on close_session: its release_all stops where it is.
CloseDropped(s) ==
  /\ book[s] = "gone" /\ visiting # s /\ releasing[s] # {}
  /\ releasing' = [releasing EXCEPT ![s] = {}]
  /\ failed' = failed \cup {lock[2] : lock \in releasing[s]}
  /\ UNCHANGED <<owner, pc, key, who, session, ready, book, idle, locks, silent,
                 expired, visiting, registry>>

\* release_all: one of the removed locks; an error is skipped.
ReleaseBound(s, k, g) ==
  /\ <<k, g>> \in releasing[s]
  /\ releasing' = [releasing EXCEPT ![s] = @ \ {<<k, g>>}]
  /\ \/ StoreRelease(g, k) /\ UNCHANGED failed
     \/ "error" \in Uses /\ failed' = failed \cup {g} /\ UNCHANGED owner
  /\ UNCHANGED <<pc, key, who, session, ready, book, idle, locks, silent, expired,
                 visiting, registry>>

\* sweep_once: the list of expired sessions is made once, under the lock.
SweepList ==
  /\ expired = {} /\ visiting = None
  /\ \E s \in Sessions : book[s] = "open" /\ idle[s] > SessionTtl
  /\ expired' = {s \in Sessions : book[s] = "open" /\ idle[s] > SessionTtl}
  /\ UNCHANGED <<owner, calls, ready, book, idle, locks, silent, visiting,
                 releasing, registry>>

\* Each listed session that is still there is removed, its locks released, and
\* then the next is visited.
SweepVisit(s) ==
  /\ s \in expired /\ visiting = None
  /\ expired' = expired \ {s}
  /\ IF book[s] = "open"
     THEN Remove(s) /\ visiting' = s
     ELSE UNCHANGED <<book, releasing, locks, visiting>>
  /\ UNCHANGED <<owner, calls, ready, idle, silent, registry>>

SweepNext ==
  /\ visiting # None /\ releasing[visiting] = {}
  /\ visiting' = None
  /\ UNCHANGED <<owner, calls, ready, book, idle, locks, silent, expired,
                 releasing, registry>>

Drain ==
  /\ ready
  /\ ready' = FALSE
  /\ UNCHANGED <<owner, calls, sessions, registry>>

Tick ==
  /\ idle' = [s \in Sessions |-> IF book[s] = "open" /\ idle[s] <= SessionTtl
                                 THEN idle[s] + 1 ELSE idle[s]]
  /\ UNCHANGED <<owner, calls, ready, book, locks, silent, expired, visiting,
                 releasing, registry>>

------------------------------------------------------------------------------
Init ==
  /\ owner = [k \in Keys |-> None]
  /\ pc = [g \in Grants |-> "new"]
  /\ key = [g \in Grants |-> None]
  /\ who = [g \in Grants |-> None]
  /\ session = [g \in Grants |-> None]
  /\ failed = {}
  /\ ready = TRUE
  /\ book = [s \in Sessions |-> "new"]
  /\ idle = [s \in Sessions |-> 0]
  /\ locks = [s \in Sessions |-> {}]
  /\ silent = {}
  /\ expired = {}
  /\ visiting = None
  /\ releasing = [s \in Sessions |-> {}]
  /\ holders = [k \in Keys |-> None]
  /\ counts = [p \in Principals |-> 0]
  /\ freeing = {}
  /\ leaving = [p \in Principals |-> 0]

Handler(g) ==
  \/ \E k \in Keys, p \in Principals, s \in Sessions \cup {None} : TryLock(g, k, p, s)
  \/ Bind(g) \/ Admit(g) \/ Undo(g) \/ Unlock(g)

Registry ==
  \/ \E k \in Keys, g \in Grants \cup {None} : RegistryRemove(k, g)
  \/ \E p \in Principals : RegistryDecrement(p)
  \/ "force" \in Uses /\ \E k \in Keys : UnlockForce(k)

Client(s) ==
  \/ Register(s) \/ Heartbeat(s)
  \/ "close" \in Uses /\ Close(s)
  \/ "error" \in Uses /\ CloseDropped(s)
  \/ "silence" \in Uses /\ Silence(s)

Sweeper(s) ==
  \/ SweepVisit(s)
  \/ \E k \in Keys, g \in Grants : ReleaseBound(s, k, g)

Next ==
  \/ Tick \/ SweepList \/ SweepNext \/ Registry
  \/ "drain" \in Uses /\ Drain
  \/ "expiry" \in Uses /\ \E k \in Keys : LeaseExpires(k)
  \/ \E g \in Grants : Handler(g)
  \/ \E s \in Sessions : Client(s) \/ Sweeper(s)

Spec == Init /\ [][Next]_vars

\* Time passes, handlers that started are carried on, and the sweeper runs.
Fairness ==
  /\ WF_vars(Tick) /\ WF_vars(SweepList) /\ WF_vars(SweepNext)
  /\ \A g \in Grants : WF_vars(Bind(g)) /\ WF_vars(Admit(g)) /\ WF_vars(Undo(g))
  /\ \A s \in Sessions : WF_vars(Sweeper(s))

------------------------------------------------------------------------------
(* Properties. *)

TypeOK ==
  /\ owner \in [Keys -> Grants \cup {None}]
  /\ pc \in [Grants -> {"new", "acquired", "bound", "undo", "granted", "rejected",
                        "over"}]
  /\ key \in [Grants -> Keys \cup {None}]
  /\ who \in [Grants -> Principals \cup {None}]
  /\ session \in [Grants -> Sessions \cup {None}]
  /\ failed \subseteq Grants
  /\ ready \in BOOLEAN
  /\ book \in [Sessions -> {"new", "open", "gone"}]
  /\ idle \in [Sessions -> 0 .. SessionTtl + 1]
  /\ locks \in [Sessions -> SUBSET (Keys \X Grants)]
  /\ silent \subseteq Sessions
  /\ expired \subseteq Sessions
  /\ visiting \in Sessions \cup {None}
  /\ releasing \in [Sessions -> SUBSET (Keys \X Grants)]
  /\ holders \in [Keys -> Principals \cup {None}]
  /\ counts \in [Principals -> Nat]
  /\ freeing \subseteq Keys \X (Grants \cup {None})
  /\ leaving \in [Principals -> Nat]

\* The registry's two maps agree, up to the release() calls that are between
\* their two critical sections: no slot is counted twice or freed twice.
CountsMatchHolders ==
  \A p \in Principals : counts[p] = Cardinality(Held(p)) + leaving[p]

\* Once its session is gone, a call keeps its key only until release_all has
\* come to it: no lock is bound to a session that nobody will release.
SessionEndReleasesLocks ==
  \A g \in Grants :
    (/\ pc[g] \in {"bound", "granted"} /\ session[g] # None
     /\ book[session[g]] = "gone" /\ Owns(g))
      => <<key[g], g>> \in releasing[session[g]] \/ g \in failed

\* A call answered with NotFound or ResourceExhausted does not keep the key,
\* unless the store refused to take it back.
RejectedLeavesNothing ==
  \A g \in Grants : pc[g] = "rejected" => ~Owns(g) \/ g \in failed

\* "A crashed client's locks therefore die": the key of a client that went
\* silent is released by the sweeper, whatever its lease.
SilentSessionLosesLocks ==
  \A g \in Grants, s \in Sessions :
    (s \in silent /\ session[g] = s /\ Owns(g)) ~> (~Owns(g) \/ g \in failed)

\* "max_keys (concurrent holds)" (docs/decisions/0028): no principal holds
\* more keys than its ceiling.
QuotaRespected ==
  MaxKeys > 0 =>
    \A p \in Principals :
      Cardinality({g \in Grants : pc[g] = "granted" /\ who[g] = p /\ Owns(g)})
        <= MaxKeys
==============================================================================
