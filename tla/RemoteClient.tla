---------------------------- MODULE RemoteClient -----------------------------
(***************************************************************************)
(* The gRPC client of one process: its session with the heartbeat task,    *)
(* and its remote handles with their watchdogs, against a server that      *)
(* keeps sessions and the store's one key.  An RPC is one step with three  *)
(* outcomes: answered, applied with the answer lost, and not applied.      *)
(* What the server does inside a call is LockServer's subject.             *)
(*                                                                         *)
(* Tasks are prompt: time does not pass while a timer of a live process is *)
(* due.                                                                    *)
(***************************************************************************)
EXTENDS Integers, FiniteSets

CONSTANTS
  Tokens,      \* acquisitions
  Sessions,    \* sessions, in the order in which they are registered
  None,        \* no owner, no session
  LeaseTtl,    \* lease of the key, in ticks
  SessionTtl,  \* ttl of a session
  Renew,       \* LeaseTtl / RENEWAL_DIVISOR
  Cadence,     \* heartbeat cadence: SessionTtl / 3, at least 500 ms
  MaxFailures, \* MAX_CONSECUTIVE_RENEW_FAILURES
  MaxMisses,   \* bound on the misses that are counted
  ClientUses   \* which of the optional operations and faults occur

VARIABLES
  owner, ttl,  \* the key and its PTTL
  age,         \* ticks since each session was seen, -1 without a session
  boundTo,     \* the session each grant is bound to
  up,          \* the process runs
  session,     \* ClientInner::session
  beat,        \* timer of each heartbeat task, -1 without one
  misses,      \* history: heartbeats in a row that failed, up to MaxMisses
  moved,       \* history: with_token or with_history was called
  stage,       \* life of each acquisition and of its handle
  lost,        \* RemoteShared::lost and its channel
  dog,         \* timer of each watchdog, -1 without one
  failures     \* transient_failures

server == <<owner, ttl, age, boundTo>>
client == <<up, session, beat, misses, moved>>
handles == <<stage, lost, dog, failures>>
vars == <<server, client, handles>>

TypeOK ==
  /\ owner \in Tokens \cup {None} /\ ttl \in 0..LeaseTtl
  /\ age \in [Sessions -> -1..SessionTtl + 1]
  /\ boundTo \in [Tokens -> Sessions \cup {None}]
  /\ up \in BOOLEAN /\ moved \in BOOLEAN /\ session \in Sessions \cup {None}
  /\ beat \in [Sessions -> -1..Cadence] /\ misses \in [Sessions -> 0..MaxMisses]
  /\ stage \in [Tokens -> {"fresh", "live", "releasing", "gone"}]
  /\ lost \in [Tokens -> BOOLEAN]
  /\ dog \in [Tokens -> -1..Renew]
  /\ failures \in [Tokens -> 0..MaxFailures]

Init ==
  /\ owner = None /\ ttl = 0
  /\ age = [s \in Sessions |-> -1]
  /\ boundTo = [t \in Tokens |-> None]
  /\ up = TRUE /\ moved = FALSE /\ session = None
  /\ beat = [s \in Sessions |-> -1] /\ misses = [s \in Sessions |-> 0]
  /\ stage = [t \in Tokens |-> "fresh"]
  /\ lost = [t \in Tokens |-> FALSE]
  /\ dog = [t \in Tokens |-> -1]
  /\ failures = [t \in Tokens |-> 0]

Faulty == "error" \in ClientUses

\* unlock_with_token at the server.
Unlock(t) == IF owner = t THEN owner' = None /\ ttl' = 0 ELSE UNCHANGED <<owner, ttl>>

\* extend_with_token at the server.
ExtendAtServer(t) == ttl' = IF owner = t THEN LeaseTtl ELSE ttl

\* A session goes, and the keys bound to it are released.
EndSession(s) ==
  /\ age' = [age EXCEPT ![s] = -1]
  /\ IF owner # None /\ boundTo[owner] = s THEN Unlock(owner) ELSE UNCHANGED <<owner, ttl>>
  /\ UNCHANGED boundTo

------------------------------------------------------------------------------
(* The session. *)

\* Registers, stores the token and starts a heartbeat task; a second session
\* replaces the first one.
AttachSession(s) ==
  /\ up /\ age[s] = -1 /\ misses[s] = 0 /\ beat[s] = -1
  /\ s \notin {boundTo[t] : t \in Tokens}
  /\ session = None \/ "attach again" \in ClientUses
  /\ age' = [age EXCEPT ![s] = 0]
  /\ \/ session' = s /\ beat' = [beat EXCEPT ![s] = Cadence]
     \/ Faulty /\ UNCHANGED <<session, beat>>
  /\ UNCHANGED <<owner, ttl, boundTo, up, misses, moved, handles>>

\* Variant: the task ends with the first heartbeat that fails.
HeartbeatOnce(s) ==
  /\ up /\ beat[s] = 0 /\ session = s
  /\ \/ /\ age' = [age EXCEPT ![s] = IF @ = -1 THEN -1 ELSE 0]
        /\ misses' = [misses EXCEPT ![s] = 0]
        /\ beat' = [beat EXCEPT ![s] = Cadence]
     \/ /\ Faulty
        /\ misses' = [misses EXCEPT ![s] = IF @ = MaxMisses THEN @ ELSE @ + 1]
        /\ beat' = [beat EXCEPT ![s] = -1]
        /\ UNCHANGED age
  /\ UNCHANGED <<owner, ttl, boundTo, up, session, moved, handles>>

\* The heartbeat task wakes up.  Every answer is ignored, NotFound for a
\* session that the server has ended included.
Heartbeat(s) ==
  /\ up /\ beat[s] = 0 /\ session = s
  /\ \/ /\ age' = [age EXCEPT ![s] = IF @ = -1 THEN -1 ELSE 0]
        /\ misses' = [misses EXCEPT ![s] = 0]
     \/ /\ Faulty
        /\ misses' = [misses EXCEPT ![s] = IF @ = MaxMisses THEN @ ELSE @ + 1]
        /\ UNCHANGED age
  /\ beat' = [beat EXCEPT ![s] = Cadence]
  /\ UNCHANGED <<owner, ttl, boundTo, up, session, moved, handles>>

\* The session was closed or replaced: the task ends.
HeartbeatEnds(s) ==
  /\ up /\ beat[s] = 0 /\ session # s
  /\ beat' = [beat EXCEPT ![s] = -1]
  /\ UNCHANGED <<server, up, session, misses, moved, handles>>

\* The token is taken before the RPC, which may fail.
CloseSession ==
  /\ up /\ session # None
  /\ session' = None
  /\ \/ EndSession(session)
     \/ Faulty /\ UNCHANGED server
  /\ UNCHANGED <<up, beat, misses, moved, handles>>

\* with_token and with_history move ClientInner: Arc::make_mut leaves the Weak
\* of the heartbeat task without a target, and the task ends.
WithToken ==
  /\ "with token" \in ClientUses
  /\ up
  /\ beat' = [s \in Sessions |-> -1]
  /\ moved' = TRUE
  /\ UNCHANGED <<server, up, session, misses, handles>>

------------------------------------------------------------------------------
(* Locks. *)

\* Variant: the ttl does not reach the store.
TryLockNoTtl(t) ==
  /\ up /\ stage[t] = "fresh" /\ owner = None
  /\ session # None => age[session] # -1
  /\ owner' = t /\ ttl' = 0
  /\ boundTo' = [boundTo EXCEPT ![t] = session]
  /\ age' = IF session = None THEN age ELSE [age EXCEPT ![session] = 0]
  /\ stage' = [stage EXCEPT ![t] = "live"]
  /\ dog' = [dog EXCEPT ![t] = Renew]
  /\ UNCHANGED <<client, lost, failures>>

\* try_lock, or try_lock_for that the server polls: a session that the server
\* does not know makes it refuse; otherwise the grant is bound to the session.
TryLock(t) ==
  /\ up /\ stage[t] = "fresh" /\ owner = None
  /\ session # None => age[session] # -1
  /\ owner' = t /\ ttl' = LeaseTtl
  /\ boundTo' = [boundTo EXCEPT ![t] = session]
  /\ age' = IF session = None THEN age ELSE [age EXCEPT ![session] = 0]
  /\ \/ /\ stage' = [stage EXCEPT ![t] = "live"]
        /\ \/ dog' = [dog EXCEPT ![t] = Renew]
           \/ "no watchdog" \in ClientUses /\ UNCHANGED dog
     \/ Faulty /\ stage' = [stage EXCEPT ![t] = "gone"] /\ UNCHANGED dog
  /\ UNCHANGED <<client, lost, failures>>

TryLockFails(t) ==
  /\ up /\ stage[t] = "fresh"
  /\ stage' = [stage EXCEPT ![t] = "gone"]
  /\ UNCHANGED <<server, client, lost, dog, failures>>

MarkLost(t) == lost' = [lost EXCEPT ![t] = TRUE]

\* Variant: one failure more than the code bears.
SurrendersLate(n) == n > MaxFailures

Surrenders(n) == n >= MaxFailures

\* Variant: a refusal is taken for a transient failure that is not counted.
WatchdogForgives(t) ==
  /\ up /\ dog[t] = 0 /\ stage[t] = "live"
  /\ ExtendAtServer(t)
  /\ dog' = [dog EXCEPT ![t] = Renew]
  /\ UNCHANGED <<owner, age, boundTo, client, stage, lost, failures>>

\* The watchdog wakes up and finds a live handle: fire_extend.  release() may
\* run after it looked.
Watchdog(t) ==
  /\ up /\ dog[t] = 0 /\ stage[t] \in {"live", "releasing"}
  /\ ExtendAtServer(t)
  /\ IF owner = t
     THEN /\ failures' = [failures EXCEPT ![t] = 0]
          /\ dog' = [dog EXCEPT ![t] = Renew]
          /\ UNCHANGED lost
     ELSE /\ MarkLost(t)
          /\ dog' = [dog EXCEPT ![t] = -1]
          /\ UNCHANGED failures
  /\ UNCHANGED <<owner, age, boundTo, client, stage>>

WatchdogFails(t) ==
  /\ Faulty /\ up /\ dog[t] = 0 /\ stage[t] = "live"
  /\ ExtendAtServer(t) \/ UNCHANGED ttl
  /\ failures' = [failures EXCEPT ![t] = @ + 1]
  /\ IF Surrenders(failures'[t])
     THEN MarkLost(t) /\ dog' = [dog EXCEPT ![t] = -1]
     ELSE UNCHANGED lost /\ dog' = [dog EXCEPT ![t] = Renew]
  /\ UNCHANGED <<owner, age, boundTo, client, stage>>

\* The handle is released or dropped.
WatchdogEnds(t) ==
  /\ up /\ dog[t] = 0 /\ stage[t] # "live"
  /\ dog' = [dog EXCEPT ![t] = -1]
  /\ UNCHANGED <<server, client, stage, lost, failures>>

Extend(t) ==
  /\ "extend" \in ClientUses
  /\ up /\ stage[t] = "live"
  /\ ExtendAtServer(t)
  /\ IF owner = t THEN UNCHANGED lost ELSE MarkLost(t)
  /\ UNCHANGED <<owner, age, boundTo, client, stage, dog, failures>>

\* release() and Drop: mark_gone, then run_unlock, in a detached task for Drop.
Release(t) ==
  /\ up /\ stage[t] = "live"
  /\ stage' = [stage EXCEPT ![t] = "releasing"]
  /\ UNCHANGED <<server, client, lost, dog, failures>>

RunUnlock(t) ==
  /\ up /\ stage[t] = "releasing"
  /\ stage' = [stage EXCEPT ![t] = "gone"]
  /\ Unlock(t) \/ (Faulty /\ UNCHANGED <<owner, ttl>>)
  /\ UNCHANGED <<age, boundTo, client, lost, dog, failures>>

------------------------------------------------------------------------------
(* The rest of the world. *)

\* The server's sweeper, for a session that was silent longer than its ttl.
Sweep(s) ==
  /\ age[s] > SessionTtl
  /\ EndSession(s)
  /\ UNCHANGED <<client, handles>>

Crash ==
  /\ "crash" \in ClientUses
  /\ up
  /\ up' = FALSE
  /\ beat' = [s \in Sessions |-> -1]
  /\ dog' = [t \in Tokens |-> -1]
  /\ UNCHANGED <<server, session, misses, moved, stage, lost, failures>>

Down(n) == IF n > 0 THEN n - 1 ELSE n

Tick ==
  /\ \A s \in Sessions : beat[s] # 0
  /\ \A t \in Tokens : dog[t] # 0
  /\ ttl' = Down(ttl)
  /\ owner' = IF ttl = 1 THEN None ELSE owner
  /\ age' = [s \in Sessions |-> IF age[s] \in {-1, SessionTtl + 1} THEN age[s] ELSE age[s] + 1]
  /\ beat' = [s \in Sessions |-> Down(beat[s])]
  /\ dog' = [t \in Tokens |-> Down(dog[t])]
  /\ UNCHANGED <<boundTo, up, session, misses, moved, stage, lost, failures>>

Dog(t) == Watchdog(t) \/ WatchdogFails(t) \/ WatchdogEnds(t)

Beat(s) == Heartbeat(s) \/ HeartbeatEnds(s)

Process == Tick \/ Crash \/ CloseSession \/ WithToken
Session(s) == AttachSession(s) \/ Beat(s) \/ Sweep(s)
Handle(t) ==
  TryLock(t) \/ TryLockFails(t) \/ Dog(t) \/ Extend(t) \/ Release(t) \/ RunUnlock(t)

Next ==
  Process \/ (\E s \in Sessions : Session(s)) \/ (\E t \in Tokens : Handle(t))

Spec == Init /\ [][Next]_vars

\* Time passes and the tasks run; whether their RPCs succeed is left open.
Fairness ==
  /\ WF_vars(Tick)
  /\ \A s \in Sessions : WF_vars(Beat(s)) /\ WF_vars(Sweep(s))
  /\ \A t \in Tokens : WF_vars(Dog(t))

------------------------------------------------------------------------------
(* Properties. *)

\* The server sees a session of a running client grow old only by heartbeats
\* that failed: blips shorter than the session's ttl cost no session.  Not so
\* for a client that was moved, whose heartbeat task has ended unnoticed.
SilenceNeedsMisses ==
  up /\ ~ moved /\ session # None /\ age[session] # -1 =>
    misses[session] = MaxMisses \/ age[session] <= Cadence * (misses[session] + 1)

\* As long as a watchdog runs and reports nothing, the key is its own, whatever
\* RPCs failed, unless the session it is bound to has ended.
QuietWatchdogHolds ==
  \A t \in Tokens :
    /\ up /\ stage[t] = "live" /\ dog[t] # -1 /\ ~ lost[t]
    /\ boundTo[t] # None => age[boundTo[t]] # -1
    => owner = t

\* The handle of a key that is gone (session swept, lease over) is told so.
LossReachesHandle ==
  \A t \in Tokens :
    (up /\ stage[t] = "live" /\ dog[t] # -1 /\ owner # t)
      ~> (lost[t] \/ stage[t] # "live" \/ ~ up)

\* The keys of a client that crashed come free.
CrashFreesKeys == \A t \in Tokens : (~ up /\ owner = t) ~> (owner # t)

\* Failed calls cost a client neither session nor key until they have used up
\* what the timers allow.
HoldsSurviveBlips == SilenceNeedsMisses /\ QuietWatchdogHolds

\* What lost keys and crashed clients come to.
ClientRecovers == LossReachesHandle /\ CrashFreesKeys
==============================================================================
