------------------------------ MODULE WatchHub -------------------------------
(***************************************************************************)
(* The watch hub for one key: at most one poller and one broadcast channel *)
(* at a time, created by the first subscriber and retired by the poller    *)
(* when it finds no receiver.  Each subscriber has a forwarding task that  *)
(* holds the receiver.  The key's state is the number of its changes.      *)
(* Around it, LockService::watch: a slot of the principal's watcher quota  *)
(* before the subscription, and a task between the hub and the client that *)
(* holds the slot.                                                         *)
(***************************************************************************)
EXTENDS Integers, FiniteSets

CONSTANTS
  Subs,        \* calls of watch() or describe_key() by one principal
  Limits,      \* what its max_watchers may be, 0 without a limit
  MaxChanges,  \* bound on the changes of the key
  MaxErrors    \* bound on the probes that fail

VARIABLES
  changes,     \* state of the key in the store
  entry,       \* HubInner::keys: the channel of the key, 0 without an entry
  opened,      \* number of channels so far
  value,       \* what each channel broadcasts, -1 before the first probe
  poller,      \* where the poller of each channel is
  chan,        \* the channel that a forwarding task listens to, 0 without one
  marked,      \* the value its receiver has seen, -2 at first
  client,      \* where each call is, see Calls
  seen,        \* the last event it received, -1 without one
  watchers,    \* Principal::watchers
  limit,       \* Principal::max_watchers
  errors       \* history: probes that failed

store == <<changes, limit, errors>>
tasks == <<entry, opened, value, poller>>
vars == <<store, tasks, chan, marked, client, seen, watchers>>

Channels == 1..Cardinality(Subs)

\* "new", "denied": over the limit, counted until the fetch_sub; "slot": with
\* a WatcherGuard; "on": streaming; "left": the client is gone, the task of
\* watch() not yet; "off", "refused": over.
Calls == {"new", "denied", "slot", "on", "left", "off", "refused"}

TypeOK ==
  /\ changes \in 0..MaxChanges /\ entry \in 0..opened /\ opened \in 0..Cardinality(Subs)
  /\ value \in [Channels -> -1..MaxChanges]
  /\ poller \in [Channels -> {"off", "check", "retire", "probe", "sleep"}]
  /\ chan \in [Subs -> 0..opened]
  /\ marked \in [Subs -> -2..MaxChanges]
  /\ client \in [Subs -> Calls]
  /\ seen \in [Subs -> -1..MaxChanges]
  /\ watchers \in 0..Cardinality(Subs)
  /\ limit \in Limits
  /\ errors \in 0..MaxErrors

Init ==
  /\ changes = 0 /\ entry = 0 /\ opened = 0
  /\ value = [c \in Channels |-> -1]
  /\ poller = [c \in Channels |-> "off"]
  /\ chan = [s \in Subs |-> 0]
  /\ marked = [s \in Subs |-> -2]
  /\ client = [s \in Subs |-> "new"]
  /\ seen = [s \in Subs |-> -1]
  /\ watchers = 0
  /\ limit \in Limits
  /\ errors = 0

Receivers(c) == {s \in Subs : chan[s] = c}

\* Variant: prev > max.
CheckWatchOffByOne(s) ==
  /\ client[s] = "new"
  /\ watchers' = watchers + 1
  /\ client' = [client EXCEPT ![s] =
                  IF limit > 0 /\ watchers > limit THEN "denied" ELSE "slot"]
  /\ UNCHANGED <<store, tasks, chan, marked, seen>>

\* check_watch: fetch_add, then the limit against the previous value.
CheckWatch(s) ==
  /\ client[s] = "new"
  /\ watchers' = watchers + 1
  /\ client' = [client EXCEPT ![s] =
                  IF limit > 0 /\ watchers >= limit THEN "denied" ELSE "slot"]
  /\ UNCHANGED <<store, tasks, chan, marked, seen>>

\* The fetch_sub of a denied call; the guard of describe_key(), or of a call
\* that is cancelled before its subscription, is dropped.
GiveBack(s) ==
  /\ client[s] \in {"denied", "slot"}
  /\ watchers' = watchers - 1
  /\ client' = [client EXCEPT ![s] = "refused"]
  /\ UNCHANGED <<store, tasks, chan, marked, seen>>

\* Under the hub's mutex: the channel of the entry, or a new one with its poller.
Subscribe(s) ==
  /\ client[s] = "slot"
  /\ client' = [client EXCEPT ![s] = "on"]
  /\ IF entry # 0
     THEN /\ chan' = [chan EXCEPT ![s] = entry]
          /\ UNCHANGED <<entry, opened, poller>>
     ELSE /\ opened' = opened + 1
          /\ entry' = opened + 1
          /\ chan' = [chan EXCEPT ![s] = opened + 1]
          /\ poller' = [poller EXCEPT ![opened + 1] = "check"]
  /\ UNCHANGED <<store, value, marked, seen, watchers>>

\* The client drops its stream.
Disconnect(s) ==
  /\ client[s] = "on"
  /\ client' = [client EXCEPT ![s] = "left"]
  /\ UNCHANGED <<store, tasks, chan, marked, seen, watchers>>

\* Variant: the task of watch() has no branch for tx.closed().
StreamEndsByEvent(s) ==
  /\ client[s] = "left" /\ seen[s] # changes
  /\ client' = [client EXCEPT ![s] = "off"]
  /\ watchers' = watchers - 1
  /\ UNCHANGED <<store, tasks, chan, marked, seen>>

\* tx.closed(), or a send that fails: the task of watch() drops its guard and
\* its receiver.  The hub's forwarding task notices at its next event.
StreamEnds(s) ==
  /\ client[s] = "left"
  /\ client' = [client EXCEPT ![s] = "off"]
  /\ watchers' = watchers - 1
  /\ UNCHANGED <<store, tasks, chan, marked, seen>>

\* Variant: the task does not end when its consumer is gone.
ForwardForever(s) ==
  /\ chan[s] # 0
  /\ marked[s] # value[chan[s]]
  /\ marked' = [marked EXCEPT ![s] = value[chan[s]]]
  /\ seen' = IF client[s] \in {"on", "left"} THEN [seen EXCEPT ![s] = value[chan[s]]] ELSE seen
  /\ UNCHANGED <<store, tasks, chan, client, watchers>>

\* The forwarding task: borrow_and_update, send, changed().
Forward(s) ==
  /\ chan[s] # 0
  /\ marked[s] # value[chan[s]]
  /\ marked' = [marked EXCEPT ![s] = value[chan[s]]]
  /\ IF value[chan[s]] = -1 THEN UNCHANGED <<seen, chan>>
     ELSE IF client[s] \in {"on", "left"} THEN /\ seen' = [seen EXCEPT ![s] = value[chan[s]]]
                                   /\ UNCHANGED chan
     ELSE chan' = [chan EXCEPT ![s] = 0] /\ UNCHANGED seen
  /\ UNCHANGED <<store, tasks, client, watchers>>

\* receiver_count() without the mutex.
Check(c) ==
  /\ poller[c] = "check"
  /\ poller' = [poller EXCEPT ![c] = IF Receivers(c) = {} THEN "retire" ELSE "probe"]
  /\ UNCHANGED <<store, entry, opened, value, chan, marked, client, seen, watchers>>

\* Variant: no second look under the mutex.
RetireUnchecked(c) ==
  /\ poller[c] = "retire"
  /\ entry' = 0
  /\ poller' = [poller EXCEPT ![c] = "off"]
  /\ UNCHANGED <<store, opened, value, chan, marked, client, seen, watchers>>

\* Under the mutex, again: remove the entry and stop, or go on.
Retire(c) ==
  /\ poller[c] = "retire"
  /\ IF entry # 0 /\ Receivers(entry) = {}
     THEN entry' = 0 /\ poller' = [poller EXCEPT ![c] = "off"]
     ELSE poller' = [poller EXCEPT ![c] = "probe"] /\ UNCHANGED entry
  /\ UNCHANGED <<store, opened, value, chan, marked, client, seen, watchers>>

\* Variant: a state is broadcast once only.
ProbeOnce(c) ==
  /\ poller[c] = "probe"
  /\ value' = [value EXCEPT ![c] = IF @ = -1 THEN changes ELSE @]
  /\ poller' = [poller EXCEPT ![c] = "sleep"]
  /\ UNCHANGED <<store, entry, opened, chan, marked, client, seen, watchers>>

\* probe_state and send_if_modified; a failed probe sends nothing.
Probe(c) ==
  /\ poller[c] = "probe"
  /\ value' = [value EXCEPT ![c] = changes]
  /\ poller' = [poller EXCEPT ![c] = "sleep"]
  /\ UNCHANGED <<store, entry, opened, chan, marked, client, seen, watchers>>

ProbeFails(c) ==
  /\ poller[c] = "probe"
  /\ errors < MaxErrors
  /\ errors' = errors + 1
  /\ poller' = [poller EXCEPT ![c] = "sleep"]
  /\ UNCHANGED <<changes, limit, entry, opened, value, chan, marked, client, seen, watchers>>

Wake(c) ==
  /\ poller[c] = "sleep"
  /\ poller' = [poller EXCEPT ![c] = "check"]
  /\ UNCHANGED <<store, entry, opened, value, chan, marked, client, seen, watchers>>

\* The key is acquired or freed.
Change ==
  /\ changes < MaxChanges
  /\ changes' = changes + 1
  /\ UNCHANGED <<limit, errors, tasks, chan, marked, client, seen, watchers>>

\* The tasks of the service, for a call.
Answer(s) == GiveBack(s) \/ Subscribe(s) \/ StreamEnds(s)

Poll(c) == Check(c) \/ Retire(c) \/ Probe(c) \/ ProbeFails(c) \/ Wake(c)

\* Everybody left and the poller is gone, or nobody ever came.
Quiet == (\A c \in Channels : poller[c] = "off") /\ UNCHANGED vars

Next ==
  \/ Change \/ Quiet
  \/ \E s \in Subs : CheckWatch(s) \/ Answer(s) \/ Disconnect(s) \/ Forward(s)
  \/ \E c \in Channels : Poll(c)

Spec == Init /\ [][Next]_vars

\* The tasks run; MaxErrors keeps probes from failing for ever.
Fairness ==
  /\ \A s \in Subs : WF_vars(Forward(s)) /\ WF_vars(Answer(s))
  /\ \A c \in Channels : WF_vars(Poll(c))

------------------------------------------------------------------------------
(* Properties. *)

\* Whoever listens has a running poller, subscriptions that race the poller's
\* retirement included, and a key never has two pollers.
SubscribersArePolled ==
  /\ \A s \in Subs : chan[s] # 0 => poller[chan[s]] # "off"
  /\ \A c, d \in Channels : poller[c] # "off" /\ poller[d] # "off" => c = d

\* A consumer that stays sees the last state of a key that stops changing,
\* however slowly it reads and whatever it missed in between.
LastStateSeen ==
  \A s \in Subs : <>[](client[s] = "on" => seen[s] = changes) \/ []<>(client[s] # "on")

\* When the last consumer has gone and the key changes once more, the poller
\* and the hub's entry go too.
PollerRetires ==
  (\A s \in Subs : client[s] \in {"off", "refused"} /\ marked[s] # changes)
    ~> (entry = 0 /\ \A c \in Channels : poller[c] = "off")

\* The quota counter never drifts, denied and cancelled calls and calls in
\* between included, and never more streams run than max_watchers allows.
WatcherSlotsExact ==
  /\ watchers = Cardinality({s \in Subs : client[s] \in {"denied", "slot", "on", "left"}})
  /\ limit > 0 =>
       Cardinality({s \in Subs : client[s] \in {"slot", "on", "left"}}) <= limit

\* Once all clients have left, their principal has all its slots again, even
\* if the key never changes any more.
SlotsComeBack ==
  (\A s \in Subs : client[s] \in {"denied", "left", "off", "refused"}) ~> (watchers = 0)

\* The hub's entries and the quota describe the tasks that run.
HubConsistent == SubscribersArePolled /\ WatcherSlotsExact

\* What is left of watchers that are gone: no poller, no slot.
HubCleansUp == PollerRetires /\ SlotsComeBack
==============================================================================
