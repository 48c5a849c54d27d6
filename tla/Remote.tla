------------------------------- MODULE Remote --------------------------------
(***************************************************************************)
(* The parts that talk over a network, other than Redis clients, side by   *)
(* side: the etcd backend, the watch hub, the gRPC client and the server's *)
(* sweeper.  A behaviour picks one of them, the subject, which moves; the  *)
(* others stay in their initial states.                                    *)
(***************************************************************************)
EXTENDS Integers, FiniteSets

CONSTANTS
  Tokens, None,
  EtcdTtl, MaxSendErrors, EtcdUses,           \* EtcdLock
  Subs, Limits, MaxChanges, MaxProbeErrors,   \* WatchHub
  Sessions, LeaseTtl, SessionTtl, Renew,      \* RemoteClient
  Cadence, MaxFailures, MaxMisses,
  ClientUses, ManyUses,                       \* of few handles, of many
  First, Main,                                \* some of the Tokens, of the Sessions
  Keys, Principals, MaxKeys, SweepTtl, Uses   \* LockServer, for the Main sessions

ASSUME SomeAssumption == First \subseteq Tokens /\ Main \subseteq Sessions
ASSUME ManyAssumption == ManyUses \subseteq ClientUses
ASSUME SweepAssumption == SweepTtl \in Nat \ {0}

VARIABLES
  subject,
  \* EtcdLock
  owner, lease, revision, stage, issued, lost, watchdog, lastGrant, errors,
  \* WatchHub
  changes, entry, opened, value, poller, chan, marked, consumer, seen, watchers, limit,
  misprobed,
  \* RemoteClient
  held, ttl, age, boundTo, up, session, beat, misses, moved, life, told, dog, failures,
  \* LockServer
  keyOwner, pc, key, who, callSession, failed, ready, book, idle, locks, silent,
  expired, visiting, releasing, holders, counts, freeing, leaving

etcdVars == <<owner, lease, revision, stage, issued, lost, watchdog, lastGrant, errors>>
hubVars == <<changes, entry, opened, value, poller, chan, marked, consumer, seen, watchers,
             limit, misprobed>>
clientVars == <<held, ttl, age, boundTo, up, session, beat, misses, moved, life, told, dog,
                failures>>
serverVars == <<keyOwner, pc, key, who, callSession, failed, ready, book, idle, locks,
                silent, expired, visiting, releasing, holders, counts, freeing, leaving>>
vars == <<subject, etcdVars, hubVars, clientVars, serverVars>>

Etcd == INSTANCE EtcdLock WITH LeaseTtl <- EtcdTtl, MaxErrors <- MaxSendErrors
Hub == INSTANCE WatchHub WITH
  MaxErrors <- MaxProbeErrors, client <- consumer, errors <- misprobed
Client == INSTANCE RemoteClient WITH owner <- held, stage <- life, lost <- told
ClientMany == INSTANCE RemoteClient WITH
  ClientUses <- ManyUses, owner <- held, stage <- life, lost <- told
Server == INSTANCE LockServer WITH
  Grants <- Tokens, Sessions <- Main, SessionTtl <- SweepTtl,
  owner <- keyOwner, session <- callSession

Init ==
  /\ subject \in {"etcd", "hub", "client", "client many", "server"}
  /\ Etcd!Init /\ Hub!Init /\ Client!Init /\ Server!Init
  /\ subject # "hub" => limit = CHOOSE n \in Limits : TRUE

Others(part) ==
  /\ IF part = "etcd" THEN TRUE ELSE UNCHANGED etcdVars
  /\ IF part = "hub" THEN TRUE ELSE UNCHANGED hubVars
  /\ IF part = "client" THEN TRUE ELSE UNCHANGED clientVars
  /\ IF part = "server" THEN TRUE ELSE UNCHANGED serverVars

EtcdNext == subject = "etcd" /\ Etcd!Next /\ Others("etcd")
HubNext == subject = "hub" /\ Hub!Next /\ Others("hub")
\* Some handles and sessions; then all of them with the other operations.
ClientNext ==
  /\ subject = "client"
  /\ Client!Process \/ (\E s \in Main : Client!Session(s)) \/ (\E t \in First : Client!Handle(t))
  /\ Others("client")
ClientManyNext ==
  /\ subject = "client many"
  /\ \/ ClientMany!Process
     \/ \E s \in Sessions : ClientMany!Session(s)
     \/ \E t \in Tokens : ClientMany!Handle(t)
  /\ Others("client")
ServerNext == subject = "server" /\ Server!Next /\ Others("server")

Next ==
  /\ EtcdNext \/ HubNext \/ ClientNext \/ ClientManyNext \/ ServerNext
  /\ UNCHANGED subject

IsClient == subject \in {"client", "client many"}

\* The fairness of the components, for the subject.
Spec ==
  /\ Init /\ [][Next]_vars
  /\ WF_etcdVars(subject = "etcd" /\ Etcd!Tick)
  /\ \A t \in Tokens : /\ WF_etcdVars(subject = "etcd" /\ Etcd!OpenStream(t))
                       /\ WF_etcdVars(subject = "etcd" /\ Etcd!Dog(t))
  /\ \A s \in Subs : /\ WF_hubVars(subject = "hub" /\ Hub!Forward(s))
                     /\ WF_hubVars(subject = "hub" /\ Hub!Answer(s))
  /\ \A c \in Hub!Channels : WF_hubVars(subject = "hub" /\ Hub!Poll(c))
  /\ WF_clientVars(subject = "client" /\ Client!Tick)
  /\ \A s \in Main : /\ WF_clientVars(subject = "client" /\ Client!Beat(s))
                     /\ WF_clientVars(subject = "client" /\ Client!Sweep(s))
  /\ \A t \in First : WF_clientVars(subject = "client" /\ Client!Dog(t))
  /\ WF_serverVars(subject = "server" /\ Server!Tick)
  /\ WF_serverVars(subject = "server" /\ Server!SweepList)
  /\ WF_serverVars(subject = "server" /\ Server!SweepNext)
  /\ \A g \in Tokens : /\ WF_serverVars(subject = "server" /\ Server!Bind(g))
                       /\ WF_serverVars(subject = "server" /\ Server!Admit(g))
                       /\ WF_serverVars(subject = "server" /\ Server!Undo(g))
  /\ \A s \in Main : WF_serverVars(subject = "server" /\ Server!Sweeper(s))

------------------------------------------------------------------------------
(* The properties, as the component modules state them. *)

\* Types of the state of the subject.
TypeOK ==
  /\ subject = "etcd" => Etcd!TypeOK
  /\ subject = "hub" => Hub!TypeOK
  /\ IsClient => Client!TypeOK
  /\ subject = "server" => Server!TypeOK

\* EtcdLock implements LeaseLock, with revisions as fencing tokens.
ImplementsLeaseLock == Etcd!ImplementsLeaseLock

\* EtcdLock: losses are noticed, abandoned keys freed.
HandlesRecover == subject = "etcd" => Etcd!HandlesRecover

\* WatchHub: listeners have one poller, the quota is exact and kept.
HubConsistent == subject = "hub" => Hub!HubConsistent

\* WatchHub: a consumer that stays sees the last state.
LastStateSeen == subject = "hub" => Hub!LastStateSeen

\* WatchHub: the poller of a key that nobody watches retires, and the slots of
\* clients that left are free again.
HubCleansUp == subject = "hub" => Hub!HubCleansUp

\* RemoteClient: failed calls alone cost neither session nor key.
HoldsSurviveBlips == IsClient => Client!HoldsSurviveBlips

\* RemoteClient: the handle of a lost key is told, a crashed client's keys come
\* free.
ClientRecovers == subject = "client" => Client!ClientRecovers

\* LockServer: the sweeper frees the keys of a client that fell silent.
SilentSessionLosesLocks == subject = "server" => Server!SilentSessionLosesLocks
==============================================================================
