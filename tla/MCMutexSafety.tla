---------------------------- MODULE MCMutexSafety ----------------------------
(***************************************************************************)
(* The single-instance mutex in four settings for its safety properties; a *)
(* behaviour picks one of them.  The constants of this module are those of *)
(* the setting "fencing": no watchdogs, but remote clients, administrators, *)
(* explicit extensions and a fenced resource.                              *)
(***************************************************************************)
EXTENDS SingleMutex, TLC

CONSTANTS
  DogTtls, CowardlyTtls, BalancedTtls,  \* leases of the other settings
  OtherMult,                            \* their FENCE_TTL_MULTIPLIER
  SlowTimeout                           \* response_timeout where requests are slow

ASSUME SettingAssumption ==
  /\ DogTtls \cup CowardlyTtls \cup BalancedTtls \subseteq Nat \ {0}
  /\ OtherMult \in Nat /\ OtherMult >= 2
  /\ SlowTimeout \in Nat

VARIABLES setting, overdue

\* Watchdogs, backend errors and late requests.
Dogs == INSTANCE SingleMutex WITH
  Ttls <- DogTtls, FenceMult <- OtherMult, Policy <- [t \in Tokens |-> "Aggressive"],
  Uses <- [t \in Tokens |-> {"watchdog", "release", "drop", "error"}]

\* Requests as slow as can be.  The window of the Cowardly holders is negative,
\* that of the Balanced ones is not.
Cowardly == INSTANCE WatchdogTiming WITH
  Ttls <- CowardlyTtls, FenceMult <- OtherMult, RespTimeout <- SlowTimeout,
  Prompt <- TRUE, Policy <- [t \in Tokens |-> "Cowardly"],
  Uses <- [t \in Tokens |-> {"watchdog", "release", "error", "crash"}]
Balanced == INSTANCE WatchdogTiming WITH
  Ttls <- BalancedTtls, FenceMult <- OtherMult, RespTimeout <- SlowTimeout,
  Prompt <- TRUE, Policy <- [t \in Tokens |-> "Balanced"],
  Uses <- [t \in Tokens |-> {"watchdog", "release", "error", "crash"}]

SettingInit ==
  /\ setting \in {"dogs", "fencing", "cowardly", "balanced"}
  /\ Cowardly!TimedInit

SettingNext ==
  /\ \/ setting = "fencing" /\ Next /\ UNCHANGED overdue
     \/ setting = "dogs" /\ Dogs!Next /\ UNCHANGED overdue
     \/ setting = "cowardly" /\ Cowardly!TimedNext
     \/ setting = "balanced" /\ Balanced!TimedNext
  /\ UNCHANGED setting

SettingSpec == SettingInit /\ [][SettingNext]_<<vars, setting, overdue>>

Symmetry == Permutations(Tokens)
FencingUses ==
  [t \in Tokens |-> {"no watchdog", "release", "extend", "disarm", "force",
                     "write", "error"}]
AllBalanced == [t \in Tokens |-> "Balanced"]

\* Under Aggressive only a definitive refusal poisons a handle.
AggressivePoison == setting = "dogs" => Dogs!PoisonIsDefinitive

\* Nobody believes in a lost lease longer than the window of its policy.
StaleWindowBounded ==
  /\ setting = "cowardly" => Cowardly!StaleWindowBounded
  /\ setting = "balanced" => Balanced!StaleWindowBounded
==============================================================================
