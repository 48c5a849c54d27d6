-------------------------- MODULE MutexSafetyProofs ---------------------------
(***************************************************************************)
(* The four settings of the single-instance mutex: what is proved for the  *)
(* mutex and for its watchdogs holds in each setting that it applies to,   *)
(* for any number of tokens, any leases and any timeouts.                  *)
(***************************************************************************)
EXTENDS MCMutexSafety, SingleMutexProofs

\* The proofs for the constants of each of the other settings.
DogsProofs == INSTANCE SingleMutexProofs WITH
  Ttls <- DogTtls, FenceMult <- OtherMult, Policy <- [t \in Tokens |-> "Aggressive"],
  Uses <- [t \in Tokens |-> {"watchdog", "release", "drop", "error"}]
CowardlyProofs == INSTANCE WatchdogTimingProofs WITH
  Ttls <- CowardlyTtls, FenceMult <- OtherMult, RespTimeout <- SlowTimeout,
  Prompt <- TRUE, Policy <- [t \in Tokens |-> "Cowardly"],
  Uses <- [t \in Tokens |-> {"watchdog", "release", "error", "crash"}]
BalancedProofs == INSTANCE WatchdogTimingProofs WITH
  Ttls <- BalancedTtls, FenceMult <- OtherMult, RespTimeout <- SlowTimeout,
  Prompt <- TRUE, Policy <- [t \in Tokens |-> "Balanced"],
  Uses <- [t \in Tokens |-> {"watchdog", "release", "error", "crash"}]

\* The settings have the constants that the mutex assumes.
LEMMA SettingConstants ==
  /\ DogTtls \subseteq Nat \ {0} /\ CowardlyTtls \subseteq Nat \ {0}
  /\ BalancedTtls \subseteq Nat \ {0} /\ TRUE \in BOOLEAN
  /\ [t \in Tokens |-> "Aggressive"] \in [Tokens -> {"Cowardly", "Balanced", "Aggressive"}]
  /\ [t \in Tokens |-> "Cowardly"] \in [Tokens -> {"Cowardly", "Balanced", "Aggressive"}]
  /\ [t \in Tokens |-> "Balanced"] \in [Tokens -> {"Cowardly", "Balanced", "Aggressive"}]
  /\ [t \in Tokens |-> {"watchdog", "release", "drop", "error"}]
       \in [Tokens -> SUBSET {"watchdog", "no watchdog", "extend", "release", "drop", "disarm",
                              "force", "write", "error", "crash"}]
  /\ [t \in Tokens |-> {"watchdog", "release", "error", "crash"}]
       \in [Tokens -> SUBSET {"watchdog", "no watchdog", "extend", "release", "drop", "disarm",
                              "force", "write", "error", "crash"}]
  BY SettingAssumption

\* Both instances of the mutex, that of the setting and that of the proofs, have
\* the same steps.
LEMMA DogsStep == [Dogs!Next]_(Dogs!vars) => [DogsProofs!Next]_(DogsProofs!vars)
  BY
  DEF Dogs!store, DogsProofs!store, Dogs!net, DogsProofs!net, Dogs!client, DogsProofs!client,
      Dogs!history, DogsProofs!history, Dogs!resource, DogsProofs!resource, Dogs!vars,
      DogsProofs!vars, Dogs!Calls, DogsProofs!Calls, Dogs!MaxTransient, DogsProofs!MaxTransient,
      Dogs!Surrenders, DogsProofs!Surrenders, Dogs!Unserved, DogsProofs!Unserved, Dogs!GiveUp,
      DogsProofs!GiveUp, Dogs!Send, DogsProofs!Send, Dogs!Return, DogsProofs!Return,
      Dogs!AcquireScript, DogsProofs!AcquireScript, Dogs!ExtendScript, DogsProofs!ExtendScript,
      Dogs!ReleaseScript, DogsProofs!ReleaseScript, Dogs!RunScript, DogsProofs!RunScript,
      Dogs!Accepts, DogsProofs!Accepts, Dogs!Serve, DogsProofs!Serve, Dogs!ServeOrphan,
      DogsProofs!ServeOrphan, Dogs!ForceUnlock, DogsProofs!ForceUnlock, Dogs!TryLock,
      DogsProofs!TryLock, Dogs!TryLockGranted, DogsProofs!TryLockGranted, Dogs!TryLockHeld,
      DogsProofs!TryLockHeld, Dogs!TryLockError, DogsProofs!TryLockError, Dogs!Extend,
      DogsProofs!Extend, Dogs!ExtendReturn, DogsProofs!ExtendReturn, Dogs!ExtendError,
      DogsProofs!ExtendError, Dogs!Release, DogsProofs!Release, Dogs!ReleaseReturn,
      DogsProofs!ReleaseReturn, Dogs!ReleaseError, DogsProofs!ReleaseError, Dogs!Disarm,
      DogsProofs!Disarm, Dogs!TokenCall, DogsProofs!TokenCall, Dogs!DetachedRelease,
      DogsProofs!DetachedRelease, Dogs!DropHandle, DogsProofs!DropHandle, Dogs!Crash,
      DogsProofs!Crash, Dogs!WatchdogExit, DogsProofs!WatchdogExit, Dogs!WatchdogRenew,
      DogsProofs!WatchdogRenew, Dogs!EndIteration, DogsProofs!EndIteration, Dogs!WatchdogReturn,
      DogsProofs!WatchdogReturn, Dogs!WatchdogError, DogsProofs!WatchdogError, Dogs!FencedWrite,
      DogsProofs!FencedWrite, Dogs!Due, DogsProofs!Due, Dogs!Less, DogsProofs!Less, Dogs!Tick,
      DogsProofs!Tick, Dogs!Network, DogsProofs!Network, Dogs!Acquisition,
      DogsProofs!Acquisition, Dogs!User, DogsProofs!User, Dogs!Watchdog, DogsProofs!Watchdog,
      Dogs!Fault, DogsProofs!Fault, Dogs!Next, DogsProofs!Next

\* The same for the timed steps of the Cowardly holders.
LEMMA CowardlyStep ==
  [Cowardly!TimedNext]_(Cowardly!timedVars)
    => [CowardlyProofs!TimedNext]_(CowardlyProofs!timedVars)
  BY
  DEF Cowardly!store, CowardlyProofs!store, Cowardly!net, CowardlyProofs!net, Cowardly!client,
      CowardlyProofs!client, Cowardly!history, CowardlyProofs!history, Cowardly!resource,
      CowardlyProofs!resource, Cowardly!vars, CowardlyProofs!vars, Cowardly!Calls,
      CowardlyProofs!Calls, Cowardly!MaxTransient, CowardlyProofs!MaxTransient,
      Cowardly!Surrenders, CowardlyProofs!Surrenders, Cowardly!Unserved,
      CowardlyProofs!Unserved, Cowardly!GiveUp, CowardlyProofs!GiveUp, Cowardly!Send,
      CowardlyProofs!Send, Cowardly!Return, CowardlyProofs!Return, Cowardly!AcquireScript,
      CowardlyProofs!AcquireScript, Cowardly!ExtendScript, CowardlyProofs!ExtendScript,
      Cowardly!ReleaseScript, CowardlyProofs!ReleaseScript, Cowardly!RunScript,
      CowardlyProofs!RunScript, Cowardly!Accepts, CowardlyProofs!Accepts, Cowardly!Serve,
      CowardlyProofs!Serve, Cowardly!ServeOrphan, CowardlyProofs!ServeOrphan,
      Cowardly!ForceUnlock, CowardlyProofs!ForceUnlock, Cowardly!TryLock,
      CowardlyProofs!TryLock, Cowardly!TryLockGranted, CowardlyProofs!TryLockGranted,
      Cowardly!TryLockHeld, CowardlyProofs!TryLockHeld, Cowardly!TryLockError,
      CowardlyProofs!TryLockError, Cowardly!Extend, CowardlyProofs!Extend,
      Cowardly!ExtendReturn, CowardlyProofs!ExtendReturn, Cowardly!ExtendError,
      CowardlyProofs!ExtendError, Cowardly!Release, CowardlyProofs!Release,
      Cowardly!ReleaseReturn, CowardlyProofs!ReleaseReturn, Cowardly!ReleaseError,
      CowardlyProofs!ReleaseError, Cowardly!Disarm, CowardlyProofs!Disarm, Cowardly!TokenCall,
      CowardlyProofs!TokenCall, Cowardly!DetachedRelease, CowardlyProofs!DetachedRelease,
      Cowardly!DropHandle, CowardlyProofs!DropHandle, Cowardly!Crash, CowardlyProofs!Crash,
      Cowardly!WatchdogExit, CowardlyProofs!WatchdogExit, Cowardly!WatchdogRenew,
      CowardlyProofs!WatchdogRenew, Cowardly!EndIteration, CowardlyProofs!EndIteration,
      Cowardly!WatchdogReturn, CowardlyProofs!WatchdogReturn, Cowardly!WatchdogError,
      CowardlyProofs!WatchdogError, Cowardly!FencedWrite, CowardlyProofs!FencedWrite,
      Cowardly!Due, CowardlyProofs!Due, Cowardly!Less, CowardlyProofs!Less, Cowardly!Tick,
      CowardlyProofs!Tick, Cowardly!Network, CowardlyProofs!Network, Cowardly!Acquisition,
      CowardlyProofs!Acquisition, Cowardly!User, CowardlyProofs!User, Cowardly!Watchdog,
      CowardlyProofs!Watchdog, Cowardly!Fault, CowardlyProofs!Fault, Cowardly!Next,
      CowardlyProofs!Next, Cowardly!Believes, CowardlyProofs!Believes, Cowardly!TimedNext,
      CowardlyProofs!TimedNext, Cowardly!timedVars, CowardlyProofs!timedVars

\* The same for the Balanced holders.
LEMMA BalancedStep ==
  [Balanced!TimedNext]_(Balanced!timedVars)
    => [BalancedProofs!TimedNext]_(BalancedProofs!timedVars)
  BY
  DEF Balanced!store, BalancedProofs!store, Balanced!net, BalancedProofs!net, Balanced!client,
      BalancedProofs!client, Balanced!history, BalancedProofs!history, Balanced!resource,
      BalancedProofs!resource, Balanced!vars, BalancedProofs!vars, Balanced!Calls,
      BalancedProofs!Calls, Balanced!MaxTransient, BalancedProofs!MaxTransient,
      Balanced!Surrenders, BalancedProofs!Surrenders, Balanced!Unserved,
      BalancedProofs!Unserved, Balanced!GiveUp, BalancedProofs!GiveUp, Balanced!Send,
      BalancedProofs!Send, Balanced!Return, BalancedProofs!Return, Balanced!AcquireScript,
      BalancedProofs!AcquireScript, Balanced!ExtendScript, BalancedProofs!ExtendScript,
      Balanced!ReleaseScript, BalancedProofs!ReleaseScript, Balanced!RunScript,
      BalancedProofs!RunScript, Balanced!Accepts, BalancedProofs!Accepts, Balanced!Serve,
      BalancedProofs!Serve, Balanced!ServeOrphan, BalancedProofs!ServeOrphan,
      Balanced!ForceUnlock, BalancedProofs!ForceUnlock, Balanced!TryLock,
      BalancedProofs!TryLock, Balanced!TryLockGranted, BalancedProofs!TryLockGranted,
      Balanced!TryLockHeld, BalancedProofs!TryLockHeld, Balanced!TryLockError,
      BalancedProofs!TryLockError, Balanced!Extend, BalancedProofs!Extend,
      Balanced!ExtendReturn, BalancedProofs!ExtendReturn, Balanced!ExtendError,
      BalancedProofs!ExtendError, Balanced!Release, BalancedProofs!Release,
      Balanced!ReleaseReturn, BalancedProofs!ReleaseReturn, Balanced!ReleaseError,
      BalancedProofs!ReleaseError, Balanced!Disarm, BalancedProofs!Disarm, Balanced!TokenCall,
      BalancedProofs!TokenCall, Balanced!DetachedRelease, BalancedProofs!DetachedRelease,
      Balanced!DropHandle, BalancedProofs!DropHandle, Balanced!Crash, BalancedProofs!Crash,
      Balanced!WatchdogExit, BalancedProofs!WatchdogExit, Balanced!WatchdogRenew,
      BalancedProofs!WatchdogRenew, Balanced!EndIteration, BalancedProofs!EndIteration,
      Balanced!WatchdogReturn, BalancedProofs!WatchdogReturn, Balanced!WatchdogError,
      BalancedProofs!WatchdogError, Balanced!FencedWrite, BalancedProofs!FencedWrite,
      Balanced!Due, BalancedProofs!Due, Balanced!Less, BalancedProofs!Less, Balanced!Tick,
      BalancedProofs!Tick, Balanced!Network, BalancedProofs!Network, Balanced!Acquisition,
      BalancedProofs!Acquisition, Balanced!User, BalancedProofs!User, Balanced!Watchdog,
      BalancedProofs!Watchdog, Balanced!Fault, BalancedProofs!Fault, Balanced!Next,
      BalancedProofs!Next, Balanced!Believes, BalancedProofs!Believes, Balanced!TimedNext,
      BalancedProofs!TimedNext, Balanced!timedVars, BalancedProofs!timedVars

\* A behaviour starts as a mutex does, whatever its setting.
LEMMA SettingStart ==
  SettingInit => /\ Init /\ DogsProofs!Init
                 /\ CowardlyProofs!TimedInit /\ BalancedProofs!TimedInit
  BY
  DEF SettingInit, Init, Calls, DogsProofs!Init, DogsProofs!Calls,
      Cowardly!TimedInit, Cowardly!Init, Cowardly!Calls,
      CowardlyProofs!TimedInit, CowardlyProofs!Init, CowardlyProofs!Calls,
      BalancedProofs!TimedInit, BalancedProofs!Init, BalancedProofs!Calls

\* Every step is one of the setting, and the setting stays.
LEMMA SettingMoves ==
  ASSUME [SettingNext]_<<vars, setting, overdue>>
  PROVE  /\ setting' = setting
         /\ setting = "fencing" => [Next]_vars
         /\ setting = "dogs" => [Dogs!Next]_(Dogs!vars)
         /\ setting = "cowardly" => [Cowardly!TimedNext]_(Cowardly!timedVars)
         /\ setting = "balanced" => [Balanced!TimedNext]_(Balanced!timedVars)
  <1>1. CASE SettingNext
    BY <1>1 DEF SettingNext
  <1>2. CASE UNCHANGED <<vars, setting, overdue>>
    BY <1>2
    DEF vars, store, net, client, history, resource,
        Dogs!vars, Dogs!store, Dogs!net, Dogs!client, Dogs!history, Dogs!resource,
        Cowardly!timedVars, Cowardly!vars, Cowardly!store, Cowardly!net, Cowardly!client,
        Cowardly!history, Cowardly!resource,
        Balanced!timedVars, Balanced!vars, Balanced!store, Balanced!net, Balanced!client,
        Balanced!history, Balanced!resource
  <1>. QED
    BY <1>1, <1>2

\* So a behaviour satisfies the specification of its setting.
LEMMA SettingSpecs ==
  SettingSpec => /\ setting = "fencing" => Spec
                 /\ setting = "dogs" => DogsProofs!Spec
                 /\ setting = "cowardly" => CowardlyProofs!TimedSpec
                 /\ setting = "balanced" => BalancedProofs!TimedSpec
  <1>1. setting = "fencing" /\ [SettingNext]_<<vars, setting, overdue>>
          => [Next]_vars /\ (setting = "fencing")'
    BY SettingMoves
  <1>2. setting = "dogs" /\ [SettingNext]_<<vars, setting, overdue>>
          => [DogsProofs!Next]_(DogsProofs!vars) /\ (setting = "dogs")'
    BY SettingMoves, DogsStep
  <1>3. setting = "cowardly" /\ [SettingNext]_<<vars, setting, overdue>>
          => [CowardlyProofs!TimedNext]_(CowardlyProofs!timedVars) /\ (setting = "cowardly")'
    BY SettingMoves, CowardlyStep
  <1>4. setting = "balanced" /\ [SettingNext]_<<vars, setting, overdue>>
          => [BalancedProofs!TimedNext]_(BalancedProofs!timedVars) /\ (setting = "balanced")'
    BY SettingMoves, BalancedStep
  <1>. QED
    BY <1>1, <1>2, <1>3, <1>4, SettingStart, PTL
    DEF SettingSpec, Spec, DogsProofs!Spec, CowardlyProofs!TimedSpec, BalancedProofs!TimedSpec

\* A behaviour never changes into one of another setting.
LEMMA SettingStays ==
  [SettingNext]_<<vars, setting, overdue>> =>
    /\ ~(setting = "dogs") => (~(setting = "dogs"))'
    /\ ~(setting = "cowardly") => (~(setting = "cowardly"))'
    /\ ~(setting = "balanced") => (~(setting = "balanced"))'
    /\ ~(setting = "fencing") => (~(setting = "fencing"))'
  BY SettingMoves

\* Under Aggressive only a definitive refusal poisons a handle, in every
\* behaviour with watchdogs, errors and late requests (safety.rs, the watchdog
\* loop of single.rs).
THEOREM AggressivePoisonAlways == SettingSpec => []AggressivePoison
  <1>1. DogsProofs!Spec => []DogsProofs!PoisonIsDefinitive
    BY DogsProofs!PoisonIsDefinitiveHolds, SettingConstants, SettingAssumption,
       TokensAssumption, RenewDivAssumption, RespTimeoutAssumption, PromptAssumption
  <1>2. DogsProofs!PoisonIsDefinitive /\ setting = "dogs" => AggressivePoison
    BY DEF AggressivePoison, Dogs!PoisonIsDefinitive, DogsProofs!PoisonIsDefinitive
  <1>3. ~(setting = "dogs") => AggressivePoison
    BY DEF AggressivePoison
  <1>4. SettingSpec /\ setting = "dogs" => [](setting = "dogs")
    <2>1. setting = "dogs" /\ [SettingNext]_<<vars, setting, overdue>> => (setting = "dogs")'
      BY SettingMoves
    <2>. QED
      BY <2>1, PTL DEF SettingSpec
  <1>. QED
    BY <1>1, <1>2, <1>3, <1>4, SettingSpecs, SettingStays, PTL DEF SettingSpec

\* What the bound of the window assumes of the environment holds in the two
\* settings with slow requests.
LEMMA SlowSettingsSteady == CowardlyProofs!Steady /\ BalancedProofs!Steady
  BY DEF CowardlyProofs!Steady, BalancedProofs!Steady

\* No holder under a policy with a limit believes in a lost lease longer than
\* the window of its policy, in every behaviour with slow requests, backend
\* errors and crashes (safety.rs, the watchdog loop of single.rs).
THEOREM StaleWindowBoundedAlways == SettingSpec => []StaleWindowBounded
  <1>1. CowardlyProofs!TimedSpec => []CowardlyProofs!StaleWindowBounded
    BY CowardlyProofs!StaleWindowBoundedHolds, SlowSettingsSteady, SettingConstants,
       SettingAssumption, TokensAssumption, RenewDivAssumption
  <1>2. BalancedProofs!TimedSpec => []BalancedProofs!StaleWindowBounded
    BY BalancedProofs!StaleWindowBoundedHolds, SlowSettingsSteady, SettingConstants,
       SettingAssumption, TokensAssumption, RenewDivAssumption
  <1>3. CowardlyProofs!StaleWindowBounded => Cowardly!StaleWindowBounded
    BY
    DEF Cowardly!StaleWindowBounded, Cowardly!StaleWindow, Cowardly!Believes,
        Cowardly!MaxTransient, CowardlyProofs!StaleWindowBounded, CowardlyProofs!StaleWindow,
        CowardlyProofs!Believes, CowardlyProofs!MaxTransient
  <1>4. BalancedProofs!StaleWindowBounded => Balanced!StaleWindowBounded
    BY
    DEF Balanced!StaleWindowBounded, Balanced!StaleWindow, Balanced!Believes,
        Balanced!MaxTransient, BalancedProofs!StaleWindowBounded, BalancedProofs!StaleWindow,
        BalancedProofs!Believes, BalancedProofs!MaxTransient
  <1>5. /\ setting = "cowardly" /\ Cowardly!StaleWindowBounded => StaleWindowBounded
        /\ setting = "balanced" /\ Balanced!StaleWindowBounded => StaleWindowBounded
        /\ ~(setting = "cowardly") /\ ~(setting = "balanced") => StaleWindowBounded
    BY DEF StaleWindowBounded
  <1>6. [SettingNext]_<<vars, setting, overdue>> =>
          /\ setting = "cowardly" => (setting = "cowardly")'
          /\ setting = "balanced" => (setting = "balanced")'
    BY SettingMoves
  <1>. QED
    BY <1>1, <1>2, <1>3, <1>4, <1>5, <1>6, SettingSpecs, SettingStays, PTL DEF SettingSpec

------------------------------------------------------------------------------
(* What is proved of the mutex holds in every setting. *)

\* The invariants that do not depend on leases, policies or timeouts.
SettingSafe ==
  /\ TypeOK /\ ReleaseVerdictFinal /\ DropLeavesRelease
  /\ CounterFollowsOwner /\ FencesFollowGrants

\* With the constants of the watchdogs they are the same.
LEMMA DogsSafe ==
  DogsProofs!Spec => []SettingSafe
  <1>1. DogsProofs!Spec => [](/\ DogsProofs!TypeOK /\ DogsProofs!ReleaseVerdictFinal
                   /\ DogsProofs!DropLeavesRelease /\ DogsProofs!CounterFollowsOwner
                   /\ DogsProofs!FencesFollowGrants)
    <2>1. DogsProofs!Spec => []DogsProofs!TypeOK
      BY DogsProofs!TypeCorrect, SettingConstants, SettingAssumption,
         TokensAssumption, RenewDivAssumption, RespTimeoutAssumption, PromptAssumption
    <2>2. DogsProofs!Spec => []DogsProofs!ReleaseVerdictFinal
      BY DogsProofs!ReleaseVerdictFinalHolds, SettingConstants, SettingAssumption,
         TokensAssumption, RenewDivAssumption, RespTimeoutAssumption, PromptAssumption
    <2>3. DogsProofs!Spec => []DogsProofs!DropLeavesRelease
      BY DogsProofs!DropLeavesReleaseHolds, SettingConstants, SettingAssumption,
         TokensAssumption, RenewDivAssumption, RespTimeoutAssumption, PromptAssumption
    <2>4. DogsProofs!Spec => []DogsProofs!CounterFollowsOwner
      BY DogsProofs!CounterFollowsOwnerHolds, SettingConstants, SettingAssumption,
         TokensAssumption, RenewDivAssumption, RespTimeoutAssumption, PromptAssumption
    <2>5. DogsProofs!Spec => []DogsProofs!FencesFollowGrants
      BY DogsProofs!FencesFollowGrantsHolds, SettingConstants, SettingAssumption,
         TokensAssumption, RenewDivAssumption, RespTimeoutAssumption, PromptAssumption
    <2>. QED
      BY <2>1, <2>2, <2>3, <2>4, <2>5, PTL
  <1>2. /\ DogsProofs!TypeOK => TypeOK
        /\ DogsProofs!ReleaseVerdictFinal => ReleaseVerdictFinal
        /\ DogsProofs!DropLeavesRelease => DropLeavesRelease
        /\ DogsProofs!CounterFollowsOwner => CounterFollowsOwner
        /\ DogsProofs!FencesFollowGrants => FencesFollowGrants
    BY DEF TypeOK, ReleaseVerdictFinal, DropLeavesRelease, CounterFollowsOwner,
           FencesFollowGrants, DogsProofs!TypeOK, DogsProofs!ReleaseVerdictFinal,
           DogsProofs!DropLeavesRelease, DogsProofs!CounterFollowsOwner,
           DogsProofs!FencesFollowGrants, Calls, Phases, HandleStates, DogsProofs!Calls,
           DogsProofs!Phases, DogsProofs!HandleStates
  <1>. QED
    BY <1>1, <1>2, PTL DEF SettingSafe

\* The same for the Cowardly holders.
LEMMA CowardlySafe ==
  CowardlyProofs!Spec => []SettingSafe
  <1>1. CowardlyProofs!Spec => [](/\ CowardlyProofs!TypeOK /\ CowardlyProofs!ReleaseVerdictFinal
                   /\ CowardlyProofs!DropLeavesRelease /\ CowardlyProofs!CounterFollowsOwner
                   /\ CowardlyProofs!FencesFollowGrants)
    <2>1. CowardlyProofs!Spec => []CowardlyProofs!TypeOK
      BY CowardlyProofs!TypeCorrect, SettingConstants, SettingAssumption,
         TokensAssumption, RenewDivAssumption, RespTimeoutAssumption, PromptAssumption
    <2>2. CowardlyProofs!Spec => []CowardlyProofs!ReleaseVerdictFinal
      BY CowardlyProofs!ReleaseVerdictFinalHolds, SettingConstants, SettingAssumption,
         TokensAssumption, RenewDivAssumption, RespTimeoutAssumption, PromptAssumption
    <2>3. CowardlyProofs!Spec => []CowardlyProofs!DropLeavesRelease
      BY CowardlyProofs!DropLeavesReleaseHolds, SettingConstants, SettingAssumption,
         TokensAssumption, RenewDivAssumption, RespTimeoutAssumption, PromptAssumption
    <2>4. CowardlyProofs!Spec => []CowardlyProofs!CounterFollowsOwner
      BY CowardlyProofs!CounterFollowsOwnerHolds, SettingConstants, SettingAssumption,
         TokensAssumption, RenewDivAssumption, RespTimeoutAssumption, PromptAssumption
    <2>5. CowardlyProofs!Spec => []CowardlyProofs!FencesFollowGrants
      BY CowardlyProofs!FencesFollowGrantsHolds, SettingConstants, SettingAssumption,
         TokensAssumption, RenewDivAssumption, RespTimeoutAssumption, PromptAssumption
    <2>. QED
      BY <2>1, <2>2, <2>3, <2>4, <2>5, PTL
  <1>2. /\ CowardlyProofs!TypeOK => TypeOK
        /\ CowardlyProofs!ReleaseVerdictFinal => ReleaseVerdictFinal
        /\ CowardlyProofs!DropLeavesRelease => DropLeavesRelease
        /\ CowardlyProofs!CounterFollowsOwner => CounterFollowsOwner
        /\ CowardlyProofs!FencesFollowGrants => FencesFollowGrants
    BY DEF TypeOK, ReleaseVerdictFinal, DropLeavesRelease, CounterFollowsOwner,
           FencesFollowGrants, CowardlyProofs!TypeOK, CowardlyProofs!ReleaseVerdictFinal,
           CowardlyProofs!DropLeavesRelease, CowardlyProofs!CounterFollowsOwner,
           CowardlyProofs!FencesFollowGrants, Calls, Phases, HandleStates, CowardlyProofs!Calls,
           CowardlyProofs!Phases, CowardlyProofs!HandleStates
  <1>. QED
    BY <1>1, <1>2, PTL DEF SettingSafe

\* The same for the Balanced holders.
LEMMA BalancedSafe ==
  BalancedProofs!Spec => []SettingSafe
  <1>1. BalancedProofs!Spec => [](/\ BalancedProofs!TypeOK /\ BalancedProofs!ReleaseVerdictFinal
                   /\ BalancedProofs!DropLeavesRelease /\ BalancedProofs!CounterFollowsOwner
                   /\ BalancedProofs!FencesFollowGrants)
    <2>1. BalancedProofs!Spec => []BalancedProofs!TypeOK
      BY BalancedProofs!TypeCorrect, SettingConstants, SettingAssumption,
         TokensAssumption, RenewDivAssumption, RespTimeoutAssumption, PromptAssumption
    <2>2. BalancedProofs!Spec => []BalancedProofs!ReleaseVerdictFinal
      BY BalancedProofs!ReleaseVerdictFinalHolds, SettingConstants, SettingAssumption,
         TokensAssumption, RenewDivAssumption, RespTimeoutAssumption, PromptAssumption
    <2>3. BalancedProofs!Spec => []BalancedProofs!DropLeavesRelease
      BY BalancedProofs!DropLeavesReleaseHolds, SettingConstants, SettingAssumption,
         TokensAssumption, RenewDivAssumption, RespTimeoutAssumption, PromptAssumption
    <2>4. BalancedProofs!Spec => []BalancedProofs!CounterFollowsOwner
      BY BalancedProofs!CounterFollowsOwnerHolds, SettingConstants, SettingAssumption,
         TokensAssumption, RenewDivAssumption, RespTimeoutAssumption, PromptAssumption
    <2>5. BalancedProofs!Spec => []BalancedProofs!FencesFollowGrants
      BY BalancedProofs!FencesFollowGrantsHolds, SettingConstants, SettingAssumption,
         TokensAssumption, RenewDivAssumption, RespTimeoutAssumption, PromptAssumption
    <2>. QED
      BY <2>1, <2>2, <2>3, <2>4, <2>5, PTL
  <1>2. /\ BalancedProofs!TypeOK => TypeOK
        /\ BalancedProofs!ReleaseVerdictFinal => ReleaseVerdictFinal
        /\ BalancedProofs!DropLeavesRelease => DropLeavesRelease
        /\ BalancedProofs!CounterFollowsOwner => CounterFollowsOwner
        /\ BalancedProofs!FencesFollowGrants => FencesFollowGrants
    BY DEF TypeOK, ReleaseVerdictFinal, DropLeavesRelease, CounterFollowsOwner,
           FencesFollowGrants, BalancedProofs!TypeOK, BalancedProofs!ReleaseVerdictFinal,
           BalancedProofs!DropLeavesRelease, BalancedProofs!CounterFollowsOwner,
           BalancedProofs!FencesFollowGrants, Calls, Phases, HandleStates, BalancedProofs!Calls,
           BalancedProofs!Phases, BalancedProofs!HandleStates
  <1>. QED
    BY <1>1, <1>2, PTL DEF SettingSafe
\* The invariants of the mutex hold in every setting: with or without watchdogs,
\* under every policy, with prompt and with late requests (the Lua scripts and
\* single.rs).
THEOREM SettingsSafeAlways == SettingSpec => []SettingSafe
  <1>1. Spec => []SettingSafe
    BY TypeCorrect, ReleaseVerdictFinalHolds, DropLeavesReleaseHolds,
       CounterFollowsOwnerHolds, FencesFollowGrantsHolds, PTL DEF SettingSafe
  <1>2. CowardlyProofs!TimedSpec => CowardlyProofs!Spec
    BY CowardlyProofs!TimedImplementsSpec, SettingConstants, SettingAssumption,
       TokensAssumption, RenewDivAssumption
  <1>3. BalancedProofs!TimedSpec => BalancedProofs!Spec
    BY BalancedProofs!TimedImplementsSpec, SettingConstants, SettingAssumption,
       TokensAssumption, RenewDivAssumption
  <1>4. SettingInit => \/ setting = "fencing" \/ setting = "dogs"
                       \/ setting = "cowardly" \/ setting = "balanced"
    BY DEF SettingInit
  <1>. QED
    BY <1>1, <1>2, <1>3, <1>4, DogsSafe, CowardlySafe, BalancedSafe, SettingSpecs, PTL
    DEF SettingSpec

\* The lease lock, the order of fenced writes and the ends of holds, with the
\* constants of the watchdogs.
LEMMA DogsOrdered ==
  DogsProofs!Spec => ImplementsLeaseLock /\ FencedWritesInOrder /\ HoldEndsByOwner
  <1>1. DogsProofs!Spec => DogsProofs!ImplementsLeaseLock
    BY DogsProofs!RefinesLeaseLock, SettingConstants, SettingAssumption,
       TokensAssumption, RenewDivAssumption, RespTimeoutAssumption, PromptAssumption
  <1>2. DogsProofs!Spec => DogsProofs!FencedWritesInOrder
    BY DogsProofs!FencedWritesInOrderHolds, SettingConstants, SettingAssumption,
       TokensAssumption, RenewDivAssumption, RespTimeoutAssumption, PromptAssumption
  <1>3. DogsProofs!Lease!Init => Lease!Init
    BY DEF DogsProofs!Lease!Init, Lease!Init
  <1>4. [DogsProofs!Lease!Next]_(DogsProofs!Lease!vars) => [Lease!Next]_(Lease!vars)
    BY DEF DogsProofs!Lease!Next, DogsProofs!Lease!Grant, DogsProofs!Lease!Free,
           DogsProofs!Lease!Forget, DogsProofs!Lease!vars, Lease!Next, Lease!Grant, Lease!Free,
           Lease!Forget, Lease!vars
  <1>5. [(lastWriter # None /\ lastWriter' # lastWriter /\ era[lastWriter] = era[lastWriter'])
           => grantNo[lastWriter'] > grantNo[lastWriter]]_(DogsProofs!vars)
        => [(lastWriter # None /\ lastWriter' # lastWriter /\ era[lastWriter] = era[lastWriter'])
           => grantNo[lastWriter'] > grantNo[lastWriter]]_vars
    BY DEF vars, store, net, client, history, resource, DogsProofs!vars, DogsProofs!store,
           DogsProofs!net, DogsProofs!client, DogsProofs!history, DogsProofs!resource
  <1>6. DogsProofs!Spec => DogsProofs!HoldEndsByOwner
    BY DogsProofs!HoldEndsByOwnerHolds, SettingConstants, SettingAssumption,
       TokensAssumption, RenewDivAssumption, RespTimeoutAssumption, PromptAssumption
  <1>7. [\A t \in Tokens :
           owner = t /\ owner' # t =>
             DogsProofs!Tick \/ DogsProofs!ForceUnlock \/ released[t]]_(DogsProofs!vars)
        => [\A t \in Tokens :
              owner = t /\ owner' # t => Tick \/ ForceUnlock \/ released[t]]_vars
    BY DEF Tick, Due, Less, ForceUnlock, vars, store, net, client, history, resource,
           DogsProofs!Tick, DogsProofs!Due, DogsProofs!Less, DogsProofs!ForceUnlock,
           DogsProofs!vars, DogsProofs!store, DogsProofs!net, DogsProofs!client,
           DogsProofs!history, DogsProofs!resource
  <1>. QED
    BY <1>1, <1>2, <1>3, <1>4, <1>5, <1>6, <1>7, PTL
    DEF ImplementsLeaseLock, Lease!Spec, FencedWritesInOrder, HoldEndsByOwner,
        DogsProofs!ImplementsLeaseLock, DogsProofs!Lease!Spec,
        DogsProofs!FencedWritesInOrder, DogsProofs!HoldEndsByOwner

\* The same for the Cowardly holders.
LEMMA CowardlyOrdered ==
  CowardlyProofs!Spec => ImplementsLeaseLock /\ FencedWritesInOrder /\ HoldEndsByOwner
  <1>1. CowardlyProofs!Spec => CowardlyProofs!ImplementsLeaseLock
    BY CowardlyProofs!RefinesLeaseLock, SettingConstants, SettingAssumption,
       TokensAssumption, RenewDivAssumption, RespTimeoutAssumption, PromptAssumption
  <1>2. CowardlyProofs!Spec => CowardlyProofs!FencedWritesInOrder
    BY CowardlyProofs!FencedWritesInOrderHolds, SettingConstants, SettingAssumption,
       TokensAssumption, RenewDivAssumption, RespTimeoutAssumption, PromptAssumption
  <1>3. CowardlyProofs!Lease!Init => Lease!Init
    BY DEF CowardlyProofs!Lease!Init, Lease!Init
  <1>4. [CowardlyProofs!Lease!Next]_(CowardlyProofs!Lease!vars) => [Lease!Next]_(Lease!vars)
    BY DEF CowardlyProofs!Lease!Next, CowardlyProofs!Lease!Grant, CowardlyProofs!Lease!Free,
           CowardlyProofs!Lease!Forget, CowardlyProofs!Lease!vars, Lease!Next, Lease!Grant,
           Lease!Free, Lease!Forget, Lease!vars
  <1>5. [(lastWriter # None /\ lastWriter' # lastWriter /\ era[lastWriter] = era[lastWriter'])
           => grantNo[lastWriter'] > grantNo[lastWriter]]_(CowardlyProofs!vars)
        => [(lastWriter # None /\ lastWriter' # lastWriter /\ era[lastWriter] = era[lastWriter'])
           => grantNo[lastWriter'] > grantNo[lastWriter]]_vars
    BY DEF vars, store, net, client, history, resource, CowardlyProofs!vars, CowardlyProofs!store,
           CowardlyProofs!net, CowardlyProofs!client, CowardlyProofs!history,
           CowardlyProofs!resource
  <1>6. CowardlyProofs!Spec => CowardlyProofs!HoldEndsByOwner
    BY CowardlyProofs!HoldEndsByOwnerHolds, SettingConstants, SettingAssumption,
       TokensAssumption, RenewDivAssumption, RespTimeoutAssumption, PromptAssumption
  <1>7. [\A t \in Tokens :
           owner = t /\ owner' # t =>
             CowardlyProofs!Tick \/ CowardlyProofs!ForceUnlock \/ released[t]]_(CowardlyProofs!vars)
        => [\A t \in Tokens :
              owner = t /\ owner' # t => Tick \/ ForceUnlock \/ released[t]]_vars
    BY DEF Tick, Due, Less, ForceUnlock, vars, store, net, client, history, resource,
           CowardlyProofs!Tick, CowardlyProofs!Due, CowardlyProofs!Less,
           CowardlyProofs!ForceUnlock, CowardlyProofs!vars, CowardlyProofs!store,
           CowardlyProofs!net, CowardlyProofs!client, CowardlyProofs!history,
           CowardlyProofs!resource
  <1>. QED
    BY <1>1, <1>2, <1>3, <1>4, <1>5, <1>6, <1>7, PTL
    DEF ImplementsLeaseLock, Lease!Spec, FencedWritesInOrder, HoldEndsByOwner,
        CowardlyProofs!ImplementsLeaseLock, CowardlyProofs!Lease!Spec,
        CowardlyProofs!FencedWritesInOrder, CowardlyProofs!HoldEndsByOwner

\* The same for the Balanced holders.
LEMMA BalancedOrdered ==
  BalancedProofs!Spec => ImplementsLeaseLock /\ FencedWritesInOrder /\ HoldEndsByOwner
  <1>1. BalancedProofs!Spec => BalancedProofs!ImplementsLeaseLock
    BY BalancedProofs!RefinesLeaseLock, SettingConstants, SettingAssumption,
       TokensAssumption, RenewDivAssumption, RespTimeoutAssumption, PromptAssumption
  <1>2. BalancedProofs!Spec => BalancedProofs!FencedWritesInOrder
    BY BalancedProofs!FencedWritesInOrderHolds, SettingConstants, SettingAssumption,
       TokensAssumption, RenewDivAssumption, RespTimeoutAssumption, PromptAssumption
  <1>3. BalancedProofs!Lease!Init => Lease!Init
    BY DEF BalancedProofs!Lease!Init, Lease!Init
  <1>4. [BalancedProofs!Lease!Next]_(BalancedProofs!Lease!vars) => [Lease!Next]_(Lease!vars)
    BY DEF BalancedProofs!Lease!Next, BalancedProofs!Lease!Grant, BalancedProofs!Lease!Free,
           BalancedProofs!Lease!Forget, BalancedProofs!Lease!vars, Lease!Next, Lease!Grant,
           Lease!Free, Lease!Forget, Lease!vars
  <1>5. [(lastWriter # None /\ lastWriter' # lastWriter /\ era[lastWriter] = era[lastWriter'])
           => grantNo[lastWriter'] > grantNo[lastWriter]]_(BalancedProofs!vars)
        => [(lastWriter # None /\ lastWriter' # lastWriter /\ era[lastWriter] = era[lastWriter'])
           => grantNo[lastWriter'] > grantNo[lastWriter]]_vars
    BY DEF vars, store, net, client, history, resource, BalancedProofs!vars, BalancedProofs!store,
           BalancedProofs!net, BalancedProofs!client, BalancedProofs!history,
           BalancedProofs!resource
  <1>6. BalancedProofs!Spec => BalancedProofs!HoldEndsByOwner
    BY BalancedProofs!HoldEndsByOwnerHolds, SettingConstants, SettingAssumption,
       TokensAssumption, RenewDivAssumption, RespTimeoutAssumption, PromptAssumption
  <1>7. [\A t \in Tokens :
           owner = t /\ owner' # t =>
             BalancedProofs!Tick \/ BalancedProofs!ForceUnlock \/ released[t]]_(BalancedProofs!vars)
        => [\A t \in Tokens :
              owner = t /\ owner' # t => Tick \/ ForceUnlock \/ released[t]]_vars
    BY DEF Tick, Due, Less, ForceUnlock, vars, store, net, client, history, resource,
           BalancedProofs!Tick, BalancedProofs!Due, BalancedProofs!Less,
           BalancedProofs!ForceUnlock, BalancedProofs!vars, BalancedProofs!store,
           BalancedProofs!net, BalancedProofs!client, BalancedProofs!history,
           BalancedProofs!resource
  <1>. QED
    BY <1>1, <1>2, <1>3, <1>4, <1>5, <1>6, <1>7, PTL
    DEF ImplementsLeaseLock, Lease!Spec, FencedWritesInOrder, HoldEndsByOwner,
        BalancedProofs!ImplementsLeaseLock, BalancedProofs!Lease!Spec,
        BalancedProofs!FencedWritesInOrder, BalancedProofs!HoldEndsByOwner

\* In every setting the mutex implements the lease lock, a fenced resource accepts
\* writes in the order of their grants, and a hold ends by expiry, by force, or
\* after its own release (the Lua scripts, single.rs, fencing.rs).
THEOREM SettingsOrdered ==
  SettingSpec => ImplementsLeaseLock /\ FencedWritesInOrder /\ HoldEndsByOwner
  <1>1. Spec => ImplementsLeaseLock /\ FencedWritesInOrder /\ HoldEndsByOwner
    BY RefinesLeaseLock, FencedWritesInOrderHolds, HoldEndsByOwnerHolds
  <1>2. CowardlyProofs!TimedSpec => CowardlyProofs!Spec
    BY CowardlyProofs!TimedImplementsSpec, SettingConstants, SettingAssumption,
       TokensAssumption, RenewDivAssumption
  <1>3. BalancedProofs!TimedSpec => BalancedProofs!Spec
    BY BalancedProofs!TimedImplementsSpec, SettingConstants, SettingAssumption,
       TokensAssumption, RenewDivAssumption
  <1>4. SettingInit => \/ setting = "fencing" \/ setting = "dogs"
                       \/ setting = "cowardly" \/ setting = "balanced"
    BY DEF SettingInit
  <1>. QED
    BY <1>1, <1>2, <1>3, <1>4, DogsOrdered, CowardlyOrdered, BalancedOrdered,
       SettingSpecs, PTL
    DEF SettingSpec
==============================================================================
