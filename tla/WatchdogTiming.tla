---------------------------- MODULE WatchdogTiming ----------------------------
(***************************************************************************)
(* How long a holder of the single-instance mutex can go on believing in a *)
(* lease it no longer has.  The specification is SingleMutex with a        *)
(* stopwatch per handle; it is read with Prompt = TRUE, so tasks run when  *)
(* their time comes and requests end within response_timeout.              *)
(***************************************************************************)
EXTENDS SingleMutex

VARIABLE overdue    \* ticks gone by since a believing holder lost the key

timedVars == <<vars, overdue>>

TimedInit == Init /\ overdue = [t \in Tokens |-> 0]

\* Ticks are counted as long as the handle believes and the key is not its own.
TimedNext ==
  /\ Next
  /\ overdue' = [t \in Tokens |->
       IF Believes(t)' /\ (owner # t)'
       THEN overdue[t] + (IF Tick /\ owner # t THEN 1 ELSE 0)
       ELSE 0]

TimedSpec == TimedInit /\ [][TimedNext]_timedVars

\* Between the last renewal that Redis ran and the poisoning there are the
\* reply to it, then at most one more failure than the policy tolerates, each
\* a sleep of ttl/3 and a request that ends within response_timeout.
StaleWindow(t) ==
  (MaxTransient(t) + 2) * RespTimeout
    + (MaxTransient(t) + 1) * (lease[t] \div RenewDiv) - lease[t]

\* A holder whose store fails, or whose key was taken over, stops believing in
\* its lease at most StaleWindow after the lease ran out: the policy's budget
\* of transient failures times the cadence and the response timeout, not a tick
\* more.  When the window is negative (Cowardly with a response timeout below
\* the cadence) it never believes in a lease that is gone ("Zero stale-hold
\* window", core/src/safety.rs), so two such holders never believe together.
StaleWindowBounded ==
  \A t \in Tokens :
    Believes(t) /\ owner # t => overdue[t] <= StaleWindow(t)
==============================================================================
