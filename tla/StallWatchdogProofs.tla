------------------------ MODULE StallWatchdogProofs ------------------------
(***************************************************************************)
(* Proofs about StallWatchdog, for every pair of budgets, every number of  *)
(* late trip goroutines and every way time passes.                         *)
(***************************************************************************)
EXTENDS StallWatchdog, TLAPS

\* What ties the watchdog's flags to the request's context: the context of a
\* call still in flight is done only if the caller cancelled or the watchdog
\* tripped, and a tripped watchdog is retired.  A call that loses no time of
\* its own counts nothing but the provider's silence.
ContextInv ==
    /\ cancelled /\ pc # "closed" => parentDone \/ fired
    /\ fired => stopped
    /\ tripping => fired
    /\ timeout <= Longest
    /\ slow = {} => silent = quiet

StallInv == TypeOK /\ BudgetIsWatched /\ CancelIsTheCallers /\ ContextInv

\* The counters' cap is a natural number no smaller than either budget.
LEMMA LongestBounds ==
    Longest \in Nat /\ RequestTimeout <= Longest /\ StallTimeout <= Longest
BY BudgetAssumption DEF Longest

\* A call starts with its request budget armed.
LEMMA InitStallInv == Init => StallInv
<1> SUFFICES ASSUME Init PROVE StallInv
  OBVIOUS
<1> USE LongestBounds, BudgetAssumption, TripAssumption DEF Init, Off
<1>1. TypeOK
  <2>1. left \in {Off} \cup 0..Longest
    OBVIOUS
  <2>2. timeout \in {RequestTimeout, StallTimeout} /\ quiet \in 0..Longest
        /\ silent \in 0..Longest /\ trips \in 0..MaxTrips
    OBVIOUS
  <2>3. /\ pc \in Places /\ result \in {"none", "stall", "cancelled", "broken", "eof"}
        /\ phase \in {"response", "stream"}
    BY DEF Places
  <2>4. /\ unread \in BOOLEAN /\ cancelled \in BOOLEAN /\ parentDone \in BOOLEAN
        /\ fired \in BOOLEAN /\ stopped \in BOOLEAN /\ tripping \in BOOLEAN
    OBVIOUS
  <2> QED
    BY <2>1, <2>2, <2>3, <2>4 DEF TypeOK
<1>2. BudgetIsWatched
  BY DEF BudgetIsWatched
<1>3. CancelIsTheCallers /\ ContextInv
  BY DEF CancelIsTheCallers, ContextInv
<1> QED
  BY <1>1, <1>2, <1>3 DEF StallInv

\* Every step of the call, the timer, the provider and the caller keeps the
\* invariant.
LEMMA StepStallInv == StallInv /\ [Next]_vars => StallInv'
<1> USE LongestBounds, BudgetAssumption, TripAssumption
        DEF StallInv, TypeOK, BudgetIsWatched, CancelIsTheCallers, ContextInv,
            Places, Off, call, contexts, budget, clock, flags
<1> SUFFICES ASSUME StallInv, [Next]_vars PROVE StallInv'
  OBVIOUS
<1>1. CASE RoundTripReturns
  <2>1. TypeOK'
    BY <1>1 DEF RoundTripReturns
  <2>2. BudgetIsWatched'
    BY <1>1 DEF RoundTripReturns
  <2>3. CancelIsTheCallers'
    BY <1>1 DEF RoundTripReturns
  <2>4. ContextInv'
    BY <1>1 DEF RoundTripReturns
  <2> QED
    BY <2>1, <2>2, <2>3, <2>4
<1>2. CASE RoundTripFails
  BY <1>2 DEF RoundTripFails, stop, Failed
<1>3. CASE FirstData
  BY <1>3 DEF FirstData, data, Restart, Arm
<1>4. CASE StreamBegins
  BY <1>4 DEF StreamBegins, beginStream, Restart, Arm
<1>5. CASE ReadCalled
  BY <1>5 DEF ReadCalled
<1>6. CASE ReadReturns
  <2>1. TypeOK'
    BY <1>6 DEF ReadReturns
  <2>2. BudgetIsWatched'
    BY <1>6 DEF ReadReturns
  <2>3. CancelIsTheCallers'
    BY <1>6 DEF ReadReturns
  <2>4. ContextInv'
    BY <1>6 DEF ReadReturns
  <2> QED
    BY <2>1, <2>2, <2>3, <2>4
<1>7. CASE ReadData
  BY <1>7 DEF ReadData, data, Restart, Arm
<1>8. CASE ReadFails
  BY <1>8 DEF ReadFails, Failed
<1>9. CASE Close
  BY <1>9 DEF Close, stop
<1>10. CASE TimerFires
  BY <1>10 DEF TimerFires
<1>11. CASE Trip
  <2>1. CASE stopped \/ timeout = 0
    BY <1>11, <2>1 DEF Trip
  <2>2. CASE ~stopped /\ timeout > 0 /\ quiet < timeout
    <3>1. timeout - quiet \in 0..Longest
      BY <2>2
    <3> QED
      BY <1>11, <2>2, <3>1 DEF Trip
  <2>3. CASE ~stopped /\ timeout > 0 /\ quiet >= timeout
    <3>0. ~(stopped \/ timeout = 0) /\ ~(quiet < timeout)
      BY <2>3
    <3>1. fired' = TRUE /\ stopped' = TRUE /\ tripping' = TRUE
      BY <1>11, <3>0, Zenon DEF Trip
    <3>3. trips' \in 0..MaxTrips
      BY <1>11 DEF Trip
    <3>2. UNCHANGED <<slow, call, contexts, budget, quiet, silent, left>>
      BY <1>11, <2>3 DEF Trip
    <3> QED
      BY <3>1, <3>2, <3>3
  <2> QED
    BY <1>11, <2>1, <2>2, <2>3 DEF Trip
<1>12. CASE TripCancels
  <2>1. TypeOK'
    <3>1. /\ cancelled' = TRUE /\ tripping' = FALSE
          /\ UNCHANGED <<slow, pc, unread, result, parentDone, timeout, phase,
                        quiet, silent, left, trips, fired, stopped>>
      BY <1>12 DEF TripCancels
    <3>2. /\ cancelled' \in BOOLEAN /\ tripping' \in BOOLEAN
          /\ fired' \in BOOLEAN /\ stopped' \in BOOLEAN
      BY <3>1, Zenon
    <3> QED
      BY <3>1, <3>2
  <2>2. BudgetIsWatched'
    BY <1>12 DEF TripCancels
  <2>3. CancelIsTheCallers'
    BY <1>12 DEF TripCancels
  <2>4. ContextInv'
    BY <1>12 DEF TripCancels
  <2> QED
    BY <2>1, <2>2, <2>3, <2>4
<1>13. CASE Send
  BY <1>13 DEF Send
<1>14. CASE ParentCancels
  BY <1>14 DEF ParentCancels
<1>15. CASE Tick
  BY <1>15 DEF Tick, Capped, Waiting
<1>16. CASE UNCHANGED vars
  BY <1>16 DEF vars
<1> QED
  BY <1>1, <1>2, <1>3, <1>4, <1>5, <1>6, <1>7, <1>8, <1>9, <1>10, <1>11,
     <1>12, <1>13, <1>14, <1>15, <1>16 DEF Next

\* The strengthened invariant holds of every behaviour.
LEMMA StallInvInvariant == Spec => []StallInv
BY InitStallInv, StepStallInv, PTL DEF Spec

\* A budget that is set cannot get lost: the timer is due exactly when it runs
\* out, or a trip that will look at it is on its way.
THEOREM BudgetNeverLost == Spec => []BudgetIsWatched
BY StallInvInvariant, PTL DEF StallInv

\* A cancellation the caller did not ask for is never reported as one, and a
\* stall is reported only if the watchdog tripped.
THEOREM CancelNotBlamed == Spec => []CancelIsTheCallers
BY StallInvInvariant, PTL DEF StallInv

\* Once Close or a failed round trip has retired the watchdog, no timer
\* goroutine that is still around makes it fire.
THEOREM NeverFiresRetired == Spec => RetiredStaysQuiet
<1>1. ASSUME [Next]_vars, stopped, ~fired PROVE ~fired'
  BY <1>1 DEF Next, vars, call, contexts, budget, clock, flags,
        RoundTripReturns, RoundTripFails, FirstData, StreamBegins, ReadCalled,
        ReadReturns, ReadData, ReadFails, Close, TimerFires, Trip, TripCancels,
        Send, ParentCancels, Tick, stop
<1>2. [Next]_vars => [stopped /\ ~fired => ~fired']_vars
  BY <1>1
<1> QED
  BY <1>2, PTL DEF Spec, RetiredStaysQuiet

\* The phase and budget of a StallError are those that ran out, whatever the
\* call goes on to do before it notices.
THEOREM ReportedPhaseStands == Spec => ErrorKeepsPhase
<1>1. ASSUME StallInv, [Next]_vars, fired PROVE UNCHANGED budget
  <2>1. stopped
    BY <1>1 DEF StallInv, ContextInv
  <2> QED
    BY <1>1, <2>1 DEF Next, vars, call, contexts, budget, clock, flags,
        RoundTripReturns, RoundTripFails, FirstData, StreamBegins, ReadCalled,
        ReadReturns, ReadData, ReadFails, Close, TimerFires, Trip, TripCancels,
        Send, ParentCancels, Tick, stop, data, beginStream
<1>2. StallInv /\ [Next]_vars => [fired => UNCHANGED budget]_vars
  BY <1>1
<1> QED
  BY <1>2, StallInvInvariant, PTL DEF Spec, ErrorKeepsPhase

\* Every variable keeps its type: in particular no deadline passes the longer
\* budget and no more trips are late than MaxTrips.
THEOREM WatchdogTyped == Spec => []TypeOK
<1>1. StallInv => TypeOK
  BY DEF StallInv
<1> QED
  BY <1>1, StallInvInvariant, PTL

\* A call that loses no time of its own is failed only after the provider had
\* nothing to read for the whole budget.
THEOREM FailsOnlyOnSilence == Spec => PromptStallMeansSilence
<1>1. ASSUME StallInv, [Next]_vars, slow = {}, ~fired, fired'
      PROVE  silent >= timeout
  <2>1. silent = quiet
    BY <1>1 DEF StallInv, ContextInv
  <2>2. Trip
    BY <1>1 DEF Next, vars, call, contexts, budget, clock, flags,
        RoundTripReturns, RoundTripFails, FirstData, StreamBegins, ReadCalled,
        ReadReturns, ReadData, ReadFails, Close, TimerFires, TripCancels,
        Send, ParentCancels, Tick, stop
  <2>3. quiet >= timeout
    BY <1>1, <2>2 DEF Trip, flags
  <2> QED
    BY <2>1, <2>3
<1>2. StallInv /\ [Next]_vars =>
          [slow = {} /\ ~fired /\ fired' => silent >= timeout]_vars
  BY <1>1
<1> QED
  BY <1>2, StallInvInvariant, PTL DEF Spec, PromptStallMeansSilence
=============================================================================
