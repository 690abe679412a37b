---------------------------- MODULE StallWatchdog ----------------------------
(***************************************************************************)
(* The silence detector of stall.go: stallTransport and stallBody feed a   *)
(* stallWatchdog that cancels a request whose budget ran out.  Four actors *)
(* interleave: the goroutine that makes the call and reads the body, the   *)
(* provider, the runtime's timer with the goroutines it starts for trip,   *)
(* and a caller that cancels or closes.                                    *)
(*                                                                         *)
(* Time is counted in ticks relative to now, so no clock grows: quiet and  *)
(* left are the distances to the last data and to the timer's deadline.    *)
(***************************************************************************)
EXTENDS Integers

CONSTANTS
    RequestTimeout,   \* ticks a response may take to start; 0: not watched
    StallTimeout,     \* ticks a started response may be quiet; 0: not watched
    MaxTrips,         \* bound on the trip goroutines that are late
    SlowChoices       \* the sets of places where time may pass though the call
                      \* could go on

ASSUME BudgetAssumption == RequestTimeout \in Nat /\ StallTimeout \in Nat
ASSUME TripAssumption == MaxTrips \in Nat \ {0}
Places == {"dial",      \* in the inner RoundTrip
           "answered",  \* it returned, data is next
           "greeting",  \* in the liveness callback, begin is next
           "busy",      \* in caller code, between two reads
           "reading",   \* in the inner Read
           "got",       \* it returned bytes, data is next
           "ended",     \* the body gave its last result
           "closed"}

ASSUME SlownessAssumption == SlowChoices \subseteq SUBSET Places

VARIABLES
    slow,       \* the places where this call is slow
    pc,         \* where the call is, see Places
    unread,     \* the provider has sent bytes nobody has read
    cancelled,  \* the request's context is done
    parentDone, \* the caller's context is done
    result,     \* how the call ended
    timeout,    \* stallWatchdog.timeout; names the phase as well
    phase,      \* stallWatchdog.phase
    quiet,      \* ticks since stallWatchdog.last
    silent,     \* ticks since then in which the provider had sent nothing
    left,       \* ticks to the timer's deadline, or Off
    trips,      \* trip goroutines that have yet to take the lock
    fired, stopped,
    tripping    \* trip has released the lock and is about to cancel

call     == <<pc, unread, result>>
contexts == <<cancelled, parentDone>>
budget   == <<timeout, phase>>
clock    == <<quiet, silent, left>>
flags    == <<fired, stopped>>
vars     == <<slow, call, contexts, budget, clock, trips, flags, tripping>>

Off == -1
Longest == IF RequestTimeout > StallTimeout THEN RequestTimeout ELSE StallTimeout

\* MUTANT: arm leaves a timer alone that is still running.
ArmOnce(t) == IF left # Off THEN left ELSE IF t > 0 THEN t ELSE Off

(* arm *)
Arm(t) == IF t > 0 THEN t ELSE Off

Restart(t) == quiet' = 0 /\ silent' = 0 /\ left' = Arm(t)

Init ==
    /\ slow \in SlowChoices
    /\ pc = "dial" /\ unread = FALSE /\ result = "none"
    /\ cancelled = FALSE /\ parentDone = FALSE
    /\ phase = "response" /\ timeout = RequestTimeout
    /\ quiet = 0 /\ silent = 0
    /\ left = IF RequestTimeout > 0 THEN RequestTimeout ELSE Off
    /\ trips = 0 /\ fired = FALSE /\ stopped = FALSE /\ tripping = FALSE

-----------------------------------------------------------------------------
(* The watchdog's methods, each one critical section. *)
data ==
    IF stopped THEN UNCHANGED <<clock, budget>>
    ELSE Restart(timeout) /\ UNCHANGED budget

\* MUTANT: begin revives a retired watchdog.
beginStreamRevives ==
    /\ phase' = "stream"
    /\ timeout' = StallTimeout
    /\ Restart(StallTimeout)

beginStream ==
    IF stopped THEN UNCHANGED <<clock, budget>>
    ELSE /\ phase' = "stream"
         /\ timeout' = StallTimeout
         /\ Restart(StallTimeout)

stop ==
    /\ stopped' = TRUE
    /\ left' = IF stopped THEN left ELSE Off
    /\ UNCHANGED <<fired, quiet, silent>>

-----------------------------------------------------------------------------
(* stallTransport.RoundTrip and stallBody *)
RoundTripReturns ==
    /\ pc = "dial" /\ unread
    /\ pc' = "answered"
    /\ unread' = FALSE
    /\ UNCHANGED <<slow, result, contexts, budget, clock, trips, flags, tripping>>

\* How a failure is reported: the watchdog remembers that it cancelled.
Failed == IF fired THEN "stall" ELSE IF cancelled THEN "cancelled" ELSE "broken"

\* The inner RoundTrip fails, on its own or because its context is done.
RoundTripFails ==
    /\ pc = "dial"
    /\ stop
    /\ cancelled' = TRUE
    /\ result' = Failed
    /\ pc' = "closed"
    /\ UNCHANGED <<slow, unread, parentDone, budget, trips, tripping>>

FirstData ==
    /\ pc = "answered"
    /\ data
    /\ pc' = "greeting"
    /\ UNCHANGED <<slow, unread, result, contexts, trips, flags, tripping>>

StreamBegins ==
    /\ pc = "greeting"
    /\ beginStream
    /\ pc' = "busy"
    /\ UNCHANGED <<slow, unread, result, contexts, trips, flags, tripping>>

ReadCalled ==
    /\ pc = "busy"
    /\ pc' = "reading"
    /\ UNCHANGED <<slow, unread, result, contexts, budget, clock, trips, flags, tripping>>

ReadReturns ==
    /\ pc = "reading" /\ unread
    /\ pc' = "got"
    /\ unread' = FALSE
    /\ UNCHANGED <<slow, result, contexts, budget, clock, trips, flags, tripping>>

\* The liveness callback of a read is caller code like what follows it.
ReadData ==
    /\ pc = "got"
    /\ data
    /\ pc' = "busy"
    /\ UNCHANGED <<slow, unread, result, contexts, trips, flags, tripping>>

ReadFails ==
    /\ pc = "reading"
    /\ result' \in {Failed, "eof"}
    /\ pc' = "ended"
    /\ UNCHANGED <<slow, unread, contexts, budget, clock, trips, flags, tripping>>

Close ==
    /\ pc \in {"busy", "ended"}
    /\ stop
    /\ cancelled' = TRUE
    /\ pc' = "closed"
    /\ UNCHANGED <<slow, unread, result, parentDone, budget, trips, tripping>>

-----------------------------------------------------------------------------
(* trip, from the timer's deadline to the cancellation of the request *)
TimerFires ==
    /\ left = 0
    /\ trips < MaxTrips
    /\ left' = Off
    /\ trips' = trips + 1
    /\ UNCHANGED <<slow, call, contexts, budget, quiet, silent, flags, tripping>>

\* MUTANT: a firing is taken as proof that the budget ran out.
TripUnchecked ==
    /\ trips > 0
    /\ trips' = trips - 1
    /\ IF stopped \/ timeout = 0 THEN UNCHANGED <<left, flags, tripping>>
       ELSE fired' = TRUE /\ stopped' = TRUE /\ tripping' = TRUE /\ UNCHANGED left
    /\ UNCHANGED <<slow, call, contexts, budget, quiet, silent>>

\* MUTANT: a late firing does not see that the watchdog was retired.
TripRetired ==
    /\ trips > 0
    /\ trips' = trips - 1
    /\ IF timeout = 0 \/ quiet < timeout THEN UNCHANGED <<left, flags, tripping>>
       ELSE fired' = TRUE /\ stopped' = TRUE /\ tripping' = TRUE /\ UNCHANGED left
    /\ UNCHANGED <<slow, call, contexts, budget, quiet, silent>>

\* MUTANT: the watchdog cancels without remembering that it did.
TripForgets ==
    /\ trips > 0
    /\ trips' = trips - 1
    /\ IF stopped \/ quiet < timeout THEN UNCHANGED <<left, flags, tripping>>
       ELSE stopped' = TRUE /\ tripping' = TRUE /\ UNCHANGED <<left, fired>>
    /\ UNCHANGED <<slow, call, contexts, budget, quiet, silent>>

Trip ==
    /\ trips > 0
    /\ trips' = trips - 1
    /\ \/ /\ stopped \/ timeout = 0
          /\ UNCHANGED <<left, flags, tripping>>
       \/ /\ ~stopped /\ timeout > 0 /\ quiet < timeout
          /\ left' = timeout - quiet
          /\ UNCHANGED <<flags, tripping>>
       \/ /\ ~stopped /\ timeout > 0 /\ quiet >= timeout
          /\ fired' = TRUE /\ stopped' = TRUE
          /\ tripping' = TRUE
          /\ UNCHANGED left
    /\ UNCHANGED <<slow, call, contexts, budget, quiet, silent>>

\* MUTANT: trip does not cancel the request.
TripCancelsNothing ==
    /\ tripping
    /\ tripping' = FALSE
    /\ UNCHANGED <<slow, call, contexts, budget, clock, trips, flags>>

TripCancels ==
    /\ tripping
    /\ tripping' = FALSE
    /\ cancelled' = TRUE
    /\ UNCHANGED <<slow, call, parentDone, budget, clock, trips, flags>>

-----------------------------------------------------------------------------
(* The provider, the caller and time. *)
Send ==
    /\ pc # "closed" /\ ~unread
    /\ unread' = TRUE
    /\ UNCHANGED <<slow, pc, result, contexts, budget, clock, trips, flags, tripping>>

ParentCancels ==
    /\ ~parentDone
    /\ parentDone' = TRUE
    /\ cancelled' = TRUE
    /\ UNCHANGED <<slow, call, budget, clock, trips, flags, tripping>>

Waiting == pc \in {"dial", "reading"} /\ ~unread

\* Counters stop at the longest budget: nothing tells larger values apart.
Capped(n) == IF n < Longest THEN n + 1 ELSE n

Tick ==
    /\ pc # "closed"
    /\ left # 0
    /\ Waiting \/ pc \in slow
    /\ quiet' = Capped(quiet)
    /\ silent' = IF unread THEN silent ELSE Capped(silent)
    /\ left' = IF left = Off THEN Off ELSE left - 1
    /\ UNCHANGED <<slow, call, contexts, budget, trips, flags, tripping>>

Next ==
    \/ RoundTripReturns \/ RoundTripFails \/ FirstData \/ StreamBegins
    \/ ReadCalled \/ ReadReturns \/ ReadData \/ ReadFails \/ Close
    \/ TimerFires \/ Trip \/ TripCancels
    \/ Send \/ ParentCancels \/ Tick

Spec == Init /\ [][Next]_vars

\* Time passes, the runtime runs its timers and goroutines, a read returns
\* what was sent, and a call whose context is done does not block.
FairSpec ==
    /\ Spec
    /\ WF_vars(Tick) /\ WF_vars(TimerFires)
    /\ WF_vars(Trip) /\ WF_vars(TripCancels)
    /\ WF_vars(RoundTripReturns) /\ WF_vars(ReadReturns)
    /\ WF_vars(cancelled /\ (RoundTripFails \/ ReadFails))

-----------------------------------------------------------------------------
\* Every variable of the call and the watchdog keeps its type.
TypeOK ==
    /\ slow \in SlowChoices
    /\ pc \in Places
    /\ result \in {"none", "stall", "cancelled", "broken", "eof"}
    /\ unread \in BOOLEAN /\ cancelled \in BOOLEAN /\ parentDone \in BOOLEAN
    /\ phase \in {"response", "stream"}
    /\ timeout \in {RequestTimeout, StallTimeout}
    /\ quiet \in 0..Longest /\ silent \in 0..Longest
    /\ left \in {Off} \cup 0..Longest
    /\ trips \in 0..MaxTrips
    /\ fired \in BOOLEAN /\ stopped \in BOOLEAN /\ tripping \in BOOLEAN

\* While a phase with a budget is watched, the budget cannot get lost: the
\* timer is due exactly when the last data is that budget old, or a trip that
\* will look at it is already on its way.
BudgetIsWatched ==
    ~stopped /\ timeout > 0 =>
        IF left = Off THEN trips > 0 ELSE left + quiet = timeout

\* A failure is reported as a cancellation only if the caller cancelled, and
\* as a stall only if the watchdog tripped: the one is never taken for the
\* other, however the two race.
CancelIsTheCallers ==
    /\ result = "cancelled" => parentDone
    /\ result = "stall" => fired

\* A retired watchdog never fires, late timer goroutines included.
RetiredStaysQuiet == [][stopped /\ ~fired => ~fired']_vars

\* The phase and the budget a StallError reports are those that ran out, also
\* when the response starts between the trip and the cancellation.
ErrorKeepsPhase == [][fired => UNCHANGED budget]_vars

\* A call the provider has gone silent on does not hang: with both budgets
\* set, the caller is time and again out of the blocking calls.
NoHang == []<>(pc \notin {"dial", "reading"})

\* A call that loses no time of its own fails only after the provider had
\* nothing to read for the whole budget, however late its timers are.
PromptStallMeansSilence ==
    [][slow = {} /\ ~fired /\ fired' => silent >= timeout]_vars
=============================================================================
