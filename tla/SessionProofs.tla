--------------------------- MODULE SessionProofs ---------------------------
(***************************************************************************)
(* Machine-checked facts about Session, for every budget and every bound.  *)
(* Type correctness rests on PhaseInv; the faithfulness of the request and *)
(* of the transcript on HistoryInv, for a caller that injects between      *)
(* steps.                                                                  *)
(***************************************************************************)
EXTENDS SessionRefinement, SequenceTheorems, TLAPS

-----------------------------------------------------------------------------
(* Lemmas about transcripts *)

\* Appending an entry keeps a transcript a transcript and makes it the last.
LEMMA AppendEntry ==
    ASSUME NEW h \in Seq(Entry), NEW e \in Entry
    PROVE  /\ Append(h, e) \in Seq(Entry)
           /\ Append(h, e) # <<>>
           /\ Len(Append(h, e)) = Len(h) + 1
           /\ DOMAIN Append(h, e) = 1..(Len(h) + 1)
           /\ \A i \in 1..Len(h) : Append(h, e)[i] = h[i]
           /\ Append(h, e)[Len(h) + 1] = e
           /\ Last(Append(h, e)) = e
  <1>1. /\ Append(h, e) \in Seq(Entry)
        /\ Len(Append(h, e)) = Len(h) + 1
        /\ \A i \in 1..Len(h) : Append(h, e)[i] = h[i]
        /\ Append(h, e)[Len(h) + 1] = e
    BY AppendProperties
  <1>2. Len(h) \in Nat
    BY LenProperties
  <1>3. DOMAIN Append(h, e) = 1..(Len(h) + 1)
    BY <1>1, LenProperties
  <1>4. Append(h, e) # <<>>
    BY <1>1, <1>2, EmptySeq
  <1> QED
    BY <1>1, <1>3, <1>4 DEF Last

\* The entries the session appends are entries.
LEMMA EntryShapes ==
    /\ Input \in Entry
    /\ \A n \in Nat : /\ CallsOf(n) \in Entry
                      /\ ResultsOf(n) \in Entry
                      /\ AnswerOf(n) \in Entry
                      /\ InjectNo(n) \in Entry
  BY DEF Entry, Kinds, Input, CallsOf, ResultsOf, AnswerOf, InjectNo

\* Replaying a transcript keeps its length and the kind of every entry.
LEMMA ReplayedShape ==
    ASSUME NEW h \in Seq(Entry)
    PROVE  /\ Replayed(h) \in Seq(Entry)
           /\ Len(Replayed(h)) = Len(h)
           /\ DOMAIN Replayed(h) = 1..Len(h)
           /\ \A i \in 1..Len(h) : Replayed(h)[i].kind = h[i].kind
  <1>1. /\ Len(h) \in Nat
        /\ DOMAIN h = 1..Len(h)
        /\ \A i \in 1..Len(h) : h[i] \in Entry
    BY LenProperties, ElementOfSeq
  <1>2. \A i \in 1..Len(h) :
            /\ Replayed(h)[i] \in Entry
            /\ Replayed(h)[i].kind = h[i].kind
    BY <1>1 DEF Replayed, Entry
  <1>3. Replayed(h) \in [1..Len(h) -> Entry]
    BY <1>1, <1>2 DEF Replayed
  <1>4. Replayed(h) \in Seq(Entry)
    BY <1>1, <1>3, SeqDef
  <1>5. Len(Replayed(h)) = Len(h) /\ DOMAIN Replayed(h) = 1..Len(h)
    BY <1>1, <1>3, <1>4, LenProperties
  <1> QED
    BY <1>2, <1>4, <1>5

\* The last entry of a non-empty transcript is one of its entries.
LEMMA LastEntry ==
    ASSUME NEW h \in Seq(Entry), h # <<>>
    PROVE  /\ Len(h) \in DOMAIN h /\ Len(h) > 0
           /\ Last(h) = h[Len(h)] /\ Last(h) \in Entry /\ Last(h).turn \in Nat
  <1>1. Len(h) \in 1..Len(h) /\ DOMAIN h = 1..Len(h)
    BY EmptySeq, LenProperties
  <1>2. h[Len(h)] \in Entry
    BY <1>1, ElementOfSeq
  <1> QED
    BY <1>1, <1>2 DEF Last, Entry

-----------------------------------------------------------------------------
(* Type correctness *)

TypeInv == TypeOK /\ PhaseInv

LEMMA InitTypeInv == Init => TypeInv
  <1> SUFFICES ASSUME Init PROVE TypeInv
    OBVIOUS
  <1>1. <<Input>> \in Seq(Entry) /\ <<>> \in Seq(Entry)
    BY EntryShapes, EmptySeq
  <1>2. 0 \in 0..MaxSteps
    BY BudgetAssumption
  <1>3. saved \in SavedSnapshots
    BY <1>1, <1>2 DEF Init, NothingSaved, SavedSnapshots, Calls
  <1>4. tracker \in [step : 0..MaxSteps, tokens : Nat] /\ tracker.step = step
    BY <1>2 DEF Init, newTracker
  <1>5. TypeOK
    BY <1>1, <1>2, <1>3, <1>4
    DEF Init, TypeOK, Calls, NoCalls, AnswerReasons
  <1>6. PhaseInv
    BY <1>4 DEF Init, PhaseInv
  <1> QED
    BY <1>5, <1>6 DEF TypeInv

\* A session built over a transcript, a step and the calls it owes is typed.
LEMMA NewSessionTyped ==
    ASSUME NEW h \in Seq(Entry), NEW n \in 0..MaxSteps, NEW t \in Nat,
           NEW c \in Calls, newSession(h, n, t, c)
    PROVE  /\ pc' = "idle" /\ step' = n /\ done' = FALSE /\ retryable' = FALSE
           /\ lastErr' = "nil" /\ stopReason' = "none"
           /\ messages' = h /\ native' = h /\ queue' = <<>>
           /\ messages' \in Seq(Entry) /\ native' \in Seq(Entry)
           /\ queue' \in Seq(Entry)
           /\ phase' \in {"ready", "awaiting"}
           /\ planOutput' \in Calls /\ pendingCalls' \in Calls
           /\ reconstructedObserve' \in BOOLEAN
           /\ tracker' \in [step : 0..MaxSteps, tokens : Nat]
           /\ PhaseInv'
  BY EmptySeq DEF newSession, newTracker, Calls, PhaseInv, Owed, NoCalls

\* What an answered turn records.
LEMMA AccountTyped ==
    ASSUME TypeOK, NEW reason, Account(reason)
    PROVE  /\ pc = "calling" /\ pc' = "idle" /\ stopReason' = reason
           /\ tracker'.step = tracker.step
           /\ tracker'.tokens = tracker.tokens + 1
           /\ tracker' \in [step : 0..MaxSteps, tokens : Nat]
           /\ parentTokens' = parentTokens + 1 /\ parentTokens' \in Nat
           /\ spent' = spent + 1 /\ spent' \in Nat
  <1>1. /\ tracker \in [step : 0..MaxSteps, tokens : Nat]
        /\ parentTokens \in Nat /\ spent \in Nat
    BY DEF TypeOK
  <1>2. tracker' = [tracker EXCEPT !.tokens = @ + 1]
    BY DEF Account
  <1> QED
    BY <1>1, <1>2 DEF Account

\* Giving a turn back undoes its charge.
LEMMA GiveBackTyped ==
    ASSUME TypeInv, pc = "calling", NEW err, NEW can \in BOOLEAN,
           giveBack(err, can)
    PROVE  /\ pc' = "idle" /\ step' = step - 1 /\ step' \in 0..MaxSteps
           /\ tracker'.step = step'
           /\ tracker'.tokens = tracker.tokens
           /\ tracker' \in [step : 0..MaxSteps, tokens : Nat]
           /\ failures' \in Nat
  <1>1. /\ tracker \in [step : 0..MaxSteps, tokens : Nat]
        /\ step \in 0..MaxSteps /\ step > 0 /\ tracker.step = step
        /\ failures \in Nat
    BY DEF TypeInv, TypeOK, PhaseInv
  <1>2. tracker' = [tracker EXCEPT !.step = IF @ > 0 THEN @ - 1 ELSE @]
    BY DEF giveBack
  <1>3. tracker' = [tracker EXCEPT !.step = step - 1]
    BY <1>1, <1>2
  <1>4. step - 1 \in 0..MaxSteps
    BY <1>1, BudgetAssumption
  <1> QED
    BY <1>1, <1>3, <1>4 DEF giveBack

\* Every step of the session keeps its variables typed.
LEMMA StepTypeInv ==
    ASSUME TypeInv, [Next]_vars
    PROVE  TypeInv'
  <1> USE DEF TypeInv
  <1>0. /\ step \in 0..MaxSteps /\ MaxSteps \in Nat /\ step \in Nat
        /\ tracker \in [step : 0..MaxSteps, tokens : Nat]
        /\ tracker.step = step
    BY BudgetAssumption DEF TypeOK, PhaseInv
  <1>1. CASE UNCHANGED vars
    BY <1>1 DEF TypeOK, PhaseInv, Owed, vars, control, plan, history, usage,
                bounds
  <1>2. CASE PlanCancelled
    BY <1>2 DEF PlanCancelled, MayPlan, fail, TypeOK, PhaseInv, Owed, history,
                usage, bounds
  <1>3. CASE PlanExhausted
    BY <1>3 DEF PlanExhausted, MayPlan, TypeOK, PhaseInv, Owed, plan, history,
                usage, bounds
  <1>4. CASE PlanStartRejected \/ PlanQueueRejected
    <2>1. /\ step' \in 0..MaxSteps /\ tracker'.step = step'
          /\ tracker' \in [step : 0..MaxSteps, tokens : Nat]
      BY <1>0, <1>4 DEF PlanStartRejected, PlanQueueRejected
    <2> QED
      BY <1>4, <2>1 DEF PlanStartRejected, PlanQueueRejected, MayPlan, fail,
                        TypeOK, PhaseInv, Owed, history, bounds
  <1>5. CASE PlanCall
    <2>1. /\ step' \in 0..MaxSteps /\ tracker'.step = step' /\ step' > 0
          /\ tracker' \in [step : 0..MaxSteps, tokens : Nat]
      BY <1>0, <1>5 DEF PlanCall
    <2>2. native' \in Seq(Entry) /\ queue' \in Seq(Entry)
      BY <1>5, ConcatProperties, EmptySeq DEF PlanCall, TypeOK
    <2> QED
      BY <1>5, <2>1, <2>2 DEF PlanCall, MayPlan, TypeOK, PhaseInv, Owed, plan,
                              bounds
  <1>6. CASE NextRetryable \/ NextBlocked
    <2>1. pc = "calling" /\ \E err \in {"transient", "policy"}, can \in BOOLEAN :
              giveBack(err, can)
      BY <1>6 DEF NextRetryable, NextBlocked
    <2>2. /\ step' \in 0..MaxSteps /\ tracker'.step = step' /\ failures' \in Nat
          /\ tracker' \in [step : 0..MaxSteps, tokens : Nat]
      BY <2>1, GiveBackTyped
    <2>3. TypeOK'
      BY <1>6, <2>2 DEF NextRetryable, NextBlocked, giveBack, TypeOK, plan,
                        history
    <2>4. PhaseInv'
      BY <1>6, <2>2 DEF NextRetryable, NextBlocked, giveBack, PhaseInv, Owed,
                        plan
    <2> QED
      BY <2>3, <2>4
  <1>7. CASE NextFailed
    BY <1>7 DEF NextFailed, fail, TypeOK, PhaseInv, Owed, history, usage, bounds
  <1>8. CASE NextAnswered
    <2>0. /\ messages \in Seq(Entry) /\ AnswerOf(step) \in Entry
          /\ messages' \in {messages, Append(messages, AnswerOf(step))}
      BY <1>0, <1>8, EntryShapes DEF NextAnswered, TypeOK
    <2>1. messages' \in Seq(Entry)
      BY <2>0, AppendEntry
    <2>2. /\ tracker'.step = step /\ tracker' \in [step : 0..MaxSteps, tokens : Nat]
          /\ parentTokens' \in Nat /\ spent' \in Nat
          /\ stopReason' \in AnswerReasons /\ pc' = "idle"
      BY <1>0, <1>8, AccountTyped DEF NextAnswered
    <2>3. TypeOK'
      BY <1>8, <2>1, <2>2 DEF NextAnswered, TypeOK, plan, bounds
    <2>4. PhaseInv'
      BY <1>8, <2>2 DEF NextAnswered, PhaseInv
    <2> QED
      BY <2>3, <2>4
  <1>9. CASE NextCalled \/ NextCalledRejected
    <2>0. /\ messages \in Seq(Entry) /\ CallsOf(step) \in Entry
          /\ messages' = Append(messages, CallsOf(step))
      BY <1>0, <1>9, EntryShapes DEF NextCalled, NextCalledRejected, TypeOK
    <2>1. messages' \in Seq(Entry)
      BY <2>0, AppendEntry
    <2>2. /\ tracker'.step = step /\ tracker' \in [step : 0..MaxSteps, tokens : Nat]
          /\ parentTokens' \in Nat /\ spent' \in Nat
          /\ stopReason' = "tool_use" /\ pc' = "idle"
      BY <1>0, <1>9, AccountTyped DEF NextCalled, NextCalledRejected
    <2>3. CASE NextCalled
      <3>1. Owed' # NoCalls
        BY <1>0, <2>3 DEF NextCalled, Account, PhaseInv, Owed, NoCalls
      <3>2. TypeOK'
        BY <1>0, <2>1, <2>2, <2>3 DEF NextCalled, TypeOK, Calls, bounds
      <3>3. PhaseInv'
        BY <1>0, <2>2, <2>3, <3>1 DEF NextCalled, PhaseInv
      <3> QED
        BY <3>2, <3>3
    <2>4. CASE NextCalledRejected
      <3>1. TypeOK'
        BY <2>1, <2>2, <2>4 DEF NextCalledRejected, fail, TypeOK, bounds
      <3>2. PhaseInv'
        BY <2>2, <2>4 DEF NextCalledRejected, fail, PhaseInv
      <3> QED
        BY <3>1, <3>2
    <2> QED
      BY <1>9, <2>3, <2>4
  <1>10. CASE StepObserve \/ StepObserveFailed
    <2>1. Owed \in Nat /\ (~reconstructedObserve => planOutput \in Nat)
      BY <1>10 DEF StepObserve, StepObserveFailed, MayObserve, TypeOK,
                   PhaseInv, Owed, Calls
    <2>0. /\ messages \in Seq(Entry) /\ ResultsOf(Owed) \in Entry
          /\ messages' = Append(messages, ResultsOf(Owed))
      BY <1>10, <2>1, EntryShapes DEF StepObserve, StepObserveFailed, TypeOK
    <2>2. messages' \in Seq(Entry)
      BY <2>0, AppendEntry
    <2>3. CASE StepObserve
      <3>1. native' \in Seq(Entry)
        <4>1. CASE reconstructedObserve
          BY <2>1, <2>3, <4>1, EntryShapes, AppendEntry
          DEF StepObserve, Observed, Owed, TypeOK
        <4>2. CASE ~reconstructedObserve
          <5>1. <<CallsOf(planOutput), ResultsOf(planOutput)>> \in Seq(Entry)
            BY <2>1, <4>2, EntryShapes
          <5> QED
            BY <2>3, <4>2, <5>1, ConcatProperties
            DEF StepObserve, Observed, TypeOK
        <4> QED
          BY <4>1, <4>2
      <3> QED
        BY <2>2, <2>3, <3>1
        DEF StepObserve, TypeOK, PhaseInv, Owed, Calls, control, usage, bounds
    <2>4. CASE StepObserveFailed
      <3>1. native' \in Seq(Entry)
        BY <2>1, <2>4, EntryShapes, AppendEntry DEF StepObserveFailed, TypeOK
      <3>2. TypeOK'
        BY <2>2, <2>4, <3>1 DEF StepObserveFailed, fail, TypeOK, usage, bounds
      <3>3. PhaseInv'
        BY <2>4 DEF StepObserveFailed, MayObserve, fail, PhaseInv, usage
      <3> QED
        BY <3>2, <3>3
    <2> QED
      BY <1>10, <2>3, <2>4
  <1>11. CASE ToolsCancelled
    <2>1. TypeOK'
      BY <1>11 DEF ToolsCancelled, fail, TypeOK, history, usage, bounds
    <2>2. PhaseInv'
      BY <1>11 DEF ToolsCancelled, MayObserve, fail, PhaseInv, usage
    <2> QED
      BY <2>1, <2>2
  <1>12. CASE ResumeForToolResults
    <2>1. Last(messages).turn \in Nat
      BY <1>12, LastEntry DEF ResumeForToolResults, OwesResults, TypeOK
    <2> QED
      BY <1>12, <2>1 DEF ResumeForToolResults, TypeOK, PhaseInv, Owed, Calls,
                         NoCalls, control, history, usage, bounds
  <1>13. CASE Inject
    <2>1. injects + 1 \in Nat
      BY DEF TypeOK
    <2>2. messages' \in Seq(Entry) /\ queue' \in Seq(Entry)
      BY <1>13, <2>1, EntryShapes, AppendEntry DEF Inject, TypeOK
    <2> QED
      BY <1>13, <2>1, <2>2 DEF Inject, TypeOK, PhaseInv, Owed, control, plan,
                               usage
  <1>14. CASE Snapshot
    <2>1. saved' \in SavedSnapshots
      BY <1>14 DEF Snapshot, SavedSnapshots, TypeOK, Owed, Calls
    <2> QED
      BY <1>14, <2>1 DEF Snapshot, TypeOK, PhaseInv, Owed, control, plan,
                         history, usage, bounds
  <1>15. ASSUME Rebuild,
                NEW h \in Seq(Entry), NEW n \in 0..MaxSteps, NEW t \in Nat,
                NEW c \in Calls, newSession(h, n, t, c)
         PROVE  TypeInv'
    <2>1. /\ parentTokens' \in Nat /\ spent' \in Nat
          /\ saved' \in SavedSnapshots
          /\ injects' \in Nat /\ failures' \in Nat /\ restores' \in Nat
      BY <1>15 DEF Rebuild, TypeOK
    <2> QED
      BY <1>15, <2>1, NewSessionTyped DEF TypeOK
  <1>16. CASE Restore
    BY <1>15, <1>16 DEF Restore, TypeOK, SavedSnapshots
  <1>17. CASE Replay
    <2>1. Replayed(saved.transcript) \in Seq(Entry)
      BY ReplayedShape DEF TypeOK, SavedSnapshots
    <2>2. 0 \in 0..MaxSteps /\ 0 \in Nat /\ NoCalls \in Calls
      BY <1>0 DEF Calls
    <2> QED
      BY <1>15, <1>17, <2>1, <2>2 DEF Replay
  <1> QED
    BY <1>1, <1>2, <1>3, <1>4, <1>5, <1>6, <1>7, <1>8, <1>9, <1>10, <1>11,
       <1>12, <1>13, <1>14, <1>16, <1>17 DEF Next, Progress, Rejected

\* Every variable keeps its type in every run of a session, whatever is
\* injected, retried, persisted, restored or replayed: the step counter stays
\* within the budget and the tracker agrees with it.
THEOREM TypeCorrect == Spec => [](TypeOK /\ PhaseInv)
  <1>1. TypeInv /\ [Next]_vars => TypeInv'
    BY StepTypeInv
  <1>2. TypeInv => TypeOK /\ PhaseInv
    BY DEF TypeInv
  <1> QED
    BY InitTypeInv, <1>1, <1>2, PTL DEF Spec

-----------------------------------------------------------------------------
(* What a session counts *)

LEMMA StepUsageInv ==
    ASSUME TypeInv, UsageInv, [Next]_vars
    PROVE  UsageInv'
  <1>0. /\ step \in Nat /\ step' \in Nat /\ tracker.step = step
        /\ tracker'.step = step'
        /\ tracker.tokens \in Nat /\ saved \in SavedSnapshots
        /\ ~done => tracker.tokens = Completed
        /\ parentTokens = spent /\ parentTokens \in Nat
        /\ ~saved.finished => saved.tokens = saved.step
        /\ pc = "calling" => ~done
    <2>1. TypeInv'
      BY StepTypeInv
    <2>2. MaxSteps \in Nat
      BY BudgetAssumption
    <2> QED
      BY <2>1, <2>2 DEF TypeInv, TypeOK, PhaseInv, UsageInv, UsageAccounted
  <1> USE DEF UsageInv, UsageAccounted, Completed
  <1>1. CASE UNCHANGED vars
    BY <1>0, <1>1 DEF vars, control, usage
  <1>2. CASE \/ PlanCancelled \/ PlanExhausted \/ PlanStartRejected
             \/ PlanQueueRejected \/ NextFailed
             \/ StepObserveFailed \/ ToolsCancelled
    <2>1. done' = TRUE /\ UNCHANGED <<parentTokens, spent, saved>>
      BY <1>2 DEF PlanCancelled, PlanExhausted, PlanStartRejected,
                  PlanQueueRejected, NextFailed, StepObserveFailed,
                  ToolsCancelled, fail, usage
    <2> QED
      BY <1>0, <2>1
  <1>3. CASE PlanCall
    <2>1. /\ pc = "idle" /\ pc' = "calling" /\ ~done /\ ~done'
          /\ step' = step + 1 /\ tracker'.tokens = tracker.tokens
          /\ UNCHANGED <<parentTokens, spent, saved>>
      <3>1. tracker \in [step : 0..MaxSteps, tokens : Nat]
        BY DEF TypeInv, TypeOK
      <3> QED
        BY <1>3, <3>1 DEF PlanCall, MayPlan
    <2> QED
      BY <1>0, <2>1
  <1>4. CASE NextRetryable \/ NextBlocked
    <2>1. pc = "calling" /\ \E err \in {"transient", "policy"}, can \in BOOLEAN :
              giveBack(err, can)
      BY <1>4 DEF NextRetryable, NextBlocked
    <2>2. /\ pc' = "idle" /\ step' = step - 1
          /\ tracker'.tokens = tracker.tokens
      BY <2>1, GiveBackTyped
    <2>3. UNCHANGED <<done, parentTokens, spent, saved>>
      BY <1>4 DEF NextRetryable, NextBlocked
    <2> QED
      BY <1>0, <2>1, <2>2, <2>3
  <1>5. CASE NextAnswered \/ NextCalled \/ NextCalledRejected
    <2>1. \E reason : Account(reason)
      BY <1>5 DEF NextAnswered, NextCalled, NextCalledRejected
    <2>2. /\ pc = "calling" /\ pc' = "idle"
          /\ tracker'.tokens = tracker.tokens + 1
          /\ parentTokens' = parentTokens + 1 /\ spent' = spent + 1
      BY <2>1, AccountTyped DEF TypeInv
    <2>3. UNCHANGED <<step, saved>>
      BY <1>5 DEF NextAnswered, NextCalled, NextCalledRejected
    <2> QED
      BY <1>0, <2>2, <2>3
  <1>6. CASE StepObserve \/ ResumeForToolResults \/ Inject
    <2>1. pc = "idle" /\ UNCHANGED <<pc, step, done, usage, saved>>
      BY <1>6 DEF StepObserve, ResumeForToolResults, Inject, MayObserve, control
    <2> QED
      BY <1>0, <2>1 DEF usage
  <1>7. CASE Snapshot
    <2>1. /\ saved'.tokens = tracker.tokens /\ saved'.step = step
          /\ saved'.finished = done /\ pc = "idle"
          /\ UNCHANGED <<pc, step, done, usage>>
      BY <1>7 DEF Snapshot, control
    <2> QED
      BY <1>0, <2>1 DEF usage
  <1>8. ASSUME Rebuild, NEW h, NEW n \in Nat, NEW c, newSession(h, n, n, c)
        PROVE  UsageInv'
    <2>1. pc' = "idle" /\ step' = n /\ tracker'.step = n /\ tracker'.tokens = n
      BY <1>8 DEF newSession, newTracker
    <2>2. parentTokens' = spent' /\ UNCHANGED saved
      BY <1>0, <1>8 DEF Rebuild
    <2> QED
      BY <1>0, <2>1, <2>2
  <1>9. CASE Restore
    <2>1. saved.step \in Nat /\ saved.tokens = saved.step
      BY <1>0, <1>9, BudgetAssumption DEF Restore, SavedSnapshots
    <2> QED
      BY <1>8, <1>9, <2>1 DEF Restore
  <1>10. CASE Replay
    BY <1>8, <1>10 DEF Replay
  <1> QED
    BY <1>1, <1>2, <1>3, <1>4, <1>5, <1>6, <1>7, <1>9, <1>10
    DEF Next, Progress, Rejected

\* The tracker agrees with the session, the totals of an open session count
\* every answered turn of the conversation once, through retries, restores and
\* replays, and the parent is billed what this process spent.
THEOREM UsageIsAccounted == Spec => []UsageAccounted
  <1>1. Init => UsageInv
    BY DEF Init, UsageInv, UsageAccounted, Completed, NothingSaved, newTracker
  <1>2. TypeInv /\ [Next]_vars => TypeInv'
    BY StepTypeInv
  <1>3. TypeInv /\ UsageInv /\ [Next]_vars => UsageInv'
    BY StepUsageInv
  <1>4. UsageInv => UsageAccounted
    BY DEF UsageInv
  <1> QED
    BY InitTypeInv, <1>1, <1>2, <1>3, <1>4, PTL DEF Spec

LEMMA InitErrorInv == Init => ErrorInv
  <1> SUFFICES ASSUME Init PROVE ErrorInv
    OBVIOUS
  <1> QED
    BY DEF Init, ErrorInv, LastErrorIsCurrent, Completed

LEMMA StepErrorInv ==
    ASSUME TypeInv, ErrorInv, [Next]_vars
    PROVE  ErrorInv'
  <1>0. /\ step \in 0..MaxSteps /\ step' \in 0..MaxSteps
        /\ MaxSteps \in Nat /\ step \in Nat
        /\ retryable \in BOOLEAN
        /\ pc = "calling" => ~done /\ phase = "ready" /\ step > 0
        /\ stopReason = "max_steps" =>
              done /\ lastErr = "nil" /\ step = MaxSteps
        /\ retryable => /\ ~done /\ lastErr = "transient" /\ phase = "ready"
                        /\ ~OwesResults(messages)
        /\ pc = "calling" => ~OwesResults(messages)
        /\ ~done /\ lastErr # "nil" => Completed < MaxSteps
    <2>1. TypeInv'
      BY StepTypeInv
    <2> QED
      BY <2>1, BudgetAssumption
      DEF TypeInv, TypeOK, PhaseInv, ErrorInv, LastErrorIsCurrent
  <1> USE DEF ErrorInv, LastErrorIsCurrent, Completed
  <1>1. CASE UNCHANGED vars
    BY <1>0, <1>1 DEF vars, control, plan, history, OwesResults
  <1>2. CASE \/ PlanCancelled \/ PlanStartRejected \/ PlanQueueRejected
             \/ NextFailed \/ StepObserveFailed \/ ToolsCancelled
    <2>1. /\ done' = TRUE /\ retryable' = FALSE /\ ~done /\ pc' = "idle"
          /\ UNCHANGED stopReason
      BY <1>0, <1>2 DEF PlanCancelled, PlanStartRejected, PlanQueueRejected,
                  NextFailed, StepObserveFailed, ToolsCancelled, MayPlan,
                  MayObserve, fail
    <2> QED
      BY <1>0, <2>1
  <1>3. CASE PlanExhausted
    <2>1. /\ pc = "idle" /\ pc' = "idle" /\ ~done /\ done'
          /\ step + 1 > MaxSteps
          /\ UNCHANGED <<step, lastErr, retryable>>
      BY <1>3 DEF PlanExhausted, MayPlan
    <2>2. step = MaxSteps
      BY <1>0, <2>1
    <2>3. lastErr = "nil"
      BY <1>0, <2>1, <2>2
    <2> QED
      BY <1>0, <2>1, <2>2, <2>3
  <1>4. CASE PlanCall
    <2>1. /\ pc = "idle" /\ pc' = "calling" /\ ~done /\ ~OwesResults(messages)
          /\ step' = step + 1
          /\ UNCHANGED <<done, lastErr, retryable, stopReason, phase, messages>>
      BY <1>4 DEF PlanCall, MayPlan, plan
    <2>2. ~OwesResults(messages)'
      BY <2>1 DEF OwesResults
    <2> QED
      BY <1>0, <2>1, <2>2
  <1>5. CASE NextRetryable \/ NextBlocked
    <2>1. /\ pc = "calling" /\ pc' = "idle" /\ step' = step - 1
          /\ lastErr' \in {"transient", "policy"}
          /\ retryable' = (lastErr' = "transient")
          /\ UNCHANGED <<done, stopReason, phase, messages>>
      BY <1>5 DEF NextRetryable, NextBlocked, giveBack, plan, history
    <2>2. ~OwesResults(messages)'
      BY <1>0, <2>1 DEF OwesResults
    <2>3. step' < MaxSteps
      BY <1>0, <2>1
    <2> QED
      BY <1>0, <2>1, <2>2, <2>3
  <1>6. CASE NextAnswered \/ NextCalled \/ NextCalledRejected
    <2>1. /\ pc' = "idle" /\ retryable' = FALSE
          /\ stopReason' \in AnswerReasons \cup {"tool_use"}
          /\ done' \/ lastErr' = "nil"
      BY <1>6 DEF NextAnswered, NextCalled, NextCalledRejected, Account, fail
    <2>2. stopReason' # "max_steps"
      BY <2>1 DEF AnswerReasons
    <2> QED
      BY <2>1, <2>2
  <1>7. CASE StepObserve \/ ResumeForToolResults
    <2>1. /\ pc = "idle" /\ ~retryable
          /\ UNCHANGED <<pc, step, done, lastErr, retryable, stopReason>>
      BY <1>0, <1>7 DEF StepObserve, ResumeForToolResults, MayObserve, control
    <2> QED
      BY <1>0, <2>1
  <1>8. CASE Inject
    <2>1. /\ pc = "idle"
          /\ UNCHANGED <<pc, step, done, lastErr, retryable, stopReason, phase>>
      BY <1>8 DEF Inject, control, plan
    <2>2. ~OwesResults(messages)'
      <3>1. /\ messages \in Seq(Entry) /\ InjectNo(injects + 1) \in Entry
            /\ messages' = Append(messages, InjectNo(injects + 1))
        BY <1>8, EntryShapes DEF Inject, TypeInv, TypeOK
      <3> QED
        BY <3>1, AppendEntry DEF OwesResults, InjectNo
    <2> QED
      BY <1>0, <2>1, <2>2
  <1>9. CASE Snapshot
    <2>1. UNCHANGED <<pc, step, done, lastErr, retryable, stopReason, phase,
                      messages>>
      BY <1>9 DEF Snapshot, control, plan, history
    <2> QED
      BY <1>0, <2>1 DEF OwesResults
  <1>10. CASE Restore \/ Replay
    <2>1. /\ pc' = "idle" /\ lastErr' = "nil" /\ retryable' = FALSE
          /\ stopReason' = "none"
      BY <1>10 DEF Restore, Replay, newSession
    <2> QED
      BY <2>1
  <1> QED
    BY <1>1, <1>2, <1>3, <1>4, <1>5, <1>6, <1>7, <1>8, <1>9, <1>10
    DEF Next, Progress, Rejected

\* A run stopped by its budget has used all of it and reports no older error,
\* and a session that says its last failure can be retried is open, owes no
\* results and remembers just that failure.
THEOREM LastErrorStaysCurrent == Spec => []LastErrorIsCurrent
  <1>1. TypeInv /\ [Next]_vars => TypeInv'
    BY StepTypeInv
  <1>2. TypeInv /\ ErrorInv /\ [Next]_vars => ErrorInv'
    BY StepErrorInv
  <1>3. ErrorInv => LastErrorIsCurrent
    BY DEF ErrorInv
  <1> QED
    BY InitTypeInv, InitErrorInv, <1>1, <1>2, <1>3, PTL DEF Spec

-----------------------------------------------------------------------------
(* The two histories *)

FullInv == TypeInv /\ HistoryInv /\ TranscriptInv

\* A transcript that owes nothing stays well formed under any entry but
\* results.
LEMMA SettledAppend ==
    ASSUME NEW h \in Seq(Entry), SettledButLast(h), ~OwesResults(h),
           NEW e \in Entry, e.kind # "results"
    PROVE  SettledButLast(Append(h, e))
  <1> DEFINE g == Append(h, e)
  <1>1. /\ Len(h) \in Nat /\ DOMAIN h = 1..Len(h)
        /\ Len(g) = Len(h) + 1 /\ DOMAIN g = 1..(Len(h) + 1)
        /\ \A i \in 1..Len(h) : g[i] = h[i]
        /\ g[Len(h) + 1] = e
    BY LenProperties, AppendEntry
  <1>2. Len(h) > 0 => h[Len(h)].kind # "calls"
    BY <1>1, EmptySeq DEF OwesResults, Last
  <1>3. ASSUME NEW i \in 1..Len(h)
        PROVE  /\ g[i].kind = "calls" /\ i < Len(g) =>
                     g[i + 1] = ResultsOf(g[i].turn)
               /\ g[i].kind = "results" =>
                     i > 1 /\ g[i - 1] = CallsOf(g[i].turn)
    <2>1. g[i].kind = "calls" => i < Len(h)
      BY <1>1, <1>2
    <2>2. i < Len(h) => i + 1 \in 1..Len(h)
      BY <1>1
    <2>3. i > 1 => i - 1 \in 1..Len(h)
      BY <1>1
    <2> QED
      BY <1>1, <2>1, <2>2, <2>3 DEF SettledButLast
  <1>4. ~(Len(h) + 1 < Len(g))
    BY <1>1
  <1>5. \A i \in 1..(Len(h) + 1) : i \in 1..Len(h) \/ i = Len(h) + 1
    BY <1>1
  <1> QED
    BY <1>1, <1>3, <1>4, <1>5 DEF SettledButLast

\* Answering the calls a transcript ends with keeps it well formed.
LEMMA SettledAnswer ==
    ASSUME NEW h \in Seq(Entry), SettledButLast(h), OwesResults(h)
    PROVE  SettledButLast(Append(h, ResultsOf(Last(h).turn)))
  <1> DEFINE e == ResultsOf(Last(h).turn)
             g == Append(h, e)
  <1>1. Last(h) \in Entry /\ Last(h).turn \in Nat /\ Last(h) = h[Len(h)]
    BY LastEntry DEF OwesResults
  <1>2. /\ Len(h) \in Nat /\ Len(h) > 0 /\ DOMAIN h = 1..Len(h)
        /\ e \in Entry
    BY <1>1, LenProperties, LastEntry, EntryShapes DEF OwesResults
  <1>3. /\ Len(g) = Len(h) + 1 /\ DOMAIN g = 1..(Len(h) + 1)
        /\ \A i \in 1..Len(h) : g[i] = h[i]
        /\ g[Len(h) + 1] = e
    BY <1>2, AppendEntry
  <1>4. h[Len(h)] = CallsOf(e.turn) /\ e.kind = "results"
    BY <1>1 DEF OwesResults, CallsOf, ResultsOf, Entry
  <1>5. ASSUME NEW i \in 1..Len(h)
        PROVE  /\ g[i].kind = "calls" /\ i < Len(g) =>
                     g[i + 1] = ResultsOf(g[i].turn)
               /\ g[i].kind = "results" =>
                     i > 1 /\ g[i - 1] = CallsOf(g[i].turn)
    <2>0. i \in Nat /\ i <= Len(h) /\ Len(h) \in Nat
      BY <1>2
    <2>1. i < Len(h) \/ i = Len(h)
      BY <2>0
    <2>2. i \in Nat /\ (i < Len(h) => i + 1 \in 1..Len(h))
      BY <1>2
    <2>3. i > 1 => i - 1 \in 1..Len(h)
      BY <1>2
    <2>4. CASE i = Len(h)
      <3>1. g[i] = h[i] /\ g[i + 1] = e /\ g[i] = Last(h)
        BY <1>1, <1>3, <2>4
      <3>2. g[i + 1] = ResultsOf(g[i].turn)
        BY <3>1
      <3>3. g[i].kind # "results"
        BY <3>1 DEF OwesResults
      <3> QED
        BY <3>2, <3>3
    <2>5. CASE i < Len(h)
      <3>1. /\ g[i] = h[i] /\ g[i + 1] = h[i + 1]
            /\ i > 1 => g[i - 1] = h[i - 1]
        BY <1>3, <2>2, <2>3, <2>5
      <3> QED
        BY <1>2, <2>5, <3>1 DEF SettledButLast
    <2> QED
      BY <2>1, <2>4, <2>5
  <1>6. ~(Len(h) + 1 < Len(g)) /\ e.kind # "calls"
    BY <1>3, <1>2, <1>4
  <1>7. g[Len(h) + 1].kind = "results" =>
            Len(h) + 1 > 1 /\ g[Len(h) + 1 - 1] = CallsOf(g[Len(h) + 1].turn)
    <2>1. Len(h) \in 1..Len(h) /\ Len(h) + 1 - 1 = Len(h) /\ Len(h) + 1 > 1
      BY <1>2
    <2>2. g[Len(h)] = CallsOf(g[Len(h) + 1].turn)
      BY <1>3, <1>4, <2>1
    <2> QED
      BY <2>1, <2>2
  <1>8. \A i \in 1..(Len(h) + 1) : i \in 1..Len(h) \/ i = Len(h) + 1
    BY <1>2
  <1>9. \A i \in 1..(Len(h) + 1) :
            /\ g[i].kind = "calls" /\ i < Len(g) => g[i + 1] = ResultsOf(g[i].turn)
            /\ g[i].kind = "results" => i > 1 /\ g[i - 1] = CallsOf(g[i].turn)
    <2> TAKE i \in 1..(Len(h) + 1)
    <2>1. CASE i \in 1..Len(h)
      BY <1>5, <2>1
    <2>2. CASE i = Len(h) + 1
      BY <1>3, <1>6, <1>7, <2>2
    <2> QED
      BY <1>8, <2>1, <2>2
  <1> QED
    BY <1>3, <1>9 DEF SettledButLast

\* A replayed transcript is as well formed as the one that was persisted.
LEMMA SettledReplayed ==
    ASSUME NEW h \in Seq(Entry), SettledButLast(h)
    PROVE  SettledButLast(Replayed(h))
  <1> DEFINE g == Replayed(h)
  <1>1. /\ Len(h) \in Nat /\ DOMAIN h = 1..Len(h)
        /\ Len(g) = Len(h) /\ DOMAIN g = 1..Len(h)
        /\ \A i \in 1..Len(h) : h[i] \in Entry /\ g[i].kind = h[i].kind
    BY LenProperties, ElementOfSeq, ReplayedShape
  <1>2. \A i \in 1..Len(h) : h[i].kind = "calls" => g[i] = CallsOf(0)
    BY <1>1 DEF Replayed, Entry, CallsOf
  <1>3. \A i \in 1..Len(h) : h[i].kind = "results" => g[i] = ResultsOf(0)
    BY <1>1 DEF Replayed, Entry, ResultsOf
  <1>4. ASSUME NEW i \in 1..Len(h)
        PROVE  /\ g[i].kind = "calls" /\ i < Len(g) =>
                     g[i + 1] = ResultsOf(g[i].turn)
               /\ g[i].kind = "results" =>
                     i > 1 /\ g[i - 1] = CallsOf(g[i].turn)
    <2>1. ASSUME h[i].kind = "calls", i < Len(h)
          PROVE  g[i + 1] = ResultsOf(g[i].turn)
      <3>1. i + 1 \in 1..Len(h) /\ h[i + 1] = ResultsOf(h[i].turn)
        BY <1>1, <2>1 DEF SettledButLast
      <3>2. h[i + 1].kind = "results"
        BY <3>1 DEF ResultsOf
      <3> QED
        BY <1>2, <1>3, <2>1, <3>1, <3>2 DEF CallsOf
    <2>2. ASSUME h[i].kind = "results"
          PROVE  i > 1 /\ g[i - 1] = CallsOf(g[i].turn)
      <3>1. i > 1 /\ i - 1 \in 1..Len(h) /\ h[i - 1] = CallsOf(h[i].turn)
        BY <1>1, <2>2 DEF SettledButLast
      <3>2. h[i - 1].kind = "calls"
        BY <3>1 DEF CallsOf
      <3> QED
        BY <1>2, <1>3, <2>2, <3>1, <3>2 DEF ResultsOf
    <2> QED
      BY <1>1, <2>1, <2>2
  <1> QED
    BY <1>1, <1>4 DEF SettledButLast

\* Appending two entries one by one, or as one sequence, is the same.
LEMMA AppendTwice ==
    ASSUME NEW h \in Seq(Entry), NEW d \in Entry, NEW e \in Entry
    PROVE  Append(Append(h, d), e) = h \o <<d, e>>
  <1>1. Append(h, d) = h \o <<d>> /\ Append(h, d) \in Seq(Entry)
    BY AppendIsConcat, AppendEntry
  <1>2. Append(Append(h, d), e) = (h \o <<d>>) \o <<e>>
    BY <1>1, AppendIsConcat
  <1>3. <<d>> \in Seq(Entry) /\ <<e>> \in Seq(Entry)
    OBVIOUS
  <1>4. <<d>> \o <<e>> = Append(<<d>>, e)
    BY <1>3, AppendIsConcat
  <1>5. Append(<<d>>, e) = <<d, e>>
    <2> DEFINE s == Append(<<d>>, e)
               t == <<d, e>>
    <2>1. t \in Seq(Entry) /\ Len(t) = 2 /\ t[1] = d /\ t[2] = e
      OBVIOUS
    <2>2. <<d>> \in Seq(Entry) /\ Len(<<d>>) = 1 /\ <<d>>[1] = d
      OBVIOUS
    <2>3. s \in Seq(Entry) /\ Len(s) = 2 /\ s[1] = d /\ s[2] = e
      <3>1. 1 \in 1..1 /\ 1 + 1 = 2
        OBVIOUS
      <3> QED
        BY <2>2, <3>1, AppendEntry
    <2>4. \A i \in 1..2 : i = 1 \/ i = 2
      OBVIOUS
    <2> HIDE DEF s, t
    <2>5. \A i \in 1..Len(s) : s[i] = t[i]
      BY <2>1, <2>3, <2>4
    <2>6. s = t
      BY <2>1, <2>3, <2>5, SeqEqual
    <2> QED
      BY <2>6 DEF s, t
  <1> QED
    BY <1>2, <1>3, <1>4, <1>5, ConcatAssociative

\* Appending to the queue appends to the conversation it is part of.
LEMMA AppendQueued ==
    ASSUME NEW h \in Seq(Entry), NEW q \in Seq(Entry), NEW e \in Entry
    PROVE  Append(h \o q, e) = h \o Append(q, e)
  <1>1. h \o q \in Seq(Entry) /\ <<e>> \in Seq(Entry)
    BY ConcatProperties
  <1>2. Append(h \o q, e) = (h \o q) \o <<e>> /\ Append(q, e) = q \o <<e>>
    BY <1>1, AppendIsConcat
  <1> QED
    BY <1>1, <1>2, ConcatAssociative

\* A conversation that owes results has no injected message behind them.
LEMMA OwedNotQueued ==
    ASSUME NEW h \in Seq(Entry), NEW q \in Seq(Entry),
           \A i \in DOMAIN q : q[i].kind = "inject",
           OwesResults(h \o q)
    PROVE  q = <<>>
  <1> SUFFICES ASSUME q # <<>> PROVE FALSE
    OBVIOUS
  <1>1. /\ Len(h) \in Nat /\ Len(q) \in Nat /\ Len(q) > 0
        /\ Len(q) \in DOMAIN q
    BY LenProperties, LastEntry
  <1>2. /\ Len(h \o q) = Len(h) + Len(q)
        /\ (h \o q)[Len(h) + Len(q)] = q[Len(q)]
    <2>1. Len(h) + Len(q) \in 1..(Len(h) + Len(q)) /\ ~(Len(h) + Len(q) <= Len(h))
          /\ Len(h) + Len(q) - Len(h) = Len(q)
      BY <1>1
    <2> QED
      BY <2>1, ConcatProperties
  <1>3. (h \o q)[Len(h \o q)].kind = "inject"
    BY <1>1, <1>2
  <1> QED
    BY <1>3 DEF OwesResults, Last

\* A transcript that ends in calls owes their results; one that ends in
\* results, an injected message or an answer owes nothing.
LEMMA OwesAppend ==
    ASSUME NEW h \in Seq(Entry), NEW e \in Entry
    PROVE  OwesResults(Append(h, e)) <=> e.kind = "calls"
  BY AppendEntry DEF OwesResults

LEMMA InitFullInv == Init => FullInv
  <1> SUFFICES ASSUME Init PROVE FullInv
    OBVIOUS
  <1>1. <<Input>> = <<Input>> \o <<>> /\ <<>> \in Seq(Entry) /\ <<Input>> \in Seq(Entry)
    BY EntryShapes, EmptySeq, ConcatEmptySeq
  <1>2. HistoryInv
    BY <1>1 DEF Init, HistoryInv, NothingSaved
  <1>3. SettledButLast(<<Input>>)
    BY DEF SettledButLast, Input
  <1>4. SettledButLast(<<>>)
    BY DEF SettledButLast
  <1>5. TranscriptInv
    BY <1>3, <1>4 DEF Init, TranscriptInv, NothingSaved
  <1> QED
    BY <1>2, <1>5, InitTypeInv DEF FullInv

\* For a caller that injects between steps, every step keeps the relation
\* between the native history, the queue and the neutral transcript.
LEMMA StepHistoryInv ==
    ASSUME ~MidPlanInject, FullInv, [Next]_vars
    PROVE  HistoryInv' /\ TranscriptInv'
  <1>0. /\ TypeOK /\ PhaseInv /\ HistoryInv /\ TranscriptInv
        /\ messages \in Seq(Entry) /\ native \in Seq(Entry)
        /\ queue \in Seq(Entry) /\ step \in Nat
        /\ saved.transcript \in Seq(Entry)
    BY BudgetAssumption DEF FullInv, TypeInv, TypeOK, SavedSnapshots
  <1>1. CASE UNCHANGED vars
    BY <1>0, <1>1 DEF HistoryInv, TranscriptInv, Owed, OwesResults, vars,
                      control, plan, history
  <1>2. CASE \/ PlanCancelled \/ PlanExhausted \/ PlanStartRejected
             \/ PlanQueueRejected \/ ToolsCancelled
    <2>1. /\ done' = TRUE /\ pc' = "idle"
          /\ UNCHANGED <<history, saved>>
      BY <1>2 DEF PlanCancelled, PlanExhausted, PlanStartRejected,
                  PlanQueueRejected, ToolsCancelled, MayPlan, MayObserve, fail
    <2> QED
      BY <1>0, <2>1 DEF HistoryInv, TranscriptInv, OwesResults, history
  <1>3. CASE PlanCall
    <2>1. native' = messages /\ messages' = messages /\ queue' = <<>>
      BY <1>0, <1>3 DEF PlanCall, MayPlan, HistoryInv
    <2>2. messages = messages \o <<>>
      BY <1>0, ConcatEmptySeq
    <2>3. phase' = "ready" /\ ~OwesResults(messages) /\ UNCHANGED saved
      BY <1>3 DEF PlanCall, MayPlan, plan
    <2> QED
      BY <1>0, <2>1, <2>2, <2>3 DEF HistoryInv, TranscriptInv, OwesResults
  <1>4. CASE NextRetryable \/ NextBlocked \/ NextFailed
    <2>1. /\ pc' = "idle" /\ phase' = "ready" /\ pc = "calling"
          /\ ~done /\ phase = "ready" /\ UNCHANGED <<history, saved>>
      BY <1>0, <1>4 DEF NextRetryable, NextBlocked, NextFailed, giveBack, fail,
                        plan, PhaseInv
    <2> QED
      BY <1>0, <2>1 DEF HistoryInv, TranscriptInv, OwesResults, history
  <1>5. CASE NextAnswered
    <2>1. /\ done' = TRUE /\ pc' = "idle" /\ pc = "calling"
          /\ UNCHANGED <<queue, saved>>
          /\ messages' \in {messages, Append(messages, AnswerOf(step))}
      BY <1>5 DEF NextAnswered, Account
    <2>2. AnswerOf(step) \in Entry /\ AnswerOf(step).kind # "results"
      BY <1>0, EntryShapes DEF AnswerOf
    <2>3. ~OwesResults(messages)
      BY <1>0, <2>1 DEF HistoryInv
    <2>4. SettledButLast(messages')
      BY <1>0, <2>1, <2>2, <2>3, SettledAppend DEF TranscriptInv
    <2> QED
      BY <1>0, <2>1, <2>4 DEF HistoryInv, TranscriptInv, OwesResults
  <1>6. CASE NextCalled \/ NextCalledRejected
    <2>1. /\ pc' = "idle" /\ pc = "calling" /\ UNCHANGED <<native, queue, saved>>
          /\ messages' = Append(messages, CallsOf(step))
      BY <1>6 DEF NextCalled, NextCalledRejected, Account
    <2>2. CallsOf(step) \in Entry /\ CallsOf(step).kind = "calls"
          /\ CallsOf(step).turn = step
      BY <1>0, EntryShapes DEF CallsOf
    <2>3. /\ ~done /\ phase = "ready" /\ ~reconstructedObserve
          /\ queue = <<>> /\ ~OwesResults(messages)
          /\ messages = native \o <<>>
      BY <1>0, <2>1 DEF PhaseInv, HistoryInv
    <2>4. messages = native
      BY <1>0, <2>3, ConcatEmptySeq
    <2>5. SettledButLast(messages')
      BY <1>0, <2>1, <2>2, <2>3, SettledAppend DEF TranscriptInv
    <2>6. OwesResults(messages') /\ Last(messages').turn = step
      BY <1>0, <2>1, <2>2, OwesAppend, AppendEntry
    <2>7. CASE NextCalled
      <3>1. Owed' = step /\ ~reconstructedObserve' /\ phase' = "awaiting"
            /\ planOutput' = step /\ done' = done
        BY <2>3, <2>7 DEF NextCalled, Owed
      <3> QED
        BY <1>0, <2>1, <2>3, <2>4, <2>5, <2>6, <3>1 DEF HistoryInv, TranscriptInv
    <2>8. CASE NextCalledRejected
      <3>1. done' = TRUE
        BY <2>8 DEF NextCalledRejected, fail
      <3> QED
        BY <1>0, <2>1, <2>3, <2>5, <3>1 DEF HistoryInv, TranscriptInv
    <2> QED
      BY <1>6, <2>7, <2>8
  <1>7. CASE StepObserve \/ StepObserveFailed
    <2>1. /\ pc = "idle" /\ pc' = "idle" /\ ~done /\ phase = "awaiting"
          /\ UNCHANGED <<queue, saved>>
          /\ messages' = Append(messages, ResultsOf(Owed))
      BY <1>7 DEF StepObserve, StepObserveFailed, MayObserve
    <2>2. /\ queue = <<>> /\ OwesResults(messages)
          /\ Owed = Last(messages).turn
          /\ messages = IF reconstructedObserve THEN native
                        ELSE Append(native, CallsOf(planOutput))
      BY <1>0, <2>1 DEF HistoryInv
    <2>3. Owed \in Nat /\ ResultsOf(Owed) \in Entry
      BY <1>0, <2>2, LastEntry, EntryShapes DEF OwesResults
    <2>4. SettledButLast(messages') /\ messages' \in Seq(Entry)
      BY <1>0, <2>1, <2>2, <2>3, SettledAnswer, AppendEntry DEF TranscriptInv
    <2>5. CASE StepObserve
      <3>1. native' = messages'
        <4>1. CASE reconstructedObserve
          BY <2>1, <2>2, <2>5, <4>1 DEF StepObserve, Observed, Owed
        <4>2. CASE ~reconstructedObserve
          <5>1. planOutput = Owed /\ CallsOf(planOutput) \in Entry
            BY <2>3, <4>2, EntryShapes DEF Owed
          <5> QED
            BY <1>0, <2>1, <2>2, <2>3, <2>5, <4>2, <5>1, AppendTwice
            DEF StepObserve, Observed
        <4> QED
          BY <4>1, <4>2
      <3>2. messages' = native' \o <<>>
        BY <2>4, <3>1, ConcatEmptySeq
      <3>3. phase' = "ready"
        BY <2>5 DEF StepObserve
      <3> QED
        BY <1>0, <2>1, <2>2, <2>4, <3>2, <3>3 DEF HistoryInv, TranscriptInv
    <2>6. CASE StepObserveFailed
      <3>1. done' = TRUE
        BY <2>6 DEF StepObserveFailed, fail
      <3> QED
        BY <1>0, <2>1, <2>2, <2>4, <3>1 DEF HistoryInv, TranscriptInv
    <2> QED
      BY <1>7, <2>5, <2>6
  <1>8. CASE ResumeForToolResults
    <2>1. /\ pc' = "idle" /\ ~done /\ phase = "ready" /\ OwesResults(messages)
          /\ UNCHANGED <<history, saved>>
          /\ reconstructedObserve' /\ pendingCalls' = Last(messages).turn
          /\ phase' = "awaiting"
      BY <1>8 DEF ResumeForToolResults
    <2>2. messages = native \o queue /\ queue = <<>>
      BY <1>0, <2>1, OwedNotQueued DEF HistoryInv
    <2>3. messages = native
      BY <1>0, <2>2, ConcatEmptySeq
    <2>4. Owed' = Last(messages).turn
      BY <2>1 DEF Owed
    <2> QED
      BY <1>0, <2>1, <2>2, <2>3, <2>4 DEF HistoryInv, TranscriptInv,
                                          OwesResults, history
  <1>9. CASE Inject
    <2> DEFINE e == InjectNo(injects + 1)
    <2>1. e \in Entry /\ e.kind = "inject"
      BY EntryShapes, <1>0 DEF TypeOK, InjectNo
    <2>2. /\ pc = "idle" /\ pc' = "idle" /\ ~OwesResults(messages)
          /\ queue' = Append(queue, e) /\ messages' = Append(messages, e)
          /\ UNCHANGED <<done, phase, native, saved>>
      BY <1>9 DEF Inject, control, plan
    <2>3. SettledButLast(messages')
      BY <1>0, <2>1, <2>2, SettledAppend DEF TranscriptInv
    <2>4. \A i \in DOMAIN queue' : queue'[i].kind = "inject"
      <3>1. DOMAIN queue = 1..Len(queue) /\ Len(queue) \in Nat
        BY <1>0, LenProperties
      <3>2. /\ DOMAIN queue' = 1..(Len(queue) + 1)
            /\ \A i \in 1..Len(queue) : queue'[i] = queue[i]
            /\ queue'[Len(queue) + 1] = e
        BY <1>0, <2>1, <2>2, AppendEntry
      <3>3. \A i \in 1..(Len(queue) + 1) : i \in 1..Len(queue) \/ i = Len(queue) + 1
        BY <3>1
      <3>4. \A i \in 1..Len(queue) : queue[i].kind = "inject"
        BY <1>0, <3>1 DEF HistoryInv
      <3>5. ASSUME NEW i \in 1..(Len(queue) + 1)
            PROVE  queue'[i].kind = "inject"
        <4>1. CASE i \in 1..Len(queue)
          BY <3>2, <3>4, <4>1
        <4>2. CASE i = Len(queue) + 1
          BY <2>1, <3>2, <4>2
        <4> QED
          BY <3>3, <4>1, <4>2
      <3> QED
        BY <3>2, <3>5
    <2>5. ~done' /\ phase' = "ready" => messages' = native' \o queue'
      <3>1. Append(native \o queue, e) = native \o Append(queue, e)
        BY <1>0, <2>1, AppendQueued
      <3>2. ~done /\ phase = "ready" => messages = native \o queue
        BY <1>0 DEF HistoryInv
      <3> QED
        BY <2>2, <3>1, <3>2
    <2>6. ~(~done' /\ phase' = "awaiting")
      BY <1>0, <2>2 DEF HistoryInv
    <2> QED
      BY <1>0, <2>2, <2>3, <2>4, <2>5, <2>6 DEF HistoryInv, TranscriptInv
  <1>10. CASE Snapshot
    <2>1. /\ saved'.transcript = messages /\ saved'.finished = done
          /\ saved'.calls = IF phase = "awaiting" THEN Owed ELSE NoCalls
          /\ UNCHANGED <<pc, done, phase, planOutput, pendingCalls,
                         reconstructedObserve, messages, native, queue>>
      BY <1>10 DEF Snapshot, control, plan, history
    <2>2. Owed' = Owed
      BY <2>1 DEF Owed
    <2>3. ~saved'.finished /\ saved'.calls # NoCalls =>
            /\ OwesResults(saved'.transcript)
            /\ saved'.calls = Last(saved'.transcript).turn
      BY <1>0, <2>1 DEF HistoryInv
    <2>4. HistoryInv'
      BY <1>0, <2>1, <2>2, <2>3 DEF HistoryInv, OwesResults
    <2>5. TranscriptInv'
      BY <1>0, <2>1 DEF TranscriptInv
    <2> QED
      BY <2>4, <2>5
  <1>11. ASSUME NEW h \in Seq(Entry), SettledButLast(h), NEW c \in Calls,
                c # NoCalls => OwesResults(h) /\ c = Last(h).turn,
                NEW n, NEW t, newSession(h, n, t, c), UNCHANGED saved
         PROVE  HistoryInv' /\ TranscriptInv'
    <2>1. /\ pc' = "idle" /\ messages' = h /\ native' = h /\ queue' = <<>>
          /\ phase' = IF c = NoCalls THEN "ready" ELSE "awaiting"
          /\ reconstructedObserve' = (c # NoCalls) /\ pendingCalls' = c
      BY <1>11 DEF newSession
    <2>2. h = h \o <<>>
      BY ConcatEmptySeq
    <2>3. c # NoCalls => Owed' = c
      BY <2>1 DEF Owed
    <2> QED
      <3>1. TranscriptInv'
        BY <1>0, <1>11, <2>1 DEF TranscriptInv
      <3>2. \A i \in DOMAIN queue' : queue'[i].kind = "inject"
        BY <2>1
      <3>3. HistoryInv'
        BY <1>0, <1>11, <2>1, <2>2, <2>3, <3>2 DEF HistoryInv, OwesResults
      <3> QED
        BY <3>1, <3>3
  <1>12. CASE Restore
    <2>1. /\ UNCHANGED saved /\ ~saved.finished /\ saved.calls \in Calls
          /\ newSession(saved.transcript, saved.step, saved.tokens, saved.calls)
      BY <1>0, <1>12 DEF Restore, Rebuild, TypeOK, SavedSnapshots
    <2>2. saved.calls # NoCalls => /\ OwesResults(saved.transcript)
                                   /\ saved.calls = Last(saved.transcript).turn
      BY <1>0, <2>1 DEF HistoryInv
    <2>3. SettledButLast(saved.transcript)
      BY <1>0 DEF TranscriptInv
    <2> QED
      BY <1>0, <1>11, <2>1, <2>2, <2>3
  <1>13. CASE Replay
    <2>1. /\ UNCHANGED saved
          /\ newSession(Replayed(saved.transcript), 0, 0, NoCalls)
      BY <1>13 DEF Replay, Rebuild
    <2>2. /\ SettledButLast(Replayed(saved.transcript))
          /\ Replayed(saved.transcript) \in Seq(Entry) /\ NoCalls \in Calls
      BY <1>0, SettledReplayed, ReplayedShape DEF TranscriptInv, Calls
    <2> QED
      BY <1>11, <2>1, <2>2
  <1> QED
    BY <1>1, <1>2, <1>3, <1>4, <1>5, <1>6, <1>7, <1>8, <1>9, <1>10, <1>12,
       <1>13 DEF Next, Progress, Rejected

\* A transcript that owes nothing and is well formed up to its end is settled.
LEMMA SettledWhole ==
    ASSUME NEW h \in Seq(Entry), SettledButLast(h), ~OwesResults(h)
    PROVE  Settled(h)
  <1>1. Len(h) \in Nat /\ DOMAIN h = 1..Len(h)
    BY LenProperties
  <1>2. ASSUME NEW i \in 1..Len(h)
        PROVE  /\ h[i].kind = "calls" =>
                     i + 1 \in 1..Len(h) /\ h[i + 1] = ResultsOf(h[i].turn)
               /\ h[i].kind = "results" =>
                     i - 1 \in 1..Len(h) /\ h[i - 1] = CallsOf(h[i].turn)
    <2>1. i \in Nat /\ i <= Len(h) /\ i > 0 /\ Len(h) > 0
      BY <1>1
    <2>2. h # <<>>
      BY <2>1, EmptySeq
    <2>3. h[Len(h)].kind # "calls"
      BY <2>2 DEF OwesResults, Last
    <2>4. h[i].kind = "calls" => i < Len(h)
      BY <1>1, <2>1, <2>3
    <2>5. i < Len(h) => i + 1 \in 1..Len(h)
      BY <1>1, <2>1
    <2>6. i > 1 => i - 1 \in 1..Len(h)
      BY <1>1, <2>1
    <2> QED
      BY <1>1, <2>4, <2>5, <2>6 DEF SettledButLast
  <1> QED
    BY <1>1, <1>2 DEF Settled

LEMMA FullInvInvariant ==
    ASSUME ~MidPlanInject
    PROVE  Spec => []FullInv
  <1>1. FullInv /\ [Next]_vars => FullInv'
    BY StepTypeInv, StepHistoryInv DEF FullInv
  <1> QED
    BY InitFullInv, <1>1, PTL DEF Spec

\* For a caller that injects between steps, every request the provider gets
\* carries exactly the transcript Session.Messages reports, through retries,
\* policy blocks, snapshots, restores, replays and resumes.
THEOREM HistoryIsFaithful ==
    ASSUME ~MidPlanInject
    PROVE  Spec => []FaithfulHistory
  <1>1. FullInv => FaithfulHistory
    <2> SUFFICES ASSUME FullInv, pc = "calling" PROVE native = messages
      BY DEF FaithfulHistory
    <2>1. /\ ~done /\ phase = "ready" /\ queue = <<>> /\ native \in Seq(Entry)
      BY DEF FullInv, TypeInv, TypeOK, PhaseInv, HistoryInv
    <2>2. messages = native \o <<>>
      BY <2>1 DEF FullInv, HistoryInv
    <2> QED
      BY <2>1, <2>2, ConcatEmptySeq
  <1> QED
    BY FullInvInvariant, <1>1, PTL

\* For such a caller no request ever carries a tool call that is not answered
\* by the message right after it, in a session of any length.
THEOREM CallsAreAnswered ==
    ASSUME ~MidPlanInject
    PROVE  Spec => []AnsweredCalls
  <1>1. FullInv => AnsweredCalls
    <2> SUFFICES ASSUME FullInv, pc = "calling" PROVE Settled(native)
      BY DEF AnsweredCalls
    <2>1. /\ ~done /\ phase = "ready" /\ queue = <<>>
          /\ native \in Seq(Entry) /\ messages \in Seq(Entry)
          /\ ~OwesResults(messages) /\ SettledButLast(messages)
      BY DEF FullInv, TypeInv, TypeOK, PhaseInv, HistoryInv, TranscriptInv
    <2>2. messages = native \o <<>>
      BY <2>1 DEF FullInv, HistoryInv
    <2> QED
      BY <2>1, <2>2, ConcatEmptySeq, SettledWhole
  <1> QED
    BY FullInvInvariant, <1>1, PTL

-----------------------------------------------------------------------------
(* The session as an AgentLoop *)

\* What was said before an entry is appended is what was said before.
LEMMA FrontAppend ==
    ASSUME NEW h \in Seq(Entry), NEW e \in Entry
    PROVE  Front(Append(h, e)) = h
  <1> DEFINE g == Front(Append(h, e))
  <1>1. /\ Len(h) \in Nat /\ DOMAIN h = 1..Len(h)
        /\ Len(Append(h, e)) = Len(h) + 1
        /\ \A i \in 1..Len(h) : Append(h, e)[i] = h[i]
        /\ Append(h, e) \in Seq(Entry)
    BY LenProperties, AppendEntry
  <1>2. Len(Append(h, e)) - 1 = Len(h)
    BY <1>1
  <1>3. Front(Append(h, e)) = [i \in 1..Len(h) |-> h[i]]
    BY <1>1, <1>2 DEF Front
  <1>4. h = [i \in 1..Len(h) |-> h[i]]
    BY <1>1, SeqDef
  <1> QED
    BY <1>3, <1>4

\* AgentLoop reads the ends of a sequence as the session does.
LEMMA SameEnds ==
    ASSUME NEW h
    PROVE  Loop!Last(h) = Last(h) /\ Loop!Front(h) = Front(h)
  BY DEF Loop!Last, Last, Loop!Front, Front

\* A session started afresh replays what AgentLoop says is left of the log.
LEMMA AfreshReplayed ==
    ASSUME NEW h \in Seq(Entry)
    PROVE  Loop!Afresh(h) = Replayed(h)
  <1>1. /\ DOMAIN h = 1..Len(h)
        /\ \A i \in 1..Len(h) : h[i] \in Entry
    BY LenProperties, ElementOfSeq
  <1>2. \A i \in DOMAIN h :
            (IF h[i].kind = "inject" THEN h[i] ELSE Loop!Message(h[i].kind, 0))
          = (IF h[i].kind = "inject" THEN h[i] ELSE [h[i] EXCEPT !.turn = 0])
    BY <1>1 DEF Loop!Message, Entry
  <1> QED
    BY <1>2 DEF Loop!Afresh, Replayed

\* A session over a persisted transcript owes what its last entry asks for.
LEMMA StartedStatus ==
    ASSUME NEW h, NEW g, h # <<>>, g # <<>>,
           Last(g).kind = "calls" <=> Last(h).kind = "calls",
           NEW n, NEW t, NEW c, newSession(g, n, t, c)
    PROVE  statusBar' = Loop!StatusOf(h)
  BY SameEnds DEF newSession, statusBar, OwesResults, Loop!StatusOf

LEMMA StepSpokenInv ==
    ASSUME TypeInv, SpokenInv, [Next]_vars
    PROVE  SpokenInv'
  <1>0. messages \in Seq(Entry) /\ messages # <<>> /\ saved.transcript \in Seq(Entry)
    BY DEF TypeInv, TypeOK, SavedSnapshots, SpokenInv
  <1>1. CASE UNCHANGED messages
    BY <1>0, <1>1 DEF SpokenInv
  <1>2. CASE \E e : messages' = Append(messages, e)
    <2>1. PICK e : messages' = Append(messages, e)
      BY <1>2
    <2>2. Len(messages) \in Nat /\ messages' = messages \o <<e>>
      BY <1>0, <2>1, LenProperties
    <2>3. Len(messages') = Len(messages) + 1
      BY <1>0, <2>1
    <2> QED
      BY <2>2, <2>3 DEF SpokenInv
  <1>3. CASE Restore
    BY <1>3 DEF Restore, Restorable, newSession, SpokenInv
  <1>4. CASE Replay
    <2>1. /\ messages' = Replayed(saved.transcript)
          /\ saved.transcript # <<>>
      BY <1>4 DEF Replay, newSession
    <2>2. Len(messages') = Len(saved.transcript) /\ Len(saved.transcript) > 0
      BY <1>0, <2>1, ReplayedShape, LastEntry
    <2> QED
      BY <2>2 DEF SpokenInv
  <1>5. CASE UNCHANGED vars
    BY <1>1, <1>5 DEF vars, history
  <1>6. CASE Progress
    <2>1. CASE PlanExhausted \/ NextRetryable \/ NextBlocked \/ NextFailed
               \/ PlanCall \/ ResumeForToolResults
      BY <1>1, <2>1 DEF PlanExhausted, NextRetryable, NextBlocked, NextFailed,
                        PlanCall, ResumeForToolResults, history
    <2>2. CASE NextAnswered \/ NextCalled \/ NextCalledRejected \/ StepObserve
      BY <1>1, <1>2, <2>2 DEF NextAnswered, NextCalled, NextCalledRejected,
                              StepObserve
    <2> QED
      BY <1>6, <2>1, <2>2 DEF Progress
  <1>7. CASE Rejected \/ Inject \/ Snapshot
    BY <1>1, <1>2, <1>7 DEF Rejected, PlanCancelled, PlanStartRejected,
        PlanQueueRejected, StepObserveFailed, ToolsCancelled, Inject, Snapshot,
        history
  <1> QED
    BY <1>3, <1>4, <1>5, <1>6, <1>7 DEF Next

LoopVars == <<messages, Completed, statusBar, checkpointBar>>

\* A step of the session is a step of the loop, or none that its caller sees.
LEMMA StepIsLoopStep ==
    ASSUME ~MidPlanInject, FullInv, SpokenInv, [Next]_vars
    PROVE  [Loop!Next]_LoopVars
  <1>0. /\ step \in Nat /\ step \in 0..MaxSteps /\ MaxSteps \in Nat
        /\ pc \in {"idle", "calling"} /\ done \in BOOLEAN
        /\ messages \in Seq(Entry) /\ messages # <<>>
        /\ saved.transcript \in Seq(Entry)
        /\ pc = "calling" => /\ step > 0 /\ ~done /\ phase = "ready"
                             /\ ~OwesResults(messages)
        /\ ~done /\ phase = "awaiting" => /\ OwesResults(messages)
                                          /\ Owed = Last(messages).turn
    BY BudgetAssumption
    DEF FullInv, TypeInv, TypeOK, PhaseInv, HistoryInv, SpokenInv, SavedSnapshots
  <1>a. /\ OwesResults(messages) <=> Last(messages).kind = "calls"
        /\ statusBar = "closed" <=> done
        /\ statusBar = "owed" <=> ~done /\ OwesResults(messages)
        /\ statusBar = "open" <=> ~done /\ ~OwesResults(messages)
    BY <1>0 DEF OwesResults, statusBar
  <1>s. ASSUME UNCHANGED <<messages, done>> PROVE UNCHANGED statusBar
    BY <1>s DEF statusBar, OwesResults
  <1>c. ASSUME UNCHANGED saved PROVE UNCHANGED checkpointBar
    BY <1>c DEF checkpointBar
  <1>d. ASSUME done' PROVE statusBar' = "closed"
    BY <1>d DEF statusBar
  <1>1. CASE UNCHANGED vars
    <2>1. UNCHANGED <<messages, done, saved, pc, step>>
      BY <1>1 DEF vars, history, control
    <2> QED
      BY <1>s, <1>c, <2>1 DEF LoopVars, Completed
  <1>2. CASE PlanCall \/ ResumeForToolResults
    <2>1. /\ UNCHANGED <<messages, done, saved>> /\ pc = "idle"
          /\ \/ pc' = "calling" /\ step' = step + 1
             \/ pc' = "idle" /\ step' = step
      BY <1>2 DEF PlanCall, ResumeForToolResults, MayPlan, history, control
    <2>2. UNCHANGED Completed
      BY <1>0, <2>1 DEF Completed
    <2> QED
      BY <1>s, <1>c, <2>1, <2>2 DEF LoopVars
  <1>3. CASE NextRetryable \/ NextBlocked
    <2>1. /\ UNCHANGED <<messages, done, saved>> /\ pc = "calling"
          /\ pc' = "idle" /\ step' = step - 1
      BY <1>3 DEF NextRetryable, NextBlocked, giveBack, history
    <2>2. UNCHANGED Completed
      BY <2>1 DEF Completed
    <2> QED
      BY <1>s, <1>c, <2>1, <2>2 DEF LoopVars
  <1>4. CASE PlanCancelled \/ ToolsCancelled \/ PlanStartRejected
             \/ PlanQueueRejected \/ NextFailed
    <2>1. /\ ~done /\ done' /\ UNCHANGED <<messages, saved>>
          /\ \/ pc = "idle" /\ pc' = "idle" /\ step' = step
             \/ pc = "idle" /\ pc' = "idle" /\ step' = step + 1
                /\ step + 1 <= MaxSteps
             \/ pc = "calling" /\ pc' = "idle" /\ step' = step
      BY <1>0, <1>4 DEF PlanCancelled, ToolsCancelled, PlanStartRejected,
          PlanQueueRejected, NextFailed, MayPlan, MayObserve, fail, history
    <2>2. Completed' \in {Completed, Completed + 1} \cap 0..MaxSteps
      BY <1>0, <2>1 DEF Completed
    <2>3. Loop!Fail
      BY <1>a, <1>c, <1>d, <2>1, <2>2 DEF Loop!Fail
    <2> QED
      BY <2>3 DEF Loop!Next
  <1>5. CASE PlanExhausted
    <2>1. /\ ~done /\ done' /\ ~OwesResults(messages)
          /\ pc = "idle" /\ pc' = "idle" /\ step + 1 > MaxSteps
          /\ UNCHANGED <<messages, saved, step>>
      BY <1>5 DEF PlanExhausted, MayPlan, history
    <2>2. Completed = MaxSteps /\ UNCHANGED Completed
      BY <1>0, <2>1 DEF Completed
    <2>3. Loop!Exhaust
      BY <1>a, <1>c, <1>d, <2>1, <2>2 DEF Loop!Exhaust
    <2> QED
      BY <2>3 DEF Loop!Next
  <1>6. CASE NextAnswered \/ NextCalled \/ NextCalledRejected
    <2>1. /\ pc = "calling" /\ pc' = "idle" /\ UNCHANGED <<step, saved>>
          /\ ~done /\ ~OwesResults(messages)
      BY <1>0, <1>6 DEF NextAnswered, NextCalled, NextCalledRejected, Account
    <2>2. /\ Completed < MaxSteps /\ Completed' = Completed + 1
          /\ Completed + 1 = step
      BY <1>0, <2>1 DEF Completed
    <2>3. statusBar = "open"
      BY <1>a, <2>1
    <2>4. CASE NextAnswered
      <3>1. /\ messages' \in {messages, Append(messages, AnswerOf(step))} /\ done'
            /\ AnswerOf(step) = Loop!Message("answer", Completed + 1)
        BY <2>2, <2>4 DEF NextAnswered, AnswerOf, Loop!Message
      <3>2. Loop!Answer
        BY <1>c, <1>d, <2>1, <2>2, <2>3, <3>1 DEF Loop!Answer
      <3> QED
        BY <3>2 DEF Loop!Next
    <2>5. CASE NextCalled
      <3>1. /\ messages' = Append(messages, CallsOf(step)) /\ ~done'
            /\ CallsOf(step) = Loop!Message("calls", Completed + 1)
        BY <2>1, <2>2, <2>5 DEF NextCalled, CallsOf, Loop!Message
      <3>2. OwesResults(messages)'
        <4>1. CallsOf(step) \in Entry
          BY <1>0, EntryShapes
        <4> QED
          BY <1>0, <3>1, <4>1, AppendEntry DEF OwesResults, CallsOf
      <3>3. statusBar' = "owed"
        BY <3>1, <3>2 DEF statusBar
      <3>4. Loop!Call
        BY <1>c, <2>1, <2>2, <2>3, <3>1, <3>3 DEF Loop!Call
      <3> QED
        BY <3>4 DEF Loop!Next
    <2>6. CASE NextCalledRejected
      <3>1. /\ messages' = Append(messages, CallsOf(step)) /\ done'
            /\ CallsOf(step) = Loop!Message("calls", Completed + 1)
        BY <2>2, <2>6 DEF NextCalledRejected, fail, CallsOf, Loop!Message
      <3>2. Loop!Fail
        BY <1>c, <1>d, <2>1, <2>2, <2>3, <3>1 DEF Loop!Fail
      <3> QED
        BY <3>2 DEF Loop!Next
    <2> QED
      BY <1>6, <2>4, <2>5, <2>6
  <1>7. CASE StepObserve \/ StepObserveFailed
    <2>1. /\ pc = "idle" /\ pc' = "idle" /\ UNCHANGED <<step, saved>>
          /\ ~done /\ phase = "awaiting"
          /\ messages' = Append(messages, ResultsOf(Owed))
          /\ StepObserve => done' = done
          /\ StepObserveFailed => done'
      BY <1>7 DEF StepObserve, StepObserveFailed, MayObserve, fail, control
    <2>2. /\ OwesResults(messages) /\ statusBar = "owed"
          /\ ResultsOf(Owed) = Loop!Message("results", Last(messages).turn)
      BY <1>0, <1>a, <2>1 DEF ResultsOf, Loop!Message
    <2>3. UNCHANGED Completed
      BY <2>1 DEF Completed
    <2>4. ~OwesResults(messages)'
      <3>1. ResultsOf(Owed) \in Entry
        BY <1>0, <2>1, <2>2, LastEntry, EntryShapes
      <3> QED
        BY <1>0, <2>1, <3>1, AppendEntry DEF OwesResults, ResultsOf
    <2>5. CASE StepObserve
      <3>1. statusBar' = "open"
        BY <2>1, <2>4, <2>5 DEF statusBar
      <3>2. Loop!Settle
        BY <1>c, <2>1, <2>2, <2>3, <3>1, SameEnds DEF Loop!Settle
      <3> QED
        BY <3>2 DEF Loop!Next
    <2>6. CASE StepObserveFailed
      <3>1. Loop!Fail
        BY <1>c, <1>d, <2>1, <2>2, <2>3, <2>6, SameEnds DEF Loop!Fail
      <3> QED
        BY <3>1 DEF Loop!Next
    <2> QED
      BY <1>7, <2>5, <2>6
  <1>8. CASE Inject
    <2> DEFINE e == InjectNo(injects + 1)
    <2>1. /\ pc = "idle" /\ UNCHANGED <<pc, step, done, saved>>
          /\ ~OwesResults(messages) /\ messages' = Append(messages, e)
      BY <1>8 DEF Inject, control
    <2>2. e \in Entry /\ e.kind = "inject"
      BY EntryShapes DEF FullInv, TypeInv, TypeOK, InjectNo
    <2>3. Front(messages') = messages /\ Last(messages') = e
      BY <1>0, <2>1, <2>2, FrontAppend, AppendEntry
    <2>4. UNCHANGED Completed
      BY <2>1 DEF Completed
    <2>5. UNCHANGED statusBar /\ statusBar # "owed"
      <3>1. ~OwesResults(messages)'
        BY <2>2, <2>3 DEF OwesResults
      <3> QED
        BY <1>a, <2>1, <3>1 DEF statusBar
    <2>6. Last(messages').kind = "inject"
      BY <2>2, <2>3
    <2>7. Loop!Speak
      BY <1>a, <1>c, <2>1, <2>3, <2>4, <2>5, <2>6, SameEnds DEF Loop!Speak
    <2> QED
      BY <2>7 DEF Loop!Next
  <1>9. CASE Snapshot
    <2>1. /\ UNCHANGED <<messages, done, pc, step>> /\ pc = "idle"
          /\ saved'.transcript = messages /\ saved'.step = step
          /\ saved'.finished = done
      BY <1>9 DEF Snapshot, control, history
    <2>2. UNCHANGED Completed /\ Completed = step
      BY <2>1 DEF Completed
    <2>3. (statusBar = "closed") = done
      BY <1>0, <1>a
    <2>4. checkpointBar' = [log |-> messages, used |-> Completed,
                            closed |-> (statusBar = "closed")]
      BY <2>1, <2>2, <2>3 DEF checkpointBar
    <2>5. Loop!Save
      BY <1>s, <2>1, <2>2, <2>4 DEF Loop!Save
    <2> QED
      BY <2>5 DEF Loop!Next
  <1>10. CASE Restore
    <2>1. /\ UNCHANGED saved /\ ~saved.finished /\ saved.transcript # <<>>
          /\ newSession(saved.transcript, saved.step, saved.tokens, saved.calls)
      BY <1>10 DEF Restore, Rebuild, Restorable
    <2>2. /\ messages' = saved.transcript /\ Completed' = saved.step
      BY <2>1 DEF newSession, Completed
    <2>3. statusBar' = Loop!StatusOf(saved.transcript)
      BY <2>1, StartedStatus
    <2>4. Loop!Recover
      BY <1>c, <2>1, <2>2, <2>3 DEF Loop!Recover, checkpointBar
    <2> QED
      BY <2>4 DEF Loop!Next
  <1>11. CASE Replay
    <2> DEFINE h == saved.transcript
    <2>1. /\ UNCHANGED saved /\ h # <<>>
          /\ newSession(Replayed(h), 0, 0, NoCalls)
      BY <1>11 DEF Replay, Rebuild
    <2>2. /\ messages' = Replayed(h) /\ Completed' = 0
      BY <2>1 DEF newSession, Completed
    <2>3. /\ Replayed(h) # <<>>
          /\ Last(Replayed(h)).kind = "calls" <=> Last(h).kind = "calls"
      <3>1. /\ Len(Replayed(h)) = Len(h) /\ Len(h) \in 1..Len(h)
            /\ Replayed(h)[Len(h)].kind = h[Len(h)].kind
            /\ Replayed(h) \in Seq(Entry)
        BY <1>0, <2>1, ReplayedShape, LastEntry, LenProperties
      <3> QED
        BY <3>1, EmptySeq DEF Last
    <2>4. statusBar' = Loop!StatusOf(h)
      BY <2>1, <2>3, StartedStatus
    <2>5. messages' = Loop!Afresh(h)
      BY <1>0, <2>2, AfreshReplayed
    <2>6. Loop!Restart
      BY <1>c, <2>1, <2>2, <2>4, <2>5 DEF Loop!Restart, checkpointBar
    <2> QED
      BY <2>6 DEF Loop!Next
  <1> QED
    BY <1>1, <1>2, <1>3, <1>4, <1>5, <1>6, <1>7, <1>8, <1>9, <1>10, <1>11
    DEF Next, Progress, Rejected

\* For a caller that injects between steps, whatever a caller sees of a session
\* (its transcript, its budget, when it is open and what it owes, and what a
\* restore brings back) is a behaviour of AgentLoop.
THEOREM SessionIsAgentLoop ==
    ASSUME ~MidPlanInject
    PROVE  Spec => ImplementsAgentLoop
  <1>1. Init => Loop!Init
    <2> SUFFICES ASSUME Init PROVE Loop!Init
      OBVIOUS
    <2>1. messages = <<Loop!Message("input", 0)>>
      BY DEF Init, Input, Loop!Message
    <2>2. Completed = 0 /\ ~done
      BY DEF Init, Completed
    <2>3. ~OwesResults(messages)
      BY DEF Init, Input, OwesResults, Last
    <2>4. statusBar = "open"
      BY <2>2, <2>3 DEF statusBar
    <2>5. checkpointBar = [log |-> <<>>, used |-> 0, closed |-> FALSE]
      BY DEF Init, NothingSaved, checkpointBar
    <2> QED
      BY <2>1, <2>2, <2>4, <2>5 DEF Loop!Init
  <1>2. Init => SpokenInv
    BY DEF Init, SpokenInv
  <1>3. FullInv /\ SpokenInv /\ [Next]_vars => SpokenInv'
    BY StepSpokenInv DEF FullInv
  <1>4. FullInv /\ SpokenInv /\ [Next]_vars => [Loop!Next]_(Loop!vars)
    BY StepIsLoopStep DEF LoopVars, Loop!vars
  <1> QED
    BY FullInvInvariant, <1>1, <1>2, <1>3, <1>4, PTL
    DEF Spec, ImplementsAgentLoop, Loop!Spec
=============================================================================
