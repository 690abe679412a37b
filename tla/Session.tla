------------------------------ MODULE Session ------------------------------
(***************************************************************************)
(* The driveable agentic loop of session.go, together with the parts of    *)
(* its state other files own: the provider-native history of a Turn        *)
(* (turn.go and the four provider turns), the execution tracker and its    *)
(* roll-up (execution_context.go) and the durable snapshot.                *)
(*                                                                         *)
(* A transcript is a sequence of entries.  What a message says is left     *)
(* out; an entry keeps its kind and the step that charged it (0 for what   *)
(* the session was started with), an injected message its own number.      *)
(* Every answered model turn is billed one token, so that token totals     *)
(* count answered turns.                                                   *)
(***************************************************************************)
EXTENDS Integers, SequencesExt

CONSTANTS
    MaxSteps,       \* WithMaxSteps: the model calls a session may make
    MaxInjects,     \* bound on the messages the caller injects
    MaxFailures,    \* bound on the failures a session survives
    MaxRestores,    \* bound on the sessions rebuilt from persisted state
    MidPlanInject   \* may Inject be called while tool results are owed?

ASSUME BudgetAssumption == MaxSteps \in Nat \ {0}
ASSUME BoundsAssumption == /\ MaxInjects \in Nat
                           /\ MaxFailures \in Nat
                           /\ MaxRestores \in Nat
ASSUME CallerAssumption == MidPlanInject \in BOOLEAN

VARIABLES
    pc,            \* "idle" between calls, "calling" inside Turn.Next
    step, done, lastErr, retryable, stopReason,
    messages,      \* Session.messages, the neutral transcript
    phase, planOutput, reconstructedObserve, pendingCalls,
    tracker,       \* executionTracker: currentStep and the token totals
    parentTokens,  \* the parent tracker's total
    spent,         \* tokens the model calls of this process really used
    native,        \* the Turn's provider-native history
    queue,         \* the Turn's pending injected messages
    saved,         \* the last persisted SessionSnapshot
    injects, failures, restores

control  == <<step, done, lastErr, retryable, stopReason>>
plan     == <<phase, planOutput, reconstructedObserve, pendingCalls>>
history  == <<messages, native, queue>>
usage    == <<tracker, parentTokens, spent>>
bounds   == <<injects, failures, restores>>
vars     == <<pc, control, plan, history, usage, saved, bounds>>

Kinds   == {"input", "inject", "calls", "results", "answer"}
Entry   == [kind : Kinds, turn : Nat]
NoCalls == -1
Calls   == Nat \cup {NoCalls}

Input      == [kind |-> "input", turn |-> 0]
CallsOf(n) == [kind |-> "calls", turn |-> n]
ResultsOf(n) == [kind |-> "results", turn |-> n]
AnswerOf(n)  == [kind |-> "answer", turn |-> n]
InjectNo(n)  == [kind |-> "inject", turn |-> n]

\* The transcript ends in tool calls nobody has answered yet.
OwesResults(h) == h # <<>> /\ Last(h).kind = "calls"

\* The same conversation as the input of a session whose budget is fresh.
Replayed(h) == [i \in DOMAIN h |->
                  IF h[i].kind = "inject" THEN h[i] ELSE [h[i] EXCEPT !.turn = 0]]

NothingSaved == [transcript |-> <<>>, step |-> 0, phase |-> "ready",
                 calls |-> NoCalls, tokens |-> 0, finished |-> FALSE]

-----------------------------------------------------------------------------
(* newTracker *)
newTracker(stepsUsed, tokens) == [step |-> stepsUsed, tokens |-> tokens]

(* newSession over a transcript every provider's convertMessages accepts;   *)
(* owed names the calls of a snapshot taken while results were owed.        *)
newSession(transcript, stepsUsed, tokens, owed) ==
    /\ pc' = "idle"
    /\ step' = stepsUsed
    /\ done' = FALSE
    /\ lastErr' = "nil"
    /\ retryable' = FALSE
    /\ stopReason' = "none"
    /\ messages' = transcript
    /\ native' = transcript
    /\ queue' = <<>>
    /\ phase' = IF owed = NoCalls THEN "ready" ELSE "awaiting"
    /\ planOutput' = NoCalls
    /\ reconstructedObserve' = (owed # NoCalls)
    /\ pendingCalls' = owed
    /\ tracker' = newTracker(stepsUsed, tokens)

Init ==
    /\ pc = "idle"
    /\ step = 0 /\ done = FALSE /\ lastErr = "nil" /\ retryable = FALSE
    /\ stopReason = "none"
    /\ messages = <<Input>> /\ native = <<Input>> /\ queue = <<>>
    /\ phase = "ready" /\ planOutput = NoCalls
    /\ reconstructedObserve = FALSE /\ pendingCalls = NoCalls
    /\ tracker = newTracker(0, 0) /\ parentTokens = 0 /\ spent = 0
    /\ saved = NothingSaved
    /\ injects = 0 /\ failures = 0 /\ restores = 0

(* Session.fail *)
fail(err) ==
    /\ done' = TRUE
    /\ lastErr' = err
    /\ retryable' = FALSE
    /\ phase' = "ready"

\* MUTANT: only the tracker gets the step back.
giveBackTrackerOnly(err, canRetry) ==
    /\ pc' = "idle"
    /\ step' = step
    /\ tracker' = [tracker EXCEPT !.step = IF @ > 0 THEN @ - 1 ELSE @]
    /\ lastErr' = err
    /\ retryable' = canRetry
    /\ failures' = failures + 1

(* A turn that failed and can be attempted again: step and tracker give the *)
(* turn back, the session stays open.                                       *)
giveBack(err, canRetry) ==
    /\ pc' = "idle"
    /\ step' = step - 1
    /\ tracker' = [tracker EXCEPT !.step = IF @ > 0 THEN @ - 1 ELSE @]
    /\ lastErr' = err
    /\ retryable' = canRetry
    /\ failures' = failures + 1

-----------------------------------------------------------------------------
(* StepPlan up to Turn.Next.  A caller that replayed a transcript ending in *)
(* tool calls resumes it first (ResumeForToolResults).                      *)
MayPlan == /\ pc = "idle" /\ ~done /\ phase = "ready"
           /\ ~OwesResults(messages)

PlanCancelled ==
    /\ MayPlan
    /\ fail("cancelled")
    /\ UNCHANGED <<pc, step, stopReason, planOutput, reconstructedObserve,
                   pendingCalls, history, usage, saved, bounds>>

\* MUTANT: exhaustion refuses the call and leaves the session open.
PlanExhaustedOpen ==
    /\ MayPlan
    /\ step + 1 > MaxSteps
    /\ UNCHANGED vars

PlanExhausted ==
    /\ MayPlan
    /\ step + 1 > MaxSteps
    /\ done' = TRUE
    /\ stopReason' = "max_steps"
    /\ UNCHANGED <<pc, step, lastErr, retryable, plan, history, usage, saved,
                   bounds>>

\* The MessageStart callback returns an error: the charged step is kept.
PlanStartRejected ==
    /\ MayPlan
    /\ step + 1 <= MaxSteps
    /\ step' = step + 1
    /\ tracker' = [tracker EXCEPT !.step = @ + 1]
    /\ fail("fatal")
    /\ UNCHANGED <<pc, stopReason, planOutput, reconstructedObserve,
                   pendingCalls, history, parentTokens, spent, saved, bounds>>

\* Turn.Next refuses a queued message it cannot convert.
PlanQueueRejected ==
    /\ MayPlan
    /\ step + 1 <= MaxSteps
    /\ queue # <<>>
    /\ step' = step + 1
    /\ tracker' = [tracker EXCEPT !.step = @ + 1]
    /\ fail("fatal")
    /\ UNCHANGED <<pc, stopReason, planOutput, reconstructedObserve,
                   pendingCalls, history, parentTokens, spent, saved, bounds>>

\* MUTANT: the budget check is off by one.
PlanCallOffByOne ==
    /\ MayPlan
    /\ step <= MaxSteps
    /\ step' = step + 1
    /\ tracker' = [tracker EXCEPT !.step = @ + 1]
    /\ native' = native \o queue
    /\ queue' = <<>>
    /\ pc' = "calling"
    /\ UNCHANGED <<done, lastErr, retryable, stopReason, plan, messages,
                   parentTokens, spent, saved, bounds>>

\* Turn.Next appends the queued messages and sends the request.
PlanCall ==
    /\ MayPlan
    /\ step + 1 <= MaxSteps
    /\ step' = step + 1
    /\ tracker' = [tracker EXCEPT !.step = @ + 1]
    /\ native' = native \o queue
    /\ queue' = <<>>
    /\ pc' = "calling"
    /\ UNCHANGED <<done, lastErr, retryable, stopReason, plan, messages,
                   parentTokens, spent, saved, bounds>>

-----------------------------------------------------------------------------
(* StepPlan after Turn.Next. *)
NextRetryable ==
    /\ pc = "calling"
    /\ failures < MaxFailures
    /\ giveBack("transient", TRUE)
    /\ UNCHANGED <<done, stopReason, plan, history, parentTokens, spent, saved,
                   injects, restores>>

\* MUTANT: a blocked call is charged to the session.
NextBlockedCharged ==
    /\ pc = "calling"
    /\ failures < MaxFailures
    /\ pc' = "idle"
    /\ lastErr' = "policy"
    /\ failures' = failures + 1
    /\ UNCHANGED <<step, done, retryable, stopReason, plan, history, usage,
                   saved, injects, restores>>

NextBlocked ==
    /\ pc = "calling"
    /\ failures < MaxFailures
    /\ giveBack("policy", FALSE)
    /\ UNCHANGED <<done, stopReason, plan, history, parentTokens, spent, saved,
                   injects, restores>>

NextFailed ==
    /\ pc = "calling"
    /\ pc' = "idle"
    /\ fail("fatal")
    /\ UNCHANGED <<step, stopReason, planOutput, reconstructedObserve,
                   pendingCalls, history, usage, saved, bounds>>

\* What every answered turn records before its MessageEnd callback.
Account(reason) ==
    /\ pc = "calling"
    /\ pc' = "idle"
    /\ stopReason' = reason
    /\ tracker' = [tracker EXCEPT !.tokens = @ + 1]
    /\ parentTokens' = parentTokens + 1
    /\ spent' = spent + 1

AnswerReasons == {"end_turn", "max_tokens", "refusal"}

\* A final answer; one with no text, thinking or calls leaves no message.
NextAnswered ==
    /\ \E reason \in AnswerReasons : Account(reason)
    /\ messages' \in {messages, Append(messages, AnswerOf(step))}
    /\ done' = TRUE
    /\ \E err \in {"nil", "fatal"} : lastErr' = err   \* MessageEnd callback
    /\ retryable' = FALSE
    /\ UNCHANGED <<step, plan, native, queue, saved, bounds>>

NextCalled ==
    /\ Account("tool_use")
    /\ messages' = Append(messages, CallsOf(step))
    /\ lastErr' = "nil"
    /\ retryable' = FALSE
    /\ phase' = "awaiting"
    /\ planOutput' = step
    /\ UNCHANGED <<step, done, reconstructedObserve, pendingCalls, native,
                   queue, saved, bounds>>

\* The MessageEnd callback of a tool turn returns an error.
NextCalledRejected ==
    /\ Account("tool_use")
    /\ messages' = Append(messages, CallsOf(step))
    /\ fail("fatal")
    /\ UNCHANGED <<step, planOutput, reconstructedObserve, pendingCalls,
                   native, queue, saved, bounds>>

-----------------------------------------------------------------------------
(* Settling tool calls. *)
Owed == IF reconstructedObserve THEN pendingCalls ELSE planOutput

MayObserve == pc = "idle" /\ ~done /\ phase = "awaiting"

\* Turn.Observe and Turn.ObserveToolResults.
Observed(h) == IF reconstructedObserve
               THEN Append(h, ResultsOf(pendingCalls))
               ELSE h \o <<CallsOf(planOutput), ResultsOf(planOutput)>>

\* MUTANT: the reconstructed route survives the first observation.
StepObserveStaysReconstructed ==
    /\ MayObserve
    /\ messages' = Append(messages, ResultsOf(Owed))
    /\ native' = Observed(native)
    /\ phase' = "ready"
    /\ UNCHANGED <<reconstructedObserve, pendingCalls>>
    /\ planOutput' = NoCalls
    /\ UNCHANGED <<pc, control, queue, usage, saved, bounds>>

StepObserve ==
    /\ MayObserve
    /\ messages' = Append(messages, ResultsOf(Owed))
    /\ native' = Observed(native)
    /\ phase' = "ready"
    /\ reconstructedObserve' = FALSE
    /\ pendingCalls' = NoCalls
    /\ planOutput' = NoCalls
    /\ UNCHANGED <<pc, control, queue, usage, saved, bounds>>

\* The provider cannot convert an outcome: the results stay in messages.
StepObserveFailed ==
    /\ MayObserve
    /\ messages' = Append(messages, ResultsOf(Owed))
    /\ native' = IF reconstructedObserve THEN native
                 ELSE Append(native, CallsOf(planOutput))
    /\ fail("fatal")
    /\ UNCHANGED <<pc, step, stopReason, planOutput, reconstructedObserve,
                   pendingCalls, queue, usage, saved, bounds>>

ToolsCancelled ==
    /\ MayObserve
    /\ ~reconstructedObserve
    /\ fail("cancelled")
    /\ UNCHANGED <<pc, step, stopReason, planOutput, reconstructedObserve,
                   pendingCalls, history, usage, saved, bounds>>

\* MUTANT: the resumed session observes as if its plan were live.
ResumeAsLive ==
    /\ pc = "idle" /\ ~done /\ phase = "ready"
    /\ OwesResults(messages)
    /\ phase' = "awaiting"
    /\ planOutput' = Last(messages).turn
    /\ UNCHANGED <<pc, control, reconstructedObserve, pendingCalls, history,
                   usage, saved, bounds>>

ResumeForToolResults ==
    /\ pc = "idle" /\ ~done /\ phase = "ready"
    /\ OwesResults(messages)
    /\ phase' = "awaiting"
    /\ reconstructedObserve' = TRUE
    /\ pendingCalls' = Last(messages).turn
    /\ UNCHANGED <<pc, control, planOutput, history, usage, saved, bounds>>

-----------------------------------------------------------------------------
(* The caller. *)
Inject ==
    /\ pc = "idle"
    /\ MidPlanInject \/ ~OwesResults(messages)
    /\ injects < MaxInjects
    /\ injects' = injects + 1
    /\ queue' = Append(queue, InjectNo(injects + 1))
    /\ messages' = Append(messages, InjectNo(injects + 1))
    /\ UNCHANGED <<pc, control, plan, native, usage, saved, failures, restores>>

Snapshot ==
    /\ pc = "idle"
    /\ saved' = [transcript |-> messages, step |-> step, phase |-> phase,
                 calls |-> IF phase = "awaiting" THEN Owed ELSE NoCalls,
                 tokens |-> tracker.tokens, finished |-> done]
    /\ UNCHANGED <<pc, control, plan, history, usage, bounds>>

\* A new process has no parent tracker; the same process keeps its own.
Rebuild ==
    /\ restores < MaxRestores
    /\ restores' = restores + 1
    /\ \/ /\ parentTokens' = 0
          /\ spent' = 0
       \/ /\ pc = "idle"
          /\ UNCHANGED <<parentTokens, spent>>
    /\ UNCHANGED <<saved, injects, failures>>

(* resolveSnapshot *)
Restorable(snap) ==
    /\ snap.transcript # <<>>
    /\ snap.phase = "awaiting" => snap.calls # NoCalls

\* MUTANT: restored totals go through AddTokens and reach the parent again.
RestoreRerolled ==
    /\ restores < MaxRestores
    /\ restores' = restores + 1
    /\ pc = "idle"
    /\ parentTokens' = parentTokens + saved.tokens
    /\ UNCHANGED <<spent, saved, injects, failures>>
    /\ Restorable(saved)
    /\ ~saved.finished
    /\ newSession(saved.transcript, saved.step, saved.tokens, saved.calls)

\* WithSnapshot.  The caller restores no snapshot of a finished session.
Restore ==
    /\ Rebuild
    /\ Restorable(saved)
    /\ ~saved.finished
    /\ newSession(saved.transcript, saved.step, saved.tokens, saved.calls)

\* WithMessages over a persisted transcript, finished or not.
Replay ==
    /\ Rebuild
    /\ saved.transcript # <<>>
    /\ newSession(Replayed(saved.transcript), 0, 0, NoCalls)

-----------------------------------------------------------------------------
\* What happens without the environment's help: a caller that keeps driving
\* the session, a model call that returns, tools that finish.
Progress ==
    \/ PlanExhausted \/ PlanCall
    \/ NextRetryable \/ NextBlocked \/ NextFailed
    \/ NextAnswered \/ NextCalled \/ NextCalledRejected
    \/ StepObserve \/ ResumeForToolResults

Rejected ==
    \/ PlanCancelled \/ PlanStartRejected \/ PlanQueueRejected
    \/ StepObserveFailed \/ ToolsCancelled

Next == Progress \/ Rejected \/ Inject \/ Snapshot \/ Restore \/ Replay

Spec == Init /\ [][Next]_vars

FairSpec == Spec /\ WF_vars(Progress)

-----------------------------------------------------------------------------
SavedSnapshots == [transcript : Seq(Entry), step : 0..MaxSteps,
                   phase : {"ready", "awaiting"}, calls : Calls,
                   tokens : Nat, finished : BOOLEAN]

\* Every variable of the session keeps its type; the step never passes the
\* budget (session.go's "WithMaxSteps(N) permits exactly N model calls").
TypeOK ==
    /\ pc \in {"idle", "calling"}
    /\ step \in 0..MaxSteps
    /\ done \in BOOLEAN /\ retryable \in BOOLEAN
    /\ lastErr \in {"nil", "transient", "policy", "fatal", "cancelled"}
    /\ stopReason \in {"none", "max_steps", "tool_use"} \cup AnswerReasons
    /\ messages \in Seq(Entry) /\ native \in Seq(Entry)
    /\ queue \in Seq(Entry)
    /\ phase \in {"ready", "awaiting"}
    /\ planOutput \in Calls /\ pendingCalls \in Calls
    /\ reconstructedObserve \in BOOLEAN
    /\ tracker \in [step : 0..MaxSteps, tokens : Nat]
    /\ parentTokens \in Nat /\ spent \in Nat
    /\ saved \in SavedSnapshots
    /\ injects \in Nat /\ failures \in Nat /\ restores \in Nat

\* The request Turn.Next sends carries exactly the conversation that
\* Session.Messages reports, whatever was injected, retried, snapshotted,
\* restored or resumed before it.
FaithfulHistory == pc = "calling" => native = messages

\* Every tool call of a transcript is directly followed by its own results,
\* and no results stand alone.
Settled(h) ==
    \A i \in DOMAIN h :
        /\ h[i].kind = "calls" =>
              i + 1 \in DOMAIN h /\ h[i + 1] = ResultsOf(h[i].turn)
        /\ h[i].kind = "results" =>
              i - 1 \in DOMAIN h /\ h[i - 1] = CallsOf(h[i].turn)

\* The provider never gets a request with a tool call that is not answered by
\* the message after it: the accumulated transcript stays replayable.
AnsweredCalls == pc = "calling" => Settled(native)

\* The same of the transcript the caller can persist and replay.
ReplayableTranscript == pc = "calling" => Settled(messages)

\* The model turns the session's budget has really paid for.
Completed == IF pc = "calling" THEN step - 1 ELSE step

\* The tracker tools and sub-agents read agrees with the session, its totals
\* count every answered turn of the conversation once, across restores, and
\* a parent tracker is billed exactly what this process spent.
UsageAccounted ==
    /\ tracker.step = step
    /\ ~done => tracker.tokens = Completed
    /\ parentTokens = spent

\* What a session says of its last turn is current.  A run stopped by its
\* budget has used all of it and is not at the same time a failed run, so that
\* Result reports no older turn's error; and Retryable only promises a retry
\* the session can make: it is open and owes no results.
LastErrorIsCurrent ==
    /\ stopReason = "max_steps" => done /\ lastErr = "nil" /\ step = MaxSteps
    /\ retryable => /\ ~done /\ lastErr = "transient" /\ phase = "ready"
                    /\ ~OwesResults(messages)

\* A session that is driven comes to an end: its budget bounds the tool loop.
Ends == <>[]done

-----------------------------------------------------------------------------
(* Inductive strengthenings.  PhaseInv is what keeps TypeOK: a step can only *)
(* be given back by a call in flight, and awaited calls are always known,    *)
(* on the live route and on the reconstructed one.                           *)
PhaseInv ==
    /\ pc = "calling" => step > 0 /\ ~done /\ phase = "ready"
    /\ tracker.step = step
    /\ ~done /\ phase = "ready" => ~reconstructedObserve
    /\ ~done /\ phase = "awaiting" => Owed # NoCalls

\* Where the two histories stand relative to each other in every state: a
\* ready session's transcript is the native history and what is queued for
\* it; a live wait is ahead by the calls Turn.Observe has yet to append; a
\* reconstructed wait already has them.
HistoryInv ==
    /\ \A i \in DOMAIN queue : queue[i].kind = "inject"
    /\ pc = "calling" => queue = <<>> /\ ~OwesResults(messages)
    /\ ~done /\ phase = "ready" => messages = native \o queue
    /\ ~done /\ phase = "awaiting" =>
          /\ queue = <<>>
          /\ OwesResults(messages)
          /\ Owed = Last(messages).turn
          /\ messages = IF reconstructedObserve THEN native
                        ELSE Append(native, CallsOf(planOutput))
    /\ ~saved.finished /\ saved.calls # NoCalls =>
          /\ OwesResults(saved.transcript)
          /\ saved.calls = Last(saved.transcript).turn

\* A transcript in which only the very last entry may be unanswered calls.
SettledButLast(h) ==
    \A i \in DOMAIN h :
        /\ h[i].kind = "calls" /\ i < Len(h) => h[i + 1] = ResultsOf(h[i].turn)
        /\ h[i].kind = "results" =>
              i > 1 /\ h[i - 1] = CallsOf(h[i].turn)

TranscriptInv == SettledButLast(messages) /\ SettledButLast(saved.transcript)

\* What makes UsageAccounted inductive: the totals a restore starts from are
\* those of the steps it starts from.
UsageInv == UsageAccounted /\ (~saved.finished => saved.tokens = saved.step)

\* What makes LastErrorIsCurrent inductive: an open session that remembers an
\* error was given its turn back, so that its budget cannot run out before
\* another turn has replaced that error.
ErrorInv ==
    /\ LastErrorIsCurrent
    /\ pc = "calling" => ~OwesResults(messages)
    /\ ~done /\ lastErr # "nil" => Completed < MaxSteps

\* A conversation is never empty: it starts with the caller's input.
SpokenInv == messages # <<>>
=============================================================================
