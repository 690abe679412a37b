------------------------------ MODULE TurnCall ------------------------------
(***************************************************************************)
(* One call of Turn.Next as its caller sees it: the retry loop of retry.go *)
(* around the attempts of a provider, the classification of what an        *)
(* attempt ends with, and the error each provider turn reports.  All four  *)
(* providers share the loop; they differ in when they stream, in who       *)
(* counts the attempts, in whether a failed callback or the transport's    *)
(* error decides an attempt, and in how an unusable answer is reported.    *)
(*                                                                         *)
(* What a provider sends is left out: an attempt feeds some text to the    *)
(* streaming callbacks and its transport ends in one of a few ways.        *)
(***************************************************************************)
EXTENDS Integers, FiniteSets

CONSTANTS
    Providers,        \* the provider turns to consider
    MaxRetries,       \* WithMaxRetries
    MaxPieces,        \* bound on the pieces of text of one attempt
    CallbackMayFail   \* may a callback or the structured parser fail?

ProviderNames == {"anthropic", "openai", "google", "openrouter"}
Callbacks == {"text", "structured"}   \* StreamingFunc, StructuredStreamingFunc

ASSUME ProvidersAssumption == Providers \subseteq ProviderNames
ASSUME RetriesAssumption == MaxRetries \in Nat /\ MaxPieces \in Nat
ASSUME CallbackAssumption == CallbackMayFail \in BOOLEAN

VARIABLES
    provider,
    sinks,       \* the registered callbacks
    pc,          \* "check", "open" (an attempt runs), "respond", "sleep", "done"
    attempt,     \* the loop's counter of finished attempts
    calls,       \* requests really made
    notices,     \* RetryNotify calls
    cancelled,   \* the caller's context is done
    lastErr,     \* the error of the last attempt, "none" when it had none
    emitted,     \* streamingEmitted: an event reached a callback
    delivered,   \* the attempts whose events the caller has seen
    pieces,      \* pieces of text the current attempt received
    builder,     \* pieces in the structured content builder
    stash,       \* a callback failure the attempt keeps reading past
    result       \* what Next returned

config == <<provider, sinks>>
loop   == <<attempt, calls, notices>>
output == <<emitted, delivered, pieces, builder, stash>>
vars   == <<config, pc, loop, cancelled, lastErr, output, result>>

\* What the transport of an attempt may fail with.  OpenAI and OpenRouter tell
\* of a policy block with an error; the one OpenRouter passes on from upstream
\* may have a status that is also used for transient failures ("flagged").
Errors  == {"transient", "fatal"}
               \cup (IF provider \in {"openai", "openrouter"} THEN {"policy"} ELSE {})
               \cup (IF provider = "openrouter" THEN {"flagged"} ELSE {})

\* attempts is positive iff an UnavailableError is in the error's chain.
Results == [kind : {"none", "ok", "unavailable", "policy", "plain"},
            attempts : Nat, partial : BOOLEAN]

NoResult == [kind |-> "none", attempts |-> 0, partial |-> FALSE]
Answered == [kind |-> "ok", attempts |-> 0, partial |-> FALSE]
Failure(kind, n, partial) == [kind |-> kind, attempts |-> n, partial |-> partial]

\* Anthropic and OpenAI stream every generation, the others for a callback.
Streaming == sinks # {} \/ provider \in {"anthropic", "openai"}

\* The builder may still hold the output of an earlier call to Next that was
\* blocked after it had streamed.
Init ==
    /\ provider \in Providers
    /\ sinks \in SUBSET Callbacks
    /\ pc = "check" /\ attempt = 0 /\ calls = 0 /\ notices = 0
    /\ cancelled = FALSE /\ lastErr = "none"
    /\ emitted = FALSE /\ delivered = {} /\ pieces = 0 /\ stash = "none"
    /\ builder \in (IF "structured" \in sinks THEN 0..MaxPieces ELSE {0})
    /\ result = NoResult

-----------------------------------------------------------------------------
(* How a provider turn reports an error the loop hands it. *)

\* The attempts a provider counts for an error the loop did not wrap: the
\* streaming paths count them in a closure, the others pass one.
Counted == IF Streaming THEN calls ELSE 1

\* MUTANT: a policy block does not say that output was seen.
ShapedPolicyUnmarked(err) ==
    CASE err = "transient"  -> Failure("unavailable", Counted, emitted)
      [] err \in {"policy", "flagged"} -> Failure("policy", 0, FALSE)
      [] err = "structured" -> Failure("plain", 0, emitted)
      [] OTHER              -> Failure("plain", 0, FALSE)

Shaped(err) ==
    CASE err = "transient"  -> Failure("unavailable", Counted, emitted)
      [] err \in {"policy", "flagged"} -> Failure("policy", 0, emitted)
      [] err = "structured" -> Failure("plain", 0, emitted)
      [] OTHER              -> Failure("plain", 0, FALSE)

\* MUTANT: the count on the wrapped error is the loop index.
ExhaustedOffByOne(err) ==
    Failure(IF err = "flagged" THEN "policy" ELSE "unavailable", attempt, emitted)

\* The error the loop itself wraps: the last allowed attempt was retryable.
\* OpenRouter makes a policy error of a flagged one, around the wrapped error.
Exhausted(err) ==
    Failure(IF err = "flagged" THEN "policy" ELSE "unavailable", attempt + 1,
            emitted)

Finish(r) ==
    /\ pc' = "done"
    /\ result' = r

\* MUTANT: classify does not look at streamingEmitted.
RetryableBlind(err) == err \in {"transient", "flagged"}

\* classify: an attempt whose events reached the caller stands.
Retryable(err) == err \in {"transient", "flagged"} /\ ~emitted

\* MUTANT: one attempt more than WithMaxRetries allows.
LastAttemptLate == attempt = MaxRetries + 1

LastAttempt == attempt = MaxRetries

-----------------------------------------------------------------------------
(* retryLoop *)
Cancel ==
    /\ pc # "done" /\ ~cancelled
    /\ cancelled' = TRUE
    /\ UNCHANGED <<config, pc, loop, lastErr, output, result>>

\* The loop notices a cancelled context between attempts and hands back the
\* error of the last attempt, or the context's own.
StopCancelled ==
    /\ pc = "check" /\ cancelled
    /\ Finish(Shaped(IF lastErr = "none" THEN "cancelled" ELSE lastErr))
    /\ UNCHANGED <<config, loop, cancelled, lastErr, output>>

\* MUTANT: the structured content of the attempt before lingers.
AttemptUnreset ==
    /\ pc = "check" /\ ~cancelled
    /\ pc' = "open"
    /\ calls' = calls + 1
    /\ pieces' = 0 /\ stash' = "none"
    /\ UNCHANGED <<config, attempt, notices, cancelled, lastErr, emitted,
                   delivered, builder, result>>

Attempt ==
    /\ pc = "check" /\ ~cancelled
    /\ pc' = "open"
    /\ calls' = calls + 1
    /\ pieces' = 0 /\ builder' = 0 /\ stash' = "none"
    /\ UNCHANGED <<config, attempt, notices, cancelled, lastErr, emitted,
                   delivered, result>>

\* streamingEmitted is set before the callback runs.
Dispatch ==
    /\ emitted' = TRUE
    /\ delivered' = delivered \cup {calls}

(* A piece of text reaches the structured parser, which may have no event for *)
(* it yet, may reject it, or whose event the callback may reject: the failure *)
(* is kept and the stream is read on.                                         *)
StructuredPiece ==
    /\ pc = "open" /\ "structured" \in sinks /\ stash = "none"
    /\ pieces < MaxPieces
    /\ pieces' = pieces + 1
    /\ builder' = builder + 1
    /\ \/ Dispatch \/ UNCHANGED <<emitted, delivered>>
    /\ stash' \in {"none"} \cup (IF CallbackMayFail THEN {"structured"} ELSE {})
    /\ UNCHANGED <<config, pc, loop, cancelled, lastErr, result>>

(* What the structured parser held back is flushed at the end of a stream.  *)
StructuredFlush ==
    /\ pc = "open" /\ "structured" \in sinks /\ stash # "structured"
    /\ pieces > 0
    /\ Dispatch
    /\ stash' \in {stash} \cup (IF CallbackMayFail THEN {"structured"} ELSE {})
    /\ UNCHANGED <<config, pc, loop, cancelled, lastErr, pieces, builder, result>>

\* Text, thinking or a tool event reaches StreamingFunc.
TextPiece ==
    /\ pc = "open" /\ "text" \in sinks /\ stash # "handling"
    /\ Dispatch
    /\ UNCHANGED <<config, pc, loop, cancelled, lastErr, pieces, builder, stash,
                   result>>

\* StreamingFunc returns an error.  Anthropic and Google give the attempt up
\* with it, the others read the stream to its end without calling back again.
TextRejected ==
    /\ CallbackMayFail
    /\ pc = "open" /\ "text" \in sinks /\ stash # "handling"
    /\ Dispatch
    /\ IF provider \in {"anthropic", "google"}
       THEN /\ lastErr' = "callback"
            /\ Finish(Shaped("callback"))
            /\ UNCHANGED stash
       ELSE /\ stash' = IF stash = "none" THEN "handling" ELSE stash
            /\ UNCHANGED <<pc, lastErr, result>>
    /\ UNCHANGED <<config, loop, cancelled, pieces, builder>>

\* OpenAI sends an error event that is neither transient nor a policy block.
ErrorEvent ==
    /\ pc = "open" /\ provider = "openai" /\ stash = "none"
    /\ stash' = "handling"
    /\ UNCHANGED <<config, pc, loop, cancelled, lastErr, emitted, delivered,
                   pieces, builder, result>>

\* How the transport of an attempt may end.
Ends == {"none"} \cup Errors \cup (IF cancelled THEN {"cancelled"} ELSE {})

\* The error of the attempt.  Anthropic and Google let the transport's error
\* go first; for OpenAI and OpenRouter a failed callback is the turn's answer.
AttemptErr(end) ==
    IF provider \in {"anthropic", "google"}
    THEN IF end = "none" /\ stash = "structured" THEN "structured" ELSE end
    ELSE IF stash = "none" THEN end ELSE "none"

AttemptEnds(err) ==
    /\ pc = "open"
    /\ lastErr' = err
    /\ UNCHANGED <<config, calls, cancelled, output>>

\* The attempt succeeded as far as the loop can tell.
AttemptClean ==
    /\ \E end \in Ends : AttemptErr(end) = "none"
    /\ AttemptEnds("none")
    /\ pc' = "respond"
    /\ UNCHANGED <<attempt, notices, result>>

\* The attempt's error is final: not retryable, or the last one allowed.
AttemptFinal ==
    \E end \in Ends :
        LET err == AttemptErr(end) IN
        /\ err # "none"
        /\ AttemptEnds(err)
        /\ \/ ~Retryable(err) /\ Finish(Shaped(err))
           \/ Retryable(err) /\ LastAttempt /\ Finish(Exhausted(err))
        /\ UNCHANGED <<attempt, notices>>

\* The loop announces another attempt; a zero delay skips the wait.
AttemptRetried ==
    \E end \in Ends :
        LET err == AttemptErr(end) IN
        /\ AttemptEnds(err)
        /\ Retryable(err) /\ ~LastAttempt
        /\ attempt' = attempt + 1
        /\ notices' = notices + 1
        /\ pc' \in {"sleep", "check"}
        /\ UNCHANGED result

\* MUTANT: the timer is armed again instead of ending the wait.
SleepOverRearmed == pc = "sleep" /\ UNCHANGED vars

SleepOver ==
    /\ pc = "sleep"
    /\ pc' = "check"
    /\ UNCHANGED <<config, loop, cancelled, lastErr, output, result>>

SleepCancelled ==
    /\ pc = "sleep" /\ cancelled
    /\ Finish(Shaped("cancelled"))
    /\ UNCHANGED <<config, loop, cancelled, lastErr, output>>

-----------------------------------------------------------------------------
(* What a provider turn makes of a loop that succeeded. *)
Responds(r) ==
    /\ pc = "respond"
    /\ Finish(r)
    /\ UNCHANGED <<config, loop, cancelled, lastErr, output>>

\* The callback failure OpenAI and OpenRouter kept: only a structured one is
\* joined with the sentinel.
ReportStash ==
    /\ stash # "none"
    /\ Responds(Failure("plain", 0, stash = "structured" /\ emitted))

Succeeds == stash = "none" /\ Responds(Answered)

\* A safety system stopped the response.
Blocked ==
    /\ stash = "none" /\ provider \in {"anthropic", "google", "openrouter"}
    /\ Responds(Shaped("policy"))

\* There is no turn: OpenAI reports a failed or missing response, OpenRouter
\* the finish reason "error" (joined with the sentinel) or no choices.
Unusable ==
    /\ stash = "none" /\ provider \in {"openai", "openrouter"}
    /\ Responds(Failure("plain", 0, provider = "openrouter" /\ emitted))

Next ==
    \/ Cancel \/ StopCancelled \/ Attempt
    \/ StructuredPiece \/ StructuredFlush \/ TextPiece \/ TextRejected \/ ErrorEvent
    \/ AttemptClean \/ AttemptFinal \/ AttemptRetried
    \/ SleepOver \/ SleepCancelled
    \/ ReportStash \/ Succeeds \/ Blocked \/ Unusable

Spec == Init /\ [][Next]_vars

\* An attempt ends (the provider answers, or the liveness budget of the
\* transport fails it), a timer fires, and Next returns what it found.
FairSpec ==
    /\ Spec
    /\ WF_vars(StopCancelled \/ Attempt)
    /\ WF_vars(AttemptClean \/ AttemptFinal \/ AttemptRetried)
    /\ WF_vars(SleepOver)
    /\ WF_vars(ReportStash \/ Succeeds)

-----------------------------------------------------------------------------
\* Every variable keeps its type; the loop makes no more than MaxRetries + 1
\* attempts.
TypeOK ==
    /\ provider \in Providers /\ sinks \in SUBSET Callbacks
    /\ pc \in {"check", "open", "respond", "sleep", "done"}
    /\ attempt \in 0..MaxRetries /\ calls \in 0..(MaxRetries + 1)
    /\ notices \in 0..MaxRetries
    /\ cancelled \in BOOLEAN
    /\ lastErr \in Errors \cup {"none", "cancelled", "callback", "structured"}
    /\ emitted \in BOOLEAN /\ delivered \in SUBSET (1..(MaxRetries + 1))
    /\ pieces \in 0..MaxPieces /\ builder \in 0..MaxPieces
    /\ stash \in {"none", "structured", "handling"}
    /\ result \in Results

\* IsRetryable of the returned error.
IsRetryable(r) == r.attempts > 0 /\ ~r.partial

\* The caller never sees the events of two attempts of one turn, and an error
\* that invites another turn means it has seen none.
NeverReplayed ==
    /\ Cardinality(delivered) <= 1
    /\ IsRetryable(result) => delivered = {}

\* The loop returned on the cancelled context before the attempt it had
\* announced: as many attempts are finished as requests were made.
StoppedBetween == attempt = calls

\* An UnavailableError, also one inside a policy error, carries the number of
\* requests really made, whatever was cancelled meanwhile.  The one exception
\* to "this count is exact" (errors.go:42) is a call that does not stream and
\* is stopped between attempts: it says one (google.go:827, openrouter.go:563),
\* and this is the only call that may.
AttemptsExact ==
    /\ result.kind = "unavailable" => result.attempts > 0
    /\ result.attempts > 0 =>
           result.attempts = IF Streaming \/ ~StoppedBetween THEN calls ELSE 1

\* The sentinel never lies: it is on every transient failure and policy block
\* after output, and on no error before the first event.
PartialMarked ==
    /\ result.kind \in {"unavailable", "policy"} => result.partial = emitted
    /\ result.partial => emitted

\* Next gives an answer only when its last attempt ended well and every
\* callback took what it was given; its structured text is made of that
\* attempt's pieces, not of those of an attempt or a turn before it.
AnswerIsWhole ==
    result.kind = "ok" =>
        lastErr = "none" /\ stash = "none" /\ builder = pieces

\* Every call returns.
Returns == <>(pc = "done")

\* errors.go on IsRetryable: "A *ContentPolicyError is not retryable in this
\* sense", which Session relies on to tell a block from a transient failure.
BlockIsNotRetryable == result.kind = "policy" => ~IsRetryable(result)
=============================================================================
