--------------------------- MODULE TurnCallProofs ---------------------------
(***************************************************************************)
(* For every provider, every set of callbacks and any number of retries    *)
(* and pieces: a call of Next never replays output, counts its attempts,   *)
(* marks partial output and answers from one whole attempt.                *)
(***************************************************************************)
EXTENDS TurnCall, FiniteSetTheorems, TLAPS

\* Between attempts the counter is that of the requests made, and an error is
\* that of a request.
CountInv ==
    /\ pc \in {"check", "sleep"} => calls = attempt
    /\ pc \in {"open", "respond"} => calls = attempt + 1
    /\ notices = attempt
    /\ pc \in {"check", "sleep"} /\ lastErr # "none" => calls > 0

\* What the caller has seen is of the attempt that runs or ran last, and the
\* loop only goes on if that is nothing.
SeenInv ==
    /\ delivered \subseteq {calls}
    /\ emitted <=> delivered # {}
    /\ pc \in {"check", "sleep"} => ~emitted
    /\ sinks = {} => ~emitted

\* The builder has the pieces of the attempt; a call that runs has no result.
WholeInv ==
    /\ pc \in {"open", "respond"} => builder = pieces
    /\ pc = "respond" => lastErr = "none"
    /\ pc # "done" => result = NoResult

Promises == NeverReplayed /\ AttemptsExact /\ PartialMarked /\ AnswerIsWhole

IInv ==
    /\ TypeOK
    /\ CountInv
    /\ SeenInv
    /\ WholeInv
    /\ Promises

USE ProvidersAssumption, RetriesAssumption, CallbackAssumption

-----------------------------------------------------------------------------
\* The events a caller has seen are those of one attempt at most.
LEMMA OneAttemptSeen == SeenInv => Cardinality(delivered) <= 1
<1> SUFFICES ASSUME SeenInv PROVE Cardinality(delivered) <= 1
  OBVIOUS
<1>1. delivered = {} \/ delivered = {calls}
  BY DEF SeenInv
<1>2. Cardinality({}) = 0 /\ Cardinality({calls}) = 1
  BY FS_EmptySet, FS_Singleton
<1>3. QED
  BY <1>1, <1>2

\* A call that runs has promised nothing yet.
LEMMA RunningPromises == SeenInv /\ result = NoResult => Promises
  BY OneAttemptSeen DEF Promises, NeverReplayed, AttemptsExact, PartialMarked,
     AnswerIsWhole, IsRetryable, NoResult

LEMMA InitInv == Init => IInv
<1> SUFFICES ASSUME Init PROVE IInv
  OBVIOUS
<1>1. TypeOK
  <2>1. builder \in 0..MaxPieces
    BY DEF Init
  <2>2. result \in Results
    BY DEF Init, Results, NoResult
  <2>3. /\ provider \in Providers /\ sinks \in SUBSET Callbacks
        /\ pc \in {"check", "open", "respond", "sleep", "done"}
    BY DEF Init
  <2>4. attempt \in 0..MaxRetries /\ calls \in 0..(MaxRetries + 1) /\ notices \in 0..MaxRetries
    BY DEF Init
  <2>5. /\ cancelled \in BOOLEAN /\ emitted \in BOOLEAN
        /\ delivered \in SUBSET (1..(MaxRetries + 1))
    BY DEF Init
  <2>6. lastErr \in Errors \cup {"none", "cancelled", "callback", "structured"}
    BY DEF Init
  <2>7. pieces \in 0..MaxPieces /\ stash \in {"none", "structured", "handling"}
    BY DEF Init
  <2>8. QED
    BY <2>1, <2>2, <2>3, <2>4, <2>5, <2>6, <2>7 DEF TypeOK
<1>2. CountInv /\ SeenInv /\ WholeInv
  BY DEF Init, CountInv, SeenInv, WholeInv
<1>3. Promises
  BY <1>2, RunningPromises DEF Init
<1>4. QED
  BY <1>1, <1>2, <1>3 DEF IInv

-----------------------------------------------------------------------------
(* The steps after which the call still runs. *)
LEMMA RunningInv ==
    ASSUME TypeOK', CountInv', SeenInv', WholeInv', pc' # "done" PROVE IInv'
<1>1. result' = NoResult
  BY DEF WholeInv
<1>2. Promises'
  <2>1. (SeenInv /\ result = NoResult => Promises)'
    BY RunningPromises, PTL
  <2>2. QED
    BY <1>1, <2>1 DEF NoResult
<1>3. QED
  BY <1>2 DEF IInv

LEMMA CancelInv == ASSUME IInv, Cancel PROVE IInv'
<1> USE DEF IInv, Cancel, config, loop, output
<1>1. TypeOK' BY DEF TypeOK, Errors
<1>2. CountInv' BY DEF CountInv
<1>3. SeenInv' BY DEF SeenInv
<1>4. WholeInv' BY DEF WholeInv
<1>5. pc' # "done" OBVIOUS
<1>6. QED BY <1>1, <1>2, <1>3, <1>4, <1>5, RunningInv

LEMMA AttemptInv == ASSUME IInv, Attempt PROVE IInv'
<1> USE DEF IInv, Attempt, config
<1>1. TypeOK'
  <2>1. calls' \in 0..(MaxRetries + 1) BY DEF TypeOK, CountInv
  <2>2. QED BY <2>1 DEF TypeOK, Errors
<1>2. CountInv' BY DEF CountInv, TypeOK
<1>3. SeenInv' BY DEF SeenInv
<1>4. WholeInv' BY DEF WholeInv
<1>5. pc' # "done" OBVIOUS
<1>6. QED BY <1>1, <1>2, <1>3, <1>4, <1>5, RunningInv

\* A callback gets something: the attempt that runs has been seen.
LEMMA DispatchSeen ==
    ASSUME IInv, pc = "open", Dispatch
    PROVE  /\ emitted' \in BOOLEAN /\ delivered' \in SUBSET (1..(MaxRetries + 1))
           /\ delivered' = {calls} /\ emitted'
<1>1. calls \in 1..(MaxRetries + 1)
  BY DEF IInv, TypeOK, CountInv
<1>2. QED
  BY <1>1 DEF IInv, TypeOK, SeenInv, Dispatch

LEMMA PieceInv ==
    ASSUME IInv, StructuredPiece \/ StructuredFlush \/ TextPiece PROVE IInv'
<1>1. pc = "open" /\ sinks # {}
  BY DEF StructuredPiece, StructuredFlush, TextPiece
<1>2. /\ pc' = pc /\ UNCHANGED <<config, loop, cancelled, lastErr, result>>
      /\ Dispatch \/ UNCHANGED <<emitted, delivered>>
  BY DEF StructuredPiece, StructuredFlush, TextPiece
<1>3. /\ pieces' \in 0..MaxPieces /\ builder' \in 0..MaxPieces /\ builder' = pieces'
      /\ stash' \in {"none", "structured", "handling"}
  BY <1>1 DEF StructuredPiece, StructuredFlush, TextPiece, IInv, TypeOK, WholeInv
<1>4. TypeOK'
  BY <1>1, <1>2, <1>3, DispatchSeen DEF IInv, TypeOK, config, loop, Errors
<1>5. CountInv'
  BY <1>1, <1>2 DEF IInv, CountInv, loop
<1>6. SeenInv'
  BY <1>1, <1>2, DispatchSeen DEF IInv, SeenInv, config, loop
<1>7. WholeInv'
  BY <1>1, <1>2, <1>3 DEF IInv, WholeInv
<1>8. QED
  BY <1>1, <1>2, <1>4, <1>5, <1>6, <1>7, RunningInv

LEMMA ErrorEventInv == ASSUME IInv, ErrorEvent PROVE IInv'
<1> USE DEF IInv, ErrorEvent, config, loop
<1>1. TypeOK' BY DEF TypeOK, Errors
<1>2. CountInv' BY DEF CountInv
<1>3. SeenInv' BY DEF SeenInv
<1>4. WholeInv' BY DEF WholeInv
<1>5. pc' # "done" OBVIOUS
<1>6. QED BY <1>1, <1>2, <1>3, <1>4, <1>5, RunningInv

LEMMA SleepOverInv == ASSUME IInv, SleepOver PROVE IInv'
<1> USE DEF IInv, SleepOver, config, loop, output
<1>1. TypeOK' BY DEF TypeOK, Errors
<1>2. CountInv' BY DEF CountInv
<1>3. SeenInv' BY DEF SeenInv
<1>4. WholeInv' BY DEF WholeInv
<1>5. pc' # "done" OBVIOUS
<1>6. QED BY <1>1, <1>2, <1>3, <1>4, <1>5, RunningInv

\* What an attempt may end with.
ErrorsOfAttempt == Errors \cup {"none", "cancelled", "structured"}

LEMMA AttemptErrTyped == \A end \in Ends : AttemptErr(end) \in ErrorsOfAttempt
  BY DEF Ends, AttemptErr, ErrorsOfAttempt

LEMMA CleanInv == ASSUME IInv, AttemptClean PROVE IInv'
<1> USE DEF IInv, AttemptClean, AttemptEnds, config, output
<1>1. TypeOK' BY DEF TypeOK, Errors
<1>2. CountInv' BY DEF CountInv
<1>3. SeenInv' BY DEF SeenInv
<1>4. WholeInv' BY DEF WholeInv
<1>5. pc' # "done" OBVIOUS
<1>6. QED BY <1>1, <1>2, <1>3, <1>4, <1>5, RunningInv

\* Another attempt only if there is one left and nothing was seen.
LEMMA RetriedInv == ASSUME IInv, AttemptRetried PROVE IInv'
<1>1. PICK end \in Ends :
        /\ AttemptEnds(AttemptErr(end))
        /\ Retryable(AttemptErr(end)) /\ ~LastAttempt
        /\ attempt' = attempt + 1 /\ notices' = notices + 1
        /\ pc' \in {"sleep", "check"} /\ UNCHANGED result
  BY DEF AttemptRetried
<1>2. /\ lastErr' \in ErrorsOfAttempt /\ ~emitted /\ attempt # MaxRetries
      /\ pc = "open" /\ UNCHANGED <<config, calls, cancelled, output>>
  BY <1>1, AttemptErrTyped DEF AttemptEnds, Retryable, LastAttempt
<1>3. TypeOK'
  BY <1>1, <1>2 DEF IInv, TypeOK, CountInv, ErrorsOfAttempt, Errors, config, output
<1>4. CountInv'
  BY <1>1, <1>2 DEF IInv, CountInv, TypeOK
<1>5. SeenInv'
  BY <1>2 DEF IInv, SeenInv, config, output
<1>6. WholeInv'
  BY <1>1, <1>2 DEF IInv, WholeInv, output
<1>7. QED
  BY <1>1, <1>3, <1>4, <1>5, <1>6, RunningInv

-----------------------------------------------------------------------------
(* The steps that return. *)

\* What a result must say of what happened to keep the promises: n requests,
\* something seen or not.
Sound(r, n, seen) ==
    /\ r.attempts > 0 /\ ~r.partial => ~seen
    /\ r.kind = "unavailable" => r.attempts > 0
    /\ r.attempts > 0 => r.attempts = IF Streaming \/ ~StoppedBetween THEN n ELSE 1
    /\ r.kind \in {"unavailable", "policy"} => r.partial = seen
    /\ r.partial => seen

LEMMA FinishInv ==
    ASSUME IInv, NEW r \in Results, Finish(r), pc # "done",
           TypeOK', SeenInv', Sound(r, calls, emitted'),
           UNCHANGED <<config, loop, cancelled>>,
           r.kind = "ok" => lastErr' = "none" /\ stash' = "none" /\ builder' = pieces'
    PROVE  IInv'
<1> USE DEF IInv, Finish, config, loop
<1>1. CountInv' BY DEF CountInv
<1>2. WholeInv' BY DEF WholeInv
<1>3. NeverReplayed'
  <2>1. (SeenInv => Cardinality(delivered) <= 1)'
    BY OneAttemptSeen, PTL
  <2>2. QED
    BY <2>1 DEF NeverReplayed, IsRetryable, Sound, SeenInv
<1>4. AttemptsExact' BY DEF AttemptsExact, Sound, Streaming, StoppedBetween
<1>5. PartialMarked' BY DEF PartialMarked, Sound
<1>6. AnswerIsWhole' BY DEF AnswerIsWhole
<1>7. QED BY <1>1, <1>2, <1>3, <1>4, <1>5, <1>6 DEF Promises

\* A step that returns r and changes nothing else the promises speak of.
LEMMA ReturnInv ==
    ASSUME IInv, NEW r \in Results, Finish(r), pc # "done", Sound(r, calls, emitted),
           lastErr' \in Errors \cup {"none", "cancelled", "callback", "structured"},
           UNCHANGED <<config, loop, cancelled, output>>,
           r.kind = "ok" => lastErr' = "none" /\ stash = "none" /\ builder = pieces
    PROVE  IInv'
<1>1. TypeOK'
  BY DEF IInv, TypeOK, Finish, config, loop, output, Errors
<1>2. SeenInv'
  BY DEF IInv, SeenInv, Finish, config, loop, output
<1>3. Sound(r, calls, emitted')
  BY DEF output
<1>4. QED
  BY <1>1, <1>2, <1>3, FinishInv DEF output

\* The error a turn makes of one the loop did not wrap is sound if it came of
\* a request and the loop was stopped between attempts, or had a reason of its
\* own not to try again.
LEMMA ShapedSound ==
    ASSUME IInv, pc # "done", NEW err,
           err = "transient" => calls > 0 /\ (StoppedBetween \/ ~Retryable(err))
    PROVE  /\ Shaped(err) \in Results /\ Shaped(err).kind # "ok"
           /\ Sound(Shaped(err), calls, emitted)
<1>1. emitted \in BOOLEAN /\ calls \in Nat
  BY DEF IInv, TypeOK
<1>2. Counted \in Nat /\ Counted = IF Streaming THEN calls ELSE 1
  BY <1>1 DEF Counted
<1>3. err = "transient" => Streaming \/ StoppedBetween
  BY <1>1 DEF IInv, SeenInv, Retryable, Streaming
<1>4. CASE err = "transient"
  <2>1. Shaped(err) = Failure("unavailable", Counted, emitted)
    BY <1>4 DEF Shaped
  <2>2. Counted > 0 /\ Counted = IF Streaming \/ ~StoppedBetween THEN calls ELSE 1
    BY <1>1, <1>2, <1>3, <1>4
  <2>3. QED
    BY <1>1, <1>2, <2>1, <2>2 DEF Failure, Results, Sound
<1>5. CASE err # "transient"
  <2>1. \/ Shaped(err) = Failure("policy", 0, emitted)
        \/ Shaped(err) = Failure("plain", 0, emitted)
        \/ Shaped(err) = Failure("plain", 0, FALSE)
    BY <1>5 DEF Shaped
  <2>2. CASE Shaped(err) = Failure("policy", 0, emitted)
    BY <1>1, <2>2 DEF Failure, Results, Sound
  <2>3. CASE Shaped(err) = Failure("plain", 0, emitted)
    BY <1>1, <2>3 DEF Failure, Results, Sound
  <2>4. CASE Shaped(err) = Failure("plain", 0, FALSE)
    BY <1>1, <2>4 DEF Failure, Results, Sound
  <2>5. QED
    BY <2>1, <2>2, <2>3, <2>4
<1>6. QED
  BY <1>4, <1>5

\* The loop sees its cancelled context, between attempts or in its wait.
LEMMA CancelledInv == ASSUME IInv, StopCancelled \/ SleepCancelled PROVE IInv'
<1>1. PICK err : Finish(Shaped(err)) /\ err \in {lastErr, "cancelled"}
  BY DEF StopCancelled, SleepCancelled
<1>2. /\ pc \in {"check", "sleep"}
      /\ UNCHANGED <<config, loop, cancelled, lastErr, output>>
  BY DEF StopCancelled, SleepCancelled
<1>3. err = "transient" => calls > 0 /\ StoppedBetween
  BY <1>1, <1>2 DEF IInv, CountInv, StoppedBetween
<1>4. /\ Shaped(err) \in Results /\ Shaped(err).kind # "ok"
      /\ Sound(Shaped(err), calls, emitted)
  BY <1>2, <1>3, ShapedSound
<1>5. lastErr' \in Errors \cup {"none", "cancelled", "callback", "structured"}
  BY <1>2 DEF IInv, TypeOK
<1>6. QED
  BY <1>1, <1>2, <1>4, <1>5, ReturnInv

\* The last attempt allowed: the loop only retries what was not seen.
LEMMA ExhaustedSound ==
    ASSUME IInv, pc = "open", NEW err, Retryable(err)
    PROVE  /\ Exhausted(err) \in Results /\ Exhausted(err).kind # "ok"
           /\ Sound(Exhausted(err), calls, emitted)
<1>1. emitted = FALSE /\ calls = attempt + 1 /\ attempt \in Nat
  BY DEF IInv, TypeOK, CountInv, Retryable
<1>2. \/ Exhausted(err) = Failure("policy", attempt + 1, emitted)
      \/ Exhausted(err) = Failure("unavailable", attempt + 1, emitted)
  BY DEF Exhausted
<1>3. PICK kind \in {"policy", "unavailable"} : Exhausted(err) = Failure(kind, calls, FALSE)
  BY <1>1, <1>2
<1>4. calls \in Nat /\ Failure(kind, calls, FALSE) \in Results
  BY <1>1 DEF Failure, Results
<1>5. Failure(kind, calls, FALSE).kind # "ok"
  BY <1>3 DEF Failure
<1>6. Sound(Failure(kind, calls, FALSE), calls, emitted)
  <2>1. calls > 0 /\ ~StoppedBetween
    BY <1>1 DEF StoppedBetween
  <2>2. QED
    BY <1>1, <2>1 DEF Failure, Sound
<1>7. QED
  BY <1>3, <1>4, <1>5, <1>6

LEMMA FinalInv == ASSUME IInv, AttemptFinal PROVE IInv'
<1>1. PICK end \in Ends :
        /\ AttemptEnds(AttemptErr(end)) /\ UNCHANGED <<attempt, notices>>
        /\ \/ ~Retryable(AttemptErr(end)) /\ Finish(Shaped(AttemptErr(end)))
           \/ Retryable(AttemptErr(end)) /\ Finish(Exhausted(AttemptErr(end)))
  BY DEF AttemptFinal
<1> DEFINE err == AttemptErr(end)
<1>2. /\ pc = "open" /\ lastErr' = err
      /\ UNCHANGED <<config, loop, cancelled, output>>
  BY <1>1 DEF AttemptEnds, loop
<1>3. lastErr' \in Errors \cup {"none", "cancelled", "callback", "structured"}
  BY <1>2, AttemptErrTyped DEF ErrorsOfAttempt
<1>4. CASE ~Retryable(err) /\ Finish(Shaped(err))
  <2>1. calls > 0
    BY <1>2 DEF IInv, CountInv, TypeOK
  <2>2. /\ Shaped(err) \in Results /\ Shaped(err).kind # "ok"
        /\ Sound(Shaped(err), calls, emitted)
    BY <1>2, <1>4, <2>1, ShapedSound
  <2>3. QED
    BY <1>2, <1>3, <1>4, <2>2, ReturnInv
<1>5. CASE Retryable(err) /\ Finish(Exhausted(err))
  <2>1. /\ Exhausted(err) \in Results /\ Exhausted(err).kind # "ok"
        /\ Sound(Exhausted(err), calls, emitted)
    BY <1>2, <1>5, ExhaustedSound
  <2>2. QED
    BY <1>2, <1>3, <1>5, <2>1, ReturnInv
<1>6. QED
  BY <1>1, <1>4, <1>5

\* A rejected text event ends the turn, or is kept while the stream goes on.
LEMMA RejectedInv == ASSUME IInv, TextRejected PROVE IInv'
<1>1. /\ pc = "open" /\ sinks # {} /\ Dispatch
      /\ UNCHANGED <<config, loop, cancelled, pieces, builder>>
  BY DEF TextRejected
<1>2. /\ emitted' \in BOOLEAN /\ delivered' \in SUBSET (1..(MaxRetries + 1))
      /\ delivered' = {calls} /\ emitted'
  BY <1>1, DispatchSeen
<1>3. pc' = pc => CountInv'
  BY <1>1 DEF IInv, CountInv, loop
<1>4. CASE provider \in {"anthropic", "google"}
  <2> DEFINE r == Failure("plain", 0, FALSE)
  <2>1. Finish(r) /\ lastErr' = "callback" /\ UNCHANGED stash
    BY <1>4 DEF TextRejected, Shaped
  <2>2. r \in Results /\ r.kind = "plain" /\ Sound(r, calls, emitted')
    BY DEF Failure, Results, Sound
  <2>3. TypeOK'
    BY <1>1, <1>2, <2>1, <2>2 DEF IInv, TypeOK, Finish, config, loop, Errors
  <2>4. SeenInv'
    BY <1>1, <1>2, <2>1 DEF SeenInv, Finish, config, loop
  <2>5. QED
    BY <1>1, <2>1, <2>2, <2>3, <2>4, FinishInv
<1>5. CASE provider \notin {"anthropic", "google"}
  <2>1. /\ UNCHANGED <<pc, lastErr, result>>
        /\ stash' \in {"none", "structured", "handling"}
    BY <1>5 DEF TextRejected, IInv, TypeOK
  <2>2. TypeOK'
    BY <1>1, <1>2, <2>1 DEF IInv, TypeOK, config, loop, Errors
  <2>3. WholeInv'
    BY <1>1, <2>1 DEF IInv, WholeInv
  <2>4. SeenInv'
    BY <1>1, <1>2, <2>1 DEF SeenInv, config, loop
  <2>5. QED
    BY <1>1, <1>3, <2>1, <2>2, <2>3, <2>4, RunningInv
<1>6. QED
  BY <1>4, <1>5

\* What a provider turn makes of a loop that succeeded.
LEMMA RespondInv ==
    ASSUME IInv, NEW r \in Results, Responds(r), Sound(r, calls, emitted),
           r.kind = "ok" => stash = "none"
    PROVE  IInv'
<1>1. /\ pc = "respond" /\ Finish(r)
      /\ UNCHANGED <<config, loop, cancelled, lastErr, output>>
  BY DEF Responds
<1>2. lastErr' = "none" /\ builder = pieces
  BY <1>1 DEF IInv, WholeInv
<1>3. QED
  BY <1>1, <1>2, ReturnInv

LEMMA AnswerInv ==
    ASSUME IInv, ReportStash \/ Succeeds \/ Blocked \/ Unusable PROVE IInv'
<1>1. emitted \in BOOLEAN
  BY DEF IInv, TypeOK
<1>2. CASE ReportStash
  <2> DEFINE r == Failure("plain", 0, stash = "structured" /\ emitted)
  <2>1. (stash = "structured" /\ emitted) \in BOOLEAN
    OBVIOUS
  <2>2. r \in Results /\ r.kind = "plain" /\ Sound(r, calls, emitted)
    BY <1>1, <2>1 DEF Failure, Results, Sound
  <2>3. QED
    BY <1>2, <2>2, RespondInv DEF ReportStash
<1>3. CASE Succeeds
  <2>1. PICK r : r = Answered
    OBVIOUS
  <2>2. r \in Results /\ r.kind = "ok" /\ Sound(r, calls, emitted)
    BY <1>1, <2>1 DEF Answered, Results, Sound
  <2>3. QED
    BY <1>3, <2>1, <2>2, RespondInv DEF Succeeds
<1>4. CASE Blocked
  <2>1. pc # "done"
    BY <1>4 DEF Blocked, Responds
  <2>2. /\ Shaped("policy") \in Results /\ Shaped("policy").kind # "ok"
        /\ Sound(Shaped("policy"), calls, emitted)
    BY <2>1, ShapedSound
  <2>3. QED
    BY <1>4, <2>2, RespondInv DEF Blocked
<1>5. CASE Unusable
  <2> DEFINE r == Failure("plain", 0, provider = "openrouter" /\ emitted)
  <2>1. (provider = "openrouter" /\ emitted) \in BOOLEAN
    OBVIOUS
  <2>2. r \in Results /\ r.kind = "plain" /\ Sound(r, calls, emitted)
    BY <1>1, <2>1 DEF Failure, Results, Sound
  <2>3. QED
    BY <1>5, <2>2, RespondInv DEF Unusable
<1>6. QED
  BY <1>2, <1>3, <1>4, <1>5

-----------------------------------------------------------------------------
LEMMA StutterInv == ASSUME IInv, UNCHANGED vars PROVE IInv'
<1> USE DEF IInv, vars, config, loop, output
<1>1. TypeOK' BY DEF TypeOK, Errors
<1>2. CountInv' /\ SeenInv' /\ WholeInv'
  BY DEF CountInv, SeenInv, WholeInv
<1>3. Promises'
  BY DEF Promises, NeverReplayed, AttemptsExact, PartialMarked, AnswerIsWhole,
         IsRetryable, Streaming, StoppedBetween
<1>4. QED BY <1>1, <1>2, <1>3

LEMMA NextInv == IInv /\ [Next]_vars => IInv'
<1> SUFFICES ASSUME IInv, [Next]_vars PROVE IInv'
  OBVIOUS
<1>1. CASE Cancel BY <1>1, CancelInv
<1>2. CASE StopCancelled \/ SleepCancelled BY <1>2, CancelledInv
<1>3. CASE Attempt BY <1>3, AttemptInv
<1>4. CASE StructuredPiece \/ StructuredFlush \/ TextPiece BY <1>4, PieceInv
<1>5. CASE TextRejected BY <1>5, RejectedInv
<1>6. CASE ErrorEvent BY <1>6, ErrorEventInv
<1>7. CASE AttemptClean BY <1>7, CleanInv
<1>8. CASE AttemptFinal BY <1>8, FinalInv
<1>9. CASE AttemptRetried BY <1>9, RetriedInv
<1>10. CASE SleepOver BY <1>10, SleepOverInv
<1>11. CASE ReportStash \/ Succeeds \/ Blocked \/ Unusable BY <1>11, AnswerInv
<1>12. CASE UNCHANGED vars BY <1>12, StutterInv
<1>13. QED
  BY <1>1, <1>2, <1>3, <1>4, <1>5, <1>6, <1>7, <1>8, <1>9, <1>10, <1>11, <1>12
     DEF Next

LEMMA Invariance == Spec => []IInv
  BY InitInv, NextInv, PTL DEF Spec

-----------------------------------------------------------------------------
\* The caller sees the events of one attempt at most, and an error that invites
\* another turn comes before the first event.
THEOREM NothingReplayed == Spec => []NeverReplayed
<1>1. IInv => NeverReplayed BY DEF IInv, Promises
<1>2. QED BY <1>1, Invariance, PTL

\* An UnavailableError tells how many requests were made, cancelled or not and
\* inside a policy error too.  Only a call that does not stream and is stopped
\* between attempts says one whatever their number.
THEOREM AttemptsCounted == Spec => []AttemptsExact
<1>1. IInv => AttemptsExact BY DEF IInv, Promises
<1>2. QED BY <1>1, Invariance, PTL

\* ErrStreamingPartialOutput is on every transient failure and policy block
\* after output and on no error before it.
THEOREM PartialIsMarked == Spec => []PartialMarked
<1>1. IInv => PartialMarked BY DEF IInv, Promises
<1>2. QED BY <1>1, Invariance, PTL

\* An answer is that of one attempt that ended well, with its own text.
THEOREM AnswersAreWhole == Spec => []AnswerIsWhole
<1>1. IInv => AnswerIsWhole BY DEF IInv, Promises
<1>2. QED BY <1>1, Invariance, PTL

\* The variables keep their types: no more than MaxRetries + 1 requests.
THEOREM CallTyped == Spec => []TypeOK
<1>1. IInv => TypeOK BY DEF IInv
<1>2. QED BY <1>1, Invariance, PTL
=============================================================================
