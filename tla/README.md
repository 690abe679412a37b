# Verification of llms-go

TLA+ models of the Go package `llms` (the repository this directory belongs to), the
TLC configurations that check them on small instances, and theorems about them that
TLAPS proves for every value of their constants. `PROJECT.json` lists the components,
the runs, the source lines each definition stands for, the hazards and the theorems.

## The system

llms-go drives large language models of four providers through one interface. A
`Session` is an agentic loop its caller steps: one model turn, the tools that turn asks
for, the next turn. Below a session each provider has a `Turn` with a provider-native
history; below a turn, a retry loop around streaming requests; below a request, a chain
of HTTP transports, one of which watches for silence.

| Component | State it keeps | Operations | Talks to |
|---|---|---|---|
| Session (`session.go`) | step, phase, pending plan, transcript, last error | StepPlan, StepObserve, Step, RunTools, Inject, ResumeForToolResults, Snapshot | Turn (calls), tracker (shared), tools (goroutines), the caller's callbacks |
| Turn (`turn.go`, `anthropic.go`, `openai.go`, `google.go`, `openrouter.go`) | native history, queued messages, structured parser and builder | Next, Observe, ObserveToolResults, Inject | retry loop, SDK client, callbacks |
| Execution tracker (`execution_context.go`) | steps, tool calls, tokens; a parent | Increment/DecrementStep, RecordToolCall, AddTokens | parent tracker, tools of several goroutines |
| Retry loop (`retry.go`) and errors (`errors.go`) | attempt counter, last error | retryLoop, Delay, IsRetryable | the attempt, the caller's context, RetryNotify |
| Stall watchdog (`stall.go`) | timer, phase, budget, last data | RoundTrip, Read, Close, trip | HTTP transport, the runtime's timers |
| Tools (`tools.go`) | none | doToolCall, filterAvailableTools | tracker, StreamingFunc |
| Manager (`manager.go`), credentials (`credentials.go`) | models, aliases, sub-parsers, cached keys | GetModel, Register... | providers, environment |
| Model info (`modelinfo*.go`), capabilities (`anthropic_capabilities.go`) | base and registered data, one answer per model | Lookup, Register, Load, Refresh | files, network |
| Reasoning, pricing, limits (`reasoning.go`, `pricing.go`, `attachments.go`) | none | pure functions | model info |
| Structured parser (`jsonstream/`) | parser stack and buffers | Feed, Flush, Reset | provider turns |

What is hard in it, and what correctness means there:

* *Session*: two histories (the neutral transcript and the provider's) that every
  operation has to keep in agreement over retries, policy blocks, snapshots taken at any
  point between two calls, restores and resumes; a budget that a failed turn gives back;
  totals that must survive a restore without being billed twice.
* *Turn and retry loop*: an attempt may fail before or after the caller has seen output,
  in a callback, in the parser, in the transport or by cancellation, and all of these
  race. Output must never be replayed, and the error must say what happened.
* *Watchdog*: timer goroutines that are already running when data arrives, when the
  phase changes and when the body is closed.
* *Tools*: a parallel fan-out, a cancellable fan-in, goroutines that outlive it, and
  counters two locks apart.
* *Manager, model info, capabilities*: first-use initialisation against concurrent use.
* *Parser, pricing, reasoning*: boundaries (chunks, tiers, effort levels).
* *Conversion*: each provider has two pieces of code for its history, one for messages it
  is given and one for its own responses, which must mean the same.

## Modules

| Module | Models | Extends / used by |
|---|---|---|
| `Session` | `session.go`, the history part of the provider turns, steps and tokens of the tracker, snapshots | |
| `AgentLoop` | what a session promises: a growing conversation, a budget, settled calls, a checkpoint | abstract specification |
| `SessionRefinement` | the mapping of `Session` to `AgentLoop` | `Session`, INSTANCE `AgentLoop` |
| `SessionProofs` | theorems about `Session` and its refinement | `SessionRefinement` |
| `TurnCall` | `Turn.Next` of all four providers: `retryLoop`, an attempt, its callbacks, classification and the reported error | |
| `StallWatchdog` | `stallTransport`, `stallBody`, `stallWatchdog` | |
| `StallWatchdogProofs` | theorems about `StallWatchdog` | `StallWatchdog` |
| `TurnCallProofs` | theorems about `TurnCall` | `TurnCall` |
| `Requests` | the requests of concurrent calls of one model: `EnvCredentials`, `headerCapturingTransport`, Retry-After hints, cap and backoff | |
| `RequestsProofs` | theorems about `Requests` | `Requests` |
| `ToolRun` | `Session.RunTools`, `doToolCall`, `RecordToolCall` | |
| `ToolRunProofs` | theorems about `ToolRun` | `ToolRun` |
| `JsonParser` | `jsonstream.Parser`: `Feed`, `Flush`, `Reset`, sub-parsers, strict mode, as operators on a parser record | used by `JsonStream` |
| `JsonStream` | a stream cut into chunks, fed, flushed and reset as a provider turn does | `JsonParser` |
| `Attachments` | messages, their parts, `checkMessages`, the expansion of files | used by `Wire` |
| `Wire` | `convertMessages`, `Observe`, `ObserveToolResults` of all four providers | `Attachments` |
| `Reasoning` | effort, budget and route tables, output caps, the request fields of each provider | used by `ProviderTurn` |
| `Pricing` | usage, tiers, counters, `CalculateCosts` | used by `ProviderTurn` |
| `ProviderTurn` | a conversation of a provider turn: history, request, usage | `Wire`, `Reasoning`, `Pricing` |
| `HistoryLemmas` | lemmas on finite sets, sums and sequences, on cache marks, and on what a history says | `Wire`; used by `ProviderTurnProofs` |
| `ProviderTurnProofs` | theorems about requests, bills, cache boundaries, replayed histories and results | `ProviderTurn`, `HistoryLemmas` |
| `ModelInfoRegistry` | the process-wide model data: first load, replacement, registered entries | used by `ModelAccess` |
| `ModelAccess` | `Manager.GetModel`, and the model data and Models API answer a request goes by | `ModelInfoRegistry` |
| `ModelAccessProofs` | theorems about `ModelAccess` | `ModelAccess` |
| `MC...` | the constants of the runs | one per component |

### Session

One action per way a public call can go. `StepPlan` is cut at `Turn.Next`, the only point
where the outside world answers (`pc = "calling"`): before it `PlanCancelled`,
`PlanExhausted`, `PlanStartRejected`, `PlanQueueRejected`, `PlanCall`; after it
`NextRetryable`, `NextBlocked`, `NextFailed`, `NextAnswered`, `NextCalled`,
`NextCalledRejected`. A session is not safe for concurrent use (`session.go`, comment of
`Session`), so no other operation runs while a call is in flight; a process may crash
there, which is why `Rebuild` has no guard on `pc` when the process is new.

A transcript is a sequence of entries `[kind, turn]`: `turn` is the step that paid for
the entry, so that calls, their results and the budget can be related without text. Each
answered turn is billed one token. `native` is the history a provider turn would send,
`queue` what `Turn.Inject` holds back until the next request. `Observed` differs on the
live route (`Turn.Observe` appends the calls and their results) and on the reconstructed
one (`ObserveToolResults`: the calls are already in the replayed history).

Sequences of illegal calls (StepPlan while results are owed, StepObserve with no plan)
return an error and change nothing; they are guards, not actions. Two habits of a
sensible caller are assumed: it does not restore the snapshot of a finished session
(`SessionSnapshot`'s comment calls it not meaningfully resumable), and it resumes a
transcript that ends in tool calls before it plans.

### TurnCall

The four providers share `retryLoop` and differ in the definitions that look at
`provider`: who streams always (`Streaming`), who counts attempts (`Counted`), whether a
failed `StreamingFunc` ends an attempt at once or is kept to its end (`TextRejected`),
whether the transport's error or the kept failure wins (`AttemptErr`), and how an
unusable response is reported (`Blocked`, `Unusable`). Pieces of text are counted, not
spelled: `builder` and `pieces` are equal exactly when the structured text is that of the
last attempt. `Init` starts with whatever an earlier, blocked call left in the builder.
Stalls and retryable statuses are both `"transient"`. `"flagged"` is an error of
OpenRouter that is a policy block and has a retryable status.

### Requests

`TurnCall` follows one call alone; `Requests` follows several that share a model, and
keeps of each only what the shared state can confuse. A call asks for its key (`Request`,
`Getenv`, `StoreKey` are the three steps of `EnvCredentials.Credential`, which other calls
may come between), sends, and is answered; `Response` stores the headers in the one
pointer of the model before the SDK sees them, and classification (`ClassifyRefused`,
`ClassifyInStream`, `ReportPartial`) reads them later. A hint carries the number of the
response it comes from, which is how the properties tell hints apart. Anthropic and OpenAI
read the response their error carries. Pauses are compared with their limits and do not
make time pass.

### StallWatchdog

The call's goroutine moves through `Places`; each critical section of `w.mu` is one step.
The deadline and the time since the last data are kept as distances to now, so no clock
grows. Time (`Tick`) may pass while the call blocks on a provider that has sent nothing
and in the places of `slow`, which a behaviour draws from `SlowChoices` at its start: with
all places slow every interleaving of goroutine scheduling and the timer is included, with
none the caller takes no time. A fired timer becomes a trip goroutine that runs any time later.

### ToolRun

Each call's goroutine moves through its places in the order of `doToolCall`: record in the
tracker, roll up to the parent, parse, announce, execute, report, send. `RunTools` spawns
and collects beside them, and a cancelled fan-in leaves the goroutines running.

### JsonParser and JsonStream

A parser is a record with the stack, the buffers and the events it has emitted; each
handler of the Go state machine is an operator, and `Feed` iterates them over the bytes.
Bytes are letters of a small alphabet that has every class the code distinguishes: quote,
backslash, the escapes, hex digits of ordinary characters and of high and low surrogates,
lead and continuation bytes, digits, blanks, brackets. `HexLen` and `RuneLen` shorten
escapes and characters to the fewest bytes that can be cut. `JsonStream` lets a provider
say a text token by token, cuts it anywhere, feeds it, ends the stream anywhere and starts
again with `Reset`; its properties compare what the caller saw with the events of the whole
text fed at once. `JsonParser` has recursive operators, so nothing is proved about it.

### Attachments, Wire, Reasoning, Pricing and ProviderTurn

`ProviderTurn` follows one conversation: `newSession` (`Init`, `Restore`), `Inject`, `Next`
and `Observe`. `native` is the history of provider messages, built by the operators of
`Wire`, with the blocks in the order and grouping each provider gives them; `transcript` is
the neutral one, built by `Neutral`. `Meaning` reduces both to what a model is told, message
by message, with consecutive assistant messages as one turn: who speaks, which text, calls,
results, files and (where a provider replays it) thinking.
Redacted thinking and blocks of server tools are left out of the comparison, since the
live history drops them; `turn_redacted` shows that. What a tool or a message brings is a
part with a media type and a size; a profile fixes provider, model data, options and what
may happen. `Reasoning` computes the request fields, `Pricing` the counters and costs with
whole-number rates.

### ModelInfoRegistry and ModelAccess

`ModelInfoRegistry` has the variables of the registry and the steps of the goroutines in
it; `ModelAccess` extends it with what its callers do around a lookup and says which
steps may happen when. A critical section of `mu` (manager, registry, capabilities) is one
step, and so is the end of a `sync.Once`; between them anybody may run. The lock of
`anthropicCapabilities` is held across a network call, so it is a variable (`capMu`).
One model name stands for all, since names share only locks; every data set lists it, so
the only way not to know it is to look at the wrong time. `began` remembers what stood
when a request began.

## Runs

| Run | Question | Bounds |
|---|---|---|
| `session` | Do transcript, provider history, budget, totals and phase agree in every reachable state? Is every behaviour one of `AgentLoop`, and does a driven session end? | two steps, one injection, two survived failures, two rebuilds |
| `session_midplan` | Does the transcript stay replayable when messages are injected while results are owed? *No.* | one rebuild, no failure |
| `turn_call` | Replay, attempt counts, partial marks and whole answers, for all providers and callbacks; does `Next` return? | three retries, two pieces |
| `turn_block_retryable` | Is a policy block never retryable? *It may be.* | OpenRouter |
| `requests` | Do concurrent calls hear current, capped hints and find their key? | two calls with two retries, hints of -1 and 9 with a cap of 5, one key that may appear late |
| `stall_watchdog` | Is a budget ever lost, a retired watchdog ever heard, an error ever blamed on the wrong side, a call ever hung? If only the provider takes time, does a failure mean a whole budget of silence? | budgets of 3 and 2 ticks, two late trips; a caller that takes no time, one with slow callbacks, and time passing anywhere |
| `tool_run` | Order of outcomes, pairing of events, both trackers, termination | four calls, one unknown tool, one cancellation |
| `model_access` | Do callers share one model and one question to the API, and does a request see what stood when it began? Does it ever get stuck? | two callers, one loader that may load again, one document |
| `json_stream` | Do the events depend on the cuts, is text lost or decoded wrongly, do events nest? | chunks up to 3 bytes; strings of four units of every kind, with and without a sub-parser; keys; shapes of up to seven tokens, also strict |
| `provider_turn` | Do live and replayed history agree, results follow calls, cache marks stay few, bills agree, budgets leave room? | two turns, one injection, one failure, one restore; 14,824 profiles of provider, model, options and price list |
| `turn_redacted` | Is all thinking of a tool-calling turn sent back? *Redacted thinking is not.* | Anthropic |
| `model_unknown` | Is a model that every data set lists always known? *No.* | the same |

The type invariants of `Session` and `TurnCall` are checked and proved. Those of
`StallWatchdog`, `ToolRun`, `ModelAccess`, `Requests` and `ProviderTurn` have no run: they
are proved (`WatchdogTyped`, `RunTyped`, `AccessTyped`, `RequestsTyped`, `TurnTyped`).

Why the bounds are enough. In a session two steps give every pair of consecutive turns (a
failed, retried, blocked or answered one after a tool turn) and exhaust the budget; two
rebuilds give a snapshot of a restored session, which is where the reconstructed route
could be confused with the live one; two failures allow the budget to be given back twice
in one turn or once in each. In a turn call three retries separate first, middle and last
attempts, and two pieces tell a builder that was reset from one that was not. The two
budgets of the watchdog differ so that a deadline computed for the wrong phase is seen,
and two late trips are the fewest that overlap. Two calls of a model are what it takes for one to read
another's headers or race it for the key, and two retries give a hint of an earlier attempt
that could linger; a hint above the cap and one in the past are the two that need care.
Chunks of up to three bytes cut every escape and character at every place, since an escape
has four bytes and a character two; a surrogate pair of two escapes is cut in each of its
states. Two turns with an injection between them give results that follow earlier results,
calls that follow a replayed history and marks that must be cleared; two cost tiers are the
fewest with a prompt below, at, between and above their bounds. Four tool calls with a gap at the second
make every permutation of arrivals distinguishable from the order of the calls. Two callers
and a loader are all the roles of a race for the first load, the first construction and
the first question to the API; they go round for ever. Every
definition of a bound is a constant (`MaxSteps`, `MaxInjects`, `MaxFailures`,
`MaxRestores`; `MaxRetries`, `MaxPieces`, `RetryAfterCap`, `Base`, `MaxDelay`; `RequestTimeout`, `StallTimeout`, `MaxTrips`;
`N`; `Callers`, `Loaders`, `Docs`; `Calls`, `Hints`, `Keys`; `MaxChunk`, `HexLen`, `RuneLen`;
`MaxTurns`, `Profiles`); `MaxSteps`, `MaxRetries`, the cap, the backoff and the timeouts are parameters of the code, the others
bound the environment.

Deadlock is checked in `json_stream`, whose parser can always be fed, ended or reset.
Elsewhere it is not: a finished session, call, body or run stops, and a caller may stop
driving at any time.

### Fairness

Safety properties need none. `session`: a caller that keeps driving and a model that answers
(`Progress`), as `runSession` does; failures survived and rebuilds are bounded, a caller
that crashes for ever makes no progress. `turn_call`: the loop goes on, an attempt
ends (the watchdog's `NoHang` is what justifies it), timers fire. `stall_watchdog`: time
passes, timers and goroutines are scheduled, and a blocked read whose context is done
returns, as `net/http` promises. `tool_run`: goroutines are scheduled and a tool's
Execute comes back, by itself or through `ToolCallTimeout`. `model_access`: goroutines are scheduled,
the Models API answers or `anthropicCapabilityTimeout` passes, and a `sync.Mutex` is not
kept from a waiter for ever (its starvation mode), which is the strong fairness of `Ask` and
`UseCached`. Loaders need none: nobody waits for them. `requests`, `json_stream` and
`provider_turn` check safety only.

## What the violations show

Four runs refute a sentence the repository says about itself.

1. `session_midplan`: `Inject` between `StepPlan` and `StepObserve` puts the message
   between the calls and their results in `Session.Messages` (`session.go:541`).
2. `turn_block_retryable`: OpenRouter's upstream policy block with a retryable status ends
   as a `ContentPolicyError` around an `UnavailableError`, and `IsRetryable` says yes. The
   loop has retried that block before.
3. `turn_redacted`: `betaMessageToParam` has no case for redacted thinking, so the request
   with the tool results goes without it (`anthropic.go:180`).
4. `model_unknown`: `setBase` marks the first load as done before it stores its data, and a
   first lookup in between finds nothing (`modelinfo_registry.go:190`).

Further disagreements were met while reading the code and have no run of their own. Where
one limits what a property says, the property is stated around it:

* The captured headers are the model's, not the call's (`retry.go:141`), so a Google or
  OpenRouter call may be told the hint of another call's response. `HintIsCurrent` says
  only that a hint is no older than the call's own response.
* A callback slower than the stall budget fails a call whose data has arrived
  (`stall.go:340`), because the last byte is noted when it is read; `model.go:472` says the
  budget measures the provider. `PromptStallMeansSilence` therefore speaks of a caller that
  takes no time.
* A non-streaming call that is stopped between attempts reports `Attempts` 1
  (`google.go:827`, `openrouter.go:563`; `errors.go:42` says that the count of attempts
  actually made is exact). `AttemptsExact` states that value for this one case and the
  exact count for every other: streaming calls, and calls whose last attempt is reported,
  cancelled or not.
* A failure after output that is neither transient nor a block comes without
  `ErrStreamingPartialOutput` (`openai.go:1016`, `1037`, `1074`; `model.go:408`).
* The usage of a failed attempt is added to the caller's collector after `RecordFailure`
  has copied it (`anthropic.go:1128`, `openai.go:933`, `google.go:871`, `openrouter.go:1048`).
* A thinking budget the caller sets at or above the output limit is sent although it
  leaves no room; `ThinkingLeavesRoom` excludes it.
* Injected messages are not checked by `checkMessages`, so a session restored from their
  transcript may be rejected. A tool attachment the provider cannot carry fails
  `StepObserve` and leaves such a transcript too.
* A hint that is an HTTP date in the past is reported as a negative `RetryAfter`.
* In the parser, a lone `-` never becomes an error; object keys do not combine surrogate
  pairs; a flush within an escape drops the text held back; keys that are numbers look
  like indices in a path, and empty keys vanish from it.
* `messages.go:110` says OpenAI receives tool attachments in a message that follows; the
  code sends them as content items of the result.

## Proofs

`SessionProofs`, for every `MaxSteps`, `MaxInjects`, `MaxFailures`, `MaxRestores`:

* `TypeCorrect`: `TypeOK` and `PhaseInv`. `TypeOK` alone is not inductive: a failed turn
  gives its step back, and only because a call in flight has paid for one (`pc =
  "calling" => step > 0`, and the tracker agrees with the session) does the step stay in
  its range. Awaited calls are known on both routes, so results always name a turn.
* `HistoryIsFaithful`, under `~MidPlanInject`: the request carries the transcript.
  `FaithfulHistory` speaks only of a call in flight; `HistoryInv` says where the two
  histories stand in every phase: equal up to the queue when ready, ahead by the pending
  calls on the live route, equal on the reconstructed one, and the same of what a snapshot
  saved, since a restore starts there.
* `CallsAreAnswered`, under `~MidPlanInject`: every request is settled. `TranscriptInv`
  (only the last entry may be unanswered calls) is carried through every append and
  through the saved transcript; with `HistoryInv` it gives `AnsweredCalls`.

* `SessionIsAgentLoop`, under `~MidPlanInject`: `ImplementsAgentLoop`, the refinement of
  `AgentLoop` under the mapping of `SessionRefinement`, step by step. Every public
  operation that changes what a caller can see maps to one step of the abstract loop;
  `PlanCall`, `NextRetryable`, `NextBlocked` and `Resume` change nothing there and stutter.
  It needs `HistoryInv` (what a request settles is what the transcript owes) and
  `SpokenInv` (a conversation is never empty).
* `UsageIsAccounted`: `UsageInv` adds to the stated property that the totals in a snapshot
  are those of the steps it was taken after, since a restore starts from them.
* `LastErrorStaysCurrent`: `ErrorInv` adds why a run stopped by its budget reports no older
  error: a session that remembers an error was given its turn back, so its budget is not
  used up until another turn has replaced that error.

The assumption of three of them is needed: `session_midplan` shows what happens without it.

`StallWatchdogProofs`, for every pair of budgets, any number of late trips and any
slowness: `BudgetNeverLost`, `CancelNotBlamed`, `NeverFiresRetired`,
`ReportedPhaseStands`, `WatchdogTyped` and, when nothing but the provider is slow,
`FailsOnlyOnSilence`, from one inductive invariant `StallInv`. It adds to the stated
properties that an unwatched phase has no deadline, that the timer's deadline never lies
behind the budget, that a firing retires the watchdog, and that the context is done only
if the caller cancelled, the call was closed or the watchdog has fired.

`ModelAccessProofs`, for any callers, loaders and documents: `AccessTyped`,
`ModelIsShared`, `OneAskAtATime` and `NothingIsLost`, from `AccessInv`.
`RequestsSeeWhatStood` speaks of a finished request only, and does not ask for the API's
answer once an entry is registered: one that comes between the two lookups of a request
(`anthropic_capabilities.go:36-37`) lets that request go by the old data without the
answer, and no doc says which it should use. `SeenInv` follows the request
from where it begins, and needs `LoadedInv` (loaded data stays in use) and `AskInv` (who
asks holds the lock, and there is no answer yet: otherwise a failure could follow an
answer). Assumed is that `None` is no caller and no document.

`TurnCallProofs`, for all providers, callbacks, retries and pieces: `NothingReplayed`,
`AttemptsCounted`, `PartialIsMarked`, `AnswersAreWhole` and `CallTyped`. The properties
speak of the result; `CountInv` ties the loop's counter to the requests made (equal
between attempts, one behind during one, which tells the two cases of `AttemptsExact`
apart) and says that an error met between attempts is that of a request, `SeenInv`
says that what the caller saw is of the attempt that ran last and that the loop only goes
on if that is nothing, `WholeInv` that the builder has that attempt's pieces. What a
result must say to keep the promises is one operator, `Sound`, and each way to return is
shown sound on its own (`ShapedSound`, `ExhaustedSound`, `AnswerInv`).

`RequestsProofs`, for any calls, providers, hints, cap and backoff: `HintsAreCurrent`,
`HintsAreCapped`, `KeysAreFound`, `RequestsTyped`. `CaptureInv` says that the captured
headers are those of the latest response and no call's own is later; `KeyInv` that a call
that is looking for a key it could have will find it. The backoff's doubling is a
recursive function of which only the clamp is used.

`ToolRunProofs`, for any number of calls and any registered tools: `OutcomesAreInOrder`,
`EventsArePaired`, `CallsAreRolledUp`, `RunTyped`. `CallInv` says what is known of a call
from the place of its goroutine; `Counts` that `pending` and the two trackers are the
sizes of sets of calls, so that no result is outstanding when `RunTools` returns.

`ProviderTurnProofs`, for all profiles, messages, responses and reports, and for any number
of turns:

* `RequestHasRoom` shows for every model, mode, effort, budget and output cap that a
  request's budget is below its cap, and `ThinkingFits` carries it through every step of a
  conversation, since the request's fields never change (`ConfigInv`). The budget of an
  effort is a percentage of the limit (`BudgetFits`), and a cap that would leave no room is
  raised or the budget dropped (`RoomOnTop`). Assumed of a model (`IsInfo`, in
  `ProfilesAssumption`) is that its smallest budget lies below its output limit, as in all
  data the code ships with; without it the budget is raised past the cap.
* `CountersPriceRequests`: `BillIsPerRequest`, for any price list (`PricesAssumption`: rates
  and limits are natural numbers, tiers are ordered by their limit). The counters forget
  which request a token belonged to, so the proof shows that what `CalculateCosts` gives
  for recorded counters is the sum of what it gives for what was recorded (`SumPlus`,
  `SumOfUnion`), and that the counters of one request cost its price: the base counters and
  those of its tier, which carry only the difference (`CountedCost`, `PriceAtRates`). The
  invariant `BillInv` adds that the counters are a finite function to the natural numbers.
* `BreakpointsFit`: `CacheBreakpoints`. How many marks a request has says too little of
  the histories it is made from. `Cached` is what every step keeps: at most one text and one
  result are marked, and the marked result is in the last message that has results. A
  replayed history starts so, a response adds nothing marked (`ResponseQuiet`), results
  come after their predecessors' marks are wiped (`OutcomesCached`), and injected messages
  lose theirs (`UnmarkedQuiet`). The last holds only of messages without results, which is
  `MessagesAssumption`: a caller injects what a user says, results come from the tools.
* `ReplaySaysTheSame`: `LiveIsReplay`, for all four providers. `ReplayInv` says it without
  the property's condition that the transcript can be converted, and adds that nothing
  is injected while results are owed and that texts are sequences of snippets (assumed of
  the first messages, in `MessagesAssumption`). The argument is that `Meaning` is built
  message by message (`MeaningAppended`, `MeaningJoined`: two histories that say the same
  go on to say the same), so each step has only to add the same on both sides. What
  `Observe` appends for a response and what `convertMessages` makes of its neutral message
  both add `SpeechOf(provider, response)` (`ResponseAdds`, `ReplayAdds`), although one may be a run of
  items in the order of the response and the other a message with its text joined: turns
  merge associatively (`MergedAssociates`, `ContinuedTwice`), so it does not matter how a
  turn is cut. With Anthropic the conversion of a message depends on whether it is the
  last, and `Observe` wipes older marks; such histories are `Twins`, equal but for their
  cache marks, and say the same (`TwinsMean`, `OutcomesTwins`).
* `EveryCallAnswered`: `ResultsFollowCalls`, for all four providers. The property looks at
  the history only when a request may be made and says nothing of the calls that wait, nor
  of the transcript that a restored session converts. `AnswerInv` says both: the transcript
  is `Settled` but for the calls that wait, and while results are awaited the history is in
  order but for the same calls (`InOrder(Called, calls)`). `InOrder` is kept by whatever is
  appended: assistant messages owe the calls they make (`OwedByCalls`), whichever run of
  items a response becomes (`ResponseCalls`, `AssistantCalls`), and what the user side
  appends begins with the results due and has no more, the files of a result coming behind
  the last of them (`SettledByReply`, `ResultsReply`, `UserUnasked`). A transcript is
  converted in the same steps (`TranscriptInOrder`). Assumed is that a conversation starts
  from a transcript whose calls are answered (`TranscriptsAssumption`; `newSession` does
  not check it) and that what a tool brings is a sequence (`MessagesAssumption`).
* `TurnTyped`: `TypeOK`.

`HistoryLemmas` holds what these proofs need of `Wire` and of the operators of the
community modules: what `SumFunction` and `FlattenSeq`, two recursive functions, compute. The induction
theorems of the library take an operator as a parameter and cannot be used; here induction
is over a set of numbers or a collection of subsets, whose least member outside the claim
is shown not to exist (`NatSetInduction`, `SubsetInduction`).

Two habits of the modules serve the proofs. `SelectSeq` has a definition the provers cannot
expand, so the modules of `ProviderTurn` use `Select`, which flattens a sequence of
one-element and empty sequences. And the arms of a CASE exclude each other, since a CASE
with two true arms has no determined value; where the code's order of tests decides, it is
an IF chain.

Only model-checked: everything about liveness (`Ends`, `Returns`, `NoHang`, `RunReturns`,
`NoGoroutineLeaks`, `RequestsReturn`), which the prover does not reach; the four properties
of the parser (`ChunkIndependent`, `TextPreserved`, `StringsDecoded`, `EventsNest`), whose
definitions are recursive operators.

## Not modelled

Tool schemas and reflection over Go types, structured-output configuration, citations, web
search and image generation, JSON encoding, image decoding and MIME detection, wording,
logging and metrics export: sequential data transformation without state that a unit test
covers. Of the transports, dialing and HTTP/2 settings. Of the manager, alias resolution
and the sub-parser registry; of the model data, the refresh cache file and the reading of
models.dev documents. Which counters a failed attempt adds to is not stated by the code
and is not modelled. A panic of the caller's own callback outside a tool ends the process
and is left out. `cmd/`, `examples/` and `internal/modelsdev` are a generator,
demonstrations and a JSON filter.

## What could follow

1. Composition of `TurnCall` with `Session`, so that `NextRetryable`, `NextBlocked` and
   `NextFailed` follow from the errors a turn reports.
2. Alias resolution and the refresh cache in `ModelAccess`.
3. The parser with recursive functions in place of recursive operators, so that its stack
   discipline (`EventsNest`) could be proved.
