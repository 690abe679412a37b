------------------------------ MODULE Requests ------------------------------
(***************************************************************************)
(* The requests that concurrent calls send through one model: the key each *)
(* request asks EnvCredentials for, the transport that notes the headers   *)
(* of the latest response for the whole model, and what the retry loop     *)
(* makes of a server's Retry-After hint, for its pause, its notice and the *)
(* error it reports.                                                       *)
(*                                                                         *)
(* How an attempt ends and what else an error says is TurnCall's: here an  *)
(* attempt succeeds, or fails in a way that matters to the hint.           *)
(***************************************************************************)
EXTENDS Integers, FiniteSets

CONSTANTS
    Calls,          \* calls that use the model at the same time
    Providers,      \* the providers to consider
    MaxRetries,     \* WithMaxRetries
    RetryAfterCap,  \* WithRetryAfterCap; 0 for none
    Base, MaxDelay, \* of ExponentialBackoff
    Hints,          \* hints a server may give; a date in the past is negative
    Keys,           \* values of the environment variable
    NoKey           \* it is not set

ASSUME CapAssumption == RetryAfterCap \in Nat
ASSUME BackoffAssumption == Base \in Nat \ {0} /\ MaxDelay \in Nat /\ MaxRetries \in Nat
ASSUME HintsAssumption == Hints \subseteq Int
ASSUME KeyAssumption == NoKey \notin Keys

VARIABLES
    provider,
    env,        \* the environment variable of the provider
    cache,      \* EnvCredentials.cache: the key that was stored, if any
    last,       \* headerCapturingTransport.last
    stored,     \* how often it was stored
    pc,         \* of each call
    attempt,    \* the loop's counter
    key,        \* what a call read from the environment
    had,        \* there was a key when the call began
    own,        \* the response to the call's last request
    hint,       \* lastRetryAfter, lastHasRetryAfter; at the end those of the error
    pause       \* the wait before the next attempt

credentials == <<env, cache, key, had>>
headers     == <<last, stored>>
vars == <<provider, credentials, headers, pc, attempt, own, hint, pause>>

(* A hint remembers the response it comes from: no is the number of the      *)
(* capture.  A call's own response also has the delay in Google's details.   *)
Unhinted(no)    == [has |-> FALSE, after |-> 0, no |-> no]
NoHint          == Unhinted(0)
Hint(after, no) == [has |-> TRUE, after |-> after, no |-> no]
NoResponse == [header |-> NoHint, detail |-> NoHint, no |-> 0]

\* Google's and OpenRouter's errors do not carry the response they come from.
Captures == provider \in {"google", "openrouter"}

Places == {"check", "resolve", "store", "send", "refused", "opened", "sleep",
           "nokey", "done"}

Init ==
    /\ provider \in Providers
    /\ env \in Keys \cup {NoKey} /\ cache = {}
    /\ last = NoHint /\ stored = 0
    /\ pc = [c \in Calls |-> "check"]
    /\ attempt = [c \in Calls |-> 0]
    /\ key = [c \in Calls |-> NoKey] /\ had = [c \in Calls |-> FALSE]
    /\ own = [c \in Calls |-> NoResponse]
    /\ hint = [c \in Calls |-> NoHint] /\ pause = [c \in Calls |-> 0]

Goes(c, from, to) == pc[c] = from /\ pc' = [pc EXCEPT ![c] = to]

-----------------------------------------------------------------------------
(* EnvCredentials.Credential, which authTransport calls for each request.    *)

\* The program sets the variable, or changes it.
SetEnv ==
    /\ \E k \in Keys : env' = k
    /\ UNCHANGED <<provider, cache, key, had, headers, pc, attempt, own, hint, pause>>

Request(c) ==
    /\ Goes(c, "check", IF cache = {} THEN "resolve" ELSE "send")
    /\ IF cache = {} THEN UNCHANGED key
       ELSE \E k \in cache : key' = [key EXCEPT ![c] = k]
    /\ had' = [had EXCEPT ![c] = env # NoKey \/ cache # {}]
    /\ UNCHANGED <<provider, env, cache, headers, attempt, own, hint, pause>>

\* MUTANT: a failed lookup is cached too.
GetenvCached(c) ==
    /\ Goes(c, "resolve", IF env = NoKey THEN "nokey" ELSE "store")
    /\ key' = [key EXCEPT ![c] = env]
    /\ cache' = IF env = NoKey THEN {NoKey} ELSE cache
    /\ UNCHANGED <<provider, env, had, headers, attempt, own, hint, pause>>

\* A missing key is no transient failure: the retry loop gives up.
Getenv(c) ==
    /\ Goes(c, "resolve", IF env = NoKey THEN "nokey" ELSE "store")
    /\ key' = [key EXCEPT ![c] = env]
    /\ UNCHANGED <<provider, env, cache, had, headers, attempt, own, hint, pause>>

StoreKey(c) ==
    /\ Goes(c, "store", "send")
    /\ cache' = {key[c]}
    /\ UNCHANGED <<provider, env, key, had, headers, attempt, own, hint, pause>>

\* The caller tries again when the key may be there.
Again(c) ==
    /\ Goes(c, "nokey", "check")
    /\ attempt' = [attempt EXCEPT ![c] = 0]
    /\ UNCHANGED <<provider, credentials, headers, own, hint, pause>>

-----------------------------------------------------------------------------
(* The request goes out and is answered.                                     *)

\* MUTANT: headers without a hint are not noted.
StoreIfHinted(header) == last' = IF header.has THEN header ELSE last

StoreHeaders(header) == last' = header

\* The server answers, with or without a hint; the response is captured on
\* its way to the SDK, which other calls' responses are too.
Response(c, to, header, detail) ==
    /\ Goes(c, "send", to)
    /\ own' = [own EXCEPT ![c] = [header |-> header, detail |-> detail, no |-> stored + 1]]
    /\ stored' = stored + 1
    /\ IF Captures THEN StoreHeaders(header) ELSE UNCHANGED last
    /\ UNCHANGED <<provider, credentials, attempt, hint, pause>>

MaybeHint == {Unhinted(stored + 1)}
                 \cup {Hint(after, stored + 1) : after \in Hints}

Refused(c) ==
    \E header \in MaybeHint, detail \in (IF provider = "google" THEN MaybeHint
                                            ELSE {NoHint}) :
        Response(c, "refused", header, detail)

Opened(c) == Response(c, "opened", Unhinted(stored + 1), NoHint)

-----------------------------------------------------------------------------
(* The hint of an error with a retryable status: the one of the response the *)
(* error carries, or of the headers captured last, or of Google's details.   *)
extractRetryAfter(c) ==
    LET header == IF Captures THEN last ELSE own[c].header
    IN  IF header.has THEN header ELSE own[c].detail

\* MUTANT: only the pause is clamped, not the error of a call with output.
CappedForPause(h, reported) ==
    IF ~reported /\ RetryAfterCap > 0 /\ h.after > RetryAfterCap
    THEN [h EXCEPT !.after = RetryAfterCap] ELSE h

Capped(h, reported) ==
    IF RetryAfterCap > 0 /\ h.after > RetryAfterCap
    THEN [h EXCEPT !.after = RetryAfterCap] ELSE h

Pow2[n \in Nat] == IF n = 0 THEN 1 ELSE 2 * Pow2[n - 1]
Lesser(a, b) == IF a < b THEN a ELSE b

\* ExponentialBackoff.Delay without a hint: the ceiling doubles up to MaxDelay,
\* the jitter takes up to a quarter of it.
Backoff(n) ==
    LET ceiling == Lesser(Base * Pow2[n], MaxDelay)
    IN  {d \in 0..MaxDelay : 3 * ceiling <= 4 * d /\ d <= ceiling}

\* The pause: the hint as it is, but the loop knows no negative one.
Delays(n, h) ==
    IF h.has THEN {IF h.after < 0 THEN 0 ELSE h.after} ELSE Backoff(n)

\* retryLoop after a retryable error: another attempt, or the error.
Retries(c, from, h) ==
    /\ hint' = [hint EXCEPT ![c] = h]
    /\ IF attempt[c] < MaxRetries
       THEN /\ Goes(c, from, "sleep")
            /\ attempt' = [attempt EXCEPT ![c] = @ + 1]
            /\ \E d \in Delays(attempt[c], h) : pause' = [pause EXCEPT ![c] = d]
       ELSE Goes(c, from, "done") /\ UNCHANGED <<attempt, pause>>
    /\ UNCHANGED <<provider, credentials, headers, own>>

\* The status of the response is retryable.
ClassifyRefused(c) == Retries(c, "refused", Capped(extractRetryAfter(c), FALSE))

\* The connection is lost or silent, before or after the response: a stall,
\* which has no hint.
ClassifyStall(c) == \E from \in {"send", "opened"} : Retries(c, from, NoHint)

(* The provider tells of an overload in the open stream: before output the   *)
(* loop classifies it, after output the turn reports it.  Anthropic's and    *)
(* OpenAI's errors have no response then.                                    *)
InStream(c) == IF Captures THEN extractRetryAfter(c) ELSE NoHint

ClassifyInStream(c) == Retries(c, "opened", Capped(InStream(c), FALSE))

ReportPartial(c) ==
    /\ Goes(c, "opened", "done")
    /\ hint' = [hint EXCEPT ![c] = Capped(InStream(c), TRUE)]
    /\ UNCHANGED <<provider, credentials, headers, attempt, own, pause>>

\* The attempt succeeds, or fails for good: the last hint is no longer told.
Settles(c) ==
    /\ \E from \in {"send", "opened"} : Goes(c, from, "done")
    /\ hint' = [hint EXCEPT ![c] = NoHint]
    /\ UNCHANGED <<provider, credentials, headers, attempt, own, pause>>

SleepOver(c) ==
    /\ Goes(c, "sleep", "check")
    /\ pause' = [pause EXCEPT ![c] = 0]
    /\ UNCHANGED <<provider, credentials, headers, attempt, own, hint>>

Next ==
    \/ SetEnv
    \/ \E c \in Calls :
          \/ Request(c) \/ Getenv(c) \/ StoreKey(c) \/ Again(c)
          \/ Refused(c) \/ Opened(c)
          \/ ClassifyRefused(c) \/ ClassifyStall(c) \/ ClassifyInStream(c)
          \/ ReportPartial(c) \/ Settles(c) \/ SleepOver(c)

Spec == Init /\ [][Next]_vars

-----------------------------------------------------------------------------
IsHint(h) == h \in [has : BOOLEAN, after : Int, no : Nat]

\* Every variable keeps its type, and no pause is negative, whatever date a
\* server gives.
TypeOK ==
    /\ provider \in Providers
    /\ env \in Keys \cup {NoKey} /\ cache \in SUBSET Keys
    /\ IsHint(last) /\ stored \in Nat
    /\ pc \in [Calls -> Places]
    /\ attempt \in [Calls -> 0..MaxRetries]
    /\ key \in [Calls -> Keys \cup {NoKey}] /\ had \in [Calls -> BOOLEAN]
    /\ own \in [Calls -> [header : [has : BOOLEAN, after : Int, no : Nat],
                          detail : [has : BOOLEAN, after : Int, no : Nat], no : Nat]]
    /\ hint \in [Calls -> [has : BOOLEAN, after : Int, no : Nat]]
    /\ pause \in [Calls -> Nat]

\* What the loop or the error tells of a hint.
Told(c) == pc[c] \in {"sleep", "done"} /\ hint[c].has

\* However the responses of other calls and earlier attempts are interleaved,
\* a hint is never older than the response the call itself had last; and where
\* the error carries its response, it is that one's.  Where it does not, the
\* hint may be of a later response to another call.
HintIsCurrent ==
    \A c \in Calls : Told(c) =>
        /\ hint[c].no >= own[c].no
        /\ ~Captures => hint[c] = Capped(own[c].header, FALSE)

\* A server cannot make a call wait, or its caller believe it should wait,
\* longer than the cap, on any of the ways an error comes about.
HintIsCapped ==
    \A c \in Calls :
        /\ Told(c) /\ RetryAfterCap > 0 => hint[c].after <= RetryAfterCap
        /\ pc[c] = "sleep" /\ ~hint[c].has => pause[c] <= MaxDelay
        /\ pc[c] = "sleep" /\ hint[c].has /\ RetryAfterCap > 0 => pause[c] <= RetryAfterCap

\* A call fails for want of a key only if there was none when it began, and
\* none is sent without one, whatever call reads or stores it first.
KeyIsFound ==
    \A c \in Calls :
        /\ pc[c] = "nokey" => ~had[c]
        /\ pc[c] \in {"send", "refused", "opened"} => key[c] \in Keys
=============================================================================
