--------------------------- MODULE RequestsProofs ---------------------------
(***************************************************************************)
(* For any number of calls, retries and hints: what a call is told of a    *)
(* hint is current and capped, and no call misses a key.                   *)
(***************************************************************************)
EXTENDS Requests, TLAPS

\* The captured headers are those of the latest response, which no call's own
\* is later than; a call's own hints are of its own response.
CaptureInv ==
    /\ Captures => last.no = stored
    /\ \A c \in Calls :
          /\ own[c].no <= stored
          /\ own[c].header.has => own[c].header.no = own[c].no
          /\ own[c].detail.has => own[c].detail.no = own[c].no
          /\ ~Captures => ~own[c].detail.has

\* The environment never loses a key, and the cache has none but its values.
KeyInv ==
    \A c \in Calls :
        /\ pc[c] = "store" => key[c] \in Keys
        /\ pc[c] = "resolve" /\ had[c] => env # NoKey

IInv ==
    /\ TypeOK
    /\ CaptureInv
    /\ HintIsCurrent
    /\ HintIsCapped
    /\ KeyInv
    /\ KeyIsFound

USE CapAssumption, BackoffAssumption, HintsAssumption, KeyAssumption

-----------------------------------------------------------------------------
\* A hint that is clamped stays a hint of the same response, within the cap.
LEMMA CappedHint ==
    ASSUME NEW h, IsHint(h), NEW reported \in BOOLEAN
    PROVE  /\ IsHint(Capped(h, reported))
           /\ Capped(h, reported).has = h.has
           /\ Capped(h, reported).no = h.no
           /\ RetryAfterCap > 0 => Capped(h, reported).after <= RetryAfterCap
  BY DEF Capped, IsHint

\* The loop's own pauses are never longer than the policy's limit, and a
\* hint's never longer than the hint.
LEMMA PauseInBounds ==
    ASSUME NEW h, IsHint(h), NEW n, NEW d \in Delays(n, h)
    PROVE  /\ d \in Nat
           /\ ~h.has => d <= MaxDelay
           /\ h.has /\ RetryAfterCap > 0 /\ h.after <= RetryAfterCap => d <= RetryAfterCap
  BY DEF Delays, Backoff, IsHint

\* The invariant holds at the start.
LEMMA InitInv == Init => IInv
<1> SUFFICES ASSUME Init PROVE IInv
  OBVIOUS
<1>1. TypeOK
  BY DEF Init, TypeOK, IsHint, NoHint, Unhinted, NoResponse, Places
<1>2. CaptureInv /\ KeyInv /\ KeyIsFound
  BY DEF Init, CaptureInv, KeyInv, KeyIsFound, NoHint, Unhinted, NoResponse
<1>3. HintIsCurrent /\ HintIsCapped
  BY DEF Init, HintIsCurrent, HintIsCapped, Told
<1>4. QED
  BY <1>1, <1>2, <1>3 DEF IInv

-----------------------------------------------------------------------------
(* The steps of the credentials leave responses and hints alone. *)

LEMMA SetEnvInv == ASSUME IInv, SetEnv PROVE IInv'
<1> USE DEF IInv, SetEnv, headers
<1>1. TypeOK' BY DEF TypeOK
<1>2. CaptureInv' BY DEF CaptureInv, Captures
<1>3. HintIsCurrent' BY DEF HintIsCurrent, Told, Captures
<1>4. HintIsCapped' BY DEF HintIsCapped, Told
<1>5. KeyInv' /\ KeyIsFound' BY DEF KeyInv, KeyIsFound
<1>6. QED BY <1>1, <1>2, <1>3, <1>4, <1>5

LEMMA RequestInv == ASSUME IInv, NEW c \in Calls, Request(c) PROVE IInv'
<1> USE DEF IInv, Request, Goes, headers
<1>1. TypeOK' BY DEF TypeOK, Places
<1>2. CaptureInv' BY DEF CaptureInv, Captures
<1>3. HintIsCurrent' BY ZenonT(60) DEF HintIsCurrent, Told, Captures, TypeOK
<1>4. HintIsCapped' BY DEF HintIsCapped, Told, TypeOK
<1>5. KeyInv' BY DEF KeyInv, TypeOK
<1>6. KeyIsFound' BY DEF KeyIsFound, TypeOK
<1>7. QED BY <1>1, <1>2, <1>3, <1>4, <1>5, <1>6

LEMMA CredentialInv ==
    ASSUME IInv, NEW c \in Calls, Getenv(c) \/ StoreKey(c) \/ Again(c) PROVE IInv'
<1> USE DEF IInv, Getenv, StoreKey, Again, Goes, headers, credentials
<1>1. TypeOK'
  <2>1. CASE Getenv(c) BY <2>1 DEF TypeOK, Places
  <2>2. CASE StoreKey(c) BY <2>2 DEF TypeOK, Places, KeyInv
  <2>3. CASE Again(c) BY <2>3 DEF TypeOK, Places
  <2>4. QED BY <2>1, <2>2, <2>3
<1>2. CaptureInv' BY DEF CaptureInv, Captures
<1>3. HintIsCurrent' BY ZenonT(60) DEF HintIsCurrent, Told, Captures, TypeOK
<1>4. HintIsCapped' BY DEF HintIsCapped, Told, TypeOK
<1>5. KeyInv' BY DEF KeyInv, TypeOK
<1>6. KeyIsFound' BY DEF KeyIsFound, KeyInv, TypeOK
<1>7. QED BY <1>1, <1>2, <1>3, <1>4, <1>5, <1>6

-----------------------------------------------------------------------------
(* The response is the latest one, for the call and for the model. *)
LEMMA ResponseInv ==
    ASSUME IInv, NEW c \in Calls, Refused(c) \/ Opened(c) PROVE IInv'
<1>1. PICK to \in {"refused", "opened"},
           header \in MaybeHint, detail \in MaybeHint \cup {NoHint} :
        Response(c, to, header, detail) /\ (~Captures => ~detail.has)
  BY DEF Refused, Opened, MaybeHint, Captures, NoHint, Unhinted
<1>2. ASSUME NEW h \in MaybeHint PROVE IsHint(h) /\ h.no = stored + 1
  <2>1. stored + 1 \in Nat
    BY DEF IInv, TypeOK
  <2>2. CASE h = Unhinted(stored + 1)
    BY <2>1, <2>2 DEF Unhinted, IsHint
  <2>3. CASE \E after \in Hints : h = Hint(after, stored + 1)
    <3>1. PICK after \in Hints : h = Hint(after, stored + 1)
      BY <2>3
    <3>2. after \in Int
      BY HintsAssumption
    <3>3. QED
      BY <2>1, <3>1, <3>2 DEF Hint, IsHint
  <2>4. QED
    BY <2>2, <2>3 DEF MaybeHint
<1>3. IsHint(NoHint) /\ ~NoHint.has
  BY DEF NoHint, Unhinted, IsHint
<1> USE <1>1, <1>2, <1>3 DEF IInv, Response, Goes, credentials, IsHint
<1>4. TypeOK' BY DEF TypeOK, Places, StoreHeaders
<1>5. CaptureInv' BY DEF CaptureInv, Captures, StoreHeaders, TypeOK
<1>6. HintIsCurrent' BY DEF HintIsCurrent, Told, Captures, TypeOK
<1>7. HintIsCapped' BY DEF HintIsCapped, Told, TypeOK
<1>8. KeyInv' /\ KeyIsFound' BY DEF KeyInv, KeyIsFound, TypeOK
<1>9. QED BY <1>4, <1>5, <1>6, <1>7, <1>8

-----------------------------------------------------------------------------
(* What a call is told of a hint. *)

\* A hint a call may be told.
MayTell(c, h) ==
    /\ IsHint(h)
    /\ h.has => h.no >= own[c].no
    /\ ~Captures /\ h.has => h = Capped(own[c].header, FALSE)
    /\ h.has /\ RetryAfterCap > 0 => h.after <= RetryAfterCap

LEMMA NoHintMayBeTold == ASSUME NEW c PROVE MayTell(c, NoHint)
  BY DEF MayTell, NoHint, Unhinted, IsHint

\* What extractRetryAfter finds is the latest header or the call's own.
LEMMA ExtractedMayBeTold ==
    ASSUME IInv, NEW c \in Calls PROVE MayTell(c, Capped(extractRetryAfter(c), FALSE))
<1> DEFINE h == extractRetryAfter(c)
<1>1. IsHint(h)
  BY DEF IInv, TypeOK, extractRetryAfter, IsHint
<1>2. h.has => h.no >= own[c].no
  BY DEF IInv, TypeOK, CaptureInv, extractRetryAfter
<1>3. ~Captures /\ h.has => h = own[c].header
  BY DEF IInv, CaptureInv, extractRetryAfter
<1> HIDE DEF h
<1>4. MayTell(c, Capped(h, FALSE))
  BY <1>1, <1>2, <1>3, CappedHint DEF MayTell
<1>5. QED
  BY <1>4 DEF h

\* Which way an error comes about does not matter to the cap.
LEMMA InStreamMayBeTold ==
    ASSUME IInv, NEW c \in Calls, NEW reported \in BOOLEAN
    PROVE  MayTell(c, Capped(InStream(c), reported))
<1>1. Capped(NoHint, reported) = NoHint
  BY DEF Capped, NoHint, Unhinted
<1>2. Capped(extractRetryAfter(c), reported) = Capped(extractRetryAfter(c), FALSE)
  BY DEF Capped
<1>3. QED
  BY <1>1, <1>2, NoHintMayBeTold, ExtractedMayBeTold DEF InStream

LEMMA TellInv ==
    ASSUME IInv, NEW c \in Calls, NEW h, MayTell(c, h),
           hint' = [hint EXCEPT ![c] = h],
           pc' = [pc EXCEPT ![c] = "sleep"] \/ pc' = [pc EXCEPT ![c] = "done"],
           attempt' \in [Calls -> 0..MaxRetries],
           \/ /\ pc' = [pc EXCEPT ![c] = "done"]
              /\ UNCHANGED pause
           \/ \E n : \E d \in Delays(n, h) : pause' = [pause EXCEPT ![c] = d],
           UNCHANGED <<provider, credentials, headers, own>>
    PROVE  IInv'
<1> USE DEF IInv, headers, credentials
<1>1. /\ pause' \in [Calls -> Nat]
      /\ \A d \in Calls \ {c} : pause'[d] = pause[d]
      /\ pc'[c] = "sleep" => /\ ~h.has => pause'[c] <= MaxDelay
                             /\ h.has /\ RetryAfterCap > 0 => pause'[c] <= RetryAfterCap
  <2>1. CASE pc' = [pc EXCEPT ![c] = "done"] /\ UNCHANGED pause
    BY <2>1 DEF TypeOK
  <2>2. CASE \E n : \E d \in Delays(n, h) : pause' = [pause EXCEPT ![c] = d]
    <3>1. PICK n : \E d \in Delays(n, h) : pause' = [pause EXCEPT ![c] = d]
      BY <2>2
    <3>2. PICK d \in Delays(n, h) : pause' = [pause EXCEPT ![c] = d]
      BY <3>1
    <3>3. /\ d \in Nat
          /\ ~h.has => d <= MaxDelay
          /\ h.has /\ RetryAfterCap > 0 => d <= RetryAfterCap
      BY PauseInBounds DEF MayTell
    <3>4. QED
      BY <3>2, <3>3 DEF TypeOK
  <2>3. QED
    BY <2>1, <2>2
<1>2. TypeOK'
  BY <1>1 DEF TypeOK, Places, MayTell, IsHint
<1>3. CaptureInv'
  BY DEF CaptureInv, Captures
<1>4. HintIsCurrent'
  BY DEF HintIsCurrent, Told, Captures, TypeOK, MayTell
<1>5. HintIsCapped'
  BY <1>1 DEF HintIsCapped, Told, TypeOK, MayTell
<1>6. KeyInv' /\ KeyIsFound'
  BY DEF KeyInv, KeyIsFound, TypeOK
<1>7. QED
  BY <1>2, <1>3, <1>4, <1>5, <1>6

LEMMA RetriesInv ==
    ASSUME IInv, NEW c \in Calls, NEW from, NEW h, MayTell(c, h), Retries(c, from, h)
    PROVE  IInv'
<1>1. attempt' \in [Calls -> 0..MaxRetries]
  BY DEF Retries, IInv, TypeOK
<1>2. QED
  BY <1>1, TellInv DEF Retries, Goes

LEMMA ClassifyInv ==
    ASSUME IInv, NEW c \in Calls,
           ClassifyRefused(c) \/ ClassifyStall(c) \/ ClassifyInStream(c)
    PROVE  IInv'
<1>1. CASE ClassifyRefused(c)
  BY <1>1, ExtractedMayBeTold, RetriesInv DEF ClassifyRefused
<1>2. CASE ClassifyStall(c)
  BY <1>2, NoHintMayBeTold, RetriesInv DEF ClassifyStall
<1>3. CASE ClassifyInStream(c)
  BY <1>3, InStreamMayBeTold, RetriesInv DEF ClassifyInStream
<1>4. QED
  BY <1>1, <1>2, <1>3

LEMMA EndInv ==
    ASSUME IInv, NEW c \in Calls, ReportPartial(c) \/ Settles(c) PROVE IInv'
<1>1. attempt' \in [Calls -> 0..MaxRetries]
  BY DEF ReportPartial, Settles, IInv, TypeOK
<1>2. CASE ReportPartial(c)
  BY <1>1, <1>2, InStreamMayBeTold, TellInv DEF ReportPartial, Goes
<1>3. CASE Settles(c)
  BY <1>1, <1>3, NoHintMayBeTold, TellInv DEF Settles, Goes
<1>4. QED
  BY <1>2, <1>3

LEMMA SleepOverInv == ASSUME IInv, NEW c \in Calls, SleepOver(c) PROVE IInv'
<1> USE DEF IInv, SleepOver, Goes, headers, credentials
<1>1. TypeOK' BY DEF TypeOK, Places
<1>2. CaptureInv' BY DEF CaptureInv, Captures
<1>3. HintIsCurrent' BY DEF HintIsCurrent, Told, Captures, TypeOK
<1>4. HintIsCapped' BY DEF HintIsCapped, Told, TypeOK
<1>5. KeyInv' /\ KeyIsFound' BY DEF KeyInv, KeyIsFound, TypeOK
<1>6. QED BY <1>1, <1>2, <1>3, <1>4, <1>5

-----------------------------------------------------------------------------
LEMMA StutterInv == ASSUME IInv, UNCHANGED vars PROVE IInv'
<1> USE DEF IInv, vars, headers, credentials
<1>1. TypeOK' BY DEF TypeOK
<1>2. CaptureInv' BY DEF CaptureInv, Captures
<1>3. HintIsCurrent' BY DEF HintIsCurrent, Told, Captures
<1>4. HintIsCapped' BY DEF HintIsCapped, Told
<1>5. KeyInv' /\ KeyIsFound' BY DEF KeyInv, KeyIsFound
<1>6. QED BY <1>1, <1>2, <1>3, <1>4, <1>5

\* The invariant is inductive.
LEMMA NextInv == ASSUME IInv, [Next]_vars PROVE IInv'
<1>1. CASE SetEnv
  BY <1>1, SetEnvInv
<1>2. ASSUME NEW c \in Calls,
             \/ Request(c) \/ Getenv(c) \/ StoreKey(c) \/ Again(c)
             \/ Refused(c) \/ Opened(c)
      PROVE  IInv'
  BY <1>2, RequestInv, CredentialInv, ResponseInv
<1>3. ASSUME NEW c \in Calls,
             \/ ClassifyRefused(c) \/ ClassifyStall(c) \/ ClassifyInStream(c)
             \/ ReportPartial(c) \/ Settles(c) \/ SleepOver(c)
      PROVE  IInv'
  BY <1>3, ClassifyInv, EndInv, SleepOverInv
<1>4. CASE UNCHANGED vars
  BY <1>4, StutterInv
<1>5. QED
  BY <1>1, <1>2, <1>3, <1>4 DEF Next

LEMMA Invariance == Spec => []IInv
<1>1. QED
  BY InitInv, NextInv, PTL DEF Spec

\* However many calls share a model, none is told a hint that is older than the
\* response it had itself (headerCapturingTransport, extractRetryAfter).
THEOREM HintsAreCurrent == Spec => []HintIsCurrent
<1>1. IInv => HintIsCurrent
  BY DEF IInv
<1>2. QED
  BY <1>1, Invariance, PTL

\* No server can make a call wait longer than WithRetryAfterCap, on any way an
\* error comes about.
THEOREM HintsAreCapped == Spec => []HintIsCapped
<1>1. IInv => HintIsCapped
  BY DEF IInv
<1>2. QED
  BY <1>1, Invariance, PTL

\* A key that is there when a request begins is found, whichever of the calls
\* reads and stores it first (EnvCredentials).
THEOREM KeysAreFound == Spec => []KeyIsFound
<1>1. IInv => KeyIsFound
  BY DEF IInv
<1>2. QED
  BY <1>1, Invariance, PTL

\* Every variable keeps its type, and no pause is negative.
THEOREM RequestsTyped == Spec => []TypeOK
<1>1. IInv => TypeOK
  BY DEF IInv
<1>2. QED
  BY <1>1, Invariance, PTL
=============================================================================
