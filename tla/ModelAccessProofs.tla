-------------------------- MODULE ModelAccessProofs --------------------------
(***************************************************************************)
(* One model per name, one lookup of the Models API at a time, and what a  *)
(* request sees, for any number of callers, loaders and documents.         *)
(***************************************************************************)
EXTENDS ModelAccess, TLAPS

\* The lock is held by the one that asks, and only while there is no answer
\* and no failure to wait out.
AskInv ==
    \A p \in Callers : pc[p] = "asking" => capMu = p /\ ~apiInfo /\ ~backoff

\* Loaded data stays in use until other data is loaded.
LoadedInv == loaded # None => base \in Docs

\* p has looked its model's data up for the request.
KnowsInfo(p) == \/ pc[p] = "info" /\ at[p] = "out"
                \/ pc[p] \in {"capabilities", "asking", "done"}

\* What stood when a request began still stands, and shows in each of its steps.
SeenInv ==
    \A p \in Callers :
        /\ api[p] => pc[p] = "done"
        /\ began[p].registered =>
              /\ registered
              /\ KnowsInfo(p) => found[p] = Registered
              /\ pc[p] \notin {"capabilities", "asking"}
              /\ ~api[p]
        /\ began[p].loaded =>
              /\ loaded # None
              /\ KnowsInfo(p) => found[p] \in Docs \cup {Registered}
        /\ began[p].api =>
              /\ apiInfo
              /\ pc[p] = "done" /\ ~registered => api[p]

AccessInv == TypeOK /\ OneModel /\ AskInv /\ LoadedInv /\ SeenInv

\* At the start nobody has a model, asks or has begun a request.
LEMMA InitAccess == Init => AccessInv
<1> SUFFICES ASSUME Init PROVE AccessInv
  OBVIOUS
<1> USE CallerAssumption DEF Init, RegistryInit
<1>1. TypeOK
  BY DEF TypeOK, RegistryTypeOK, Infos, CallerPlaces, Nothing
<1>2. OneModel /\ AskInv /\ LoadedInv
  BY DEF OneModel, AskInv, LoadedInv
<1>3. SeenInv
  BY DEF SeenInv, Nothing
<1> QED
  BY <1>1, <1>2, <1>3 DEF AccessInv

\* A step of a caller outside the registry keeps the invariant.
LEMMA AccessStep ==
    ASSUME AccessInv, NEW p \in Callers,
           \/ GetModelCached(p)
           \/ GetModelMissed(p)
           \/ RequestInfo(p)
           \/ Sent(p)
           \/ Construct(p)
           \/ StoreModel(p)
           \/ CheckRegistered(p)
           \/ UseCached(p)
           \/ Ask(p)
           \/ ApiAnswers(p)
           \/ ApiFails(p)
    PROVE  AccessInv'
<1> USE CallerAssumption, DocAssumption
        DEF AccessInv, TypeOK, RegistryTypeOK, CallerPlaces, Infos, Goto,
            capabilities
<1>1. CASE GetModelCached(p)
  <2>1. TypeOK'
    BY <1>1 DEF GetModelCached, registryVars, loaderVars, lookupVars
  <2>2. OneModel'
    BY <1>1 DEF GetModelCached, OneModel
  <2>3. AskInv'
    BY <1>1 DEF GetModelCached, AskInv
  <2>4. LoadedInv'
    BY <1>1 DEF GetModelCached, LoadedInv, registryVars, loaderVars, lookupVars
  <2>5. SeenInv'
    BY <1>1 DEF GetModelCached, AskInv, SeenInv, KnowsInfo, registryVars,
                loaderVars, lookupVars
  <2> QED
    BY <2>1, <2>2, <2>3, <2>4, <2>5
<1>2. CASE GetModelMissed(p)
  <2>1. TypeOK'
    BY <1>2 DEF GetModelMissed, CallLookup, RestOfRegistry, loaderVars
  <2>2. OneModel'
    BY <1>2 DEF GetModelMissed, OneModel
  <2>3. AskInv'
    BY <1>2 DEF GetModelMissed, AskInv
  <2>4. LoadedInv'
    BY <1>2 DEF GetModelMissed, LoadedInv, CallLookup, RestOfRegistry,
                loaderVars
  <2>5. SeenInv'
    BY <1>2 DEF GetModelMissed, AskInv, SeenInv, KnowsInfo, CallLookup,
                RestOfRegistry, loaderVars
  <2> QED
    BY <2>1, <2>2, <2>3, <2>4, <2>5
<1>3. CASE RequestInfo(p)
  <2>1. TypeOK'
    BY <1>3 DEF RequestInfo, CallLookup, RestOfRegistry, loaderVars
  <2>2. OneModel'
    BY <1>3 DEF RequestInfo, OneModel
  <2>3. AskInv'
    BY <1>3 DEF RequestInfo, AskInv
  <2>4. LoadedInv'
    BY <1>3 DEF RequestInfo, LoadedInv, CallLookup, RestOfRegistry, loaderVars
  <2>5. SeenInv'
    BY <1>3 DEF RequestInfo, AskInv, SeenInv, KnowsInfo, CallLookup,
                RestOfRegistry, loaderVars
  <2> QED
    BY <2>1, <2>2, <2>3, <2>4, <2>5
<1>4. CASE Sent(p)
  <2>1. TypeOK'
    BY <1>4 DEF Sent, DropInfo, Apply, Nothing, RestOfRegistry, loaderVars
  <2>2. OneModel'
    BY <1>4 DEF Sent, OneModel
  <2>3. AskInv'
    BY <1>4 DEF Sent, AskInv
  <2>4. LoadedInv'
    BY <1>4 DEF Sent, LoadedInv, DropInfo, Apply, Nothing, RestOfRegistry,
                loaderVars
  <2>5. SeenInv'
    BY <1>4 DEF Sent, AskInv, SeenInv, KnowsInfo, DropInfo, Apply, Nothing,
                RestOfRegistry, loaderVars
  <2> QED
    BY <2>1, <2>2, <2>3, <2>4, <2>5
<1>5. CASE Construct(p)
  <2>1. TypeOK'
    BY <1>5 DEF Construct, DropInfo, RestOfRegistry, loaderVars
  <2>2. OneModel'
    BY <1>5 DEF Construct, OneModel
  <2>3. AskInv'
    BY <1>5 DEF Construct, AskInv
  <2>4. LoadedInv'
    BY <1>5 DEF Construct, LoadedInv, DropInfo, RestOfRegistry, loaderVars
  <2>5. SeenInv'
    BY <1>5 DEF Construct, AskInv, SeenInv, KnowsInfo, DropInfo, RestOfRegistry,
                loaderVars
  <2> QED
    BY <2>1, <2>2, <2>3, <2>4, <2>5
<1>6. CASE StoreModel(p)
  <2>1. TypeOK'
    BY <1>6 DEF StoreModel, registryVars, loaderVars, lookupVars
  <2>2. OneModel'
    BY <1>6 DEF StoreModel, OneModel
  <2>3. AskInv'
    BY <1>6 DEF StoreModel, AskInv
  <2>4. LoadedInv'
    BY <1>6 DEF StoreModel, LoadedInv, registryVars, loaderVars, lookupVars
  <2>5. SeenInv'
    BY <1>6 DEF StoreModel, AskInv, SeenInv, KnowsInfo, registryVars,
                loaderVars, lookupVars
  <2> QED
    BY <2>1, <2>2, <2>3, <2>4, <2>5
<1>7. CASE CheckRegistered(p)
  <2>1. TypeOK'
    BY <1>7 DEF CheckRegistered, registryVars, loaderVars, lookupVars
  <2>2. OneModel'
    BY <1>7 DEF CheckRegistered, OneModel
  <2>3. AskInv'
    BY <1>7 DEF CheckRegistered, AskInv
  <2>4. LoadedInv'
    BY <1>7 DEF CheckRegistered, LoadedInv, registryVars, loaderVars, lookupVars
  <2>5. SeenInv'
    BY <1>7 DEF CheckRegistered, AskInv, SeenInv, KnowsInfo, registryVars,
                loaderVars, lookupVars
  <2> QED
    BY <2>1, <2>2, <2>3, <2>4, <2>5
<1>8. CASE UseCached(p)
  <2>1. TypeOK'
    BY <1>8 DEF UseCached, Apply, registryVars, loaderVars, lookupVars
  <2>2. OneModel'
    BY <1>8 DEF UseCached, OneModel
  <2>3. AskInv'
    BY <1>8 DEF UseCached, AskInv
  <2>4. LoadedInv'
    BY <1>8 DEF UseCached, LoadedInv, Apply, registryVars, loaderVars,
                lookupVars
  <2>5. SeenInv'
    BY <1>8 DEF UseCached, AskInv, SeenInv, KnowsInfo, Apply, registryVars,
                loaderVars, lookupVars
  <2> QED
    BY <2>1, <2>2, <2>3, <2>4, <2>5
<1>9. CASE Ask(p)
  <2>1. TypeOK'
    BY <1>9 DEF Ask, registryVars, loaderVars, lookupVars
  <2>2. OneModel'
    BY <1>9 DEF Ask, OneModel
  <2>3. AskInv'
    BY <1>9 DEF Ask, AskInv
  <2>4. LoadedInv'
    BY <1>9 DEF Ask, LoadedInv, registryVars, loaderVars, lookupVars
  <2>5. SeenInv'
    BY <1>9 DEF Ask, AskInv, SeenInv, KnowsInfo, registryVars, loaderVars,
                lookupVars
  <2> QED
    BY <2>1, <2>2, <2>3, <2>4, <2>5
<1>10. CASE ApiAnswers(p)
  <2>1. TypeOK'
    BY <1>10 DEF ApiAnswers, Apply, registryVars, loaderVars, lookupVars
  <2>2. OneModel'
    BY <1>10 DEF ApiAnswers, OneModel
  <2>3. AskInv'
    BY <1>10 DEF ApiAnswers, AskInv
  <2>4. LoadedInv'
    BY <1>10 DEF ApiAnswers, LoadedInv, Apply, registryVars, loaderVars,
                 lookupVars
  <2>5. SeenInv'
    BY <1>10 DEF ApiAnswers, AskInv, SeenInv, KnowsInfo, Apply, registryVars,
                 loaderVars, lookupVars
  <2> QED
    BY <2>1, <2>2, <2>3, <2>4, <2>5
<1>11. CASE ApiFails(p)
  <2>1. TypeOK'
    BY <1>11 DEF ApiFails, registryVars, loaderVars, lookupVars
  <2>2. OneModel'
    BY <1>11 DEF ApiFails, OneModel
  <2>3. AskInv'
    BY <1>11 DEF ApiFails, AskInv
  <2>4. LoadedInv'
    BY <1>11 DEF ApiFails, LoadedInv, registryVars, loaderVars, lookupVars
  <2>5. SeenInv'
    BY <1>11 DEF ApiFails, AskInv, SeenInv, KnowsInfo, registryVars, loaderVars,
                 lookupVars
  <2> QED
    BY <2>1, <2>2, <2>3, <2>4, <2>5
<1> QED
  BY <1>1, <1>2, <1>3, <1>4, <1>5, <1>6, <1>7, <1>8, <1>9, <1>10, <1>11

\* A step of a lookup keeps it.
LEMMA LookupStep ==
    ASSUME AccessInv, NEW p \in Callers, Lookup(p), UNCHANGED Access
    PROVE  AccessInv'
<1> USE CallerAssumption, DocAssumption
        DEF AccessInv, TypeOK, RegistryTypeOK, CallerPlaces, Infos, Access,
            callers, capabilities, loaderVars
<1>1. TypeOK'
  <2>1. CASE EnsureLoaded(p)
    <3>1. /\ loadOnce' \in {"new", "running", "done"}
          /\ at' \in [Callers -> {"out", "enter", "fill", "read"}]
          /\ UNCHANGED <<base, registered, found, loading, doc, loaded, Access>>
      BY <2>1 DEF EnsureLoaded
    <3>2. /\ pc[p] \in {"building", "info"}
          /\ \A q \in Callers : q # p => at'[q] = at[q]
      BY <2>1 DEF EnsureLoaded
    <3> QED
      BY <3>1, <3>2
  <2>2. CASE FillBase(p)
    <3>1. /\ base' \in Docs \cup {None, Initial}
          /\ at' \in [Callers -> {"out", "enter", "fill", "read"}]
      BY <2>2 DEF FillBase
    <3>2. /\ loadOnce' = "done" /\ at' = [at EXCEPT ![p] = "read"]
          /\ UNCHANGED <<registered, found, loading, doc, loaded, Access>>
      BY <2>2 DEF FillBase
    <3>3. RegistryTypeOK'
      BY <3>1, <3>2
    <3>4. pc[p] \in {"building", "info"}
      BY <2>2 DEF FillBase
    <3> QED
      BY <3>2, <3>3, <3>4
  <2>3. CASE ReadInfo(p)
    <3>1. KnownInfo \in Infos
      BY DEF KnownInfo
    <3> QED
      BY <2>3, <3>1 DEF ReadInfo
  <2> QED
    BY <2>1, <2>2, <2>3 DEF Lookup
<1>2. OneModel' /\ AskInv'
  BY DEF OneModel, AskInv
<1>3. LoadedInv'
  BY DEF LoadedInv, Lookup, EnsureLoaded, FillBase, ReadInfo
<1>4. SeenInv'
  <2>1. CASE EnsureLoaded(p)
    BY <2>1 DEF EnsureLoaded, SeenInv, KnowsInfo
  <2>2. CASE FillBase(p)
    BY <2>2 DEF FillBase, SeenInv, KnowsInfo
  <2>3. CASE ReadInfo(p)
    <3>0. /\ registered => KnownInfo = Registered
          /\ loaded # None => KnownInfo \in Docs \cup {Registered}
      BY DEF KnownInfo, LoadedInv
    <3>1. /\ registered => found'[p] = Registered
          /\ loaded # None => found'[p] \in Docs \cup {Registered}
          /\ \A q \in Callers : q # p => found'[q] = found[q] /\ at'[q] = at[q]
          /\ UNCHANGED <<registered, loaded, Access>>
      BY <2>3, <3>0 DEF ReadInfo
    <3>2. pc[p] \in {"building", "info"}
      BY <2>3 DEF ReadInfo
    <3> QED
      BY <3>1, <3>2 DEF SeenInv, KnowsInfo
  <2> QED
    BY <2>1, <2>2, <2>3 DEF Lookup
<1> QED
  BY <1>1, <1>2, <1>3, <1>4

\* So do a loader, a registration and the passing of time.
LEMMA OthersStep ==
    ASSUME AccessInv,
           \/ \E l \in Loaders : \/ LoaderSteps(l)
                                 \/ SetBaseCalled(l) /\ UNCHANGED Access
           \/ RegisterModelInfo /\ UNCHANGED Access
           \/ BackoffEnds
           \/ UNCHANGED vars
    PROVE  AccessInv'
<1> USE CallerAssumption, DocAssumption
        DEF AccessInv, TypeOK, RegistryTypeOK, CallerPlaces, Infos, Access,
            callers, capabilities, loaderVars, lookupVars, registryVars,
            OneModel, AskInv, LoadedInv, SeenInv, KnowsInfo
<1>1. CASE \E l \in Loaders : LoaderSteps(l)
  <2>1. PICK l \in Loaders : LoaderSteps(l)
    BY <1>1
  <2>2. CASE MarkLoaded(l)
    BY <2>1, <2>2 DEF MarkLoaded, LoaderSteps
  <2>3. CASE StoreBase(l)
    <3>1. /\ doc[l] \in Docs /\ base' \in Docs /\ loaded' \in Docs
          /\ UNCHANGED <<loadOnce, registered, at, found, doc, Access>>
          /\ loading' = [loading EXCEPT ![l] = "out"]
      BY <2>1, <2>3 DEF StoreBase, LoaderSteps
    <3> QED
      BY <3>1
  <2> QED
    BY <2>1, <2>2, <2>3 DEF LoaderSteps
<1>2. CASE \E l \in Loaders : SetBaseCalled(l) /\ UNCHANGED Access
  BY <1>2 DEF SetBaseCalled
<1>3. CASE RegisterModelInfo /\ UNCHANGED Access
  <2>1. /\ registered' = TRUE
        /\ UNCHANGED <<loadOnce, base, at, found, loading, doc, loaded, Access>>
    BY <1>3 DEF RegisterModelInfo
  <2>2. ~registered
    BY <1>3 DEF RegisterModelInfo
  <2>3. TypeOK'
    BY <2>1
  <2>4. SeenInv'
    BY <2>1, <2>2
  <2> QED
    BY <2>1, <2>3, <2>4
<1>4. CASE BackoffEnds
  BY <1>4 DEF BackoffEnds
<1>5. CASE UNCHANGED vars
  <2>1. UNCHANGED <<registryVars, Access>>
    BY <1>5 DEF vars
  <2> QED
    BY <2>1
<1> QED
  BY <1>1, <1>2, <1>3, <1>4, <1>5

\* Every step does.
LEMMA StepAccess == AccessInv /\ [Next]_vars => AccessInv'
<1> SUFFICES ASSUME AccessInv, [Next]_vars PROVE AccessInv'
  OBVIOUS
<1>1. CASE \E p \in Callers : Start(p) \/ Continue(p)
  <2>1. PICK p \in Callers : Start(p) \/ Continue(p)
    BY <1>1
  <2>2. CASE Lookup(p) /\ UNCHANGED Access
    BY <2>2, LookupStep
  <2>3. CASE ~(Lookup(p) /\ UNCHANGED Access)
    BY <2>1, <2>3, AccessStep DEF Start, Continue
  <2> QED
    BY <2>2, <2>3
<1>2. CASE ~(\E p \in Callers : Start(p) \/ Continue(p))
  BY <1>2, OthersStep DEF Next
<1> QED
  BY <1>1, <1>2

\* The invariant holds of every behaviour.
LEMMA AccessInvariant == Spec => []AccessInv
BY InitAccess, StepAccess, PTL DEF Spec

\* The variables keep their types; a caller is inside the registry only in a
\* lookup, and the capabilities' lock is held only by a caller that asks.
THEOREM AccessTyped == Spec => []TypeOK
BY AccessInvariant, PTL DEF AccessInv

\* Whoever got a model from Manager.GetModel holds the stored one, however many
\* callers built it at the same time.
THEOREM ModelIsShared == Spec => []OneModel
BY AccessInvariant, PTL DEF AccessInv

\* At most one caller asks the Models API, never once it has answered, and
\* never again before a failure is old enough.
THEOREM OneAskAtATime == Spec => []AsksAreShared
<1>1. AccessInv => AsksAreShared
  BY DEF AccessInv, AskInv, AsksAreShared
<1> QED
  BY <1>1, AccessInvariant, PTL

\* A request goes by no less than what stood when it began, except for the
\* API's answer if an entry is registered meanwhile: SeenInv follows it from
\* there to the end, since a registration, loaded data and an answer of the API
\* are never taken back.
THEOREM NothingIsLost == Spec => []RequestsSeeWhatStood
<1>1. AccessInv => RequestsSeeWhatStood
  BY DEF AccessInv, SeenInv, KnowsInfo, RequestsSeeWhatStood
<1> QED
  BY <1>1, AccessInvariant, PTL
=============================================================================
