----------------------------- MODULE ModelAccess -----------------------------
(***************************************************************************)
(* How a request gets at its model: Manager.GetModel (manager.go) hands    *)
(* out one stored model per name, and a request of an Anthropic model asks *)
(* the registry and then the Models API what the model can do              *)
(* (anthropic_capabilities.go).  Both run on the ModelInfoRegistry.        *)
(*                                                                         *)
(* One resolved name stands for all: names share nothing but m.mu, whose   *)
(* critical sections are single steps.                                     *)
(***************************************************************************)
EXTENDS ModelInfoRegistry

VARIABLES
    pc,         \* where each caller is
    kind,       \* what it wants of the model: "generate" or "gate"
    models,     \* Manager.models at the name: who built the model, or None
    held,       \* the model a caller got
    capMu,      \* who holds anthropicCapabilities.mu across a call, or None
    apiInfo,    \* anthropicCapabilities.info is set
    backoff,    \* now is before anthropicCapabilities.nextRetry
    api,        \* the request's data has the answer of the Models API applied
    began       \* what stood when the request began, for the properties

callers == <<pc, kind, held, api, began>>
capabilities == <<capMu, apiInfo, backoff>>
vars == <<registryVars, callers, models, capabilities>>

CallerPlaces == {"idle", "building", "storing", "ready",
                 "info", "capabilities", "asking", "done"}

Nothing == [registered |-> FALSE, loaded |-> FALSE, api |-> FALSE]

TypeOK ==
    /\ RegistryTypeOK
    /\ pc \in [Callers -> CallerPlaces]
    /\ kind \in [Callers -> {"generate", "gate"}]
    /\ models \in Callers \cup {None}
    /\ held \in [Callers -> Callers \cup {None}]
    /\ capMu \in Callers \cup {None}
    /\ apiInfo \in BOOLEAN /\ backoff \in BOOLEAN
    /\ api \in [Callers -> BOOLEAN]
    /\ began \in [Callers -> [registered : BOOLEAN, loaded : BOOLEAN,
                              api : BOOLEAN]]
    \* A caller is inside the registry only where it looks something up, and
    \* the lock is held across a call only by the one that asks.
    /\ \A p \in Callers : at[p] # "out" => pc[p] \in {"building", "info"}
    /\ \A p \in Callers : capMu = p => pc[p] = "asking"

Init ==
    /\ RegistryInit
    /\ pc = [p \in Callers |-> "idle"]
    /\ kind = [p \in Callers |-> "generate"]
    /\ models = None
    /\ held = [p \in Callers |-> None]
    /\ capMu = None /\ apiInfo = FALSE /\ backoff = FALSE
    /\ api = [p \in Callers |-> FALSE]
    /\ began = [p \in Callers |-> Nothing]

Goto(p, place) == pc' = [pc EXCEPT ![p] = place]

\* p calls LookupModelInfo, and drops what it got when it is done with it.
CallLookup(p) == at' = [at EXCEPT ![p] = "enter"]
DropInfo(p)   == found' = [found EXCEPT ![p] = Unknown]
RestOfRegistry == <<loadOnce, base, registered, loaderVars, loaded>>

-----------------------------------------------------------------------------
(* Manager.GetModel *)
GetModelCached(p) ==
    /\ pc[p] = "idle" /\ models # None
    /\ held' = [held EXCEPT ![p] = models]
    /\ Goto(p, "ready")
    /\ UNCHANGED <<registryVars, kind, api, began, models, capabilities>>

GetModelMissed(p) ==
    /\ pc[p] = "idle" /\ models = None
    /\ Goto(p, "building")
    /\ CallLookup(p)
    /\ UNCHANGED <<RestOfRegistry, found, kind, held, api, began, models,
                   capabilities>>

\* Nothing others see: the data is read for a warning only, the credential
\* source is probed and the provider's client is made.  Either may fail.
Construct(p) ==
    /\ pc[p] = "building" /\ at[p] = "out"
    /\ DropInfo(p)
    /\ \E place \in {"storing", "idle"} : Goto(p, place)
    /\ UNCHANGED <<RestOfRegistry, at, kind, held, api, began, models,
                   capabilities>>

\* MUTANT: the map is not looked at again after the construction.
StoreModelBlindly(p) ==
    /\ pc[p] = "storing"
    /\ models' = p
    /\ held' = [held EXCEPT ![p] = p]
    /\ Goto(p, "ready")
    /\ UNCHANGED <<registryVars, kind, api, began, capabilities>>

\* The first model stored wins; a second one is discarded.
StoreModel(p) ==
    /\ pc[p] = "storing"
    /\ models' = IF models = None THEN p ELSE models
    /\ held' = [held EXCEPT ![p] = models']
    /\ Goto(p, "ready")
    /\ UNCHANGED <<registryVars, kind, api, began, capabilities>>

-----------------------------------------------------------------------------
(* anthropicModel.modelInfo ("generate") and gateInfo ("gate") *)
RequestInfo(p) ==
    /\ pc[p] = "ready"
    /\ \E k \in {"generate", "gate"} : kind' = [kind EXCEPT ![p] = k]
    /\ began' = [began EXCEPT ![p] = [registered |-> registered,
                                      loaded     |-> loaded # None,
                                      api        |-> apiInfo]]
    /\ Goto(p, "info")
    /\ CallLookup(p)
    /\ UNCHANGED <<RestOfRegistry, found, held, api, models, capabilities>>

\* m.info.registered(): asked after the lookup, under a lock of its own.
CheckRegistered(p) ==
    /\ pc[p] = "info" /\ at[p] = "out"
    /\ Goto(p, IF registered THEN "done" ELSE "capabilities")
    /\ UNCHANGED <<registryVars, kind, held, api, began, models, capabilities>>

Apply(p, known) == api' = [api EXCEPT ![p] = known]

\* cached, and get when it has an answer or a failure is recent.
UseCached(p) ==
    /\ pc[p] = "capabilities" /\ capMu = None
    /\ kind[p] = "gate" \/ apiInfo \/ backoff
    /\ Apply(p, apiInfo)
    /\ Goto(p, "done")
    /\ UNCHANGED <<registryVars, kind, held, began, models, capabilities>>

\* MUTANT: the lock is not held while the API is asked.
AskUnlocked(p) ==
    /\ pc[p] = "capabilities" /\ capMu = None
    /\ kind[p] = "generate" /\ ~apiInfo /\ ~backoff
    /\ Goto(p, "asking")
    /\ UNCHANGED <<registryVars, kind, held, api, began, models, capabilities>>

Ask(p) ==
    /\ pc[p] = "capabilities" /\ capMu = None
    /\ kind[p] = "generate" /\ ~apiInfo /\ ~backoff
    /\ capMu' = p
    /\ Goto(p, "asking")
    /\ UNCHANGED <<registryVars, kind, held, api, began, models, apiInfo, backoff>>

ApiAnswers(p) ==
    /\ pc[p] = "asking"
    /\ apiInfo' = TRUE
    /\ Apply(p, TRUE)
    /\ capMu' = None
    /\ Goto(p, "done")
    /\ UNCHANGED <<registryVars, kind, held, began, models, backoff>>

\* MUTANT: a failed lookup returns without releasing the lock.
ApiFailsLocked(p) ==
    /\ pc[p] = "asking"
    /\ backoff' = TRUE
    /\ Goto(p, "done")
    /\ UNCHANGED <<registryVars, kind, held, api, began, models, capMu, apiInfo>>

\* An error, or anthropicCapabilityTimeout.
ApiFails(p) ==
    /\ pc[p] = "asking"
    /\ backoff' = TRUE
    /\ capMu' = None
    /\ Goto(p, "done")
    /\ UNCHANGED <<registryVars, kind, held, api, began, models, apiInfo>>

\* anthropicCapabilityRetry is over.
BackoffEnds ==
    /\ backoff
    /\ backoff' = FALSE
    /\ UNCHANGED <<registryVars, callers, models, capMu, apiInfo>>

\* The request goes out; the caller asks for the model again, or keeps it.
Sent(p) ==
    /\ pc[p] = "done"
    /\ \E place \in {"idle", "ready"} : Goto(p, place)
    /\ DropInfo(p)
    /\ Apply(p, FALSE)
    /\ began' = [began EXCEPT ![p] = Nothing]
    /\ kind' = [kind EXCEPT ![p] = "generate"]
    /\ UNCHANGED <<RestOfRegistry, at, held, models, capabilities>>

-----------------------------------------------------------------------------
Access == <<callers, models, capabilities>>

\* What a caller does once it is inside a call.
Continue(p) ==
    \/ Lookup(p) /\ UNCHANGED Access
    \/ Construct(p) \/ StoreModel(p)
    \/ CheckRegistered(p) \/ UseCached(p) \/ Ask(p)
    \/ ApiAnswers(p) \/ ApiFails(p)

Start(p) == GetModelCached(p) \/ GetModelMissed(p) \/ RequestInfo(p) \/ Sent(p)

LoaderSteps(l) == (MarkLoaded(l) \/ StoreBase(l)) /\ UNCHANGED Access

Next ==
    \/ \E p \in Callers : Start(p) \/ Continue(p)
    \/ \E l \in Loaders : LoaderSteps(l) \/ (SetBaseCalled(l) /\ UNCHANGED Access)
    \/ RegisterModelInfo /\ UNCHANGED Access
    \/ BackoffEnds

Spec == Init /\ [][Next]_vars

\* Goroutines are scheduled, the API answers or times out, and sync.Mutex
\* hands a contended lock to one that waits (its starvation mode).
FairSpec ==
    /\ Spec
    /\ \A p \in Callers : WF_vars(Continue(p)) /\ SF_vars(UseCached(p) \/ Ask(p))

-----------------------------------------------------------------------------
(* Properties *)

\* manager.go: "Another goroutine built the same model while we were
\* constructing ours; discard ours and return the winner": whoever holds a
\* model of a name holds the stored one, so its capabilities are asked once.
OneModel == \A p \in Callers : held[p] # None => held[p] = models

\* A request goes by no less than what stood when it began: a registered entry
\* wins and is used as it is, loaded data is never undone by the initial load,
\* and an answer of the Models API is never lost again.  The answer is not asked
\* for once an entry is registered: a request that reads the registry before and
\* asks for the entry after that (anthropic_capabilities.go:36-37) goes by the
\* old data without it, which no doc rules out.
RequestsSeeWhatStood ==
    \A p \in Callers : pc[p] = "done" =>
        /\ began[p].registered => found[p] = Registered /\ ~api[p]
        /\ began[p].loaded => found[p] \in Docs \cup {Registered}
        /\ began[p].api /\ ~registered => api[p]

\* anthropic_capabilities.go: concurrent callers wait for one lookup instead of
\* starting their own, and a failed one is not repeated before its time.
AsksAreShared ==
    \A p \in Callers : pc[p] = "asking" =>
        /\ ~apiInfo /\ ~backoff
        /\ \A q \in Callers : pc[q] = "asking" => q = p

\* A request gets its model data, however slow the API is and whoever loads:
\* nobody waits for ever on the sync.Once or on the capabilities' lock.
RequestsReturn == \A p \in Callers : pc[p] = "info" ~> pc[p] = "done"

\* modelinfo_registry.go on LookupModelInfo: "The boolean is false when the
\* model is not known", and on LoadModelInfo: it "replaces the models.dev data":
\* a model that the initial data and every document list is always known.
KnownIsFound == \A p \in Callers : pc[p] = "done" => found[p] # Unknown
=============================================================================
