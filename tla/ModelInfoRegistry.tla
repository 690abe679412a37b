-------------------------- MODULE ModelInfoRegistry --------------------------
(***************************************************************************)
(* The process-wide model data of modelinfo_registry.go, for one model     *)
(* that every data set lists.  Lookups load the initial data on first use, *)
(* behind a sync.Once; LoadModelInfo and RefreshModelInfo replace it;      *)
(* RegisterModelInfo adds an entry that wins over both.  All of them may   *)
(* run at the same time: a step here is what happens between two points    *)
(* where another goroutine can see the registry.                           *)
(*                                                                         *)
(* The cache file RefreshModelInfo writes is for later processes and left  *)
(* out: of the initial data only that it is there matters.                 *)
(***************************************************************************)
EXTENDS Integers, FiniteSets

CONSTANTS
    Callers,   \* goroutines that look a model up
    Loaders,   \* goroutines in LoadModelInfo or RefreshModelInfo
    Docs       \* the documents that may be loaded

CONSTANTS None, Initial, Unknown, Registered
ASSUME DocAssumption == None \notin Docs /\ Initial # None
ASSUME CallerAssumption == None \notin Callers

VARIABLES
    loadOnce,    \* the sync.Once: "new", "running" or "done"
    base,        \* models.dev data in use
    registered,  \* there is an entry of RegisterModelInfo
    at,          \* where each caller is in LookupModelInfo, "out" when not in it
    found,       \* what its last lookup gave it
    loading,     \* where each loader is in setBase
    doc,         \* the document it brings
    loaded       \* the last document stored, for the properties

registryVars == <<loadOnce, base, registered, at, found, loading, doc, loaded>>
lookupVars   == <<at, found>>
loaderVars   == <<loading, doc>>

Infos == Docs \cup {Initial, Unknown, Registered}

RegistryTypeOK ==
    /\ loadOnce \in {"new", "running", "done"}
    /\ base \in Docs \cup {None, Initial}
    /\ registered \in BOOLEAN
    /\ at \in [Callers -> {"out", "enter", "fill", "read"}]
    /\ found \in [Callers -> Infos]
    /\ loading \in [Loaders -> {"out", "mark", "store"}]
    /\ doc \in [Loaders -> Docs]
    /\ loaded \in Docs \cup {None}

RegistryInit ==
    /\ loadOnce = "new" /\ base = None /\ registered = FALSE
    /\ at = [p \in Callers |-> "out"]
    /\ found = [p \in Callers |-> Unknown]
    /\ loading = [l \in Loaders |-> "out"]
    /\ doc \in [Loaders -> Docs]
    /\ loaded = None

-----------------------------------------------------------------------------
(* LookupModelInfo *)

\* ensureLoaded: the first caller loads, the others wait for it.
EnsureLoaded(p) ==
    /\ at[p] = "enter"
    /\ \/ /\ loadOnce = "new"
          /\ loadOnce' = "running"
          /\ at' = [at EXCEPT ![p] = "fill"]
       \/ /\ loadOnce = "done"
          /\ at' = [at EXCEPT ![p] = "read"]
          /\ UNCHANGED loadOnce
    /\ UNCHANGED <<base, registered, found, loaderVars, loaded>>

FillBase(p) ==
    /\ at[p] = "fill"
    /\ base' = IF base = None THEN Initial ELSE base
    /\ loadOnce' = "done"
    /\ at' = [at EXCEPT ![p] = "read"]
    /\ UNCHANGED <<registered, found, loaderVars, loaded>>

KnownInfo == IF registered THEN Registered
             ELSE IF base # None THEN base ELSE Unknown

ReadInfo(p) ==
    /\ at[p] = "read"
    /\ found' = [found EXCEPT ![p] = KnownInfo]
    /\ at' = [at EXCEPT ![p] = "out"]
    /\ UNCHANGED <<loadOnce, base, registered, loaderVars, loaded>>

Lookup(p) == EnsureLoaded(p) \/ FillBase(p) \/ ReadInfo(p)

-----------------------------------------------------------------------------
(* LoadModelInfo and RefreshModelInfo: a document that cannot be read or has *)
(* no supported model is rejected and changes nothing.                       *)
SetBaseCalled(l) ==
    /\ loading[l] = "out"
    /\ loading' = [loading EXCEPT ![l] = "mark"]
    /\ \E d \in Docs : doc' = [doc EXCEPT ![l] = d]
    /\ UNCHANGED <<loadOnce, base, registered, lookupVars, loaded>>

\* loadOnce.Do of an empty function waits for a load under way.
MarkLoaded(l) ==
    /\ loading[l] = "mark"
    /\ loadOnce # "running"
    /\ loadOnce' = "done"
    /\ loading' = [loading EXCEPT ![l] = "store"]
    /\ UNCHANGED <<base, registered, lookupVars, doc, loaded>>

\* MUTANT: setBase, too, leaves data alone that is there.
StoreBaseIfNone(l) ==
    /\ loading[l] = "store"
    /\ base' = IF base = None THEN doc[l] ELSE base
    /\ loaded' = doc[l]
    /\ loading' = [loading EXCEPT ![l] = "out"]
    /\ UNCHANGED <<loadOnce, registered, lookupVars, doc>>

StoreBase(l) ==
    /\ loading[l] = "store"
    /\ base' = doc[l]
    /\ loaded' = doc[l]
    /\ loading' = [loading EXCEPT ![l] = "out"]
    /\ UNCHANGED <<loadOnce, registered, lookupVars, doc>>

RegisterModelInfo ==
    /\ ~registered
    /\ registered' = TRUE
    /\ UNCHANGED <<loadOnce, base, lookupVars, loaderVars, loaded>>
=============================================================================
