------------------------------ MODULE PartsMC ------------------------------
(***************************************************************************)
(* The smaller components, one behaviour at a time: the engine's native    *)
(* lanes, scope tree, progress channels, diagnostics hub and choice of the *)
(* next pending job, the shared cache budget and assisted selection.  They *)
(* share no state with each other, so each behaviour runs one of them and  *)
(* the others stay as they were built.                                     *)
(***************************************************************************)
EXTENDS AffinityBackend, ScopeTree, ProgressChannel, DiagnosticsHub, SchedulerAging,
        CacheBudgetMC, SamSession

CONSTANTS t1, t2, t3, l1, l2, k1

\* Two tasks share a lane and two, in different lanes, an exclusive key.
MCLaneOf == [t \in Tasks |-> IF t = t2 THEN l2 ELSE l1]
MCKeyOf == [t \in Tasks |-> IF t = t3 THEN NoKey ELSE k1]

VARIABLE part

Parts == {"affinity", "scopes", "progress", "diagnostics", "aging", "cache", "sam"}

partVars == <<part, affinityVars, treeVars, progressVars, hubVars, agingVars, cacheVars, samVars>>

PartsInit ==
    /\ part \in Parts
    /\ AffinityInit /\ TreeInit /\ ProgressInit /\ HubInit /\ AgingInit /\ CacheInit /\ SamInit
    \* One initial state of the other parts is enough.
    /\ inline => part = "progress"
    /\ budget # Max(Budgets) => part = "cache"
    /\ managerLimit # Max(Limits) => part = "sam"

PartsNext ==
    /\ UNCHANGED part
    /\ \/ /\ part = "affinity" /\ AffinityNext
          /\ UNCHANGED <<treeVars, progressVars, hubVars, agingVars, cacheVars, samVars>>
       \/ /\ part = "scopes" /\ TreeNext
          /\ UNCHANGED <<affinityVars, progressVars, hubVars, agingVars, cacheVars, samVars>>
       \/ /\ part = "progress" /\ ProgressNext
          /\ UNCHANGED <<affinityVars, treeVars, hubVars, agingVars, cacheVars, samVars>>
       \/ /\ part = "diagnostics" /\ HubNext
          /\ UNCHANGED <<affinityVars, treeVars, progressVars, agingVars, cacheVars, samVars>>
       \/ /\ part = "aging" /\ AgingNext
          /\ UNCHANGED <<affinityVars, treeVars, progressVars, hubVars, cacheVars, samVars>>
       \/ /\ part = "cache" /\ CacheNext
          /\ UNCHANGED <<affinityVars, treeVars, progressVars, hubVars, agingVars, samVars>>
       \/ /\ part = "sam" /\ SamNext
          /\ UNCHANGED <<affinityVars, treeVars, progressVars, hubVars, agingVars, cacheVars>>

\* The fairness of each part, as its own specification states it.
PartsSpec ==
    /\ PartsInit /\ [][PartsNext]_partVars
    /\ WF_affinityVars(part = "affinity" /\ AffinityThreads)
    /\ WF_treeVars(part = "scopes" /\ \E n \in Nodes : Closing(n))
    /\ \A a \in Threads : WF_progressVars(part = "progress" /\ DeliveryStep(a))
    /\ WF_progressVars(part = "progress" /\ EventLoop)
    /\ WF_hubVars(part = "diagnostics" /\ HubThread)
    /\ WF_hubVars(part = "diagnostics" /\ JoinHub)
    /\ WF_cacheVars(part = "cache" /\ (Enforcement \/ Reclamation))
    /\ WF_samVars(part = "sam" /\ NativeLane)
    /\ WF_samVars(part = "sam" /\ (HandleSettled \/ HandleAdoption))

-----------------------------------------------------------------------------
\* Every variable of every part has its type, and no more tasks of native
\* lanes are accepted than the limit allows.
PartsTypeOK ==
    /\ AffinityTypeOK /\ TreeTypeOK /\ ProgressTypeOK /\ HubTypeOK /\ AgingTypeOK
    /\ CacheTypeOK /\ SamTypeOK

\* Every channel that keeps only its newest value (ProgressChannel._latest and
\* DiagnosticsHub._latest) implements LatestValue for whoever observes it.
ChannelsCoalesce == ProgressCoalesces /\ SnapshotsCoalesce

\* The value such a channel was given last arrives (_deliver, _run), unless its
\* observer is gone first.
NewestArrives == NewestProgressArrives /\ NewestSnapshotArrives

=============================================================================
