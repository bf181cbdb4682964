----------------------------- MODULE CacheBudget -----------------------------
(***************************************************************************)
(* The budget that all caches share (qpane/cache/coordinator.py), over the *)
(* consumers of qpane/cache/consumers.py.  Everything happens on the owner *)
(* thread, but not in one piece: an eviction reports the new usage to the  *)
(* coordinator from inside the trim that asked for it, and a foreground    *)
(* allocation that reclaims bytes may start an enforcement in the middle   *)
(* of its own trim.  A cache evicts in batches of entries of any size, so  *)
(* a batch may free a little or overshoot.  Weights are given; that a hard *)
(* cap refuses an insertion is one of the insertions that do not happen.   *)
(***************************************************************************)
EXTENDS Integers, FiniteSets, FiniteSetsExt

CONSTANTS
    CacheCount,   \* number of consumers; they are numbered as registered
    Batched,      \* tiles and pyramids: have a limit and evict in batches
    Deferred,     \* predictors: what a trim removes is gone later
    Priority,     \* CachePriority
    Weight,       \* weight per cache
    Sizes,        \* byte counts of preferences and overrides
    Budgets,      \* byte counts of the shared budget
    MaxBytes,     \* bound on what a cache keeps
    MaxAttempts,  \* max_attempts of _run_cache_batch_trim
    MaxCalls      \* bound on the calls that change the settings or reclaim

Caches == 1..CacheCount
NoBytes == -1

ASSUME CacheAssumption ==
    /\ CacheCount \in Nat \ {0} /\ Batched \subseteq Caches /\ Deferred \subseteq Caches
    /\ Batched \cap Deferred = {}
    /\ Priority \in [Caches -> Nat] /\ Weight \in [Caches -> Nat]
    /\ Sizes \subseteq Nat /\ Budgets \subseteq Nat /\ Budgets # {} /\ Sizes # {}
    /\ MaxBytes \in Nat /\ MaxAttempts \in Nat /\ MaxCalls \in Nat

VARIABLES
    cacheBytes,   \* state.usage_bytes, which agrees with the cache
    cacheLimit,   \* cache_limit_bytes of the batched caches
    capacity,     \* state.capacity_bytes
    preferredBytes, overrideBytes, budget, \* the settings
    stage,        \* of the enforcement, "idle" when ~_enforcing
    again,        \* _pending_enforce
    todo,         \* the consumers its loop has still to visit
    active,       \* the caches that were not empty when the round began
    overage,      \* what they kept beyond their shares, times the total weight
    trim,         \* the trim of the enforcement
    reclaim,      \* the reclamation, with a trim of its own
    calls         \* so many settings were changed or bytes reclaimed

enforcementVars == <<stage, again, todo, active, overage, trim>>
settingVars == <<preferredBytes, overrideBytes, budget>>
cacheVars == <<cacheBytes, cacheLimit, capacity, settingVars, enforcementVars, reclaim, calls>>

NoTrim == [cache |-> 1, target |-> 0, before |-> 0, seen |-> 0, tries |-> MaxAttempts]
NoReclaim == [on |-> FALSE, asked |-> 0, left |-> 0, todo |-> {}, trim |-> NoTrim,
              before |-> [c \in Caches |-> 0]]

Bytes == 0..MaxBytes
Hints == Sizes \cup {NoBytes}
Trims == [cache : Caches, target : Nat, before : Bytes, seen : Bytes, tries : 0..MaxAttempts]

CacheTypeOK ==
    /\ cacheBytes \in [Caches -> Bytes] /\ budget \in Budgets /\ calls \in 0..MaxCalls
    /\ cacheLimit \in [Batched -> Nat] /\ capacity \in [Caches -> Nat]
    /\ preferredBytes \in [Caches -> Hints] /\ overrideBytes \in [Caches -> Hints]
    /\ stage \in {"idle", "overrides", "global", "restore"} /\ again \in BOOLEAN
    /\ todo \subseteq Caches /\ active \subseteq Caches /\ overage \in [Caches -> Int]
    /\ trim \in Trims /\ reclaim.trim \in Trims
    /\ reclaim.on \in BOOLEAN /\ reclaim.left \in Nat /\ reclaim.todo \subseteq Caches
    /\ stage = "idle" => trim = NoTrim /\ ~again

-----------------------------------------------------------------------------
Total(usage) == MapThenSumSet(LAMBDA c : usage[c], Caches)
OverBudget == Total(cacheBytes) > budget

\* An override beats a preference, a preference the budget.
Target(c) ==
    IF overrideBytes[c] # NoBytes THEN overrideBytes[c]
    ELSE IF preferredBytes[c] # NoBytes THEN preferredBytes[c] ELSE budget

\* Only caches that are in use have a share; without weights they are equal.
WeightAmong(set, c) ==
    IF c \notin set THEN 0 ELSE IF \A d \in set : Weight[d] = 0 THEN 1 ELSE Weight[c]
TotalWeight(set) == MapThenSumSet(LAMBDA c : WeightAmong(set, c), set)

\* The entitlement, rounded down.
Share(set, c) == IF set = {} THEN 0 ELSE (WeightAmong(set, c) * budget) \div TotalWeight(set)

\* What the cache keeps beyond its entitlement, times the total weight.
Overage(set, c) == cacheBytes[c] * TotalWeight(set) - WeightAmong(set, c) * budget

\* The configured ceilings of some caches are applied where they changed.
ApplyCeilings(set) ==
    /\ capacity' = [c \in Caches |-> IF c \in set THEN Target(c)' ELSE capacity[c]]
    /\ cacheLimit' = [c \in Batched |->
           IF c \in set /\ Target(c)' # capacity[c] THEN Target(c)' ELSE cacheLimit[c]]

\* Variant: the weights are not read again when a round begins.
BeginWithOldWeights(usage) ==
    /\ stage' = "overrides"
    /\ again' = FALSE
    /\ todo' = Caches
    /\ UNCHANGED <<active, overage>>

\* _enforce_budget when no enforcement is under way: a round begins.
BeginRound(usage) ==
    /\ stage' = "overrides"
    /\ again' = FALSE
    /\ todo' = Caches
    /\ active' = {c \in Caches : usage[c] > 0}
    /\ UNCHANGED overage

\* Variant: what an eviction reports in the middle of a round is forgotten.
UsageForgotten(usage) ==
    /\ cacheBytes' = usage
    /\ IF stage = "idle" THEN BeginRound(usage)
       ELSE UNCHANGED <<stage, again, todo, active, overage>>

\* update_usage with a changed value.
UsageReported(usage) ==
    /\ cacheBytes' = usage
    /\ IF stage = "idle" THEN BeginRound(usage)
       ELSE again' = TRUE /\ UNCHANGED <<stage, todo, active, overage>>

-----------------------------------------------------------------------------
\* Trimming one cache: _trim_consumer_to.

\* The ceiling becomes the target, and the cache's own limit is not above it.
LowerCeiling(c, target) ==
    /\ capacity' = [capacity EXCEPT ![c] = target]
    /\ cacheLimit' = [d \in Batched |->
           IF d = c /\ (capacity[c] # target \/ cacheLimit[c] > target) THEN target
           ELSE cacheLimit[d]]

TrimOf(c, target) ==
    [cache |-> c, target |-> target, before |-> cacheBytes[c], seen |-> cacheBytes[c],
     tries |-> 0]

\* Batches stop after some attempts, single drops when nothing is left.  A
\* deferred removal is not waited for.
Finished(t) ==
    \/ t.cache \in Deferred
    \/ t.cache \in Batched /\ (cacheBytes[t.cache] <= t.target \/ t.tries = MaxAttempts)
    \/ t.cache \notin Batched /\ (t.seen <= t.target \/ cacheBytes[t.cache] = 0)

\* What may be left after a batch or a drop: a batched cache evicts only what is
\* above its limit.
LeftAfterBatch(c) ==
    IF c \in Batched /\ cacheBytes[c] <= cacheLimit[c] THEN {cacheBytes[c]}
    ELSE 0..(cacheBytes[c] - 1)

\* Variant: a drop is not counted, so that drops go on until the cache is empty.
EvictedUncounted(t, n) ==
    [t EXCEPT !.tries = IF t.cache \in Batched THEN @ + 1 ELSE @]

\* The trim t after a batch that left n bytes, and the report of the cache.
Evicted(t, n) ==
    [t EXCEPT !.seen = @ - (cacheBytes[t.cache] - n),
              !.tries = IF t.cache \in Batched THEN @ + 1 ELSE @]

ReportIfChanged(c, n) ==
    IF n = cacheBytes[c] THEN UNCHANGED <<cacheBytes, stage, again, todo, active, overage>>
    ELSE UsageReported([cacheBytes EXCEPT ![c] = n])

-----------------------------------------------------------------------------
\* The enforcement.

Evict ==
    /\ stage # "idle" /\ ~Finished(trim)
    /\ \E n \in LeftAfterBatch(trim.cache) :
        /\ trim' = Evicted(trim, n)
        /\ ReportIfChanged(trim.cache, n)
    /\ UNCHANGED <<cacheLimit, capacity, settingVars, reclaim, calls>>

\* Overrides come first, in the order of registration.
TrimToOverride(c) ==
    /\ stage = "overrides" /\ Finished(trim)
    /\ c \in todo /\ \A d \in todo : c <= d
    /\ todo' = todo \ {c}
    /\ IF overrideBytes[c] # NoBytes /\ cacheBytes[c] > overrideBytes[c]
       THEN trim' = TrimOf(c, overrideBytes[c]) /\ LowerCeiling(c, overrideBytes[c])
       ELSE UNCHANGED <<trim, capacity, cacheLimit>>
    /\ UNCHANGED <<cacheBytes, settingVars, stage, again, active, overage, reclaim, calls>>

OverridesDone ==
    /\ stage = "overrides" /\ Finished(trim) /\ todo = {}
    /\ IF OverBudget
       THEN /\ stage' = "global"
            /\ overage' = [c \in Caches |-> Overage(active, c)]
            /\ todo' = {c \in Caches : overage'[c] > 0}
       ELSE stage' = "restore" /\ UNCHANGED <<overage, todo>>
    /\ UNCHANGED <<cacheBytes, cacheLimit, capacity, settingVars, again, active, trim,
                   reclaim, calls>>

\* sorted(contenders): the largest overage, then the priority, then the order
\* of registration.
Precedes(c, d) ==
    \/ overage[c] > overage[d]
    \/ overage[c] = overage[d] /\ Priority[c] < Priority[d]
    \/ overage[c] = overage[d] /\ Priority[c] = Priority[d] /\ c <= d

TrimToShare(c) ==
    /\ stage = "global" /\ Finished(trim) /\ OverBudget
    /\ c \in todo /\ \A d \in todo : Precedes(c, d)
    /\ todo' = todo \ {c}
    /\ LET share == Share(active, c)
           target == IF share < cacheBytes[c] THEN share ELSE cacheBytes[c]
       IN trim' = TrimOf(c, target) /\ LowerCeiling(c, target)
    /\ UNCHANGED <<cacheBytes, settingVars, stage, again, active, overage, reclaim, calls>>

SharesDone ==
    /\ stage = "global" /\ Finished(trim) /\ (todo = {} \/ ~OverBudget)
    /\ stage' = "restore" /\ todo' = {}
    /\ UNCHANGED <<cacheBytes, cacheLimit, capacity, settingVars, again, active, overage, trim,
                   reclaim, calls>>

\* The configured ceilings come back unless the budget is still exceeded, and
\* another round begins when something was reported during this one.
FinishRound ==
    /\ stage = "restore"
    /\ UNCHANGED settingVars
    /\ IF OverBudget THEN UNCHANGED <<capacity, cacheLimit>> ELSE ApplyCeilings(Caches)
    /\ IF again THEN BeginRound(cacheBytes)
       ELSE /\ stage' = "idle" /\ active' = {} /\ overage' = [c \in Caches |-> 0]
            /\ UNCHANGED <<again, todo>>
    /\ trim' = NoTrim
    /\ UNCHANGED <<cacheBytes, reclaim, calls>>

Enforcement ==
    Evict \/ OverridesDone \/ SharesDone \/ FinishRound
    \/ \E c \in Caches : TrimToOverride(c) \/ TrimToShare(c)

-----------------------------------------------------------------------------
\* The reclamation: reclaim_for_foreground_allocation.  Its trims are none of
\* the enforcement's, so what they evict is reported to an idle coordinator.

MayCall == stage = "idle" /\ ~reclaim.on /\ calls < MaxCalls

Reclaim(n) ==
    /\ MayCall
    /\ calls' = calls + 1
    /\ reclaim' = [NoReclaim EXCEPT !.on = TRUE, !.asked = n, !.left = n, !.todo = Caches,
                                    !.before = cacheBytes]
    /\ UNCHANGED <<cacheBytes, cacheLimit, capacity, settingVars, enforcementVars>>

ReclaimEvicts ==
    /\ reclaim.on /\ stage = "idle" /\ ~Finished(reclaim.trim)
    /\ \E n \in LeftAfterBatch(reclaim.trim.cache) :
        /\ reclaim' = [reclaim EXCEPT !.trim = Evicted(reclaim.trim, n)]
        /\ ReportIfChanged(reclaim.trim.cache, n)
    /\ UNCHANGED <<trim, cacheLimit, capacity, settingVars, calls>>

\* What the last trim freed, with all that happened meanwhile, is accounted for.
StillWanted ==
    LET t == reclaim.trim
        freed == t.before - cacheBytes[t.cache]
    IN  IF freed <= 0 THEN reclaim.left
        ELSE IF freed < reclaim.left THEN reclaim.left - freed ELSE 0

\* The order of the reclamation: priority, then size, then identifier.
Cheaper(c, d) ==
    \/ Priority[c] < Priority[d]
    \/ Priority[c] = Priority[d] /\ reclaim.before[c] > reclaim.before[d]
    \/ Priority[c] = Priority[d] /\ reclaim.before[c] = reclaim.before[d] /\ c <= d

ReclaimFrom(c) ==
    /\ reclaim.on /\ stage = "idle" /\ Finished(reclaim.trim) /\ StillWanted > 0
    /\ c \in reclaim.todo /\ \A d \in reclaim.todo : Cheaper(c, d)
    /\ LET target == IF StillWanted < cacheBytes[c] THEN cacheBytes[c] - StillWanted ELSE 0
       IN  /\ LowerCeiling(c, target)
           /\ reclaim' = [reclaim EXCEPT !.left = StillWanted, !.todo = @ \ {c},
                                         !.trim = TrimOf(c, target)]
    /\ UNCHANGED <<cacheBytes, settingVars, enforcementVars, calls>>

ReclaimEnding ==
    /\ reclaim.on /\ stage = "idle" /\ Finished(reclaim.trim)
    /\ StillWanted = 0 \/ reclaim.todo = {}

ReclaimReturns ==
    /\ ReclaimEnding
    /\ reclaim' = NoReclaim
    /\ UNCHANGED <<cacheBytes, cacheLimit, capacity, settingVars, enforcementVars, calls>>

Reclamation == ReclaimEvicts \/ ReclaimReturns \/ \E c \in Caches : ReclaimFrom(c)

-----------------------------------------------------------------------------
\* The calls of the application.

CacheInit ==
    /\ cacheBytes = [c \in Caches |-> 0]
    /\ budget \in Budgets
    /\ \E p \in Sizes :
        preferredBytes = [c \in Caches |-> IF c \in Batched THEN p ELSE NoBytes]
    /\ overrideBytes = [c \in Caches |-> NoBytes]
    /\ capacity = [c \in Caches |-> Target(c)]
    /\ cacheLimit = [c \in Batched |-> Target(c)]
    /\ stage = "idle" /\ again = FALSE /\ todo = {} /\ active = {}
    /\ overage = [c \in Caches |-> 0]
    /\ trim = NoTrim /\ reclaim = NoReclaim /\ calls = 0

\* A cache grows by a product or loses some: insertions, invalidations and the
\* removals that a trim of a deferred cache has asked for.
Resize(c, n) ==
    /\ stage = "idle" /\ ~reclaim.on
    /\ n # cacheBytes[c]
    /\ UsageReported([cacheBytes EXCEPT ![c] = n])
    /\ UNCHANGED <<cacheLimit, capacity, settingVars, trim, reclaim, calls>>

Configured(set) ==
    /\ MayCall /\ calls' = calls + 1
    /\ ApplyCeilings(set)
    /\ BeginRound(cacheBytes)
    /\ UNCHANGED <<cacheBytes, trim, reclaim>>

SetBudget(b) ==
    /\ budget' = b /\ UNCHANGED <<preferredBytes, overrideBytes>>
    /\ Configured({c \in Caches : overrideBytes[c] = NoBytes /\ preferredBytes[c] = NoBytes})

SetOverride(c, b) ==
    /\ overrideBytes' = [overrideBytes EXCEPT ![c] = b] /\ UNCHANGED <<preferredBytes, budget>>
    /\ Configured({c})

SetPreferred(c, b) ==
    /\ preferredBytes' = [preferredBytes EXCEPT ![c] = b] /\ UNCHANGED <<overrideBytes, budget>>
    /\ Configured(IF overrideBytes[c] = NoBytes THEN {c} ELSE {})

CacheNext ==
    \/ Enforcement
    \/ Reclamation
    \/ \E n \in Bytes \ {0} : Reclaim(n)
    \/ \E c \in Caches, n \in Bytes : Resize(c, n)
    \/ \E b \in Budgets : SetBudget(b)
    \/ \E c \in Caches, b \in Hints : SetOverride(c, b) \/ SetPreferred(c, b)

\* A call of the owner runs to its end.
CacheSpec ==
    /\ CacheInit /\ [][CacheNext]_cacheVars
    /\ WF_cacheVars(Enforcement \/ Reclamation)

-----------------------------------------------------------------------------
\* No cache that frees its bytes at once is above its share or its override.
Relieved ==
    /\ OverBudget =>
        \E c \in Deferred : Overage({d \in Caches : cacheBytes[d] > 0}, c) > 0
    /\ \A c \in Caches \ Deferred :
        overrideBytes[c] # NoBytes => cacheBytes[c] <= overrideBytes[c]

\* Reports from inside a trim and batches that do not suffice are answered by
\* further rounds, and the rounds end: with usage within the budget, or only
\* predictors, which go later, above their share.
PressureIsRelieved == stage # "idle" ~> stage = "idle" /\ Relieved

\* However rounds, batches and reports follow each other, an enforcement takes
\* from a cache only what is above its override or, when all caches together
\* exceed the budget, above its share among those in use when the round began.
EvictionsAreOwed ==
    [][\A c \in Caches : stage # "idle" /\ cacheBytes'[c] < cacheBytes[c] =>
        \/ stage = "overrides" /\ overrideBytes[c] # NoBytes /\ cacheBytes[c] > overrideBytes[c]
        \/ stage = "global" /\ cacheBytes[c] > Share(active, c)]_cacheVars

\* A round reads the weights before its overrides empty any cache, and divides
\* the budget by them afterwards.  The shares still never promise more than the
\* budget: a round that finds it exceeded finds a cache above its share.
PressureHasContenders == [][stage = "overrides" /\ stage' = "global" => todo' # {}]_cacheVars

\* When the budget is enforced (_enforce_budget) only caches give that owe, and
\* when it is exceeded there is one that does.
DebtorsPay == EvictionsAreOwed /\ PressureHasContenders

\* coordinator.py: reclaim_bytes is given the "minimum number of bytes the
\* caller wants released", and the tests expect that much unless the caches
\* keep less: it falls short only when those that free their bytes at once are
\* empty.
ReclaimFreesWhatIsAsked ==
    ReclaimEnding =>
        \/ Total(reclaim.before) - Total(cacheBytes) >= reclaim.asked
        \/ \A c \in Caches \ Deferred : cacheBytes[c] = 0

=============================================================================
