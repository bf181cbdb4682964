--------------------------- MODULE ExecutionModel ---------------------------
(***************************************************************************)
(* What a task asks of the execution engine and what the default policy    *)
(* allows: execution/model.py and execution/default_policy.py of qpane.    *)
(* A task stands for one ExecutionRequest; its requirements never change   *)
(* after it was built (the dataclasses are frozen), so they are constants. *)
(***************************************************************************)
EXTENDS Integers, FiniteSets, FiniteSetsExt

CONSTANTS
    Tasks,              \* one per ExecutionRequest that will be submitted
    Scopes,             \* owner-lifetime scopes opened on the runtime
    Keys,               \* exclusive_key values
    NoKey,              \* exclusive_key is None
    Resources,          \* (resource, resource_id) pairs
    ScopeOf,            \* the scope a task is submitted to
    Interactive,        \* tasks whose urgency is INTERACTIVE
    KeyOf,              \* requirements.exclusive_key
    AdoptionHeld,       \* tasks with lease_release = ADOPTION_FINISHED
    ResourceOf,         \* requirements.resource and resource_id
    ConcurrencyOf,      \* requirements.maximum_concurrency, 0 when None
    BytesOf,            \* requirements.estimated_retained_bytes or 0
    Workers,            \* the backend's worker threads
    ReserveInteractive, \* policy.reserve_interactive_worker
    ResourceLimit,      \* policy.resource_limit of the resource's kind
    MaxAccepted,        \* policy.max_accepted
    MaxRetainedBytes    \* policy.max_retained_bytes

ASSUME RequirementsAssumption ==
    /\ NoKey \notin Keys
    /\ ScopeOf \in [Tasks -> Scopes]
    /\ KeyOf \in [Tasks -> Keys \cup {NoKey}]
    /\ ResourceOf \in [Tasks -> Resources]
    /\ ConcurrencyOf \in [Tasks -> Nat]
    /\ BytesOf \in [Tasks -> Nat]
    /\ Interactive \subseteq Tasks
    /\ AdoptionHeld \subseteq Tasks
    /\ \A t \in AdoptionHeld : KeyOf[t] # NoKey   \* __post_init__

\* Validated by DefaultExecutionPolicy.__post_init__.
ASSUME PolicyAssumption ==
    /\ IsFiniteSet(Tasks) /\ IsFiniteSet(Workers) /\ Workers # {}
    /\ MaxAccepted \in Nat \ {0}
    /\ MaxRetainedBytes \in Nat \ {0}
    /\ ResourceLimit \in [Resources -> Nat \ {0}]
    /\ ReserveInteractive \in BOOLEAN

MaxWorkers == Cardinality(Workers)

\* Tasks that hold their exclusive key until the outcome is settled, and
\* those that hold it only while a worker runs them.
HoldsThroughAdoption == AdoptionHeld
HoldsWhileWorking == {t \in Tasks \ AdoptionHeld : KeyOf[t] # NoKey}

NoninteractiveWorkerLimit ==
    IF ReserveInteractive /\ MaxWorkers > 1 THEN MaxWorkers - 1 ELSE MaxWorkers

\* min(policy.resource_limit(...), maximum_concurrency or max_workers)
ConcurrencyLimit(t) ==
    LET own == IF ConcurrencyOf[t] = 0 THEN MaxWorkers ELSE ConcurrencyOf[t]
    IN  IF own < ResourceLimit[ResourceOf[t]]
        THEN own ELSE ResourceLimit[ResourceOf[t]]

RetainedBytes(S) == MapThenSumSet(LAMBDA t : BytesOf[t], S)

=============================================================================
