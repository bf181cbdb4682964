------------------------- MODULE ExecutionRuntimeMC -------------------------
(* Instances of ExecutionRuntime for TLC. *)
EXTENDS ExecutionRuntime, TLC

CONSTANTS a, b, c, d, s1, s2, k, cpu, gpu, w1, w2, gui, other

\* Task a has a scope of its own, the others share one.
ScopeOfA == [t \in Tasks |-> IF t = a THEN s1 ELSE s2]
OneScope == [t \in Tasks |-> s1]

\* Every task needs the key k, or only a and b do.
AllNeedK == [t \in Tasks |-> k]
PairNeedsK == [t \in Tasks |-> IF t \in {a, b} THEN k ELSE NoKey]

OneResource == [t \in Tasks |-> cpu]
NoOwnLimit == [t \in Tasks |-> 0]
UnitBytes == [t \in Tasks |-> 1]
LimitTwo == [r \in Resources |-> 2]

\* Three tasks fit into the budget together, d exceeds it on its own: places
\* and bytes refuse what the other would admit.
Weights == [t \in Tasks |-> CASE t = d -> MaxRetainedBytes + 1
                              [] t = c -> 2
                              [] OTHER -> 1]

\* b and c contend for a single device, the others use the processor.
DeviceForBandC == [t \in Tasks |-> IF t \in {b, c} THEN gpu ELSE cpu]
SingleDevice == [r \in Resources |-> IF r = gpu THEN 1 ELSE 2]

OtherClosesAndCancels ==
    [th \in Clients |->
        IF th = gui THEN {"submit", "closeDispatcher"}
        ELSE {"submit", "cancelAll", "closeScope", "shutdown"}]
OtherCancels ==
    [th \in Clients |-> IF th = gui THEN {"submit"} ELSE {"cancel"}]
OwnerSubmitsOtherShutsDown ==
    [th \in Clients |->
        IF th = gui THEN {"submit", "closeDispatcher"} ELSE {"shutdown"}]

WorkerSymmetry == Permutations(Workers)
=============================================================================
