-------------------------- MODULE ExecutionHandle --------------------------
(***************************************************************************)
(* The public task handle and the job it shows to a backend:               *)
(* execution/handle.py, execution/cancellation.py and the ExecutionJob of  *)
(* execution/backend.py.  Every operator below is one critical section of  *)
(* the handle's lock or of the job's lock; ExecutionRuntime puts them in   *)
(* the order in which threads run them.                                    *)
(***************************************************************************)
EXTENDS ExecutionModel

VARIABLES
    state,      \* handle._state, "absent" before the handle is built
    cancelled,  \* handles whose CancellationToken is cancelled
    adopting,   \* handles with _adoption_started
    attached,   \* handles with _submission set
    activated,  \* jobs with _activated
    settled,    \* jobs with _settled
    leaseHooks  \* jobs whose lease-releasing settled callback has not run

handleVars ==
    <<state, cancelled, adopting, attached, activated, settled, leaseHooks>>

Terminal == {"succeeded", "failed", "cancelled"}
Live == {"pending", "running", "delivering"}
States == {"absent"} \cup Live \cup Terminal

HandleTypeOK ==
    /\ state \in [Tasks -> States]
    /\ cancelled \subseteq Tasks
    /\ adopting \subseteq Tasks
    /\ attached \subseteq Tasks
    /\ activated \subseteq Tasks
    /\ settled \subseteq Tasks
    /\ leaseHooks \subseteq Tasks

HandleInit ==
    /\ state = [t \in Tasks |-> "absent"]
    /\ cancelled = {}
    /\ adopting = {}
    /\ attached = {}
    /\ activated = {}
    /\ settled = {}
    /\ leaseHooks = {}

BecomesState(t, s) ==
    /\ state' = [state EXCEPT ![t] = s]
    /\ UNCHANGED <<cancelled, adopting, attached, activated, settled, leaseHooks>>

\* ExecutionHandle.__init__
CreateHandle(t) == BecomesState(t, "pending")

\* Variant: cancel looks at the outcome only.
RefusedWhenTerminal(t) == state[t] \in Terminal

\* cancel answers False once the outcome or the adoption is decided.
CancelRefused(t) == state[t] \in Terminal \/ t \in adopting

\* The locked part of cancel: only the token changes.
RequestCancel(t) ==
    /\ cancelled' = cancelled \cup {t}
    /\ UNCHANGED <<state, adopting, attached, activated, settled, leaseHooks>>

BindSubmission(t) ==
    /\ attached' = attached \cup {t}
    /\ UNCHANGED <<state, cancelled, adopting, activated, settled, leaseHooks>>

\* ExecutionJob.run: the job is activated at most once.
ActivateJob(t) ==
    /\ activated' = activated \cup {t}
    /\ UNCHANGED <<state, cancelled, adopting, attached, settled, leaseHooks>>

\* ExecutionJob.cancel_before_start, then ExecutionHandle._cancel_before_start
\* up to its settlement.
RevokeJob(t) ==
    /\ activated' = activated \cup {t}
    /\ cancelled' = cancelled \cup {t}
    /\ UNCHANGED <<state, adopting, attached, settled, leaseHooks>>

\* The first critical section of _execute when no cancellation was seen.
BeginWork(t) == BecomesState(t, "running")

\* The critical section after work returned when no cancellation was seen.
BeginDelivery(t) ==
    IF state[t] = "running" THEN BecomesState(t, "delivering")
                            ELSE UNCHANGED handleVars

\* The critical section of _adopt_result when no cancellation was seen.
BeginAdoption(t) ==
    /\ adopting' = adopting \cup {t}
    /\ UNCHANGED <<state, cancelled, attached, activated, settled, leaseHooks>>

\* The critical section of _settle: the single terminal transition.
PublishOutcome(t, outcome) == BecomesState(t, outcome)

\* ExecutionJob._mark_settled
MarkSettled(t) ==
    /\ settled' = settled \cup {t}
    /\ UNCHANGED <<state, cancelled, adopting, attached, activated, leaseHooks>>

\* Variant: the lease release is never registered.
ForgetLeaseHook(t) == UNCHANGED handleVars

\* ExecutionJob.add_settled_callback with a lease release, and its one run.
RegisterLeaseHook(t) ==
    /\ leaseHooks' = leaseHooks \cup ({t} \cap HoldsThroughAdoption)
    /\ UNCHANGED <<state, cancelled, adopting, attached, activated, settled>>
RunLeaseHook(t) ==
    /\ leaseHooks' = leaseHooks \ {t}
    /\ UNCHANGED <<state, cancelled, adopting, attached, activated, settled>>

=============================================================================
