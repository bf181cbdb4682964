---------------------------- MODULE TaskContract ----------------------------
(***************************************************************************)
(* What the execution SDK promises the owner of a task                     *)
(* (docs/integration-sdk.md, and the contract tests under                  *)
(* tests/execution/contract): a submitted task is refused or accepted; an  *)
(* accepted one keeps one of a bounded number of places until it has       *)
(* exactly one outcome; its result is adopted at most once, and never      *)
(* after a cancellation was granted.  ExecutionRuntime implements it.      *)
(***************************************************************************)
EXTENDS Integers, FiniteSets

CONSTANTS Tasks, MaxAccepted

VARIABLES
    status,    \* what the owner of the task can observe
    doomed,    \* tasks whose cancellation was granted
    adopted,   \* tasks whose adoption has begun
    retained   \* tasks that occupy a place

contractVars == <<status, doomed, adopted, retained>>

Outcomes == {"succeeded", "failed", "cancelled"}

ContractInit ==
    /\ status = [t \in Tasks |-> "new"]
    /\ doomed = {}
    /\ adopted = {}
    /\ retained = {}

Open(t) ==
    /\ status[t] = "new"
    /\ status' = [status EXCEPT ![t] = "open"]
    /\ UNCHANGED <<doomed, adopted, retained>>

\* A refused task was never accepted.
TurnAway(t) ==
    /\ status[t] \in {"new", "open"} /\ t \notin retained
    /\ status' = [status EXCEPT ![t] = "refused"]
    /\ UNCHANGED <<doomed, adopted, retained>>

Accept(t) ==
    /\ status[t] = "open" /\ t \notin retained
    /\ Cardinality(retained) < MaxAccepted
    /\ retained' = retained \cup {t}
    /\ UNCHANGED <<status, doomed, adopted>>

Doom(t) ==
    /\ status[t] \in {"open", "refused"} /\ t \notin adopted
    /\ doomed' = doomed \cup {t}
    /\ UNCHANGED <<status, adopted, retained>>

BeginAdopting(t) ==
    /\ status[t] = "open" /\ t \in retained /\ t \notin doomed \cup adopted
    /\ adopted' = adopted \cup {t}
    /\ UNCHANGED <<status, doomed, retained>>

End(t, outcome) ==
    /\ status[t] = "open" /\ t \in retained
    /\ outcome = "succeeded" => t \in adopted
    /\ outcome = "cancelled" => t \notin adopted
    /\ status' = [status EXCEPT ![t] = outcome]
    /\ UNCHANGED <<doomed, adopted, retained>>

Release(t) ==
    /\ status[t] \in Outcomes /\ t \in retained
    /\ retained' = retained \ {t}
    /\ UNCHANGED <<status, doomed, adopted>>

Conclude(t) == Release(t) \/ \E outcome \in Outcomes : End(t, outcome)

ContractNext ==
    \E t \in Tasks :
        Open(t) \/ TurnAway(t) \/ Accept(t) \/ Doom(t)
        \/ BeginAdopting(t) \/ Conclude(t)

\* An accepted task is brought to its outcome and its place is freed.
ContractSpec ==
    /\ ContractInit /\ [][ContractNext]_contractVars
    /\ \A t \in Tasks : WF_contractVars(Conclude(t))

=============================================================================
