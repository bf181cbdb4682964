--------------------------- MODULE DefaultBackend ---------------------------
(***************************************************************************)
(* The scheduler state of execution/default_backend.py.  Every operator is *)
(* one critical section of the backend's Condition; "idleWorkers" are the  *)
(* threads parked in its wait().                                           *)
(***************************************************************************)
EXTENDS ExecutionModel

VARIABLES
    pending,        \* _pending, the jobs no worker has taken
    accepted,       \* the keys of _accepted_bytes
    running,        \* the keys of _running
    exclusive,      \* _active_exclusive
    backendClosed,  \* _closed
    idleWorkers     \* workers waiting on _condition

backendVars ==
    <<pending, accepted, running, exclusive, backendClosed, idleWorkers>>

BackendTypeOK ==
    /\ pending \subseteq Tasks
    /\ accepted \subseteq Tasks
    /\ running \subseteq Tasks
    /\ exclusive \subseteq Keys
    /\ backendClosed \in BOOLEAN
    /\ idleWorkers \subseteq Workers

BackendInit ==
    /\ pending = {}
    /\ accepted = {}
    /\ running = {}
    /\ exclusive = {}
    /\ backendClosed = FALSE
    /\ idleWorkers = {}

NotifyAll == idleWorkers' = {}
NotifyOne ==
    IF idleWorkers = {}
    THEN UNCHANGED idleWorkers
    ELSE \E w \in idleWorkers : idleWorkers' = idleWorkers \ {w}

\* Variant: the limit is compared with > where >= is meant.
AdmitsOneTooMany(t) ==
    /\ ~backendClosed
    /\ Cardinality(accepted) <= MaxAccepted
    /\ RetainedBytes(accepted) + BytesOf[t] <= MaxRetainedBytes + 1

Admits(t) ==
    /\ ~backendClosed
    /\ Cardinality(accepted) < MaxAccepted
    /\ RetainedBytes(accepted) + BytesOf[t] <= MaxRetainedBytes

\* submit, when it accepts.
AcceptJob(t) ==
    /\ pending' = pending \cup {t}
    /\ accepted' = accepted \cup {t}
    /\ NotifyOne
    /\ UNCHANGED <<running, exclusive, backendClosed>>

\* The key guard is separate because only it protects an adoption-held lease.
KeyIsFree(t) == KeyOf[t] \notin exclusive

\* Variant: the resource is compared with its limit one task too late.
EligibleOneTooMany(t) ==
    /\ t \in Interactive \/
         Cardinality(running \ Interactive) < NoninteractiveWorkerLimit
    /\ KeyIsFree(t)
    /\ Cardinality({u \in running : ResourceOf[u] = ResourceOf[t]})
         <= ConcurrencyLimit(t)

Eligible(t) ==
    /\ t \in Interactive \/
         Cardinality(running \ Interactive) < NoninteractiveWorkerLimit
    /\ KeyIsFree(t)
    /\ Cardinality({u \in running : ResourceOf[u] = ResourceOf[t]})
         < ConcurrencyLimit(t)

\* Variant: None is reserved like a key.
StartJobReservingNone(t) ==
    /\ pending' = pending \ {t}
    /\ running' = running \cup {t}
    /\ exclusive' = exclusive \cup {KeyOf[t]}
    /\ UNCHANGED <<accepted, backendClosed, idleWorkers>>

\* _take_next_locked removes the job and _mark_running_locked reserves its
\* capacity under the same lock.
StartJob(t) ==
    /\ pending' = pending \ {t}
    /\ running' = running \cup {t}
    /\ exclusive' = exclusive \cup ({KeyOf[t]} \cap Keys)
    /\ UNCHANGED <<accepted, backendClosed, idleWorkers>>

WaitForWork(w) ==
    /\ idleWorkers' = idleWorkers \cup {w}
    /\ UNCHANGED <<pending, accepted, running, exclusive, backendClosed>>

\* Variant: every lease ends with the work.
FinishReleasingAll(t) ==
    /\ running' = running \ {t}
    /\ exclusive' = exclusive \ {KeyOf[t]}
    /\ NotifyAll
    /\ UNCHANGED <<pending, accepted, backendClosed>>

\* _finish_running: a lease held through adoption stays.
FinishRunning(t) ==
    /\ running' = running \ {t}
    /\ exclusive' = IF t \in HoldsWhileWorking
                    THEN exclusive \ {KeyOf[t]} ELSE exclusive
    /\ NotifyAll
    /\ UNCHANGED <<pending, accepted, backendClosed>>

\* Variant: the entry is found but stays queued.
LeavePending(t) ==
    /\ NotifyAll
    /\ UNCHANGED <<pending, accepted, running, exclusive, backendClosed>>

\* The locked part of _cancel_pending when the job is still queued.
RemovePending(t) ==
    /\ pending' = pending \ {t}
    /\ NotifyAll
    /\ UNCHANGED <<accepted, running, exclusive, backendClosed>>

ReleaseAccepted(t) ==
    /\ accepted' = accepted \ {t}
    /\ idleWorkers' = IF t \in accepted THEN {} ELSE idleWorkers
    /\ UNCHANGED <<pending, running, exclusive, backendClosed>>

\* Variant: nobody is notified that the key is free.
ReleaseSilently(t) ==
    /\ exclusive' = exclusive \ {KeyOf[t]}
    /\ UNCHANGED <<pending, accepted, running, backendClosed, idleWorkers>>

ReleaseExclusive(t) ==
    /\ exclusive' = exclusive \ {KeyOf[t]}
    /\ NotifyAll
    /\ UNCHANGED <<pending, accepted, running, backendClosed>>

\* Variants: the queue keeps what shutdown is about to revoke; parked workers
\* are not woken to leave.
CloseKeepingQueue ==
    /\ backendClosed' = TRUE
    /\ NotifyAll
    /\ UNCHANGED <<pending, accepted, running, exclusive>>
CloseSilently ==
    /\ backendClosed' = TRUE
    /\ pending' = {}
    /\ UNCHANGED <<accepted, running, exclusive, idleWorkers>>

\* The locked part of shutdown.
CloseQueue ==
    /\ backendClosed' = TRUE
    /\ pending' = {}
    /\ NotifyAll
    /\ UNCHANGED <<accepted, running, exclusive>>

=============================================================================
