--------------------------- MODULE AffinityBackend ---------------------------
(***************************************************************************)
(* Native work with a thread of its own: execution/affinity_backend.py,    *)
(* with the parts of the handle, the job and the runtime's shutdown that   *)
(* drive it (execution/handle.py, backend.py, runtime.py).  Each affinity  *)
(* key has a lane: a FIFO queue and one stable worker thread, which takes  *)
(* the exclusive key before it runs a job and, for a lease held through    *)
(* adoption, waits for the owner to settle the result before it goes on.   *)
(* The lock of the backend and the lock of a lane are separate, and every  *)
(* operation below is one critical section of one of them.  The waits on   *)
(* the conditions are guards: each predicate is re-tested under the lock   *)
(* and every change that can make it true notifies.                        *)
(***************************************************************************)
EXTENDS Integers, FiniteSets, SequencesExt

CONSTANTS Tasks, Lanes, Keys, NoKey, NoTask, LaneOf, KeyOf, AdoptionHeld,
    MaxAccepted,  \* max_accepted
    Cancellable   \* bound: the tasks somebody may cancel

ASSUME BackendAssumption ==
    /\ NoTask \notin Tasks /\ NoKey \notin Keys
    /\ LaneOf \in [Tasks -> Lanes]
    /\ KeyOf \in [Tasks -> Keys \cup {NoKey}]
    /\ AdoptionHeld \subseteq {t \in Tasks : KeyOf[t] # NoKey}
    /\ MaxAccepted \in Nat \ {0}

VARIABLES
    offer,          \* where the submission of a task stands
    outcome,        \* the handle's state
    doomed,         \* tasks whose token is cancelled
    taskLanes,      \* _task_lanes: tasks that count as accepted
    backendClosed,  \* _closed of the backend
    opened,         \* lanes that exist
    queue,          \* per lane, _pending
    laneClosed,     \* lanes with _closed
    job,            \* the entry a lane's worker holds
    at,             \* where a lane's worker stands
    activeKeys,     \* _active_exclusive
    unrelease,      \* settled tasks whose settled callbacks have not run
    signalled,      \* jobs at their worker whose settled event is set
    withdrawing,    \* calls of submission.cancel that have not searched the lane
    removed,        \* entries taken out of a lane and not yet cancelled
    stop,           \* where the runtime's shutdown stands
    stopTasks,      \* tasks, then entries, it still has to cancel
    stopLanes       \* lanes it still has to close

taskVars == <<offer, outcome, doomed, withdrawing, removed>>
slotVars == <<taskLanes, unrelease, signalled>>
queueVars == <<opened, queue, laneClosed>>
workerVars == <<job, at, activeKeys>>
stopVars == <<backendClosed, stop, stopTasks, stopLanes>>
affinityVars == <<taskVars, slotVars, queueVars, workerVars, stopVars>>

AffinityTypeOK ==
    /\ offer \in [Tasks -> {"new", "registered", "accepted", "turnedAway", "queued",
                            "bound", "refused", "broken"}]
    /\ outcome \in [Tasks -> {"pending", "running", "delivering", "adopting", "settled"}]
    /\ queue \in [Lanes -> Seq(Tasks)]
    /\ job \in [Lanes -> Tasks \cup {NoTask}]
    /\ at \in [Lanes -> {"idle", "acquire", "run", "work", "await", "exited"}]
    /\ opened \subseteq Lanes /\ laneClosed \subseteq opened
    /\ activeKeys \subseteq Keys
    /\ taskLanes \subseteq Tasks /\ Cardinality(taskLanes) <= MaxAccepted
    /\ stop \in {"off", "cancel", "close", "revoke", "join", "returned"}
    /\ \A l \in Lanes : at[l] \in {"idle", "exited"} <=> job[l] = NoTask

AffinityInit ==
    /\ offer = [t \in Tasks |-> "new"]
    /\ outcome = [t \in Tasks |-> "pending"]
    /\ doomed = {} /\ withdrawing = {} /\ removed = {}
    /\ taskLanes = {} /\ unrelease = {} /\ signalled = {}
    /\ opened = {} /\ laneClosed = {}
    /\ queue = [l \in Lanes |-> <<>>]
    /\ job = [l \in Lanes |-> NoTask]
    /\ at = [l \in Lanes |-> "idle"]
    /\ activeKeys = {}
    /\ backendClosed = FALSE /\ stop = "off" /\ stopTasks = {} /\ stopLanes = {}

Offered(t, s) == offer' = [offer EXCEPT ![t] = s]

Settled(t) ==
    /\ outcome' = [outcome EXCEPT ![t] = "settled"]
    /\ unrelease' = unrelease \cup {t}

-----------------------------------------------------------------------------
\* Submission, on one thread, which need not be the one that shuts down.

MidSubmission == {t \in Tasks : offer[t] \in {"registered", "accepted", "turnedAway", "queued"}}

\* The scope tracks the handle, unless the runtime's shutdown closed it.
RegisterTask(t) ==
    /\ offer[t] = "new" /\ stop = "off" /\ MidSubmission = {}
    /\ Offered(t, "registered")
    /\ UNCHANGED <<outcome, doomed, withdrawing, removed, slotVars, queueVars,
                   workerVars, stopVars>>

\* Variant: the limit is tested too generously.
AcceptOneMore(t) ==
    /\ offer[t] = "registered"
    /\ IF backendClosed \/ Cardinality(taskLanes) > MaxAccepted
       THEN Offered(t, "refused") /\ UNCHANGED <<taskLanes, opened>>
       ELSE /\ Offered(t, "accepted")
            /\ opened' = opened \cup {LaneOf[t]}
            /\ taskLanes' = taskLanes \cup {t}
    /\ UNCHANGED <<outcome, doomed, withdrawing, removed, unrelease, signalled,
                   queue, laneClosed, workerVars, stopVars>>

\* The critical section of submit: the lane is created when it is missing.
AcceptTask(t) ==
    /\ offer[t] = "registered"
    /\ IF backendClosed \/ Cardinality(taskLanes) >= MaxAccepted
       THEN Offered(t, "refused") /\ UNCHANGED <<taskLanes, opened>>
       ELSE /\ Offered(t, "accepted")
            /\ opened' = opened \cup {LaneOf[t]}
            /\ taskLanes' = taskLanes \cup {t}
    /\ UNCHANGED <<outcome, doomed, withdrawing, removed, unrelease, signalled,
                   queue, laneClosed, workerVars, stopVars>>

\* _AffinityLane.submit, under the lock of the lane, which a shutdown may have
\* closed in between.
QueueTask(t) ==
    /\ offer[t] = "accepted"
    /\ IF LaneOf[t] \in laneClosed
       THEN Offered(t, "turnedAway") /\ UNCHANGED queue
       ELSE /\ Offered(t, "queued")
            /\ queue' = [queue EXCEPT ![LaneOf[t]] = Append(@, t)]
    /\ UNCHANGED <<outcome, doomed, withdrawing, removed, slotVars, opened, laneClosed,
                   workerVars, stopVars>>

\* Variant: a refused entry keeps its place among the accepted tasks.
KeepPlace(t) ==
    /\ offer[t] = "turnedAway" /\ Offered(t, "broken")
    /\ UNCHANGED <<outcome, doomed, withdrawing, removed, slotVars, queueVars,
                   workerVars, stopVars>>

\* Under the backend's lock the place of a refused entry is given back, and the
\* submitter gets a RuntimeError.
ReturnPlace(t) ==
    /\ offer[t] = "turnedAway" /\ Offered(t, "broken")
    /\ taskLanes' = taskLanes \ {t}
    /\ UNCHANGED <<outcome, doomed, withdrawing, removed, unrelease, signalled, queueVars,
                   workerVars, stopVars>>

\* _bind_submission: a cancellation that came first is passed on.
BindTask(t) ==
    /\ offer[t] = "queued"
    /\ Offered(t, "bound")
    /\ withdrawing' = withdrawing \cup ({t} \cap doomed)
    /\ UNCHANGED <<outcome, doomed, removed, slotVars, queueVars, workerVars, stopVars>>

-----------------------------------------------------------------------------
\* Cancellation, on any thread.

\* ExecutionHandle.cancel up to the call of submission.cancel.
Doom(t) ==
    /\ offer[t] \notin {"new", "refused", "broken"}
    /\ doomed' = doomed \cup {t}
    /\ IF outcome[t] = "delivering" THEN Settled(t) ELSE UNCHANGED <<outcome, unrelease>>
    /\ withdrawing' = withdrawing \cup (IF offer[t] = "bound" THEN {t} ELSE {})
    /\ UNCHANGED <<offer, removed, taskLanes, signalled, queueVars, workerVars>>

CancelTask(t) ==
    /\ t \in Cancellable
    /\ outcome[t] \notin {"adopting", "settled"} /\ t \notin doomed
    /\ Doom(t)
    /\ UNCHANGED stopVars

\* _cancel_pending: the lane is looked up and searched under its own lock.
WithdrawTask(t) ==
    /\ t \in withdrawing
    /\ withdrawing' = withdrawing \ {t}
    /\ LET l == LaneOf[t] IN
        IF t \in taskLanes /\ t \in Range(queue[l])
        THEN /\ queue' = [queue EXCEPT ![l] = RemoveFirst(@, t)]
             /\ removed' = removed \cup {t}
        ELSE UNCHANGED <<queue, removed>>
    /\ UNCHANGED <<offer, outcome, doomed, slotVars, opened, laneClosed, workerVars, stopVars>>

\* ExecutionJob.cancel_before_start of a removed entry.
RevokeRemoved(t) ==
    /\ t \in removed
    /\ removed' = removed \ {t}
    /\ Settled(t)
    /\ UNCHANGED <<offer, doomed, withdrawing, taskLanes, signalled, queueVars,
                   workerVars, stopVars>>

\* _mark_settled runs _release_task and, when registered, settled.set.  The
\* token of a settled task is not read any more, so it is forgotten.
RunSettledCallbacks(t) ==
    /\ t \in unrelease
    /\ unrelease' = unrelease \ {t}
    /\ taskLanes' = taskLanes \ {t}
    /\ signalled' = signalled \cup ({t} \cap AdoptionHeld \cap Range(job))
    /\ doomed' = doomed \ {t}
    /\ UNCHANGED <<offer, outcome, withdrawing, removed, queueVars, workerVars, stopVars>>

-----------------------------------------------------------------------------
\* The worker of a lane.

WorkerAt(l, s) == at' = [at EXCEPT ![l] = s]

TakeEntry(l) ==
    /\ at[l] = "idle" /\ queue[l] # <<>>
    /\ job' = [job EXCEPT ![l] = Head(queue[l])]
    /\ queue' = [queue EXCEPT ![l] = Tail(@)]
    /\ WorkerAt(l, IF KeyOf[Head(queue[l])] = NoKey THEN "run" ELSE "acquire")
    /\ UNCHANGED <<taskVars, slotVars, opened, laneClosed, activeKeys, stopVars>>

LaneExit(l) ==
    /\ at[l] = "idle" /\ queue[l] = <<>> /\ l \in laneClosed
    /\ WorkerAt(l, "exited")
    /\ UNCHANGED <<taskVars, slotVars, queueVars, job, activeKeys, stopVars>>

AcquireKey(l) ==
    /\ at[l] = "acquire" /\ KeyOf[job[l]] \notin activeKeys
    /\ activeKeys' = activeKeys \cup {KeyOf[job[l]]}
    /\ WorkerAt(l, "run")
    /\ UNCHANGED <<taskVars, slotVars, queueVars, job, stopVars>>

\* job.run: a cancelled task settles here, another starts its work.
RunEntry(l) ==
    LET t == job[l] IN
    /\ at[l] = "run"
    /\ IF t \in doomed
       THEN Settled(t) /\ WorkerAt(l, "await")
       ELSE /\ outcome' = [outcome EXCEPT ![t] = "running"]
            /\ WorkerAt(l, "work")
            /\ UNCHANGED unrelease
    /\ UNCHANGED <<offer, doomed, withdrawing, removed, taskLanes, signalled,
                   queueVars, job, activeKeys, stopVars>>

\* The work returns or raises.
WorkEnds(l) ==
    LET t == job[l] IN
    /\ at[l] = "work"
    /\ WorkerAt(l, "await")
    /\ \/ t \notin doomed /\ outcome' = [outcome EXCEPT ![t] = "delivering"]
          /\ UNCHANGED unrelease
       \/ Settled(t)
    /\ UNCHANGED <<offer, doomed, withdrawing, removed, taskLanes, signalled,
                   queueVars, job, activeKeys, stopVars>>

\* Variant: the lease is given up when the work is done.
ReleaseEarly(l) ==
    LET t == job[l] IN
    /\ at[l] = "await" /\ t \notin unrelease
    /\ activeKeys' = activeKeys \ {KeyOf[t]}
    /\ job' = [job EXCEPT ![l] = NoTask]
    /\ WorkerAt(l, "idle")
    /\ signalled' = signalled \ {t}
    /\ UNCHANGED <<taskVars, taskLanes, unrelease, queueVars, stopVars>>

\* The end of _run_entry.  A worker that settled the task itself comes here
\* only after the settled callbacks.
ReleaseKey(l) ==
    LET t == job[l] IN
    /\ at[l] = "await" /\ t \notin unrelease
    /\ t \in AdoptionHeld => t \in signalled
    /\ activeKeys' = activeKeys \ {KeyOf[t]}
    /\ job' = [job EXCEPT ![l] = NoTask]
    /\ WorkerAt(l, "idle")
    /\ signalled' = signalled \ {t}
    /\ UNCHANGED <<taskVars, taskLanes, unrelease, queueVars, stopVars>>

Worker(l) ==
    TakeEntry(l) \/ LaneExit(l) \/ AcquireKey(l) \/ RunEntry(l) \/ WorkEnds(l) \/ ReleaseKey(l)

-----------------------------------------------------------------------------
\* The owner's event loop, which a shutdown blocks until it returns.

BeginAdoption(t) ==
    /\ outcome[t] = "delivering" /\ stop \in {"off", "returned"}
    /\ \A u \in Tasks : outcome[u] # "adopting"
    /\ outcome' = [outcome EXCEPT ![t] = "adopting"]
    /\ UNCHANGED <<offer, doomed, withdrawing, removed, slotVars, queueVars,
                   workerVars, stopVars>>

EndAdoption(t) ==
    /\ outcome[t] = "adopting"
    /\ Settled(t)
    /\ UNCHANGED <<offer, doomed, withdrawing, removed, taskLanes, signalled,
                   queueVars, workerVars, stopVars>>

\* ExecutionRuntime.shutdown closes the scopes, which cancels their handles.
ShutDown ==
    /\ stop = "off" /\ \A t \in Tasks : outcome[t] # "adopting"
    /\ stop' = "cancel"
    /\ stopTasks' = {t \in Tasks : offer[t] \notin {"new", "refused", "broken"}
                                   /\ outcome[t] # "settled"}
    /\ UNCHANGED <<taskVars, slotVars, queueVars, workerVars, backendClosed, stopLanes>>

ShutdownCancels(t) ==
    /\ stop = "cancel" /\ t \in stopTasks
    /\ stopTasks' = stopTasks \ {t}
    /\ IF outcome[t] = "settled" \/ offer[t] \in {"refused", "broken"}
       THEN UNCHANGED <<taskVars, slotVars, queueVars, workerVars>>
       ELSE Doom(t)
    /\ UNCHANGED <<backendClosed, stop, stopLanes>>

\* Variant: the backend is shut down while results are still to be adopted.
CloseBackendFirst ==
    /\ stop = "cancel"
    /\ backendClosed' = TRUE
    /\ stop' = "close" /\ stopLanes' = opened /\ stopTasks' = {}
    /\ UNCHANGED <<taskVars, slotVars, queueVars, workerVars>>

\* AffinityExecutionBackend.shutdown, its first critical section.
CloseBackend ==
    /\ stop = "cancel" /\ stopTasks = {}
    /\ backendClosed' = TRUE
    /\ stop' = "close" /\ stopLanes' = opened
    /\ UNCHANGED <<taskVars, slotVars, queueVars, workerVars, stopTasks>>

\* _AffinityLane.shutdown
CloseLane(l) ==
    /\ stop = "close" /\ l \in stopLanes
    /\ stopLanes' = stopLanes \ {l}
    /\ laneClosed' = laneClosed \cup {l}
    /\ stopTasks' = stopTasks \cup Range(queue[l])
    /\ queue' = [queue EXCEPT ![l] = <<>>]
    /\ UNCHANGED <<taskVars, slotVars, opened, workerVars, backendClosed, stop>>

LanesClosed ==
    /\ stop = "close" /\ stopLanes = {}
    /\ stop' = "revoke"
    /\ UNCHANGED <<taskVars, slotVars, queueVars, workerVars, backendClosed, stopTasks, stopLanes>>

ShutdownRevokes(t) ==
    /\ stop = "revoke" /\ t \in stopTasks
    /\ stopTasks' = stopTasks \ {t}
    /\ doomed' = doomed \cup {t}
    /\ Settled(t)
    /\ UNCHANGED <<offer, withdrawing, removed, taskLanes, signalled, queueVars,
                   workerVars, backendClosed, stop, stopLanes>>

\* With wait=True the owner joins the lanes, the caller of viewer.py does.
Revoked ==
    /\ stop = "revoke" /\ stopTasks = {}
    /\ stop' \in {"join", "returned"}
    /\ UNCHANGED <<taskVars, slotVars, queueVars, workerVars, backendClosed, stopTasks, stopLanes>>

LanesJoined ==
    /\ stop = "join" /\ \A l \in opened : at[l] = "exited"
    /\ stop' = "returned"
    /\ UNCHANGED <<taskVars, slotVars, queueVars, workerVars, backendClosed, stopTasks, stopLanes>>

Stopping ==
    \/ \E t \in Tasks : ShutdownCancels(t) \/ ShutdownRevokes(t)
    \/ CloseBackend
    \/ \E l \in Lanes : CloseLane(l)
    \/ LanesClosed
    \/ Revoked
    \/ LanesJoined

Submitting(t) == AcceptTask(t) \/ QueueTask(t) \/ ReturnPlace(t) \/ BindTask(t)
Settling(t) == WithdrawTask(t) \/ RevokeRemoved(t) \/ RunSettledCallbacks(t)
Adopting(t) == BeginAdoption(t) \/ EndAdoption(t)

\* What threads that have something to do, work that returns and the owner's
\* event loop do; the rest is up to the callers.
AffinityThreads ==
    \/ \E t \in Tasks : Submitting(t) \/ Settling(t) \/ Adopting(t)
    \/ \E l \in Lanes : Worker(l)
    \/ Stopping

AffinityNext ==
    \/ \E t \in Tasks : RegisterTask(t) \/ CancelTask(t)
    \/ AffinityThreads
    \/ ShutDown

\* As long as any thread can go on, some thread does.  The tasks are finitely
\* many, so nothing stronger is needed.
AffinitySpec ==
    /\ AffinityInit /\ [][AffinityNext]_affinityVars
    /\ WF_affinityVars(AffinityThreads)

-----------------------------------------------------------------------------
InTurn(l) == at[l] \in {"run", "work", "await"}

\* The lanes keep their promise.
Lane == INSTANCE AffinityLane WITH
    waiting <- [l \in Lanes |->
        (IF at[l] = "acquire" THEN <<job[l]>> ELSE <<>>) \o queue[l]],
    turn <- [l \in Lanes |-> IF InTurn(l) THEN job[l] ELSE NoTask],
    ended <- {t \in Tasks : outcome[t] = "settled"}

LanesKeepTheirPromise == Lane!LaneSpec

\* Places and keys are given back whichever way a task ends: an accepted task
\* keeps its place exactly until its settled callbacks have run, and a key is
\* held exactly while the worker of some lane has taken it.
PlacesAndKeysAreExact ==
    /\ taskLanes = {t \in Tasks : offer[t] \in {"accepted", "turnedAway", "queued", "bound"}
                                  /\ (outcome[t] = "settled" => t \in unrelease)}
    /\ activeKeys = {KeyOf[job[l]] : l \in {m \in Lanes : InTurn(m)}} \ {NoKey}

\* A shutdown that waits for the lanes returns: no lane waits for an adoption
\* that the blocked owner would have to make.
ShutdownReturns == <>[](stop \in {"off", "returned"})

=============================================================================
