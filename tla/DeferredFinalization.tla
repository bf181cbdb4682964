------------------------ MODULE DeferredFinalization ------------------------
(***************************************************************************)
(* Finalization scopes: how execution/runtime.py keeps a finalizer that    *)
(* the backend had no room for, and admits it when a settled task gives    *)
(* its slot back.  The drain runs inside the settlement of whichever       *)
(* thread settled a task, so it races with other settlements, with         *)
(* submissions and with cancellation.                                      *)
(*                                                                         *)
(* Workers and locks are as in ExecutionRuntime.  Abstracted here: leases  *)
(* and byte limits (a slot stands for both), wakeups (a worker takes any   *)
(* queued job), and the owner's queue (the scope has an InlineDispatcher,  *)
(* so the worker settles what it ran).  The backend is a supplied one that *)
(* the runtime does not shut down, so the only rejection is saturation.    *)
(* Each thread's pc[th] names the critical section it enters next.         *)
(***************************************************************************)
EXTENDS Integers, FiniteSets, Sequences, SequencesExt

CONSTANTS
    Tasks,
    Finalizers,   \* tasks submitted through a finalization scope
    Workers, Clients,
    NoThread, NoTask,
    MaxAccepted,  \* policy.max_accepted
    Calls         \* the calls client threads may make, a bound of the runs

ASSUME DeferralAssumption ==
    /\ Finalizers \subseteq Tasks
    /\ Workers \cap Clients = {} /\ NoThread \notin Workers \cup Clients
    /\ NoTask \notin Tasks
    /\ MaxAccepted \in Nat \ {0}
    /\ Calls \subseteq {"submit", "cancel", "shutdown"}

VARIABLES
    state,          \* handle._state; "refused" when submit raised
    cancelled,      \* handles whose token is cancelled
    submission,     \* handle._submission
    jobSettled,     \* handles whose bound job is settled
    hooks,          \* settled callbacks registered on the bound job
    deferred,       \* _deferred_finalizations, in insertion order
    drainer,        \* the thread that set _draining_finalizations
    runtimeClosed,
    queue, accepted,
    job,            \* the task whose job a worker runs
    pc, cur, after, fate, todo

handleVars == <<state, cancelled, submission, jobSettled, hooks>>
runtimeVars == <<deferred, drainer, runtimeClosed>>
backendVars == <<queue, accepted, job>>
threadVars == <<pc, cur, after, fate, todo>>
vars == <<handleVars, runtimeVars, backendVars, threadVars>>

Threads == Workers \cup Clients
Terminal == {"succeeded", "failed", "cancelled"}
Places == {"idle", "rebind", "offer", "refuse", "defer", "bindDeferred", "bind",
           "hook", "withdraw", "unqueue", "cancelling", "settle",
           "slot", "drain", "peek", "pop", "stop",
           "take", "execute", "work", "finish", "stuck"}

TypeOK ==
    /\ state \in [Tasks -> {"absent", "refused", "pending", "running"} \cup Terminal]
    /\ cancelled \subseteq Tasks
    /\ submission \in [Tasks -> {"none", "deferred", "backend"}]
    /\ jobSettled \subseteq Tasks
    /\ hooks \in [Tasks -> SUBSET {"slot", "drain"}]
    /\ deferred \in Seq(Finalizers)
    /\ drainer \in Threads \cup {NoThread}
    /\ runtimeClosed \in BOOLEAN
    /\ queue \subseteq Tasks /\ accepted \subseteq Tasks
    /\ job \in [Workers -> Tasks \cup {NoTask}]
    /\ pc \in [Threads -> Places]
    /\ cur \in [Threads -> Tasks \cup {NoTask}]
    /\ after \in [Threads -> {"cancelling", "hook", "finish"}]
    /\ fate \in [Threads -> Terminal]
    /\ todo \in [Threads -> SUBSET Tasks]

Init ==
    /\ state = [t \in Tasks |-> "absent"]
    /\ cancelled = {}
    /\ submission = [t \in Tasks |-> "none"]
    /\ jobSettled = {}
    /\ hooks = [t \in Tasks |-> {}]
    /\ deferred = <<>> /\ drainer = NoThread /\ runtimeClosed = FALSE
    /\ queue = {} /\ accepted = {} /\ job = [w \in Workers |-> NoTask]
    /\ pc = [th \in Threads |-> IF th \in Workers THEN "take" ELSE "idle"]
    /\ cur = [th \in Threads |-> NoTask]
    /\ after = [th \in Threads |-> "finish"]
    /\ fate = [th \in Threads |-> "cancelled"]
    /\ todo = [th \in Threads |-> {}]

-----------------------------------------------------------------------------

At(th, place) == pc[th] = place

Goto(th, place) ==
    /\ pc' = [pc EXCEPT ![th] = place]
    /\ UNCHANGED <<cur, after, fate, todo>>

\* A thread comes to rest and forgets what it worked on.
Return(th, place) ==
    /\ pc' = [pc EXCEPT ![th] = place]
    /\ cur' = [cur EXCEPT ![th] = NoTask]
    /\ after' = [after EXCEPT ![th] = "finish"]
    /\ fate' = [fate EXCEPT ![th] = "cancelled"]
    /\ UNCHANGED todo

\* Where the settlement of its own task returns to.
Outer(th) == IF th \in Workers THEN "finish" ELSE "cancelling"

SettleAs(th, outcome, place) ==
    /\ pc' = [pc EXCEPT ![th] = "settle"]
    /\ fate' = [fate EXCEPT ![th] = outcome]
    /\ after' = [after EXCEPT ![th] = place]
    /\ UNCHANGED <<cur, todo>>

\* A backend that called back into itself under its own lock never lets
\* another thread in again.
LockFree == \A th \in Threads : pc[th] # "stuck"

-----------------------------------------------------------------------------
(* ExecutionRuntime._submit, _admit and _defer_finalization.               *)

Submit(c, t) ==
    /\ At(c, "idle") /\ state[t] = "absent"
    /\ state' = [state EXCEPT ![t] = IF runtimeClosed THEN "refused" ELSE "pending"]
    /\ pc' = [pc EXCEPT ![c] = IF runtimeClosed THEN "idle" ELSE "rebind"]
    /\ cur' = [cur EXCEPT ![c] = IF runtimeClosed THEN NoTask ELSE t]
    /\ UNCHANGED <<cancelled, submission, jobSettled, hooks, runtimeVars,
                   backendVars, after, fate, todo>>

\* _admit makes a fresh job for every attempt and binds it to the handle.
Rebind(th) ==
    /\ At(th, "rebind")
    /\ jobSettled' = jobSettled \ {cur[th]}
    /\ hooks' = [hooks EXCEPT ![cur[th]] = {}]
    /\ Goto(th, "offer")
    /\ UNCHANGED <<state, cancelled, submission, runtimeVars, backendVars>>

\* DefaultExecutionBackend.submit: it registers the job's first settled
\* callback while it holds its lock; a settled job runs it at once, and
\* _release_accepted waits for that same lock.
OfferTaken(th) ==
    LET t == cur[th] IN
    /\ At(th, "offer") /\ LockFree
    /\ Cardinality(accepted) < MaxAccepted
    /\ queue' = queue \cup {t}
    /\ accepted' = accepted \cup {t}
    /\ IF t \in jobSettled
       THEN Goto(th, "stuck") /\ UNCHANGED hooks
       ELSE Goto(th, "bind") /\ hooks' = [hooks EXCEPT ![t] = @ \cup {"slot"}]
    /\ UNCHANGED <<state, cancelled, submission, jobSettled, runtimeVars, job>>

\* Variant: every saturated task is deferred, of a finalization scope or not.
RejectedDeferringAll(th) ==
    /\ At(th, "offer") /\ LockFree
    /\ Cardinality(accepted) >= MaxAccepted
    /\ Goto(th, IF drainer = th THEN "stop" ELSE "defer")
    /\ UNCHANGED <<handleVars, runtimeVars, backendVars>>

\* Saturation ends a drain, defers a finalizer and refuses any other task.
OfferRejected(th) ==
    /\ At(th, "offer") /\ LockFree
    /\ Cardinality(accepted) >= MaxAccepted
    /\ Goto(th, IF drainer = th THEN "stop"
                ELSE IF cur[th] \in Finalizers THEN "defer" ELSE "refuse")
    /\ UNCHANGED <<handleVars, runtimeVars, backendVars>>

Refuse(c) ==
    /\ At(c, "refuse")
    /\ state' = [state EXCEPT ![cur[c]] = "refused"]
    /\ Return(c, "idle")
    /\ UNCHANGED <<cancelled, submission, jobSettled, hooks, runtimeVars, backendVars>>

\* Variant: the newest finalizer goes to the front.
DeferInFront(c) ==
    /\ At(c, "defer")
    /\ IF runtimeClosed
       THEN Goto(c, "refuse") /\ UNCHANGED deferred
       ELSE Goto(c, "bindDeferred") /\ deferred' = <<cur[c]>> \o deferred
    /\ UNCHANGED <<handleVars, backendVars, drainer, runtimeClosed>>

Defer(c) ==
    /\ At(c, "defer")
    /\ IF runtimeClosed
       THEN Goto(c, "refuse") /\ UNCHANGED deferred
       ELSE Goto(c, "bindDeferred") /\ deferred' = Append(deferred, cur[c])
    /\ UNCHANGED <<handleVars, backendVars, drainer, runtimeClosed>>

BindDeferred(c) ==
    /\ At(c, "bindDeferred")
    /\ submission' = [submission EXCEPT ![cur[c]] = "deferred"]
    /\ IF cur[c] \in cancelled
       THEN /\ pc' = [pc EXCEPT ![c] = "withdraw"]
            /\ after' = [after EXCEPT ![c] = "cancelling"]
            /\ UNCHANGED <<cur, fate, todo>>
       ELSE Return(c, "idle")
    /\ UNCHANGED <<state, cancelled, jobSettled, hooks, runtimeVars, backendVars>>

Bind(th) ==
    /\ At(th, "bind")
    /\ submission' = [submission EXCEPT ![cur[th]] = "backend"]
    /\ pc' = [pc EXCEPT ![th] = IF cur[th] \in cancelled THEN "unqueue" ELSE "hook"]
    /\ after' = [after EXCEPT ![th] = "hook"]
    /\ UNCHANGED <<state, cancelled, jobSettled, hooks, runtimeVars, backendVars,
                   cur, fate, todo>>

\* The last line of _admit: a settled job drains at once.
Hook(th) ==
    LET t == cur[th] IN
    /\ At(th, "hook")
    /\ IF t \in jobSettled
       THEN UNCHANGED hooks /\ Goto(th, IF drainer = th THEN "pop" ELSE "drain")
       ELSE /\ hooks' = [hooks EXCEPT ![t] = @ \cup {"drain"}]
            /\ IF drainer = th THEN Goto(th, "pop") ELSE Return(th, "idle")
    /\ UNCHANGED <<state, cancelled, submission, jobSettled, runtimeVars, backendVars>>

-----------------------------------------------------------------------------
(* ExecutionRuntime._drain_deferred_finalizations.                         *)

\* Variant: the drain does not ask whether another thread drains.
DrainTogether(th) ==
    /\ At(th, "drain")
    /\ IF runtimeClosed
       THEN Return(th, Outer(th)) /\ UNCHANGED drainer
       ELSE drainer' = th /\ Goto(th, "peek")
    /\ UNCHANGED <<handleVars, backendVars, deferred, runtimeClosed>>

Drain(th) ==
    /\ At(th, "drain")
    /\ IF runtimeClosed \/ drainer # NoThread
       THEN Return(th, Outer(th)) /\ UNCHANGED drainer
       ELSE drainer' = th /\ Goto(th, "peek")
    /\ UNCHANGED <<handleVars, backendVars, deferred, runtimeClosed>>

\* The first retained finalizer; what the thread settled before is done.
Peek(th) ==
    /\ At(th, "peek")
    /\ IF deferred = <<>>
       THEN Goto(th, "stop")
       ELSE /\ pc' = [pc EXCEPT ![th] = "rebind"]
            /\ cur' = [cur EXCEPT ![th] = Head(deferred)]
            /\ UNCHANGED <<after, fate, todo>>
    /\ UNCHANGED <<handleVars, runtimeVars, backendVars>>

Pop(th) ==
    /\ At(th, "pop")
    /\ deferred' = RemoveFirst(deferred, cur[th])
    /\ Goto(th, "peek")
    /\ UNCHANGED <<handleVars, backendVars, drainer, runtimeClosed>>

Stop(th) ==
    /\ At(th, "stop")
    /\ drainer' = NoThread
    /\ Return(th, Outer(th))
    /\ UNCHANGED <<handleVars, backendVars, deferred, runtimeClosed>>

-----------------------------------------------------------------------------
(* ExecutionHandle.cancel and the closing of every scope by shutdown.      *)

Cancel(c, t) ==
    /\ At(c, "idle") /\ submission[t] # "none" /\ state[t] \notin Terminal
    /\ todo' = [todo EXCEPT ![c] = {t}]
    /\ pc' = [pc EXCEPT ![c] = "cancelling"]
    /\ UNCHANGED <<handleVars, runtimeVars, backendVars, cur, after, fate>>

Shutdown(c) ==
    /\ At(c, "idle") /\ ~runtimeClosed
    /\ runtimeClosed' = TRUE
    /\ todo' = [todo EXCEPT ![c] = {t \in Tasks : state[t] \in {"pending", "running"}}]
    /\ pc' = [pc EXCEPT ![c] = "cancelling"]
    /\ UNCHANGED <<handleVars, backendVars, deferred, drainer, cur, after, fate>>

\* The locked part of cancel reads which submission to cancel afterwards.
CancelOne(c, t) ==
    /\ At(c, "cancelling") /\ t \in todo[c]
    /\ todo' = [todo EXCEPT ![c] = @ \ {t}]
    /\ IF state[t] \in Terminal
       THEN UNCHANGED <<cancelled, pc, cur, after, fate>>
       ELSE /\ cancelled' = cancelled \cup {t}
            /\ IF submission[t] = "none"
               THEN UNCHANGED <<pc, cur, after, fate>>
               ELSE /\ pc' = [pc EXCEPT ![c] = IF submission[t] = "deferred"
                                               THEN "withdraw" ELSE "unqueue"]
                    /\ cur' = [cur EXCEPT ![c] = t]
                    /\ after' = [after EXCEPT ![c] = "cancelling"]
                    /\ fate' = [fate EXCEPT ![c] = "cancelled"]
    /\ UNCHANGED <<state, submission, jobSettled, hooks, runtimeVars, backendVars>>

CancelDone(c) ==
    /\ At(c, "cancelling") /\ todo[c] = {}
    /\ Return(c, "idle")
    /\ UNCHANGED <<handleVars, runtimeVars, backendVars>>

\* _cancel_deferred_finalization, then the handle's _cancel_before_start: it
\* does not ask the job whether a worker has entered it.
Withdraw(th) ==
    LET t == cur[th] IN
    /\ At(th, "withdraw")
    /\ IF \E i \in DOMAIN deferred : deferred[i] = t
       THEN /\ deferred' = RemoveFirst(deferred, t)
            /\ cancelled' = cancelled \cup {t}
            /\ SettleAs(th, "cancelled", after[th])
       ELSE Return(th, after[th]) /\ UNCHANGED <<deferred, cancelled>>
    /\ UNCHANGED <<state, submission, jobSettled, hooks, backendVars,
                   drainer, runtimeClosed>>

\* The backend's _cancel_pending with ExecutionJob.cancel_before_start.
Unqueue(th) ==
    LET t == cur[th] IN
    /\ At(th, "unqueue") /\ LockFree
    /\ IF t \in queue
       THEN queue' = queue \ {t} /\ SettleAs(th, "cancelled", after[th])
       ELSE /\ IF after[th] = "hook" THEN Goto(th, "hook") ELSE Return(th, after[th])
            /\ UNCHANGED queue
    /\ UNCHANGED <<handleVars, runtimeVars, accepted, job>>

-----------------------------------------------------------------------------
(* ExecutionHandle._settle: the outcome and ExecutionJob._mark_settled,    *)
(* then the settled callbacks registered on the job bound at that time.    *)

Settle(th) ==
    LET t == cur[th] IN
    /\ At(th, "settle")
    /\ IF state[t] \in Terminal
       THEN /\ IF after[th] = "hook" THEN Goto(th, "hook") ELSE Return(th, after[th])
            /\ UNCHANGED <<state, jobSettled>>
       ELSE /\ state' = [state EXCEPT ![t] = fate[th]]
            /\ jobSettled' = jobSettled \cup {t}
            /\ IF "slot" \in hooks[t] THEN Goto(th, "slot")
               ELSE IF after[th] = "hook" THEN Goto(th, "hook")
               ELSE Return(th, after[th])
    /\ UNCHANGED <<cancelled, submission, hooks, runtimeVars, backendVars>>

FreeSlot(th) ==
    LET t == cur[th] IN
    /\ At(th, "slot") /\ LockFree
    /\ accepted' = accepted \ {t}
    /\ IF "drain" \in hooks[t] THEN Goto(th, "drain")
       ELSE IF after[th] = "hook" THEN Goto(th, "hook")
       ELSE Return(th, after[th])
    /\ UNCHANGED <<handleVars, runtimeVars, queue, job>>

-----------------------------------------------------------------------------
(* The workers.                                                            *)

Take(w, t) ==
    /\ At(w, "take") /\ LockFree /\ t \in queue
    /\ queue' = queue \ {t}
    /\ job' = [job EXCEPT ![w] = t]
    /\ cur' = [cur EXCEPT ![w] = t]
    /\ pc' = [pc EXCEPT ![w] = "execute"]
    /\ UNCHANGED <<handleVars, runtimeVars, accepted, after, fate, todo>>

Execute(w) ==
    LET t == cur[w] IN
    /\ At(w, "execute")
    /\ CASE state[t] # "pending" -> Return(w, "finish") /\ UNCHANGED state
         [] state[t] = "pending" /\ t \in cancelled ->
              SettleAs(w, "cancelled", "finish") /\ UNCHANGED state
         [] OTHER -> state' = [state EXCEPT ![t] = "running"] /\ Goto(w, "work")
    /\ UNCHANGED <<cancelled, submission, jobSettled, hooks, runtimeVars, backendVars>>

Work(w) ==
    /\ At(w, "work")
    /\ \E outcome \in {"succeeded", "failed"} :
         SettleAs(w, IF cur[w] \in cancelled THEN "cancelled" ELSE outcome, "finish")
    /\ UNCHANGED <<handleVars, runtimeVars, backendVars>>

Finish(w) ==
    /\ At(w, "finish") /\ LockFree
    /\ job' = [job EXCEPT ![w] = NoTask]
    /\ Return(w, "take")
    /\ UNCHANGED <<handleVars, runtimeVars, queue, accepted>>

-----------------------------------------------------------------------------

BeginClient(c) ==
    \/ "submit" \in Calls /\ \E t \in Tasks : Submit(c, t)
    \/ "cancel" \in Calls /\ \E t \in Tasks : Cancel(c, t)
    \/ "shutdown" \in Calls /\ Shutdown(c)

ContinueClient(c) ==
    \/ Refuse(c) \/ Defer(c) \/ BindDeferred(c)
    \/ (\E t \in Tasks : CancelOne(c, t)) \/ CancelDone(c)

ThreadStep(th) ==
    \/ Rebind(th) \/ OfferTaken(th) \/ OfferRejected(th) \/ Bind(th) \/ Hook(th)
    \/ Drain(th) \/ Peek(th) \/ Pop(th) \/ Stop(th)
    \/ Withdraw(th) \/ Unqueue(th) \/ Settle(th) \/ FreeSlot(th)

WorkerStep(w) ==
    \/ (\E t \in Tasks : Take(w, t)) \/ Execute(w) \/ Work(w) \/ Finish(w)

\* Threads at rest; or the backend blocks for good on its own lock.
AtRest ==
    /\ \A c \in Clients : At(c, "idle")
    /\ \A w \in Workers : At(w, "take")
    /\ queue = {}
Rest == (AtRest \/ ~LockFree) /\ UNCHANGED vars

Next ==
    \/ \E c \in Clients : BeginClient(c) \/ ContinueClient(c)
    \/ \E th \in Threads : ThreadStep(th)
    \/ \E w \in Workers : WorkerStep(w)
    \/ Rest

\* Threads are scheduled and work returns.
Fairness ==
    /\ \A c \in Clients : WF_vars(ContinueClient(c) \/ ThreadStep(c))
    /\ \A w \in Workers : WF_vars(WorkerStep(w) \/ ThreadStep(w))

Spec == Init /\ [][Next]_vars /\ Fairness

-----------------------------------------------------------------------------
(* What holds.                                                             *)

\* A finalizer is physically admitted at most once, whoever retries it: no two
\* workers run it, it is never queued while it runs, and once it has left the
\* retained list after an admission the drain never offers it again.
AdmittedOnce ==
    /\ \A w, v \in Workers : job[w] = job[v] /\ job[w] # NoTask => w = v
    /\ \A w \in Workers : job[w] \notin queue
    /\ \A th \in Threads :
         At(th, "offer") => cur[th] \notin queue \cup accepted

\* Retained finalizers are admitted in the order in which they were retained:
\* an accepted finalizer that was retained has no retained one before it.
AdmittedInOrder ==
    [][\A i \in DOMAIN deferred :
         deferred[i] \in accepted' /\ deferred[i] \notin accepted => i = 1]_vars

-----------------------------------------------------------------------------
(* What the documentation says, and the code does not do.                  *)

\* integration-sdk.md: temporary saturation leaves finalization pending until an
\* accepted task releases capacity.  So a retained finalizer does not stay
\* retained for ever once no accepted task is left.
CapacityReleasesFinalizer ==
    \A t \in Finalizers :
        (submission[t] = "deferred" /\ state[t] = "pending") ~>
            (submission[t] = "backend" \/ state[t] \in Terminal)

\* submit admits one job "without blocking": no thread blocks inside it.
SubmitNeverBlocks == LockFree

=============================================================================
