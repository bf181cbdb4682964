-------------------------- MODULE ExecutionRuntime --------------------------
(***************************************************************************)
(* The execution engine of qpane: scopes (execution/scope.py), the runtime *)
(* (execution/runtime.py), handles and jobs (ExecutionHandle), the worker  *)
(* pool (DefaultBackend) and the owner's dispatcher                        *)
(* (execution/qt_dispatch.py), run by worker threads, by the owner thread  *)
(* and by any other client threads.                                        *)
(*                                                                         *)
(* A step is one critical section of one lock.  Locks are never held       *)
(* across calls to another component, so a thread is a program counter     *)
(* pc[th], the task cur[th] it works on, the tasks todo[th] left in the    *)
(* loop it runs, the outcome fate[th] it is about to publish and the place *)
(* after[th] it returns to when it has.                                    *)
(*                                                                         *)
(* Scopes are flat, and none defers a saturated submission                 *)
(* (DeferredFinalization has those).                                       *)
(***************************************************************************)
EXTENDS ExecutionHandle, DefaultBackend

CONSTANTS
    Clients,   \* threads that submit, cancel, close and shut down
    Owner,     \* the thread of the dispatcher's receiver, one of Clients
    Calls,     \* the calls each client thread may make, a bound of the runs
    NoThread,
    NoTask

ASSUME ThreadAssumption ==
    /\ Owner \in Clients
    /\ Clients \cap Workers = {}
    /\ Calls \in [Clients -> SUBSET {"submit", "cancel", "cancelAll",
                    "closeScope", "shutdown", "closeDispatcher"}]
    /\ NoThread \notin Clients
    /\ NoTask \notin Tasks

VARIABLES
    scopeClosed,      \* scopes with _closed
    handles,          \* the union of the scopes' _handles
    rejected,         \* tasks whose submit raised ExecutionRejected
    runtimeClosed,    \* ExecutionRuntime._closed
    closer,           \* the thread inside ExecutionRuntime.shutdown
    mailbox,          \* adoptions queued on the dispatcher (_pending)
    dispatcherClosed, \* QtOwnerDispatcher._closed
    pc, cur, todo, fate, after

scopeVars == <<scopeClosed, handles, rejected, runtimeClosed, closer>>
dispatchVars == <<mailbox, dispatcherClosed>>
threadVars == <<pc, cur, todo, fate, after>>
vars == <<handleVars, backendVars, scopeVars, dispatchVars, threadVars>>

Threads == Workers \cup Clients

ClientPCs == {"idle", "admit", "offer", "refuse", "bind", "cancelling",
              "unqueue", "revoke", "closing", "revoking", "adopt", "discarding"}
WorkerPCs == {"take", "run", "execute", "work", "dispatch", "finish", "exited"}
SettlePCs == {"settle", "signal", "slot", "lease", "untrack"}

TypeOK ==
    /\ HandleTypeOK
    /\ BackendTypeOK
    /\ scopeClosed \subseteq Scopes
    /\ handles \subseteq Tasks
    /\ rejected \subseteq Tasks
    /\ runtimeClosed \in BOOLEAN
    /\ closer \in Clients \cup {NoThread}
    /\ mailbox \subseteq Tasks
    /\ dispatcherClosed \in BOOLEAN
    /\ pc \in [Threads -> ClientPCs \cup WorkerPCs \cup SettlePCs]
    /\ cur \in [Threads -> Tasks \cup {NoTask}]
    /\ todo \in [Threads -> SUBSET Tasks]
    /\ fate \in [Threads -> Terminal]
    /\ after \in [Threads -> {"idle", "cancelling", "revoking", "discarding", "finish"}]

Init ==
    /\ HandleInit
    /\ BackendInit
    /\ scopeClosed = {}
    /\ handles = {}
    /\ rejected = {}
    /\ runtimeClosed = FALSE
    /\ closer = NoThread
    /\ mailbox = {}
    /\ dispatcherClosed = FALSE
    /\ pc = [th \in Threads |-> IF th \in Workers THEN "take" ELSE "idle"]
    /\ cur = [th \in Threads |-> NoTask]
    /\ todo = [th \in Threads |-> {}]
    /\ fate = [th \in Threads |-> "cancelled"]
    /\ after = [th \in Threads |-> "idle"]

-----------------------------------------------------------------------------
(* How a thread moves: to a place, and into _settle with a way back.       *)

At(th, place) == pc[th] = place

\* Places where a thread has no task in hand.
RestPCs == {"idle", "take", "exited", "cancelling", "closing", "revoking", "discarding"}

\* What a thread no longer needs is cleared when it returns.
Goto(th, place) ==
    /\ pc' = [pc EXCEPT ![th] = place]
    /\ cur' = [cur EXCEPT ![th] = IF place \in RestPCs THEN NoTask ELSE @]
    /\ fate' = [fate EXCEPT ![th] = IF place \in SettlePCs THEN @ ELSE "cancelled"]
    /\ after' = [after EXCEPT ![th] =
                    IF place \in SettlePCs \cup {"unqueue", "revoke"} THEN @ ELSE "idle"]
    /\ UNCHANGED todo

SettleThen(th, outcome, place) ==
    /\ pc' = [pc EXCEPT ![th] = "settle"]
    /\ fate' = [fate EXCEPT ![th] = outcome]
    /\ after' = [after EXCEPT ![th] = place]
    /\ UNCHANGED <<cur, todo>>

\* A loop takes up its next task, to come back when it is done with it; what
\* it settles on the way is cancelled.
TakeUp(th, t, place) ==
    /\ pc' = [pc EXCEPT ![th] = place]
    /\ cur' = [cur EXCEPT ![th] = t]
    /\ fate' = [fate EXCEPT ![th] = "cancelled"]
    /\ after' = [after EXCEPT ![th] = pc[th]]

-----------------------------------------------------------------------------
(* ExecutionHandle._settle and what it releases, on whichever thread calls *)
(* it: the outcome, the job's settled callbacks in the order they were     *)
(* registered, then the scope.                                             *)

Settle(th) ==
    /\ At(th, "settle")
    /\ IF state[cur[th]] \in Terminal
       THEN Goto(th, after[th]) /\ UNCHANGED handleVars
       ELSE PublishOutcome(cur[th], fate[th]) /\ Goto(th, "signal")
    /\ UNCHANGED <<backendVars, scopeVars, dispatchVars>>

Signal(th) ==
    /\ At(th, "signal")
    /\ MarkSettled(cur[th])
    /\ Goto(th, "slot")
    /\ UNCHANGED <<backendVars, scopeVars, dispatchVars>>

FreeSlot(th) ==
    /\ At(th, "slot")
    /\ ReleaseAccepted(cur[th])
    /\ Goto(th, IF cur[th] \in leaseHooks THEN "lease" ELSE "untrack")
    /\ UNCHANGED <<handleVars, scopeVars, dispatchVars>>

FreeLease(th) ==
    /\ At(th, "lease")
    /\ RunLeaseHook(cur[th])
    /\ ReleaseExclusive(cur[th])
    /\ Goto(th, "untrack")
    /\ UNCHANGED <<scopeVars, dispatchVars>>

Untrack(th) ==
    /\ At(th, "untrack")
    /\ handles' = handles \ {cur[th]}
    /\ Goto(th, after[th])
    /\ UNCHANGED <<handleVars, backendVars, dispatchVars,
                   scopeClosed, rejected, runtimeClosed, closer>>

SettleStep(th) ==
    Settle(th) \/ Signal(th) \/ FreeSlot(th) \/ FreeLease(th) \/ Untrack(th)

-----------------------------------------------------------------------------
(* ExecutionScope.submit and ExecutionRuntime._submit and _admit.          *)

\* A closed scope refuses the request before a handle is retained.
RefuseScope(c, t) ==
    /\ At(c, "idle") /\ state[t] = "absent" /\ t \notin rejected
    /\ ScopeOf[t] \in scopeClosed
    /\ rejected' = rejected \cup {t}
    /\ UNCHANGED <<handleVars, backendVars, dispatchVars, threadVars,
                   scopeClosed, handles, runtimeClosed, closer>>

Register(c, t) ==
    /\ At(c, "idle") /\ state[t] = "absent" /\ t \notin rejected
    /\ ScopeOf[t] \notin scopeClosed
    /\ CreateHandle(t)
    /\ handles' = handles \cup {t}
    /\ pc' = [pc EXCEPT ![c] = "admit"]
    /\ cur' = [cur EXCEPT ![c] = t]
    /\ UNCHANGED <<backendVars, dispatchVars, scopeClosed, rejected,
                   runtimeClosed, closer, todo, fate, after>>

Admit(c) ==
    /\ At(c, "admit")
    /\ Goto(c, IF runtimeClosed THEN "refuse" ELSE "offer")
    /\ UNCHANGED <<handleVars, backendVars, scopeVars, dispatchVars>>

Offer(c) ==
    /\ At(c, "offer")
    /\ IF Admits(cur[c])
       THEN AcceptJob(cur[c]) /\ Goto(c, "bind")
       ELSE Goto(c, "refuse") /\ UNCHANGED backendVars
    /\ UNCHANGED <<handleVars, scopeVars, dispatchVars>>

\* submit's exception path releases the handle and raises.
Refuse(c) ==
    /\ At(c, "refuse")
    /\ handles' = handles \ {cur[c]}
    /\ rejected' = rejected \cup {cur[c]}
    /\ Goto(c, "idle")
    /\ UNCHANGED <<handleVars, backendVars, dispatchVars,
                   scopeClosed, runtimeClosed, closer>>

\* A cancellation that came before the submission was bound is passed on.
Bind(c) ==
    /\ At(c, "bind")
    /\ BindSubmission(cur[c])
    /\ Goto(c, IF cur[c] \in cancelled THEN "unqueue" ELSE "idle")
    /\ UNCHANGED <<backendVars, scopeVars, dispatchVars>>

-----------------------------------------------------------------------------
(* ExecutionHandle.cancel, and the loops of cancel_all, close and shutdown *)
(* that call it for a snapshot of the scope's handles.                     *)

Begin(c, place, targets) ==
    /\ pc' = [pc EXCEPT ![c] = place]
    /\ todo' = [todo EXCEPT ![c] = targets]
    /\ UNCHANGED <<cur, fate, after>>

\* Variant: only handles the backend has accepted are reached.
AttachedHandlesOf(s) == {t \in handles \cap attached : ScopeOf[t] = s}

HandlesOf(s) == {t \in handles : ScopeOf[t] = s}

\* The caller of cancel got the handle from submit.
Cancel(c, t) ==
    /\ At(c, "idle")
    /\ t \in attached /\ state[t] \notin Terminal
    /\ Begin(c, "cancelling", {t})
    /\ UNCHANGED <<handleVars, backendVars, scopeVars, dispatchVars>>

CancelAll(c, s) ==
    /\ At(c, "idle") /\ HandlesOf(s) # {}
    /\ Begin(c, "cancelling", HandlesOf(s))
    /\ UNCHANGED <<handleVars, backendVars, scopeVars, dispatchVars>>

\* ExecutionScope.close, by a client or in the loop of shutdown.
CloseScope(c, s) ==
    /\ At(c, "idle") \/ At(c, "closing")
    /\ s \notin scopeClosed
    /\ scopeClosed' = scopeClosed \cup {s}
    /\ Begin(c, "cancelling", HandlesOf(s))
    /\ UNCHANGED <<handleVars, backendVars, dispatchVars,
                   handles, rejected, runtimeClosed, closer>>

Shutdown(c) ==
    /\ At(c, "idle") /\ ~runtimeClosed
    /\ runtimeClosed' = TRUE
    /\ closer' = c
    /\ Goto(c, "closing")
    /\ UNCHANGED <<handleVars, backendVars, dispatchVars,
                   scopeClosed, handles, rejected>>

\* One call of ExecutionHandle.cancel up to the end of its locked part.  A
\* delivering task is settled here; a running one has left the queue, so the
\* backend's cancellation finds nothing.
CancelOne(c, t) ==
    /\ At(c, "cancelling") /\ t \in todo[c]
    /\ todo' = [todo EXCEPT ![c] = @ \ {t}]
    /\ IF CancelRefused(t)
       THEN UNCHANGED <<handleVars, pc, cur, fate, after>>
       ELSE /\ RequestCancel(t)
            /\ IF state[t] = "delivering" THEN TakeUp(c, t, "settle")
               ELSE IF t \in attached THEN TakeUp(c, t, "unqueue")
               ELSE UNCHANGED <<pc, cur, fate, after>>
    /\ UNCHANGED <<backendVars, scopeVars, dispatchVars>>

CancelDone(c) ==
    /\ At(c, "cancelling") /\ todo[c] = {}
    /\ Goto(c, IF closer = c THEN "closing" ELSE "idle")
    /\ UNCHANGED <<handleVars, backendVars, scopeVars, dispatchVars>>

\* DefaultExecutionBackend._cancel_pending, then ExecutionJob.cancel_before_start.
Unqueue(c) ==
    /\ At(c, "unqueue")
    /\ IF cur[c] \in pending
       THEN RemovePending(cur[c]) /\ Goto(c, "revoke")
       ELSE Goto(c, after[c]) /\ UNCHANGED backendVars
    /\ UNCHANGED <<handleVars, scopeVars, dispatchVars>>

Revoke(c) ==
    /\ At(c, "revoke")
    /\ IF cur[c] \in activated
       THEN Goto(c, after[c]) /\ UNCHANGED handleVars
       ELSE RevokeJob(cur[c]) /\ SettleThen(c, "cancelled", after[c])
    /\ UNCHANGED <<backendVars, scopeVars, dispatchVars>>

\* DefaultExecutionBackend.shutdown, called when every scope is closed.
CloseBackend(c) ==
    /\ At(c, "closing") /\ scopeClosed = Scopes
    /\ CloseQueue
    /\ Begin(c, "revoking", pending)
    /\ UNCHANGED <<handleVars, scopeVars, dispatchVars>>

RevokeNext(c, t) ==
    /\ At(c, "revoking") /\ t \in todo[c]
    /\ todo' = [todo EXCEPT ![c] = @ \ {t}]
    /\ TakeUp(c, t, "revoke")
    /\ UNCHANGED <<handleVars, backendVars, scopeVars, dispatchVars>>

ShutdownDone(c) ==
    /\ At(c, "revoking") /\ todo[c] = {}
    /\ closer' = NoThread
    /\ Goto(c, "idle")
    /\ UNCHANGED <<handleVars, backendVars, dispatchVars,
                   scopeClosed, handles, rejected, runtimeClosed>>

-----------------------------------------------------------------------------
(* The worker loop and ExecutionHandle._execute.                           *)

Take(w, t) ==
    /\ At(w, "take") /\ w \notin idleWorkers
    /\ t \in pending /\ Eligible(t)
    /\ StartJob(t)
    /\ RegisterLeaseHook(t)
    /\ pc' = [pc EXCEPT ![w] = "run"]
    /\ cur' = [cur EXCEPT ![w] = t]
    /\ UNCHANGED <<scopeVars, dispatchVars, todo, fate, after>>

Park(w) ==
    /\ At(w, "take") /\ w \notin idleWorkers
    /\ ~\E t \in pending : Eligible(t)
    /\ ~backendClosed \/ pending # {}
    /\ WaitForWork(w)
    /\ UNCHANGED <<handleVars, scopeVars, dispatchVars, threadVars>>

Exit(w) ==
    /\ At(w, "take") /\ w \notin idleWorkers
    /\ backendClosed /\ pending = {}
    /\ Goto(w, "exited")
    /\ UNCHANGED <<handleVars, backendVars, scopeVars, dispatchVars>>

RunJob(w) ==
    /\ At(w, "run")
    /\ IF cur[w] \in activated
       THEN Goto(w, "finish") /\ UNCHANGED handleVars
       ELSE ActivateJob(cur[w]) /\ Goto(w, "execute")
    /\ UNCHANGED <<backendVars, scopeVars, dispatchVars>>

Execute(w) ==
    LET t == cur[w] IN
    /\ At(w, "execute")
    /\ CASE state[t] # "pending" -> Goto(w, "finish") /\ UNCHANGED handleVars
         [] state[t] = "pending" /\ t \in cancelled ->
              SettleThen(w, "cancelled", "finish") /\ UNCHANGED handleVars
         [] OTHER -> BeginWork(t) /\ Goto(w, "work")
    /\ UNCHANGED <<backendVars, scopeVars, dispatchVars>>

WorkReturns(w) ==
    /\ At(w, "work")
    /\ IF cur[w] \in cancelled
       THEN SettleThen(w, "cancelled", "finish") /\ UNCHANGED handleVars
       ELSE BeginDelivery(cur[w]) /\ Goto(w, "dispatch")
    /\ UNCHANGED <<backendVars, scopeVars, dispatchVars>>

WorkRaises(w) ==
    /\ At(w, "work")
    /\ SettleThen(w, IF cur[w] \in cancelled THEN "cancelled" ELSE "failed", "finish")
    /\ UNCHANGED <<handleVars, backendVars, scopeVars, dispatchVars>>

\* Variant: a closed dispatcher drops the result without discarding it.
DispatchDropping(w) ==
    /\ At(w, "dispatch")
    /\ mailbox' = IF dispatcherClosed THEN mailbox ELSE mailbox \cup {cur[w]}
    /\ Goto(w, "finish")
    /\ UNCHANGED <<handleVars, backendVars, scopeVars, dispatcherClosed>>

\* QtOwnerDispatcher.dispatch of the adoption: queued, or discarded.
Dispatch(w) ==
    /\ At(w, "dispatch")
    /\ IF dispatcherClosed
       THEN SettleThen(w, "cancelled", "finish") /\ UNCHANGED mailbox
       ELSE mailbox' = mailbox \cup {cur[w]} /\ Goto(w, "finish")
    /\ UNCHANGED <<handleVars, backendVars, scopeVars, dispatcherClosed>>

Finish(w) ==
    /\ At(w, "finish")
    /\ FinishRunning(cur[w])
    /\ Goto(w, "take")
    /\ UNCHANGED <<handleVars, scopeVars, dispatchVars>>

-----------------------------------------------------------------------------
(* The owner thread: QtOwnerDispatcher._deliver with                       *)
(* ExecutionHandle._adopt_result, and QtOwnerDispatcher.close.             *)

\* Variant: a queued result is adopted without a last look at the token.
DeliverUnchecked(t) ==
    /\ At(Owner, "idle") /\ t \in mailbox
    /\ mailbox' = mailbox \ {t}
    /\ IF state[t] # "delivering"
       THEN UNCHANGED <<pc, cur, fate, after, handleVars>>
       ELSE TakeUp(Owner, t, "adopt") /\ BeginAdoption(t)
    /\ UNCHANGED <<backendVars, scopeVars, dispatcherClosed, todo>>

Deliver(t) ==
    /\ At(Owner, "idle") /\ t \in mailbox
    /\ mailbox' = mailbox \ {t}
    /\ CASE state[t] # "delivering" ->
              UNCHANGED <<pc, cur, fate, after, handleVars>>
         [] state[t] = "delivering" /\ t \in cancelled ->
              TakeUp(Owner, t, "settle") /\ UNCHANGED handleVars
         [] OTHER ->
              TakeUp(Owner, t, "adopt") /\ BeginAdoption(t)
    /\ UNCHANGED <<backendVars, scopeVars, dispatcherClosed, todo>>

\* The producer's adopt callback returns or raises.
Adopt ==
    /\ At(Owner, "adopt")
    /\ \E outcome \in {"succeeded", "failed"} : SettleThen(Owner, outcome, "idle")
    /\ UNCHANGED <<handleVars, backendVars, scopeVars, dispatchVars>>

CloseDispatcher ==
    /\ "closeDispatcher" \in Calls[Owner]
    /\ At(Owner, "idle") /\ ~dispatcherClosed
    /\ dispatcherClosed' = TRUE
    /\ mailbox' = {}
    /\ Begin(Owner, "discarding", mailbox)
    /\ UNCHANGED <<handleVars, backendVars, scopeVars>>

DiscardNext(t) ==
    /\ At(Owner, "discarding") /\ t \in todo[Owner]
    /\ todo' = [todo EXCEPT ![Owner] = @ \ {t}]
    /\ TakeUp(Owner, t, "settle")
    /\ UNCHANGED <<handleVars, backendVars, scopeVars, dispatchVars>>

DiscardDone ==
    /\ At(Owner, "discarding") /\ todo[Owner] = {}
    /\ Goto(Owner, "idle")
    /\ UNCHANGED <<handleVars, backendVars, scopeVars, dispatchVars>>

-----------------------------------------------------------------------------
(* What a thread decides to begin, and what it must go on with.            *)

BeginClient(c) ==
    \/ "submit" \in Calls[c] /\ \E t \in Tasks : RefuseScope(c, t) \/ Register(c, t)
    \/ "cancel" \in Calls[c] /\ \E t \in Tasks : Cancel(c, t)
    \/ "cancelAll" \in Calls[c] /\ \E s \in Scopes : CancelAll(c, s)
    \/ "closeScope" \in Calls[c] /\ At(c, "idle") /\ \E s \in Scopes : CloseScope(c, s)
    \/ "shutdown" \in Calls[c] /\ Shutdown(c)

ContinueClient(c) ==
    \/ Admit(c) \/ Offer(c) \/ Refuse(c) \/ Bind(c)
    \/ \E t \in Tasks : CancelOne(c, t) \/ RevokeNext(c, t)
    \/ \E s \in Scopes : At(c, "closing") /\ CloseScope(c, s)
    \/ CancelDone(c) \/ Unqueue(c) \/ Revoke(c)
    \/ CloseBackend(c) \/ ShutdownDone(c)
    \/ SettleStep(c)

OwnerStep ==
    \/ \E t \in Tasks : Deliver(t) \/ DiscardNext(t)
    \/ Adopt \/ DiscardDone

WorkerStep(w) ==
    \/ \E t \in Tasks : Take(w, t)
    \/ Park(w) \/ Exit(w) \/ RunJob(w) \/ Execute(w)
    \/ WorkReturns(w) \/ WorkRaises(w) \/ Dispatch(w) \/ Finish(w)
    \/ SettleStep(w)

\* Every thread waits for something a client has yet to begin, and nothing
\* the engine accepted is left behind.
Quiescent ==
    /\ \A c \in Clients : At(c, "idle")
    /\ \A w \in Workers : w \in idleWorkers \/ At(w, "exited")
    /\ mailbox = {} /\ pending = {}

Rest == Quiescent /\ UNCHANGED vars

Next ==
    \/ \E c \in Clients : BeginClient(c) \/ ContinueClient(c)
    \/ OwnerStep \/ CloseDispatcher
    \/ \E w \in Workers : WorkerStep(w)
    \/ Rest

\* Threads are scheduled, and work and adoption callbacks return.  The owner's
\* event loop serves its queue again and again between the calls the owner
\* makes itself, hence SF.  Nobody has to begin anything.
Fairness ==
    /\ \A c \in Clients : WF_vars(ContinueClient(c))
    /\ SF_vars(OwnerStep)
    /\ \A w \in Workers : WF_vars(WorkerStep(w))

Spec == Init /\ [][Next]_vars /\ Fairness

-----------------------------------------------------------------------------
(* Safety.                                                                 *)

WorkingOn(t) == {w \in Workers : At(w, "work") /\ cur[w] = t}

\* A task uses its exclusive resource while its work runs, and on to its
\* outcome when the lease is held through adoption.
UsesKey(t) ==
    /\ KeyOf[t] # NoKey
    /\ \/ WorkingOn(t) # {}
       \/ t \in AdoptionHeld /\ state[t] \in {"running", "delivering"}

\* No two tasks ever use the same exclusive key at once, from the worker that
\* starts the first to the owner thread that adopts it, whoever cancels or
\* closes in between (integration-sdk.md: a lease can keep a native resource
\* serialized through GUI-thread adoption).
LeaseExclusion ==
    \A t, u \in Tasks : UsesKey(t) /\ UsesKey(u) /\ KeyOf[t] = KeyOf[u] => t = u

\* Whatever is queued, running or waiting for its adoption is counted: the
\* admission limits bound real retained work, not only their own ledger.
RetainedWorkBounded ==
    LET live == pending \cup {t \in Tasks : state[t] \in {"running", "delivering"}}
    IN  /\ live \subseteq accepted
        /\ Cardinality(live) <= MaxAccepted
        /\ RetainedBytes(live) <= MaxRetainedBytes

Computing == {w \in Workers : pc[w] \in {"run", "execute", "work", "dispatch"}}

\* The pool keeps a worker for direct input and never computes more tasks on a
\* resource than that resource's limit allows.
CapacityRespected ==
    /\ Cardinality({w \in Computing : cur[w] \notin Interactive})
         <= NoninteractiveWorkerLimit
    /\ \A t \in {cur[w] : w \in Computing} :
         Cardinality({w \in Computing : ResourceOf[cur[w]] = ResourceOf[t]})
           <= ResourceLimit[ResourceOf[t]]

\* The limits of the policy hold for what the threads really do, from admission
\* to adoption, not only for the backend's ledgers: retained work and bytes, the
\* worker kept for direct input, and the tasks computing on each resource.
LimitsRespected == RetainedWorkBounded /\ CapacityRespected

\* Cancellation and adoption exclude each other, although cancel, the worker and
\* the owner thread decide under different locks at different times: once cancel
\* has answered True the result is never adopted nor the task reported as
\* succeeded, and once adoption began the task is never reported as cancelled.
CancelOrAdopt ==
    /\ \A t \in cancelled : t \notin adopting /\ state[t] # "succeeded"
    /\ \A t \in adopting : state[t] # "cancelled"

\* No lost wakeup: when a queued job is eligible and a worker is parked, a
\* worker is already awake to look at the queue.
NoLostWakeup ==
    (idleWorkers # {} /\ \E t \in pending : Eligible(t)) =>
        \E w \in Workers : At(w, "take") /\ w \notin idleWorkers

\* When every thread has come to rest nothing leaks: every accepted task has an
\* outcome, and no slot, lease, worker entry or scope entry is left.
NothingLeftBehind ==
    Quiescent =>
        /\ \A t \in Tasks : state[t] # "absent" =>
              state[t] \in Terminal \/ t \in rejected
        /\ accepted = {} /\ running = {} /\ exclusive = {} /\ handles = {}

\* A backend job is entered once: not by a second worker, nor by a worker after
\* a cancellation or a shutdown has claimed it.
ActivatedOnce ==
    /\ \A w \in Workers : At(w, "run") => cur[w] \notin activated
    /\ \A w, v \in Workers :
         w # v /\ w \in Computing /\ v \in Computing => cur[w] # cur[v]

\* backend.submit and mark_running register settled callbacks while they hold
\* the backend's lock; the callback would run at once, and deadlock on that
\* lock, if the job were settled.  It never is.
RegistersBeforeSettlement ==
    /\ \A c \in Clients : At(c, "offer") => cur[c] \notin settled
    /\ pending \cap settled = {}

-----------------------------------------------------------------------------
(* Action properties.                                                      *)

\* After a scope has been closed, no task of that scope starts its work without
\* its token being cancelled, except those the closing thread has still to reach.
ClosedScopeStartsNothing ==
    [][\A t \in Tasks :
        state[t] = "pending" /\ state'[t] = "running" =>
            \/ ScopeOf[t] \notin scopeClosed
            \/ \E c \in Clients : t \in todo[c]]_vars

-----------------------------------------------------------------------------
(* Liveness.                                                               *)

\* Shutdown empties the engine: every worker leaves and every handle the
\* runtime retained is terminal.
ShutdownDrains ==
    runtimeClosed ~> /\ \A w \in Workers : At(w, "exited")
                     /\ handles = {} /\ accepted = {}

-----------------------------------------------------------------------------
(* The engine keeps the promises of TaskContract.                          *)

Observed(t) ==
    IF t \in rejected THEN "refused"
    ELSE IF state[t] = "absent" THEN "new"
    ELSE IF state[t] \in Terminal THEN state[t] ELSE "open"

Contract == INSTANCE TaskContract WITH
    status <- [t \in Tasks |-> Observed(t)],
    doomed <- cancelled,
    adopted <- adopting,
    retained <- accepted

\* Every step of the engine is a step of the contract or leaves what it speaks
\* of alone, and the engine's fairness yields the contract's.
KeepsContract == Contract!ContractSpec

=============================================================================
