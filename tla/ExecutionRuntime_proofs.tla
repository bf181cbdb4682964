----------------------- MODULE ExecutionRuntime_proofs -----------------------
(***************************************************************************)
(* Proofs about ExecutionRuntime, for any number of tasks, scopes, keys,   *)
(* workers and client threads.  The inductive invariant is built in        *)
(* layers: each is proved preserved with the help of those before it.      *)
(* IInv excludes two holders of a lease or of a task; the layers on top of *)
(* it show that the limits hold for what the threads really do, that no    *)
(* wakeup and no task is lost, that a closed scope starts nothing, and     *)
(* that every step is one TaskContract allows.                             *)
(***************************************************************************)
EXTENDS ExecutionRuntime, FiniteSetTheorems, TLAPS

-----------------------------------------------------------------------------
(* Types.                                                                  *)

\* A thread that is not between two tasks has one in hand.
TaskInHand == \A th \in Threads : pc[th] \notin RestPCs => cur[th] \in Tasks

TypeInv == TypeOK /\ TaskInHand

(* The initial state is well typed and no thread has a task in hand. *)
LEMMA TypeInit == Init => TypeInv
<1> SUFFICES ASSUME Init PROVE TypeInv
  OBVIOUS
<1>1. HandleTypeOK
  BY DEF Init, HandleInit, HandleTypeOK, States
<1>2. BackendTypeOK
  BY DEF Init, BackendInit, BackendTypeOK
<1>3. TypeOK
  BY <1>1, <1>2 DEF Init, TypeOK, WorkerPCs, ClientPCs, SettlePCs, Terminal
<1>4. TaskInHand
  BY DEF Init, TaskInHand, RestPCs
<1> QED BY <1>3, <1>4 DEF TypeInv

(* Every step of settling a handle keeps the types. *)
LEMMA TypeSettle ==
    ASSUME TypeInv, NEW th \in Threads, SettleStep(th)
    PROVE  TypeInv'
<1> USE DEF TypeInv, TypeOK, HandleTypeOK, BackendTypeOK, TaskInHand, RestPCs,
            WorkerPCs, ClientPCs, SettlePCs, States, Terminal, Live,
            handleVars, backendVars, scopeVars, dispatchVars, At, Goto
<1>1. CASE Settle(th)
  BY <1>1 DEF Settle, PublishOutcome, BecomesState
<1>2. CASE Signal(th)
  BY <1>2 DEF Signal, MarkSettled
<1>3. CASE FreeSlot(th)
  BY <1>3 DEF FreeSlot, ReleaseAccepted
<1>4. CASE FreeLease(th)
  BY <1>4 DEF FreeLease, RunLeaseHook, ReleaseExclusive, NotifyAll
<1>5. CASE Untrack(th)
  BY <1>5 DEF Untrack
<1> QED BY <1>1, <1>2, <1>3, <1>4, <1>5 DEF SettleStep

(* Every step of a client (submit, cancel, close, shut down) keeps the types. *)
LEMMA TypeClient ==
    ASSUME TypeInv, NEW c \in Clients, BeginClient(c) \/ ContinueClient(c)
    PROVE  TypeInv'
<1> c \in Threads
  BY DEF Threads
<1> USE DEF TypeInv, TypeOK, HandleTypeOK, BackendTypeOK, TaskInHand, RestPCs,
            WorkerPCs, ClientPCs, SettlePCs, States, Terminal, Live,
            handleVars, backendVars, scopeVars, dispatchVars, threadVars,
            At, Goto, Begin, TakeUp, SettleThen
<1>1. ASSUME NEW t \in Tasks, RefuseScope(c, t) PROVE TypeInv'
  BY <1>1 DEF RefuseScope
<1>2. ASSUME NEW t \in Tasks, Register(c, t) PROVE TypeInv'
  BY <1>2 DEF Register, CreateHandle, BecomesState
<1>3. ASSUME NEW t \in Tasks, Cancel(c, t) PROVE TypeInv'
  BY <1>3 DEF Cancel
<1>4. ASSUME NEW s \in Scopes, CancelAll(c, s) PROVE TypeInv'
  BY <1>4 DEF CancelAll, HandlesOf
<1>5. ASSUME NEW s \in Scopes, CloseScope(c, s) PROVE TypeInv'
  BY <1>5 DEF CloseScope, HandlesOf
<1>6. CASE Shutdown(c)
  BY <1>6 DEF Shutdown
<1>7. CASE Admit(c)
  BY <1>7 DEF Admit
<1>8. CASE Offer(c)
  BY <1>8 DEF Offer, AcceptJob, NotifyOne
<1>9. CASE Refuse(c)
  BY <1>9 DEF Refuse
<1>10. CASE Bind(c)
  BY <1>10 DEF Bind, BindSubmission
<1>11. ASSUME NEW t \in Tasks, CancelOne(c, t) PROVE TypeInv'
  BY <1>11 DEF CancelOne, RequestCancel
<1>12. ASSUME NEW t \in Tasks, RevokeNext(c, t) PROVE TypeInv'
  BY <1>12 DEF RevokeNext
<1>13. CASE CancelDone(c)
  BY <1>13 DEF CancelDone
<1>14. CASE Unqueue(c)
  BY <1>14 DEF Unqueue, RemovePending, NotifyAll
<1>15. CASE Revoke(c)
  BY <1>15 DEF Revoke, RevokeJob
<1>16. CASE CloseBackend(c)
  BY <1>16 DEF CloseBackend, CloseQueue, NotifyAll
<1>17. CASE ShutdownDone(c)
  BY <1>17 DEF ShutdownDone
<1>18. CASE SettleStep(c)
  BY <1>18, TypeSettle
<1> QED
  BY <1>1, <1>2, <1>3, <1>4, <1>5, <1>6, <1>7, <1>8, <1>9, <1>10, <1>11, <1>12,
     <1>13, <1>14, <1>15, <1>16, <1>17, <1>18 DEF BeginClient, ContinueClient

(* Adopting, discarding and closing the dispatcher keep the types. *)
LEMMA TypeOwner ==
    ASSUME TypeInv, OwnerStep \/ CloseDispatcher
    PROVE  TypeInv'
<1> Owner \in Threads
  BY ThreadAssumption DEF Threads
<1> USE DEF TypeInv, TypeOK, HandleTypeOK, BackendTypeOK, TaskInHand, RestPCs,
            WorkerPCs, ClientPCs, SettlePCs, States, Terminal, Live,
            handleVars, backendVars, scopeVars, dispatchVars, threadVars,
            At, Goto, Begin, TakeUp, SettleThen
<1>1. ASSUME NEW t \in Tasks, Deliver(t) PROVE TypeInv'
  BY <1>1 DEF Deliver, BeginAdoption
<1>2. ASSUME NEW t \in Tasks, DiscardNext(t) PROVE TypeInv'
  BY <1>2 DEF DiscardNext
<1>3. CASE Adopt
  BY <1>3 DEF Adopt
<1>4. CASE DiscardDone
  BY <1>4 DEF DiscardDone
<1>5. CASE CloseDispatcher
  BY <1>5 DEF CloseDispatcher
<1> QED BY <1>1, <1>2, <1>3, <1>4, <1>5 DEF OwnerStep

(* Every step of a worker keeps the types. *)
LEMMA TypeWorker ==
    ASSUME TypeInv, NEW w \in Workers, WorkerStep(w)
    PROVE  TypeInv'
<1> w \in Threads
  BY DEF Threads
<1> USE DEF TypeInv, TypeOK, HandleTypeOK, BackendTypeOK, TaskInHand, RestPCs,
            WorkerPCs, ClientPCs, SettlePCs, States, Terminal, Live,
            handleVars, backendVars, scopeVars, dispatchVars, threadVars,
            At, Goto, SettleThen
<1>1. ASSUME NEW t \in Tasks, Take(w, t) PROVE TypeInv'
  BY <1>1 DEF Take, StartJob, RegisterLeaseHook
<1>2. CASE Park(w)
  BY <1>2 DEF Park, WaitForWork
<1>3. CASE Exit(w)
  BY <1>3 DEF Exit
<1>4. CASE RunJob(w)
  BY <1>4 DEF RunJob, ActivateJob
<1>5. CASE Execute(w)
  BY <1>5 DEF Execute, BeginWork, BecomesState
<1>6. CASE WorkReturns(w)
  BY <1>6 DEF WorkReturns, BeginDelivery, BecomesState
<1>7. CASE WorkRaises(w)
  BY <1>7 DEF WorkRaises
<1>8. CASE Dispatch(w)
  BY <1>8 DEF Dispatch
<1>9. CASE Finish(w)
  BY <1>9 DEF Finish, FinishRunning, NotifyAll
<1>10. CASE SettleStep(w)
  BY <1>10, TypeSettle
<1> QED
  BY <1>1, <1>2, <1>3, <1>4, <1>5, <1>6, <1>7, <1>8, <1>9, <1>10 DEF WorkerStep

(* The types are inductive. *)
LEMMA TypeStep == TypeInv /\ [Next]_vars => TypeInv'
<1> SUFFICES ASSUME TypeInv, [Next]_vars PROVE TypeInv'
  OBVIOUS
<1>1. CASE UNCHANGED vars
  BY <1>1 DEF TypeInv, TypeOK, HandleTypeOK, BackendTypeOK, TaskInHand, vars,
     handleVars, backendVars, scopeVars, dispatchVars, threadVars
<1>2. ASSUME NEW c \in Clients, BeginClient(c) \/ ContinueClient(c) PROVE TypeInv'
  BY <1>2, TypeClient
<1>3. CASE OwnerStep \/ CloseDispatcher
  BY <1>3, TypeOwner
<1>4. ASSUME NEW w \in Workers, WorkerStep(w) PROVE TypeInv'
  BY <1>4, TypeWorker
<1> QED BY <1>1, <1>2, <1>3, <1>4 DEF Next, Rest

\* No call, race or shutdown takes a variable of the engine out of its type.
THEOREM TypeCorrect == Spec => []TypeOK
<1>1. TypeInv => TypeOK
  BY DEF TypeInv
<1> QED BY <1>1, TypeInit, TypeStep, PTL DEF Spec

-----------------------------------------------------------------------------
(* Threads: which places each kind of thread visits and returns to.        *)

ThreadInv ==
    /\ \A w \in Workers : /\ pc[w] \in WorkerPCs \cup SettlePCs
                          /\ pc[w] \in SettlePCs => after[w] = "finish"
    /\ \A c \in Clients : /\ pc[c] \in ClientPCs \cup SettlePCs
                          /\ pc[c] \in SettlePCs => after[c] # "finish"
    /\ \A th \in Threads :
        /\ pc[th] \in {"unqueue", "revoke"} =>
             after[th] \in {"idle", "cancelling", "revoking"}
        /\ pc[th] \notin SettlePCs \cup {"unqueue", "revoke"} => after[th] = "idle"
        /\ pc[th] \in {"adopt", "discarding"} \/ after[th] = "discarding" => th =
          Owner

(* Every thread starts at a resting place of its own program. *)
LEMMA ThreadInit == Init => ThreadInv
BY ThreadAssumption DEF Init, ThreadInv, Threads, WorkerPCs, ClientPCs, SettlePCs

(* Clients are threads and no workers. *)
LEMMA ClientThread == \A c \in Clients : c \in Threads /\ c \notin Workers
BY ThreadAssumption DEF Threads

(* Workers are threads and no clients. *)
LEMMA WorkerThread == \A w \in Workers : w \in Threads /\ w \notin Clients
BY ThreadAssumption DEF Threads

(* The owner thread is one of the clients. *)
LEMMA OwnerThread == Owner \in Threads /\ Owner \in Clients /\ Owner \notin Workers
BY ThreadAssumption DEF Threads

\* A thread may go wherever ThreadInv lets it be.
LEMMA GotoThread ==
    ASSUME TypeInv, ThreadInv, NEW th \in Threads, NEW place, Goto(th, place),
           th \in Workers => place \in WorkerPCs \cup SettlePCs,
           th \in Clients => place \in ClientPCs \cup SettlePCs,
           place \in SettlePCs => pc[th] \in SettlePCs,
           place \in {"unqueue", "revoke"} => pc[th] \notin SettlePCs,
           place \in {"adopt", "discarding"} => th = Owner
    PROVE  ThreadInv'
BY DEF Goto, TypeInv, TypeOK, ThreadInv, WorkerPCs, ClientPCs, SettlePCs

(* Beginning to settle keeps every thread in its own program. *)
LEMMA SettleThenThread ==
    ASSUME TypeInv, ThreadInv, NEW th \in Threads, NEW outcome, NEW place,
           SettleThen(th, outcome, place),
           th \in Workers => place = "finish",
           th \in Clients => place \in {"idle", "cancelling", "revoking",
             "discarding"},
           place = "discarding" => th = Owner
    PROVE  ThreadInv'
BY DEF SettleThen, TypeInv, TypeOK, ThreadInv, WorkerPCs, ClientPCs, SettlePCs

(* A client that takes up a task stays in its own program. *)
LEMMA TakeUpThread ==
    ASSUME TypeInv, ThreadInv, NEW c \in Clients, NEW t, NEW place, TakeUp(c, t,
      place),
           place \in {"settle", "unqueue", "revoke", "adopt"},
           pc[c] \in {"idle", "cancelling", "revoking", "discarding"},
           place # "settle" => pc[c] # "discarding",
           place = "adopt" => pc[c] = "idle" /\ c = Owner
    PROVE  ThreadInv'
BY ThreadAssumption DEF TakeUp, TypeInv, TypeOK, ThreadInv, WorkerPCs, ClientPCs,
   SettlePCs, Threads

(* No step moves a thread out of its own program. *)
LEMMA ThreadNext ==
    ASSUME TypeInv, ThreadInv, Next
    PROVE  ThreadInv'
<1> USE DEF TypeInv, TypeOK, ThreadInv, WorkerPCs, ClientPCs, SettlePCs, At,
            handleVars, backendVars, scopeVars, dispatchVars, threadVars
<1>1. ASSUME NEW th \in Threads, Settle(th) PROVE ThreadInv'
  BY <1>1, GotoThread DEF Settle, PublishOutcome, BecomesState
<1>2. ASSUME NEW th \in Threads, Signal(th) PROVE ThreadInv'
  BY <1>2, GotoThread DEF Signal, MarkSettled
<1>3. ASSUME NEW th \in Threads, FreeSlot(th) PROVE ThreadInv'
  BY <1>3, GotoThread DEF FreeSlot, ReleaseAccepted
<1>4. ASSUME NEW th \in Threads, FreeLease(th) PROVE ThreadInv'
  BY <1>4, GotoThread DEF FreeLease, RunLeaseHook, ReleaseExclusive, NotifyAll
<1>5. ASSUME NEW th \in Threads, Untrack(th) PROVE ThreadInv'
  BY <1>5, GotoThread DEF Untrack
<1>6. ASSUME NEW c \in Clients, NEW t \in Tasks, RefuseScope(c, t)
      PROVE ThreadInv'
  BY <1>6, ClientThread DEF RefuseScope
<1>7. ASSUME NEW c \in Clients, NEW t \in Tasks, Register(c, t) PROVE ThreadInv'
  BY <1>7, ClientThread DEF Register, CreateHandle, BecomesState
<1>8. ASSUME NEW c \in Clients, NEW t \in Tasks, Cancel(c, t) PROVE ThreadInv'
  BY <1>8, ClientThread DEF Begin, Cancel
<1>9. ASSUME NEW c \in Clients, NEW s \in Scopes, CancelAll(c, s)
      PROVE ThreadInv'
  BY <1>9, ClientThread DEF Begin, CancelAll, HandlesOf
<1>10. ASSUME NEW c \in Clients, NEW s \in Scopes, CloseScope(c, s)
      PROVE ThreadInv'
  BY <1>10, ClientThread DEF Begin, CloseScope, HandlesOf
<1>11. ASSUME NEW c \in Clients, Shutdown(c) PROVE ThreadInv'
  BY <1>11, ClientThread, GotoThread DEF Shutdown
<1>12. ASSUME NEW c \in Clients, Admit(c) PROVE ThreadInv'
  BY <1>12, ClientThread, GotoThread DEF Admit
<1>13. ASSUME NEW c \in Clients, Offer(c) PROVE ThreadInv'
  BY <1>13, ClientThread, GotoThread DEF Offer, AcceptJob, NotifyOne
<1>14. ASSUME NEW c \in Clients, Refuse(c) PROVE ThreadInv'
  BY <1>14, ClientThread, GotoThread DEF Refuse
<1>15. ASSUME NEW c \in Clients, Bind(c) PROVE ThreadInv'
  BY <1>15, ClientThread, GotoThread DEF Bind, BindSubmission
<1>16. ASSUME NEW c \in Clients, NEW t \in Tasks, CancelOne(c, t) PROVE ThreadInv'
  BY <1>16, ClientThread, TakeUpThread DEF CancelOne, CancelRefused, RequestCancel
<1>17. ASSUME NEW c \in Clients, NEW t \in Tasks, RevokeNext(c, t)
      PROVE ThreadInv'
  BY <1>17, ClientThread, TakeUpThread DEF RevokeNext
<1>18. ASSUME NEW c \in Clients, CancelDone(c) PROVE ThreadInv'
  BY <1>18, ClientThread, GotoThread DEF CancelDone
<1>19. ASSUME NEW c \in Clients, Unqueue(c) PROVE ThreadInv'
  BY <1>19, ClientThread, GotoThread DEF Unqueue, RemovePending, NotifyAll
<1>20. ASSUME NEW c \in Clients, Revoke(c) PROVE ThreadInv'
  BY <1>20, ClientThread, GotoThread, SettleThenThread DEF Revoke, RevokeJob
<1>21. ASSUME NEW c \in Clients, CloseBackend(c) PROVE ThreadInv'
  BY <1>21, ClientThread DEF Begin, CloseBackend, CloseQueue, NotifyAll
<1>22. ASSUME NEW c \in Clients, ShutdownDone(c) PROVE ThreadInv'
  BY <1>22, ClientThread, GotoThread DEF ShutdownDone
<1>23. ASSUME NEW t \in Tasks, Deliver(t) PROVE ThreadInv'
  BY <1>23, OwnerThread, TakeUpThread DEF Deliver, BeginAdoption
<1>24. ASSUME NEW t \in Tasks, DiscardNext(t) PROVE ThreadInv'
  BY <1>24, OwnerThread, TakeUpThread DEF DiscardNext
<1>25. CASE Adopt
  BY <1>25, OwnerThread, SettleThenThread DEF Adopt
<1>26. CASE DiscardDone
  BY <1>26, OwnerThread, GotoThread DEF DiscardDone
<1>27. CASE CloseDispatcher
  BY <1>27, OwnerThread DEF Begin, CloseDispatcher
<1>28. ASSUME NEW w \in Workers, NEW t \in Tasks, Take(w, t) PROVE ThreadInv'
  BY <1>28, WorkerThread DEF Take, StartJob, RegisterLeaseHook
<1>29. ASSUME NEW w \in Workers, Park(w) PROVE ThreadInv'
  BY <1>29, WorkerThread DEF Park, WaitForWork
<1>30. ASSUME NEW w \in Workers, Exit(w) PROVE ThreadInv'
  BY <1>30, WorkerThread, GotoThread DEF Exit
<1>31. ASSUME NEW w \in Workers, RunJob(w) PROVE ThreadInv'
  BY <1>31, WorkerThread, GotoThread DEF RunJob, ActivateJob
<1>32. ASSUME NEW w \in Workers, Execute(w) PROVE ThreadInv'
  BY <1>32, WorkerThread, GotoThread, SettleThenThread DEF Execute, BeginWork,
     BecomesState
<1>33. ASSUME NEW w \in Workers, WorkReturns(w) PROVE ThreadInv'
  BY <1>33, WorkerThread, GotoThread, SettleThenThread DEF WorkReturns, BeginDelivery,
     BecomesState
<1>34. ASSUME NEW w \in Workers, WorkRaises(w) PROVE ThreadInv'
  BY <1>34, WorkerThread, SettleThenThread DEF WorkRaises
<1>35. ASSUME NEW w \in Workers, Dispatch(w) PROVE ThreadInv'
  BY <1>35, WorkerThread, GotoThread, SettleThenThread DEF Dispatch
<1>36. ASSUME NEW w \in Workers, Finish(w) PROVE ThreadInv'
  BY <1>36, WorkerThread, GotoThread DEF Finish, FinishRunning, NotifyAll
<1>37. CASE Rest
  BY <1>37 DEF Rest, vars
<1> QED
  BY <1>1, <1>2, <1>3, <1>4, <1>5, <1>6, <1>7, <1>8, <1>9, <1>10, <1>11,
     <1>12, <1>13, <1>14, <1>15, <1>16, <1>17, <1>18, <1>19, <1>20, <1>21,
     <1>22, <1>23, <1>24, <1>25, <1>26, <1>27, <1>28, <1>29, <1>30, <1>31,
     <1>32, <1>33, <1>34, <1>35, <1>36, <1>37 DEF Next, BeginClient,
     ContinueClient, OwnerStep, WorkerStep, SettleStep, Threads

-----------------------------------------------------------------------------
(* Cancellation and adoption.                                              *)

\* Tasks whose queued adoption a closing dispatcher has still to discard.
Discards == {t \in todo[Owner] : At(Owner, "discarding") \/ after[Owner] =
  "discarding"}

\* Only a closing dispatcher has more to discard.
LEMMA GotoDiscards ==
    ASSUME TypeInv, ThreadInv, NEW th \in Threads, NEW place, Goto(th, place),
           place # "discarding" \/ after[th] = "discarding"
    PROVE  Discards' \subseteq Discards
BY OwnerThread DEF Goto, TypeInv, TypeOK, ThreadInv, Discards, At, SettlePCs

(* Beginning to settle adds nothing to the closing dispatcher's discards. *)
LEMMA SettleThenDiscards ==
    ASSUME TypeInv, ThreadInv, NEW th \in Threads, NEW outcome, NEW place,
           SettleThen(th, outcome, place), place # "discarding"
    PROVE  Discards' \subseteq Discards
BY OwnerThread DEF SettleThen, TypeInv, TypeOK, ThreadInv, Discards, At, SettlePCs

(* Taking up a task adds nothing to the discards. *)
LEMMA TakeUpDiscards ==
    ASSUME TypeInv, ThreadInv, NEW c \in Clients, NEW t, NEW place, TakeUp(c, t,
      place),
           \/ todo' = todo
           \/ todo' = [todo EXCEPT ![c] = @ \ {t}],
           place # "discarding"
    PROVE  Discards' \subseteq Discards
BY OwnerThread, ClientThread DEF TakeUp, TypeInv, TypeOK, ThreadInv, Discards, At,
   SettlePCs

(* Beginning another call adds nothing to the discards. *)
LEMMA BeginDiscards ==
    ASSUME TypeInv, ThreadInv, NEW c \in Clients, NEW place, NEW targets,
           Begin(c, place, targets), At(c, "idle") \/ At(c, "closing"),
           place # "discarding"
    PROVE  Discards' \subseteq Discards
BY OwnerThread, ClientThread DEF Begin, TypeInv, TypeOK, ThreadInv, Discards, At,
   SettlePCs

(* Only closing the dispatcher adds to the results it discards. *)
LEMMA DiscardsShrink ==
    ASSUME TypeInv, ThreadInv, ~CloseDispatcher, Next
    PROVE  Discards' \subseteq Discards
<1> USE DEF ThreadInv, SettlePCs, At, handleVars, backendVars, scopeVars,
        dispatchVars, threadVars
<1>1. ASSUME NEW th \in Threads, Settle(th) PROVE Discards' \subseteq Discards
  BY <1>1, GotoDiscards DEF Settle, PublishOutcome, BecomesState
<1>2. ASSUME NEW th \in Threads, Signal(th) PROVE Discards' \subseteq Discards
  BY <1>2, GotoDiscards DEF Signal, MarkSettled
<1>3. ASSUME NEW th \in Threads, FreeSlot(th) PROVE Discards' \subseteq Discards
  BY <1>3, GotoDiscards DEF FreeSlot, ReleaseAccepted
<1>4. ASSUME NEW th \in Threads, FreeLease(th) PROVE Discards' \subseteq Discards
  BY <1>4, GotoDiscards DEF FreeLease, RunLeaseHook, ReleaseExclusive, NotifyAll
<1>5. ASSUME NEW th \in Threads, Untrack(th) PROVE Discards' \subseteq Discards
  BY <1>5, GotoDiscards DEF Untrack
<1>6. ASSUME NEW c \in Clients, NEW t \in Tasks, RefuseScope(c, t)
      PROVE Discards' \subseteq Discards
  BY <1>6 DEF RefuseScope, Discards
<1>7. ASSUME NEW c \in Clients, NEW t \in Tasks, Register(c, t)
      PROVE Discards' \subseteq Discards
  BY <1>7, ClientThread, OwnerThread DEF Register, Discards, TypeInv, TypeOK,
     ThreadInv
<1>8. ASSUME NEW c \in Clients, NEW t \in Tasks, Cancel(c, t)
      PROVE Discards' \subseteq Discards
  BY <1>8, ClientThread, BeginDiscards DEF Cancel
<1>9. ASSUME NEW c \in Clients, NEW s \in Scopes, CancelAll(c, s)
      PROVE Discards' \subseteq Discards
  BY <1>9, ClientThread, BeginDiscards DEF CancelAll, HandlesOf
<1>10. ASSUME NEW c \in Clients, NEW s \in Scopes, CloseScope(c, s)
      PROVE Discards' \subseteq Discards
  BY <1>10, ClientThread, BeginDiscards DEF CloseScope, HandlesOf
<1>11. ASSUME NEW c \in Clients, Shutdown(c) PROVE Discards' \subseteq Discards
  BY <1>11, ClientThread, GotoDiscards DEF Shutdown
<1>12. ASSUME NEW c \in Clients, Admit(c) PROVE Discards' \subseteq Discards
  BY <1>12, ClientThread, GotoDiscards DEF Admit
<1>13. ASSUME NEW c \in Clients, Offer(c) PROVE Discards' \subseteq Discards
  BY <1>13, ClientThread, GotoDiscards DEF Offer, AcceptJob, NotifyOne
<1>14. ASSUME NEW c \in Clients, Refuse(c) PROVE Discards' \subseteq Discards
  BY <1>14, ClientThread, GotoDiscards DEF Refuse
<1>15. ASSUME NEW c \in Clients, Bind(c) PROVE Discards' \subseteq Discards
  BY <1>15, ClientThread, GotoDiscards DEF Bind, BindSubmission
<1>16. ASSUME NEW c \in Clients, NEW t \in Tasks, CancelOne(c, t)
      PROVE Discards' \subseteq Discards
  <2>1. CASE UNCHANGED <<pc, after>>
    BY <2>1, <1>16, ClientThread, OwnerThread DEF CancelOne, Discards, TypeInv, TypeOK
  <2>2. ASSUME NEW place \in {"settle", "unqueue"}, TakeUp(c, t, place)
        PROVE  Discards' \subseteq Discards
    BY <2>2, <1>16, TakeUpDiscards DEF CancelOne
  <2> QED BY <1>16, <2>1, <2>2 DEF CancelOne
<1>17. ASSUME NEW c \in Clients, NEW t \in Tasks, RevokeNext(c, t)
      PROVE Discards' \subseteq Discards
  BY <1>17, ClientThread, TakeUpDiscards DEF RevokeNext
<1>18. ASSUME NEW c \in Clients, CancelDone(c) PROVE Discards' \subseteq Discards
  BY <1>18, ClientThread, GotoDiscards DEF CancelDone
<1>19. ASSUME NEW c \in Clients, Unqueue(c) PROVE Discards' \subseteq Discards
  BY <1>19, ClientThread, GotoDiscards DEF Unqueue, RemovePending, NotifyAll
<1>20. ASSUME NEW c \in Clients, Revoke(c) PROVE Discards' \subseteq Discards
  BY <1>20, ClientThread, GotoDiscards, SettleThenDiscards DEF Revoke, RevokeJob
<1>21. ASSUME NEW c \in Clients, CloseBackend(c) PROVE Discards' \subseteq Discards
  BY <1>21, ClientThread, BeginDiscards DEF CloseBackend, CloseQueue, NotifyAll
<1>22. ASSUME NEW c \in Clients, ShutdownDone(c) PROVE Discards' \subseteq Discards
  BY <1>22, ClientThread, GotoDiscards DEF ShutdownDone
<1>23. ASSUME NEW t \in Tasks, Deliver(t) PROVE Discards' \subseteq Discards
  <2>1. CASE UNCHANGED <<pc, after, todo>>
    BY <2>1 DEF Discards
  <2>2. ASSUME NEW place \in {"settle", "adopt"}, TakeUp(Owner, t, place)
        PROVE  Discards' \subseteq Discards
    BY <2>2, <1>23, OwnerThread, TakeUpDiscards DEF Deliver
  <2> QED BY <1>23, <2>1, <2>2 DEF Deliver
<1>24. ASSUME NEW t \in Tasks, DiscardNext(t) PROVE Discards' \subseteq Discards
  BY <1>24, OwnerThread, TakeUpDiscards DEF DiscardNext
<1>25. CASE Adopt
  BY <1>25, OwnerThread, SettleThenDiscards DEF Adopt
<1>26. CASE DiscardDone
  BY <1>26, OwnerThread, GotoDiscards DEF DiscardDone
<1>27. CASE CloseDispatcher
  BY <1>27
<1>28. ASSUME NEW w \in Workers, NEW t \in Tasks, Take(w, t)
      PROVE Discards' \subseteq Discards
  BY <1>28, WorkerThread, OwnerThread DEF Take, Discards, TypeInv, TypeOK
<1>29. ASSUME NEW w \in Workers, Park(w) PROVE Discards' \subseteq Discards
  BY <1>29 DEF Park, Discards
<1>30. ASSUME NEW w \in Workers, Exit(w) PROVE Discards' \subseteq Discards
  BY <1>30, WorkerThread, GotoDiscards DEF Exit
<1>31. ASSUME NEW w \in Workers, RunJob(w) PROVE Discards' \subseteq Discards
  BY <1>31, WorkerThread, GotoDiscards DEF RunJob, ActivateJob
<1>32. ASSUME NEW w \in Workers, Execute(w) PROVE Discards' \subseteq Discards
  BY <1>32, WorkerThread, GotoDiscards, SettleThenDiscards DEF Execute, BeginWork,
     BecomesState
<1>33. ASSUME NEW w \in Workers, WorkReturns(w) PROVE Discards' \subseteq Discards
  BY <1>33, WorkerThread, GotoDiscards, SettleThenDiscards DEF WorkReturns,
     BeginDelivery, BecomesState
<1>34. ASSUME NEW w \in Workers, WorkRaises(w) PROVE Discards' \subseteq Discards
  BY <1>34, WorkerThread, SettleThenDiscards DEF WorkRaises
<1>35. ASSUME NEW w \in Workers, Dispatch(w) PROVE Discards' \subseteq Discards
  BY <1>35, WorkerThread, GotoDiscards, SettleThenDiscards DEF Dispatch
<1>36. ASSUME NEW w \in Workers, Finish(w) PROVE Discards' \subseteq Discards
  BY <1>36, WorkerThread, GotoDiscards DEF Finish, FinishRunning, NotifyAll
<1>37. CASE Rest
  BY <1>37 DEF Rest, vars, Discards
<1> QED
  BY <1>1, <1>2, <1>3, <1>4, <1>5, <1>6, <1>7, <1>8, <1>9, <1>10, <1>11,
     <1>12, <1>13, <1>14, <1>15, <1>16, <1>17, <1>18, <1>19, <1>20, <1>21,
     <1>22, <1>23, <1>24, <1>25, <1>26, <1>27, <1>28, <1>29, <1>30, <1>31,
     <1>32, <1>33, <1>34, <1>35, <1>36, <1>37 DEF Next, BeginClient,
     ContinueClient, OwnerStep, WorkerStep, SettleStep, Threads

\* Until a job has been entered or revoked its handle is where submit left it.
Untouched == \A t \in Tasks : t \notin activated => state[t] \in {"absent", "pending"}

\* A dispatched result is in the mailbox, then with the owner.
ResultPath ==
    /\ mailbox \cup adopting \cup Discards \subseteq activated
    /\ adopting \cap (mailbox \cup Discards) = {}
    /\ dispatcherClosed => mailbox = {}
    /\ Discards # {} => dispatcherClosed

\* A worker that has not dispatched its result is the only one to have it.
WorkersHold ==
    \A w \in Workers : pc[w] \in {"execute", "work", "dispatch"} =>
        cur[w] \in activated \ (mailbox \cup adopting \cup Discards)

OneWorkerEach ==
    \A w, v \in Workers :
        (/\ w # v
         /\ pc[w] \in {"execute", "work", "dispatch"}
         /\ pc[v] \in {"execute", "work", "dispatch"}) => cur[w] # cur[v]

\* Whoever is about to publish an outcome is entitled to it.
Entitled ==
    /\ \A th \in Threads : At(th, "settle") =>
         /\ cur[th] \in activated
         /\ fate[th] = "succeeded" => cur[th] \in adopting
         /\ fate[th] = "cancelled" =>
              /\ cur[th] \notin adopting
              /\ cur[th] \in cancelled \/ dispatcherClosed
    /\ \A th \in Threads : At(th, "adopt") => cur[th] \in adopting

AdoptInv == Untouched /\ ResultPath /\ WorkersHold /\ OneWorkerEach /\ Entitled /\
  CancelOrAdopt

(* No result is on its way initially. *)
LEMMA AdoptInit == Init => AdoptInv
BY OwnerThread DEF Init, HandleInit, AdoptInv, Untouched, ResultPath, WorkersHold,
   OneWorkerEach, Entitled, CancelOrAdopt, Discards, At, Threads

(* Every step but closing the dispatcher keeps a result in one place. *)
LEMMA AdoptNext ==
    ASSUME TypeInv, ThreadInv, AdoptInv, ~CloseDispatcher, Next
    PROVE  AdoptInv'
<1> USE DEF TypeInv, TypeOK, HandleTypeOK, TaskInHand, ThreadInv, AdoptInv, RestPCs,
        WorkerPCs, ClientPCs, SettlePCs, Terminal, Live, States, Threads, handleVars,
        backendVars, scopeVars, dispatchVars, threadVars, At, Goto, Begin, TakeUp,
        SettleThen, Untouched, Entitled, ResultPath, OneWorkerEach, CancelOrAdopt,
        WorkersHold
<1>0. Discards' \subseteq Discards
  BY DiscardsShrink
<1>1. ASSUME NEW th \in Threads, Settle(th) PROVE AdoptInv'
  BY <1>0, <1>1 DEF Settle, PublishOutcome, BecomesState
<1>2. ASSUME NEW th \in Threads, Signal(th) PROVE AdoptInv'
  BY <1>0, <1>2 DEF Signal, MarkSettled
<1>3. ASSUME NEW th \in Threads, FreeSlot(th) PROVE AdoptInv'
  BY <1>0, <1>3 DEF FreeSlot, ReleaseAccepted
<1>4. ASSUME NEW th \in Threads, FreeLease(th) PROVE AdoptInv'
  BY <1>0, <1>4 DEF FreeLease, RunLeaseHook, ReleaseExclusive, NotifyAll
<1>5. ASSUME NEW th \in Threads, Untrack(th) PROVE AdoptInv'
  BY <1>0, <1>5 DEF Untrack
<1>6. ASSUME NEW c \in Clients, NEW t \in Tasks, RefuseScope(c, t)
      PROVE AdoptInv'
  BY <1>0, <1>6, ClientThread DEF RefuseScope
<1>7. ASSUME NEW c \in Clients, NEW t \in Tasks, Register(c, t) PROVE AdoptInv'
  BY <1>0, <1>7, ClientThread DEF Register, CreateHandle, BecomesState
<1>8. ASSUME NEW c \in Clients, NEW t \in Tasks, Cancel(c, t) PROVE AdoptInv'
  BY <1>0, <1>8, ClientThread DEF Cancel
<1>9. ASSUME NEW c \in Clients, NEW s \in Scopes, CancelAll(c, s) PROVE AdoptInv'
  BY <1>0, <1>9, ClientThread DEF CancelAll, HandlesOf
<1>10. ASSUME NEW c \in Clients, NEW s \in Scopes, CloseScope(c, s)
      PROVE AdoptInv'
  BY <1>0, <1>10, ClientThread DEF CloseScope, HandlesOf
<1>11. ASSUME NEW c \in Clients, Shutdown(c) PROVE AdoptInv'
  BY <1>0, <1>11, ClientThread DEF Shutdown
<1>12. ASSUME NEW c \in Clients, Admit(c) PROVE AdoptInv'
  BY <1>0, <1>12, ClientThread DEF Admit
<1>13. ASSUME NEW c \in Clients, Offer(c) PROVE AdoptInv'
  BY <1>0, <1>13, ClientThread DEF Offer, AcceptJob, NotifyOne
<1>14. ASSUME NEW c \in Clients, Refuse(c) PROVE AdoptInv'
  BY <1>0, <1>14, ClientThread DEF Refuse
<1>15. ASSUME NEW c \in Clients, Bind(c) PROVE AdoptInv'
  BY <1>0, <1>15, ClientThread DEF Bind, BindSubmission
<1>16. ASSUME NEW c \in Clients, NEW t \in Tasks, CancelOne(c, t) PROVE AdoptInv'
  BY <1>0, <1>16, ClientThread DEF CancelOne, CancelRefused, RequestCancel
<1>17. ASSUME NEW c \in Clients, NEW t \in Tasks, RevokeNext(c, t) PROVE AdoptInv'
  BY <1>0, <1>17, ClientThread DEF RevokeNext
<1>18. ASSUME NEW c \in Clients, CancelDone(c) PROVE AdoptInv'
  BY <1>0, <1>18, ClientThread DEF CancelDone
<1>19. ASSUME NEW c \in Clients, Unqueue(c) PROVE AdoptInv'
  BY <1>0, <1>19, ClientThread DEF Unqueue, RemovePending, NotifyAll
<1>20. ASSUME NEW c \in Clients, Revoke(c) PROVE AdoptInv'
  BY <1>0, <1>20, ClientThread DEF Revoke, RevokeJob
<1>21. ASSUME NEW c \in Clients, CloseBackend(c) PROVE AdoptInv'
  BY <1>0, <1>21, ClientThread DEF CloseBackend, CloseQueue, NotifyAll
<1>22. ASSUME NEW c \in Clients, ShutdownDone(c) PROVE AdoptInv'
  BY <1>0, <1>22, ClientThread DEF ShutdownDone
<1>23. ASSUME NEW t \in Tasks, Deliver(t) PROVE AdoptInv'
  BY <1>0, <1>23, OwnerThread DEF Deliver, BeginAdoption
<1>24. ASSUME NEW t \in Tasks, DiscardNext(t) PROVE AdoptInv'
  BY <1>0, <1>24, OwnerThread DEF DiscardNext, Discards
<1>25. CASE Adopt
  BY <1>0, <1>25, OwnerThread DEF Adopt
<1>26. CASE DiscardDone
  BY <1>0, <1>26, OwnerThread DEF DiscardDone
<1>27. CASE CloseDispatcher
  BY <1>0, <1>27
<1>28. ASSUME NEW w \in Workers, NEW t \in Tasks, Take(w, t) PROVE AdoptInv'
  BY <1>0, <1>28, WorkerThread DEF Take, StartJob, RegisterLeaseHook
<1>29. ASSUME NEW w \in Workers, Park(w) PROVE AdoptInv'
  BY <1>0, <1>29, WorkerThread DEF Park, WaitForWork
<1>30. ASSUME NEW w \in Workers, Exit(w) PROVE AdoptInv'
  BY <1>0, <1>30, WorkerThread DEF Exit
<1>31. ASSUME NEW w \in Workers, RunJob(w) PROVE AdoptInv'
  BY <1>0, <1>31, WorkerThread DEF RunJob, ActivateJob
<1>32. ASSUME NEW w \in Workers, Execute(w) PROVE AdoptInv'
  BY <1>0, <1>32, WorkerThread DEF Execute, BeginWork, BecomesState
<1>33. ASSUME NEW w \in Workers, WorkReturns(w) PROVE AdoptInv'
  BY <1>0, <1>33, WorkerThread DEF WorkReturns, BeginDelivery, BecomesState
<1>34. ASSUME NEW w \in Workers, WorkRaises(w) PROVE AdoptInv'
  BY <1>0, <1>34, WorkerThread DEF WorkRaises
<1>35. ASSUME NEW w \in Workers, Dispatch(w) PROVE AdoptInv'
  BY <1>0, <1>35, WorkerThread DEF Dispatch
<1>36. ASSUME NEW w \in Workers, Finish(w) PROVE AdoptInv'
  BY <1>0, <1>36, WorkerThread DEF Finish, FinishRunning, NotifyAll
<1>37. CASE Rest
  BY <1>0, <1>37 DEF Rest, vars
<1> QED
  BY <1>1, <1>2, <1>3, <1>4, <1>5, <1>6, <1>7, <1>8, <1>9, <1>10, <1>11,
     <1>12, <1>13, <1>14, <1>15, <1>16, <1>17, <1>18, <1>19, <1>20, <1>21,
     <1>22, <1>23, <1>24, <1>25, <1>26, <1>27, <1>28, <1>29, <1>30, <1>31,
     <1>32, <1>33, <1>34, <1>35, <1>36, <1>37 DEF Next, BeginClient,
     ContinueClient, OwnerStep, WorkerStep, SettleStep, Threads

(* Closing the dispatcher takes over its queue and keeps a result in one place. *)
LEMMA AdoptClosing ==
    ASSUME TypeInv, ThreadInv, AdoptInv, CloseDispatcher
    PROVE  AdoptInv'
BY OwnerThread DEF CloseDispatcher, TypeInv, TypeOK, HandleTypeOK, ThreadInv,
   AdoptInv,
   Untouched, ResultPath, WorkersHold, OneWorkerEach, Entitled, CancelOrAdopt,
     Discards,
   Begin, At, SettlePCs, handleVars

(* Stuttering keeps the thread and adoption invariants. *)
LEMMA AdoptStutter ==
    ASSUME TypeInv, ThreadInv, AdoptInv, UNCHANGED vars
    PROVE  ThreadInv' /\ AdoptInv'
BY DEF vars, handleVars, backendVars, scopeVars, dispatchVars, threadVars, ThreadInv,
   AdoptInv, Untouched, ResultPath, WorkersHold, OneWorkerEach, Entitled,
   CancelOrAdopt, Discards, At

\* Cancellation and adoption exclude each other in every interleaving of cancel,
\* close and shutdown with the workers, the owner thread and the dispatcher's close.
THEOREM CancelOrAdoptAlways == Spec => []CancelOrAdopt
<1> DEFINE Inv == TypeInv /\ ThreadInv /\ AdoptInv
<1>1. Init => Inv
  BY TypeInit, ThreadInit, AdoptInit
<1>2. Inv /\ [Next]_vars => Inv'
  <2> SUFFICES ASSUME Inv, [Next]_vars PROVE Inv'
    OBVIOUS
  <2>1. TypeInv'
    BY TypeStep
  <2>2. CASE UNCHANGED vars
    BY <2>1, <2>2, AdoptStutter
  <2>3. CASE Next
    BY <2>1, <2>3, ThreadNext, AdoptNext, AdoptClosing
  <2> QED BY <2>2, <2>3
<1>3. Inv => CancelOrAdopt
  BY DEF AdoptInv
<1> QED BY <1>1, <1>2, <1>3, PTL DEF Spec

-----------------------------------------------------------------------------
(* Ownership of jobs and of keys.                                          *)

\* Jobs the backend has accepted at some time.
Offered == accepted \cup activated

\* Jobs that a closing backend has still to revoke.
Revocations(c) == {t \in todo[c] : At(c, "revoking") \/ after[c] = "revoking"}

\* Only a closing backend has more to revoke.
LEMMA GotoRevocations ==
    ASSUME TypeInv, ThreadInv, NEW d \in Clients, NEW th \in Threads, NEW place,
           Goto(th, place), place # "revoking" \/ after[th] = "revoking"
    PROVE  Revocations(d)' \subseteq Revocations(d)
BY ClientThread DEF Goto, TypeInv, TypeOK, ThreadInv, Revocations, At, SettlePCs

(* Beginning to settle adds nothing to the revocations of a shutdown. *)
LEMMA SettleThenRevocations ==
    ASSUME TypeInv, ThreadInv, NEW d \in Clients, NEW th \in Threads, NEW outcome,
           NEW place, SettleThen(th, outcome, place),
           place # "revoking" \/ after[th] = "revoking"
    PROVE  Revocations(d)' \subseteq Revocations(d)
BY ClientThread DEF SettleThen, TypeInv, TypeOK, ThreadInv, Revocations, At, SettlePCs

(* Taking up a task adds nothing to the revocations. *)
LEMMA TakeUpRevocations ==
    ASSUME TypeInv, ThreadInv, NEW d \in Clients, NEW c \in Clients, NEW t, NEW place,
           TakeUp(c, t, place),
           \/ todo' = todo
           \/ todo' = [todo EXCEPT ![c] = @ \ {t}],
           place # "revoking"
    PROVE  Revocations(d)' \subseteq Revocations(d)
BY ClientThread DEF TakeUp, TypeInv, TypeOK, ThreadInv, Revocations, At, SettlePCs

(* Beginning another call adds nothing to the revocations. *)
LEMMA BeginRevocations ==
    ASSUME TypeInv, ThreadInv, NEW d \in Clients, NEW c \in Clients, NEW place,
           NEW targets, Begin(c, place, targets), At(c, "idle") \/ At(c, "closing"),
           place # "revoking"
    PROVE  Revocations(d)' \subseteq Revocations(d)
BY ClientThread DEF Begin, TypeInv, TypeOK, ThreadInv, Revocations, At, SettlePCs

(* Only closing the backend adds to the jobs its shutdown revokes. *)
LEMMA RevocationsShrink ==
    ASSUME TypeInv, ThreadInv, NEW d \in Clients, ~CloseBackend(d), Next
    PROVE  Revocations(d)' \subseteq Revocations(d)
<1> USE DEF ThreadInv, SettlePCs, At, handleVars, backendVars, scopeVars,
        dispatchVars, threadVars
<1>1. ASSUME NEW th \in Threads, Settle(th)
      PROVE Revocations(d)' \subseteq Revocations(d)
  BY <1>1, GotoRevocations DEF Settle, PublishOutcome, BecomesState
<1>2. ASSUME NEW th \in Threads, Signal(th)
      PROVE Revocations(d)' \subseteq Revocations(d)
  BY <1>2, GotoRevocations DEF Signal, MarkSettled
<1>3. ASSUME NEW th \in Threads, FreeSlot(th)
      PROVE Revocations(d)' \subseteq Revocations(d)
  BY <1>3, GotoRevocations DEF FreeSlot, ReleaseAccepted
<1>4. ASSUME NEW th \in Threads, FreeLease(th)
      PROVE Revocations(d)' \subseteq Revocations(d)
  BY <1>4, GotoRevocations DEF FreeLease, RunLeaseHook, ReleaseExclusive, NotifyAll
<1>5. ASSUME NEW th \in Threads, Untrack(th)
      PROVE Revocations(d)' \subseteq Revocations(d)
  BY <1>5, GotoRevocations DEF Untrack
<1>6. ASSUME NEW c \in Clients, NEW t \in Tasks, RefuseScope(c, t)
      PROVE Revocations(d)' \subseteq Revocations(d)
  BY <1>6 DEF RefuseScope, Revocations
<1>7. ASSUME NEW c \in Clients, NEW t \in Tasks, Register(c, t)
      PROVE Revocations(d)' \subseteq Revocations(d)
  BY <1>7, ClientThread DEF Register, Revocations, TypeInv, TypeOK, ThreadInv
<1>8. ASSUME NEW c \in Clients, NEW t \in Tasks, Cancel(c, t)
      PROVE Revocations(d)' \subseteq Revocations(d)
  BY <1>8, ClientThread, BeginRevocations DEF Cancel
<1>9. ASSUME NEW c \in Clients, NEW s \in Scopes, CancelAll(c, s)
      PROVE Revocations(d)' \subseteq Revocations(d)
  BY <1>9, ClientThread, BeginRevocations DEF CancelAll, HandlesOf
<1>10. ASSUME NEW c \in Clients, NEW s \in Scopes, CloseScope(c, s)
      PROVE Revocations(d)' \subseteq Revocations(d)
  BY <1>10, ClientThread, BeginRevocations DEF CloseScope, HandlesOf
<1>11. ASSUME NEW c \in Clients, Shutdown(c)
      PROVE Revocations(d)' \subseteq Revocations(d)
  BY <1>11, ClientThread, GotoRevocations DEF Shutdown
<1>12. ASSUME NEW c \in Clients, Admit(c)
      PROVE Revocations(d)' \subseteq Revocations(d)
  BY <1>12, ClientThread, GotoRevocations DEF Admit
<1>13. ASSUME NEW c \in Clients, Offer(c)
      PROVE Revocations(d)' \subseteq Revocations(d)
  BY <1>13, ClientThread, GotoRevocations DEF Offer, AcceptJob, NotifyOne
<1>14. ASSUME NEW c \in Clients, Refuse(c)
      PROVE Revocations(d)' \subseteq Revocations(d)
  BY <1>14, ClientThread, GotoRevocations DEF Refuse
<1>15. ASSUME NEW c \in Clients, Bind(c)
      PROVE Revocations(d)' \subseteq Revocations(d)
  BY <1>15, ClientThread, GotoRevocations DEF Bind, BindSubmission
<1>16. ASSUME NEW c \in Clients, NEW t \in Tasks, CancelOne(c, t)
      PROVE Revocations(d)' \subseteq Revocations(d)
  <2>1. CASE UNCHANGED <<pc, after>>
    BY <2>1, <1>16, ClientThread DEF CancelOne, Revocations, TypeInv, TypeOK
  <2>2. ASSUME NEW place \in {"settle", "unqueue"}, TakeUp(c, t, place)
        PROVE  Revocations(d)' \subseteq Revocations(d)
    BY <2>2, <1>16, TakeUpRevocations DEF CancelOne
  <2> QED BY <1>16, <2>1, <2>2 DEF CancelOne
<1>17. ASSUME NEW c \in Clients, NEW t \in Tasks, RevokeNext(c, t)
      PROVE Revocations(d)' \subseteq Revocations(d)
  BY <1>17, ClientThread, TakeUpRevocations DEF RevokeNext
<1>18. ASSUME NEW c \in Clients, CancelDone(c)
      PROVE Revocations(d)' \subseteq Revocations(d)
  BY <1>18, ClientThread, GotoRevocations DEF CancelDone
<1>19. ASSUME NEW c \in Clients, Unqueue(c)
      PROVE Revocations(d)' \subseteq Revocations(d)
  BY <1>19, ClientThread, GotoRevocations DEF Unqueue, RemovePending, NotifyAll
<1>20. ASSUME NEW c \in Clients, Revoke(c)
      PROVE Revocations(d)' \subseteq Revocations(d)
  BY <1>20, ClientThread, GotoRevocations, SettleThenRevocations DEF Revoke, RevokeJob
<1>21. ASSUME NEW c \in Clients, CloseBackend(c)
      PROVE Revocations(d)' \subseteq Revocations(d)
  BY <1>21, ClientThread DEF CloseBackend, Begin, Revocations, TypeInv, TypeOK,
     ThreadInv
<1>22. ASSUME NEW c \in Clients, ShutdownDone(c)
      PROVE Revocations(d)' \subseteq Revocations(d)
  BY <1>22, ClientThread, GotoRevocations DEF ShutdownDone
<1>23. ASSUME NEW t \in Tasks, Deliver(t)
      PROVE Revocations(d)' \subseteq Revocations(d)
  <2>1. CASE UNCHANGED <<pc, after, todo>>
    BY <2>1 DEF Revocations
  <2>2. ASSUME NEW place \in {"settle", "adopt"}, TakeUp(Owner, t, place)
        PROVE  Revocations(d)' \subseteq Revocations(d)
    BY <2>2, <1>23, OwnerThread, TakeUpRevocations DEF Deliver
  <2> QED BY <1>23, <2>1, <2>2 DEF Deliver
<1>24. ASSUME NEW t \in Tasks, DiscardNext(t)
      PROVE Revocations(d)' \subseteq Revocations(d)
  BY <1>24, OwnerThread, TakeUpRevocations DEF DiscardNext
<1>25. CASE Adopt
  BY <1>25, OwnerThread, SettleThenRevocations DEF Adopt
<1>26. CASE DiscardDone
  BY <1>26, OwnerThread, GotoRevocations DEF DiscardDone
<1>27. CASE CloseDispatcher
  BY <1>27, OwnerThread, BeginRevocations DEF CloseDispatcher
<1>28. ASSUME NEW w \in Workers, NEW t \in Tasks, Take(w, t)
      PROVE Revocations(d)' \subseteq Revocations(d)
  BY <1>28, ClientThread, WorkerThread DEF Take, Revocations, TypeInv, TypeOK
<1>29. ASSUME NEW w \in Workers, Park(w)
      PROVE Revocations(d)' \subseteq Revocations(d)
  BY <1>29 DEF Park, Revocations
<1>30. ASSUME NEW w \in Workers, Exit(w)
      PROVE Revocations(d)' \subseteq Revocations(d)
  BY <1>30, WorkerThread, GotoRevocations DEF Exit
<1>31. ASSUME NEW w \in Workers, RunJob(w)
      PROVE Revocations(d)' \subseteq Revocations(d)
  BY <1>31, WorkerThread, GotoRevocations DEF RunJob, ActivateJob
<1>32. ASSUME NEW w \in Workers, Execute(w)
      PROVE Revocations(d)' \subseteq Revocations(d)
  BY <1>32, WorkerThread, GotoRevocations, SettleThenRevocations DEF Execute,
     BeginWork, BecomesState
<1>33. ASSUME NEW w \in Workers, WorkReturns(w)
      PROVE Revocations(d)' \subseteq Revocations(d)
  BY <1>33, WorkerThread, GotoRevocations, SettleThenRevocations DEF WorkReturns,
     BeginDelivery, BecomesState
<1>34. ASSUME NEW w \in Workers, WorkRaises(w)
      PROVE Revocations(d)' \subseteq Revocations(d)
  BY <1>34, WorkerThread, SettleThenRevocations DEF WorkRaises
<1>35. ASSUME NEW w \in Workers, Dispatch(w)
      PROVE Revocations(d)' \subseteq Revocations(d)
  BY <1>35, WorkerThread, GotoRevocations, SettleThenRevocations DEF Dispatch
<1>36. ASSUME NEW w \in Workers, Finish(w)
      PROVE Revocations(d)' \subseteq Revocations(d)
  BY <1>36, WorkerThread, GotoRevocations DEF Finish, FinishRunning, NotifyAll
<1>37. CASE Rest
  BY <1>37 DEF Rest, vars, Revocations
<1> QED
  BY <1>1, <1>2, <1>3, <1>4, <1>5, <1>6, <1>7, <1>8, <1>9, <1>10, <1>11,
     <1>12, <1>13, <1>14, <1>15, <1>16, <1>17, <1>18, <1>19, <1>20, <1>21,
     <1>22, <1>23, <1>24, <1>25, <1>26, <1>27, <1>28, <1>29, <1>30, <1>31,
     <1>32, <1>33, <1>34, <1>35, <1>36, <1>37 DEF Next, BeginClient,
     ContinueClient, OwnerStep, WorkerStep, SettleStep, Threads

\* A job is offered once, by the thread that registered it, and a queued job is
\* nobody else's.
Queued ==
    /\ pending \cup running \cup leaseHooks \subseteq Offered
    /\ pending \cap (running \cup leaseHooks \cup activated) = {}
    /\ \A t \in Tasks : state[t] = "absent" => t \notin Offered
    /\ \A c \in Clients : pc[c] \in {"admit", "offer"} =>
         state[cur[c]] # "absent" /\ cur[c] \notin Offered
    /\ \A c, d \in Clients :
         c # d /\ pc[c] \in {"admit", "offer"} /\ pc[d] \in {"admit", "offer"} =>
             cur[c] # cur[d]

\* A job taken by a worker is in the running set and with no other worker.
Taken ==
    /\ \A w \in Workers : pc[w] \notin {"take", "exited"} => cur[w] \in running
    /\ \A w, v \in Workers :
         w # v /\ pc[w] \notin {"take", "exited"} /\ pc[v] \notin {"take", "exited"}
           =>
             cur[w] # cur[v]
    /\ \A w \in Workers : At(w, "run") => cur[w] \notin activated

\* A job about to be revoked is in no worker's hands.
Revoked ==
    \A c \in Clients :
        /\ At(c, "revoke") =>
             cur[c] \in Offered \ (pending \cup running \cup leaseHooks)
        /\ Revocations(c) \subseteq Offered \ (pending \cup running \cup leaseHooks)

\* Nobody settles a task between its start and its delivery but its worker.
Undisturbed ==
    /\ \A w \in Workers :
         /\ At(w, "execute") => state[cur[w]] = "pending"
         /\ At(w, "work") => state[cur[w]] = "running"
         /\ At(w, "dispatch") => state[cur[w]] \in {"delivering"} \cup Terminal
    /\ \A t \in mailbox \cup adopting \cup Discards :
         state[t] \in {"delivering"} \cup Terminal
    /\ \A th \in Threads, w \in Workers :
         th # w /\ At(th, "settle") /\ pc[w] \in {"run", "execute", "work"} =>
             cur[th] # cur[w]

\* One thread runs the settled callbacks of a task, once it has its outcome.
Published ==
    /\ \A th \in Threads : pc[th] \in SettlePCs \ {"settle"} => state[cur[th]] \in
      Terminal
    /\ \A th, tg \in Threads :
         th # tg /\ pc[th] \in SettlePCs \ {"settle"} /\ pc[tg] \in SettlePCs \
           {"settle"} =>
             cur[th] # cur[tg]
    /\ \A th \in Threads : At(th, "lease") => cur[th] \in leaseHooks
    /\ settled \subseteq activated

\* An adoption-held task keeps its hook from the moment a worker takes it.
Hooked ==
    /\ leaseHooks \subseteq AdoptionHeld
    /\ \A t \in AdoptionHeld : state[t] \in {"running", "delivering"} => t \in
      leaseHooks
    /\ \A w \in Workers :
         pc[w] \in {"run", "execute", "work"} /\ cur[w] \in AdoptionHeld =>
             cur[w] \in leaseHooks

(* Steps that register nothing and start nothing keep every lease hooked. *)
LEMMA HookedKept ==
    ASSUME Hooked, leaseHooks' = leaseHooks,
           \A t \in AdoptionHeld : state'[t] \in {"running", "delivering"} =>
               t \in leaseHooks,
           \A w \in Workers : pc'[w] \in {"run", "execute", "work"} =>
               pc[w] \in {"run", "execute", "work"} /\ cur'[w] = cur[w]
    PROVE  Hooked'
BY DEF Hooked

Holders == leaseHooks \cup (running \cap HoldsWhileWorking)

\* The backend's reserved keys are those of the holders, one holder each.
KeysHeld ==
    /\ \A t \in Holders : KeyOf[t] \in exclusive
    /\ \A t, u \in Holders : t # u => KeyOf[t] # KeyOf[u]

OwnershipInv == Queued /\ Taken /\ Revoked /\ Undisturbed /\ Published /\ Hooked /\
  KeysHeld

(* No job has an owner initially. *)
LEMMA OwnershipInit == Init => OwnershipInv
<1> USE OwnerThread, ClientThread, WorkerThread DEF Init, HandleInit, BackendInit, At,
        Threads, SettlePCs
<1>1. Init => Queued
  BY DEF Queued, Offered
<1>2. Init => Taken
  BY DEF Taken
<1>3. Init => Revoked
  BY DEF Revoked, Revocations
<1>4. Init => Undisturbed
  BY DEF Undisturbed, Discards
<1>5. Init => Published /\ Hooked /\ KeysHeld
  BY RequirementsAssumption DEF Published, Hooked, KeysHeld, Holders
<1> QED BY <1>1, <1>2, <1>3, <1>4, <1>5 DEF OwnershipInv

(* Every step but the two closings keeps each job with one owner and each
   key with its holder. *)
LEMMA OwnershipNext ==
    ASSUME TypeInv, ThreadInv, AdoptInv, OwnershipInv, ~CloseDispatcher,
           \A c \in Clients : ~CloseBackend(c), Next
    PROVE  OwnershipInv'
<1> USE DEF TypeInv, TypeOK, HandleTypeOK, TaskInHand, ThreadInv, AdoptInv, RestPCs,
        WorkerPCs, ClientPCs, SettlePCs, Terminal, Live, States, Threads, handleVars,
        backendVars, scopeVars, dispatchVars, threadVars, At, Goto, Begin, TakeUp,
        SettleThen, Offered, OwnershipInv, Untouched, ResultPath, WorkersHold,
        OneWorkerEach, Entitled, CancelOrAdopt, BackendTypeOK, Queued, Taken, Revoked,
        Undisturbed, Published, Hooked, KeysHeld, Holders, HoldsThroughAdoption,
        HoldsWhileWorking
<1>0. /\ Discards' \subseteq Discards
      /\ \A c \in Clients : Revocations(c)' \subseteq Revocations(c)
  BY DiscardsShrink, RevocationsShrink
<1>1. ASSUME NEW th \in Threads, Settle(th) PROVE OwnershipInv'
  <2>1. Hooked'
    <3>1. leaseHooks' = leaseHooks
      BY <1>0, <1>1 DEF Settle, PublishOutcome, BecomesState
    <3>2. \A t \in AdoptionHeld : state'[t] \in {"running", "delivering"} =>
             t \in leaseHooks
      BY <1>0, <1>1, RequirementsAssumption DEF Settle, PublishOutcome, BecomesState
    <3>3. \A w \in Workers : pc'[w] \in {"run", "execute", "work"} =>
             pc[w] \in {"run", "execute", "work"} /\ cur'[w] = cur[w]
      BY <1>0, <1>1 DEF Settle
    <3> QED BY <3>1, <3>2, <3>3, HookedKept
  <2>2. Queued'
    BY <1>0, <1>1 DEF Settle, PublishOutcome, BecomesState
  <2>3. Taken'
    BY <1>0, <1>1 DEF Settle, PublishOutcome, BecomesState
  <2>4. Revoked'
    BY <1>1, <1>0 DEF Settle, PublishOutcome, BecomesState
  <2>5. Undisturbed' /\ Published' /\ KeysHeld'
    BY <1>1, <1>0, SMTT(60) DEF Settle, PublishOutcome, BecomesState
  <2> QED BY <2>1, <2>2, <2>3, <2>4, <2>5
<1>2. ASSUME NEW th \in Threads, Signal(th) PROVE OwnershipInv'
  BY <1>0, <1>2 DEF Signal, MarkSettled
<1>3. ASSUME NEW th \in Threads, FreeSlot(th) PROVE OwnershipInv'
  BY <1>0, <1>3 DEF FreeSlot, ReleaseAccepted
<1>4. ASSUME NEW th \in Threads, FreeLease(th) PROVE OwnershipInv'
  BY <1>0, <1>4 DEF FreeLease, RunLeaseHook, ReleaseExclusive, NotifyAll
<1>5. ASSUME NEW th \in Threads, Untrack(th) PROVE OwnershipInv'
  BY <1>0, <1>5, SMTT(60) DEF Untrack
<1>6. ASSUME NEW c \in Clients, NEW t \in Tasks, RefuseScope(c, t)
      PROVE OwnershipInv'
  BY <1>0, <1>6, ClientThread DEF RefuseScope
<1>7. ASSUME NEW c \in Clients, NEW t \in Tasks, Register(c, t)
      PROVE OwnershipInv'
  BY <1>0, <1>7, ClientThread DEF Register, CreateHandle, BecomesState
<1>8. ASSUME NEW c \in Clients, NEW t \in Tasks, Cancel(c, t) PROVE OwnershipInv'
  BY <1>0, <1>8, ClientThread DEF Cancel
<1>9. ASSUME NEW c \in Clients, NEW s \in Scopes, CancelAll(c, s)
      PROVE OwnershipInv'
  BY <1>0, <1>9, ClientThread DEF CancelAll, HandlesOf
<1>10. ASSUME NEW c \in Clients, NEW s \in Scopes, CloseScope(c, s)
      PROVE OwnershipInv'
  BY <1>0, <1>10, ClientThread DEF CloseScope, HandlesOf
<1>11. ASSUME NEW c \in Clients, Shutdown(c) PROVE OwnershipInv'
  BY <1>0, <1>11, ClientThread DEF Shutdown
<1>12. ASSUME NEW c \in Clients, Admit(c) PROVE OwnershipInv'
  BY <1>0, <1>12, ClientThread DEF Admit
<1>13. ASSUME NEW c \in Clients, Offer(c) PROVE OwnershipInv'
  BY <1>0, <1>13, ClientThread DEF Offer, AcceptJob, NotifyOne
<1>14. ASSUME NEW c \in Clients, Refuse(c) PROVE OwnershipInv'
  BY <1>0, <1>14, ClientThread DEF Refuse
<1>15. ASSUME NEW c \in Clients, Bind(c) PROVE OwnershipInv'
  BY <1>0, <1>15, ClientThread DEF Bind, BindSubmission
<1>16. ASSUME NEW c \in Clients, NEW t \in Tasks, CancelOne(c, t)
      PROVE OwnershipInv'
  BY <1>0, <1>16, ClientThread DEF CancelOne, CancelRefused, RequestCancel
<1>17. ASSUME NEW c \in Clients, NEW t \in Tasks, RevokeNext(c, t)
      PROVE OwnershipInv'
  BY <1>17, <1>0, ClientThread DEF RevokeNext, Revocations
<1>18. ASSUME NEW c \in Clients, CancelDone(c) PROVE OwnershipInv'
  BY <1>0, <1>18, ClientThread DEF CancelDone
<1>19. ASSUME NEW c \in Clients, Unqueue(c) PROVE OwnershipInv'
  BY <1>0, <1>19, ClientThread, SMTT(60) DEF Unqueue, RemovePending, NotifyAll
<1>20. ASSUME NEW c \in Clients, Revoke(c) PROVE OwnershipInv'
  BY <1>0, <1>20, ClientThread, SMTT(60) DEF Revoke, RevokeJob
<1>21. ASSUME NEW c \in Clients, CloseBackend(c) PROVE OwnershipInv'
  BY <1>0, <1>21
<1>22. ASSUME NEW c \in Clients, ShutdownDone(c) PROVE OwnershipInv'
  BY <1>0, <1>22, ClientThread DEF ShutdownDone
<1>23. ASSUME NEW t \in Tasks, Deliver(t) PROVE OwnershipInv'
  <2>1. CASE state[t] # "delivering"
    BY <1>0, <1>23, <2>1, OwnerThread DEF Deliver
  <2>2. CASE state[t] = "delivering" /\ t \in cancelled
    BY <1>0, <1>23, <2>2, OwnerThread DEF Deliver
  <2>3. CASE state[t] = "delivering" /\ t \notin cancelled
    BY <1>0, <1>23, <2>3, OwnerThread, SMTT(60) DEF Deliver, BeginAdoption
  <2> QED BY <2>1, <2>2, <2>3
<1>24. ASSUME NEW t \in Tasks, DiscardNext(t) PROVE OwnershipInv'
  BY <1>24, <1>0, OwnerThread DEF DiscardNext, Discards
<1>25. CASE Adopt
  BY <1>0, <1>25, OwnerThread DEF Adopt
<1>26. CASE DiscardDone
  BY <1>0, <1>26, OwnerThread DEF DiscardDone
<1>27. CASE CloseDispatcher
  BY <1>0, <1>27
<1>28. ASSUME NEW w \in Workers, NEW t \in Tasks, Take(w, t) PROVE OwnershipInv'
  BY <1>28, <1>0, WorkerThread, RequirementsAssumption DEF Take, KeyIsFree, Eligible,
     StartJob, RegisterLeaseHook,
     Eligible, KeyIsFree
<1>29. ASSUME NEW w \in Workers, Park(w) PROVE OwnershipInv'
  BY <1>0, <1>29, WorkerThread DEF Park, WaitForWork
<1>30. ASSUME NEW w \in Workers, Exit(w) PROVE OwnershipInv'
  BY <1>0, <1>30, WorkerThread DEF Exit
<1>31. ASSUME NEW w \in Workers, RunJob(w) PROVE OwnershipInv'
  BY <1>0, <1>31, WorkerThread, SMTT(60) DEF RunJob, ActivateJob
<1>32. ASSUME NEW w \in Workers, Execute(w) PROVE OwnershipInv'
  <2>1. Hooked'
    <3>1. leaseHooks' = leaseHooks
      BY <1>0, <1>32 DEF Execute, BeginWork, BecomesState
    <3>2. \A t \in AdoptionHeld : state'[t] \in {"running", "delivering"} =>
             t \in leaseHooks
      BY <1>0, <1>32, WorkerThread, RequirementsAssumption DEF Execute, BeginWork,
         BecomesState
    <3>3. \A v \in Workers : pc'[v] \in {"run", "execute", "work"} =>
             pc[v] \in {"run", "execute", "work"} /\ cur'[v] = cur[v]
      BY <1>0, <1>32, WorkerThread DEF Execute
    <3> QED BY <3>1, <3>2, <3>3, HookedKept
  <2>2. Queued' /\ Taken' /\ Revoked'
    BY <1>32, <1>0, WorkerThread, SMTT(60) DEF Execute, BeginWork, BecomesState
  <2>3. Undisturbed' /\ Published' /\ KeysHeld'
    BY <1>32, <1>0, WorkerThread, SMTT(60) DEF Execute, BeginWork, BecomesState
  <2> QED BY <2>1, <2>2, <2>3
<1>33. ASSUME NEW w \in Workers, WorkReturns(w) PROVE OwnershipInv'
  <2>1. Hooked'
    <3>1. leaseHooks' = leaseHooks
      BY <1>0, <1>33 DEF WorkReturns, BeginDelivery, BecomesState
    <3>2. \A t \in AdoptionHeld : state'[t] \in {"running", "delivering"} =>
             t \in leaseHooks
      BY <1>0, <1>33, WorkerThread, RequirementsAssumption DEF WorkReturns,
         BeginDelivery, BecomesState
    <3>3. \A v \in Workers : pc'[v] \in {"run", "execute", "work"} =>
             pc[v] \in {"run", "execute", "work"} /\ cur'[v] = cur[v]
      BY <1>0, <1>33, WorkerThread DEF WorkReturns
    <3> QED BY <3>1, <3>2, <3>3, HookedKept
  <2>2. Queued' /\ Taken' /\ Revoked'
    BY <1>33, <1>0, WorkerThread, SMTT(60) DEF WorkReturns, BeginDelivery,
       BecomesState
  <2>3. Undisturbed' /\ Published' /\ KeysHeld'
    BY <1>33, <1>0, WorkerThread, SMTT(60) DEF WorkReturns, BeginDelivery,
       BecomesState
  <2> QED BY <2>1, <2>2, <2>3
<1>34. ASSUME NEW w \in Workers, WorkRaises(w) PROVE OwnershipInv'
  BY <1>0, <1>34, WorkerThread DEF WorkRaises
<1>35. ASSUME NEW w \in Workers, Dispatch(w) PROVE OwnershipInv'
  BY <1>0, <1>35, WorkerThread DEF Dispatch
<1>36. ASSUME NEW w \in Workers, Finish(w) PROVE OwnershipInv'
  BY <1>0, <1>36, WorkerThread DEF Finish, FinishRunning, NotifyAll
<1>37. CASE Rest
  BY <1>0, <1>37 DEF Rest, vars
<1> QED
  BY <1>1, <1>2, <1>3, <1>4, <1>5, <1>6, <1>7, <1>8, <1>9, <1>10, <1>11,
     <1>12, <1>13, <1>14, <1>15, <1>16, <1>17, <1>18, <1>19, <1>20, <1>21,
     <1>22, <1>23, <1>24, <1>25, <1>26, <1>27, <1>28, <1>29, <1>30, <1>31,
     <1>32, <1>33, <1>34, <1>35, <1>36, <1>37, ZenonT(60) DEF Next, BeginClient,
     ContinueClient, OwnerStep, WorkerStep, SettleStep, Threads

\* What a closing dispatcher discards comes from the mailbox.
LEMMA OwnershipClosing ==
    ASSUME TypeInv, ThreadInv, OwnershipInv, CloseDispatcher
    PROVE  OwnershipInv'
<1> USE OwnerThread DEF CloseDispatcher, TypeInv, TypeOK, ThreadInv, OwnershipInv,
        Begin,
        At, SettlePCs, handleVars, backendVars, scopeVars
<1>1. Queued' /\ Taken' /\ KeysHeld'
  BY DEF Queued, Offered, Taken, KeysHeld, Holders
<1>2. Revoked'
  BY DEF Revoked, Revocations, Offered
<1>3. Undisturbed'
  BY DEF Undisturbed, Discards
<1>4. Published' /\ Hooked'
  BY DEF Published, Hooked
<1> QED BY <1>1, <1>2, <1>3, <1>4

\* What a closing backend revokes comes from the queue.
LEMMA OwnershipBackendClosing ==
    ASSUME TypeInv, ThreadInv, OwnershipInv, NEW c \in Clients, CloseBackend(c)
    PROVE  OwnershipInv'
<1> USE OwnerThread, ClientThread DEF CloseBackend, CloseQueue, NotifyAll, TypeInv,
        TypeOK,
        ThreadInv, OwnershipInv, Begin, At, SettlePCs, handleVars, scopeVars,
          dispatchVars
<1>1. Queued' /\ Taken' /\ KeysHeld'
  BY DEF Queued, Offered, Taken, KeysHeld, Holders
<1>2. Revoked'
  BY DEF Revoked, Revocations, Offered, Queued
<1>3. Undisturbed'
  BY DEF Undisturbed, Discards
<1>4. Published' /\ Hooked'
  BY DEF Published, Hooked
<1> QED BY <1>1, <1>2, <1>3, <1>4

(* Stuttering keeps the ownership invariant. *)
LEMMA OwnershipStutter ==
    ASSUME TypeInv, OwnershipInv, UNCHANGED vars
    PROVE  OwnershipInv'
BY DEF vars, handleVars, backendVars, scopeVars, dispatchVars, threadVars,
   OwnershipInv,
   Queued, Offered, Taken, Revoked, Revocations, Undisturbed, Discards, Published,
     Hooked,
   KeysHeld, Holders, At

IInv == TypeInv /\ ThreadInv /\ AdoptInv /\ OwnershipInv

(* The engine is always in a state of IInv: types, programs of the threads,
   the way of a result, and the owner of every job and key (runtime.py, scope.py,
   handle.py, backend.py, default_backend.py, qt_dispatch.py). *)
THEOREM InductiveInvariant == Spec => []IInv
<1>1. Init => IInv
  BY TypeInit, ThreadInit, AdoptInit, OwnershipInit DEF IInv
<1>2. IInv /\ [Next]_vars => IInv'
  <2> SUFFICES ASSUME IInv, [Next]_vars PROVE IInv'
    OBVIOUS
  <2> USE DEF IInv
  <2>1. TypeInv'
    BY TypeStep
  <2>2. CASE UNCHANGED vars
    BY <2>1, <2>2, AdoptStutter, OwnershipStutter
  <2>3. CASE Next
    <3>1. ThreadInv' /\ AdoptInv'
      BY <2>3, ThreadNext, AdoptNext, AdoptClosing
    <3>2. OwnershipInv'
      BY <2>3, OwnershipNext, OwnershipClosing, OwnershipBackendClosing
    <3> QED BY <2>1, <3>1, <3>2
  <2> QED BY <2>2, <2>3
<1> QED BY <1>1, <1>2, PTL DEF Spec

\* Whatever the interleaving, no two tasks use one exclusive key at a time, from
\* the worker that starts the first to the owner thread that adopts it.
THEOREM LeaseExclusionAlways == Spec => []LeaseExclusion
<1>1. IInv => LeaseExclusion
  <2> SUFFICES ASSUME IInv, NEW t \in Tasks, NEW u \in Tasks,
                      UsesKey(t), UsesKey(u), KeyOf[t] = KeyOf[u]
               PROVE  t = u
    BY DEF LeaseExclusion
  <2>1. ASSUME NEW x \in Tasks, UsesKey(x) PROVE x \in Holders
    <3>1. CASE x \in AdoptionHeld
      BY <2>1, <3>1 DEF UsesKey, WorkingOn, IInv, OwnershipInv, Hooked, Undisturbed,
         Holders, At
    <3>2. CASE x \notin AdoptionHeld
      BY <2>1, <3>2 DEF UsesKey, WorkingOn, IInv, OwnershipInv, Taken, Holders,
         HoldsWhileWorking, At
    <3> QED BY <3>1, <3>2
  <2> QED BY <2>1 DEF IInv, OwnershipInv, KeysHeld
<1> QED BY <1>1, InductiveInvariant, PTL

\* No job is entered twice, or after a cancellation or shutdown has claimed it.
THEOREM ActivatedOnceAlways == Spec => []ActivatedOnce
<1>1. IInv => ActivatedOnce
  BY DEF IInv, OwnershipInv, Taken, ActivatedOnce, Computing, At
<1> QED BY <1>1, InductiveInvariant, PTL

\* The backend never registers a callback on a settled job under its own lock.
THEOREM RegistersBeforeSettlementAlways == Spec => []RegistersBeforeSettlement
<1>1. IInv => RegistersBeforeSettlement
  BY DEF IInv, OwnershipInv, Queued, Offered, Published, RegistersBeforeSettlement, At
<1> QED BY <1>1, InductiveInvariant, PTL

-----------------------------------------------------------------------------
(* Submissions: which tasks the scopes know and the backend has answered.  *)

\* Threads between the registration of a task and the backend's answer.
Submitting(c) == pc[c] \in {"admit", "offer", "refuse"}

\* A task has one submitter, and the backend answers it once.
Submissions ==
    /\ \A c \in Clients : Submitting(c) =>
         state[cur[c]] # "absent" /\ cur[c] \notin Offered \cup rejected
    /\ \A c, d \in Clients :
         c # d /\ Submitting(c) /\ Submitting(d) => cur[c] # cur[d]
    /\ rejected \cap Offered = {}

\* Only handles that were built are passed around.
Known ==
    /\ \A c \in Clients : At(c, "bind") => state[cur[c]] # "absent"
    /\ \A t \in attached \cup handles : state[t] # "absent"
    /\ \A th \in Threads : \A t \in todo[th] : state[t] # "absent"

\* Until it has its outcome a task that was not refused is in its scope, and
\* keeps its slot from the moment it was offered.
Tracked ==
    /\ handles \cap rejected = {}
    /\ \A t \in Tasks : state[t] \in Live => t \in handles \cup rejected
    /\ \A t \in Offered : state[t] \in Live => t \in accepted

SubmitInv == Submissions /\ Known /\ Tracked

(* No task has been submitted initially. *)
LEMMA SubmitInit == Init => SubmitInv
BY ClientThread DEF Init, HandleInit, BackendInit, SubmitInv, Submissions, Known,
   Tracked, Submitting, Offered, At, Threads, Live

(* Every step keeps the submissions apart and the tasks tracked. *)
LEMMA SubmitNext ==
    ASSUME IInv, SubmitInv, Next
    PROVE  SubmitInv'
<1> USE DEF IInv, TypeInv, TypeOK, HandleTypeOK, BackendTypeOK, TaskInHand, ThreadInv, RestPCs,
        WorkerPCs, ClientPCs, SettlePCs, Terminal, Live, States, Threads, handleVars,
        backendVars, scopeVars, dispatchVars, threadVars, At, Goto, Begin, TakeUp,
        SettleThen, Offered, AdoptInv, Untouched, OwnershipInv, Queued, Taken, Revoked,
        Published, SubmitInv, Submissions, Submitting, Known, Tracked
<1>1. ASSUME NEW th \in Threads, Settle(th) PROVE SubmitInv'
  BY <1>1 DEF Settle, PublishOutcome, BecomesState
<1>2. ASSUME NEW th \in Threads, Signal(th) PROVE SubmitInv'
  BY <1>2 DEF Signal, MarkSettled
<1>3. ASSUME NEW th \in Threads, FreeSlot(th) PROVE SubmitInv'
  BY <1>3 DEF FreeSlot, ReleaseAccepted
<1>4. ASSUME NEW th \in Threads, FreeLease(th) PROVE SubmitInv'
  BY <1>4 DEF FreeLease, RunLeaseHook, ReleaseExclusive, NotifyAll
<1>5. ASSUME NEW th \in Threads, Untrack(th) PROVE SubmitInv'
  BY <1>5 DEF Untrack
<1>6. ASSUME NEW c \in Clients, NEW t \in Tasks, RefuseScope(c, t) PROVE SubmitInv'
  BY <1>6, ClientThread DEF RefuseScope
<1>7. ASSUME NEW c \in Clients, NEW t \in Tasks, Register(c, t) PROVE SubmitInv'
  BY <1>7, ClientThread DEF Register, CreateHandle, BecomesState
<1>8. ASSUME NEW c \in Clients, NEW t \in Tasks, Cancel(c, t) PROVE SubmitInv'
  BY <1>8, ClientThread DEF Cancel
<1>9. ASSUME NEW c \in Clients, NEW s \in Scopes, CancelAll(c, s) PROVE SubmitInv'
  BY <1>9, ClientThread DEF CancelAll, HandlesOf
<1>10. ASSUME NEW c \in Clients, NEW s \in Scopes, CloseScope(c, s) PROVE SubmitInv'
  BY <1>10, ClientThread DEF CloseScope, HandlesOf
<1>11. ASSUME NEW c \in Clients, Shutdown(c) PROVE SubmitInv'
  BY <1>11, ClientThread DEF Shutdown
<1>12. ASSUME NEW c \in Clients, Admit(c) PROVE SubmitInv'
  BY <1>12, ClientThread DEF Admit
<1>13. ASSUME NEW c \in Clients, Offer(c) PROVE SubmitInv'
  BY <1>13, ClientThread DEF Offer, AcceptJob, NotifyOne
<1>14. ASSUME NEW c \in Clients, Refuse(c) PROVE SubmitInv'
  BY <1>14, ClientThread DEF Refuse
<1>15. ASSUME NEW c \in Clients, Bind(c) PROVE SubmitInv'
  BY <1>15, ClientThread DEF Bind, BindSubmission
<1>16. ASSUME NEW c \in Clients, NEW t \in Tasks, CancelOne(c, t) PROVE SubmitInv'
  BY <1>16, ClientThread DEF CancelOne, CancelRefused, RequestCancel
<1>17. ASSUME NEW c \in Clients, NEW t \in Tasks, RevokeNext(c, t) PROVE SubmitInv'
  BY <1>17, ClientThread DEF RevokeNext
<1>18. ASSUME NEW c \in Clients, CancelDone(c) PROVE SubmitInv'
  BY <1>18, ClientThread DEF CancelDone
<1>19. ASSUME NEW c \in Clients, Unqueue(c) PROVE SubmitInv'
  BY <1>19, ClientThread DEF Unqueue, RemovePending, NotifyAll
<1>20. ASSUME NEW c \in Clients, Revoke(c) PROVE SubmitInv'
  BY <1>20, ClientThread DEF Revoke, RevokeJob
<1>21. ASSUME NEW c \in Clients, CloseBackend(c) PROVE SubmitInv'
  BY <1>21, ClientThread DEF CloseBackend, CloseQueue, NotifyAll
<1>22. ASSUME NEW c \in Clients, ShutdownDone(c) PROVE SubmitInv'
  BY <1>22, ClientThread DEF ShutdownDone
<1>23. ASSUME NEW t \in Tasks, Deliver(t) PROVE SubmitInv'
  BY <1>23, OwnerThread DEF Deliver, BeginAdoption
<1>24. ASSUME NEW t \in Tasks, DiscardNext(t) PROVE SubmitInv'
  BY <1>24, OwnerThread DEF DiscardNext
<1>25. CASE Adopt
  BY <1>25, OwnerThread DEF Adopt
<1>26. CASE DiscardDone
  BY <1>26, OwnerThread DEF DiscardDone
<1>27. CASE CloseDispatcher
  BY <1>27, OwnerThread DEF CloseDispatcher, ResultPath
<1>28. ASSUME NEW w \in Workers, NEW t \in Tasks, Take(w, t) PROVE SubmitInv'
  BY <1>28, WorkerThread DEF Take, StartJob, RegisterLeaseHook
<1>29. ASSUME NEW w \in Workers, Park(w) PROVE SubmitInv'
  BY <1>29, WorkerThread DEF Park, WaitForWork
<1>30. ASSUME NEW w \in Workers, Exit(w) PROVE SubmitInv'
  BY <1>30, WorkerThread DEF Exit
<1>31. ASSUME NEW w \in Workers, RunJob(w) PROVE SubmitInv'
  BY <1>31, WorkerThread DEF RunJob, ActivateJob
<1>32. ASSUME NEW w \in Workers, Execute(w) PROVE SubmitInv'
  BY <1>32, WorkerThread DEF Execute, BeginWork, BecomesState
<1>33. ASSUME NEW w \in Workers, WorkReturns(w) PROVE SubmitInv'
  BY <1>33, WorkerThread DEF WorkReturns, BeginDelivery, BecomesState
<1>34. ASSUME NEW w \in Workers, WorkRaises(w) PROVE SubmitInv'
  BY <1>34, WorkerThread DEF WorkRaises
<1>35. ASSUME NEW w \in Workers, Dispatch(w) PROVE SubmitInv'
  BY <1>35, WorkerThread DEF Dispatch
<1>36. ASSUME NEW w \in Workers, Finish(w) PROVE SubmitInv'
  BY <1>36, WorkerThread DEF Finish, FinishRunning, NotifyAll
<1>37. CASE Rest
  BY <1>37 DEF Rest, vars
<1> QED
  BY <1>1, <1>2, <1>3, <1>4, <1>5, <1>6, <1>7, <1>8, <1>9, <1>10, <1>11, <1>12,
     <1>13, <1>14, <1>15, <1>16, <1>17, <1>18, <1>19, <1>20, <1>21, <1>22, <1>23,
     <1>24, <1>25, <1>26, <1>27, <1>28, <1>29, <1>30, <1>31, <1>32, <1>33, <1>34,
     <1>35, <1>36, <1>37, ZenonT(60) DEF Next, BeginClient, ContinueClient,
     OwnerStep, WorkerStep, SettleStep, Threads

-----------------------------------------------------------------------------
(* Closing a scope reaches every task of the scope.                        *)

Loops == {"cancelling", "revoking", "discarding"}

\* Tasks a thread has still to call cancel for.
Reaching(c) == {t \in todo[c] : At(c, "cancelling") \/ after[c] = "cancelling"}

\* A thread has tasks to go through only while it is in the loop that does so.
Loaded == \A th \in Threads : todo[th] # {} => pc[th] \in Loops \/ after[th] \in Loops

\* A task of a closed scope that has not begun is refused, cancelled, or about
\* to be.
ClosedReached ==
    \A t \in Tasks : state[t] = "pending" /\ ScopeOf[t] \in scopeClosed =>
        t \in cancelled \cup rejected \/ \E c \in Clients : t \in Reaching(c)

ReachInv == Loaded /\ ClosedReached

(* No scope is closed initially and no thread has a task to go through. *)
LEMMA ReachInit == Init => ReachInv
BY DEF Init, HandleInit, ReachInv, Loaded, ClosedReached

(* A thread stays loaded only inside its loop. *)
LEMMA LoadedNext ==
    ASSUME IInv, Loaded, Next
    PROVE  Loaded'
<1> USE DEF IInv, TypeInv, TypeOK, ThreadInv, RestPCs, WorkerPCs, ClientPCs, SettlePCs,
        Threads, handleVars, backendVars, scopeVars, dispatchVars, threadVars, At, Goto,
        Begin, TakeUp, SettleThen, Loaded, Loops
<1>1. ASSUME NEW th \in Threads, Settle(th) PROVE Loaded'
  BY <1>1 DEF Settle, PublishOutcome, BecomesState
<1>2. ASSUME NEW th \in Threads, Signal(th) PROVE Loaded'
  BY <1>2 DEF Signal, MarkSettled
<1>3. ASSUME NEW th \in Threads, FreeSlot(th) PROVE Loaded'
  BY <1>3 DEF FreeSlot, ReleaseAccepted
<1>4. ASSUME NEW th \in Threads, FreeLease(th) PROVE Loaded'
  BY <1>4 DEF FreeLease, RunLeaseHook, ReleaseExclusive, NotifyAll
<1>5. ASSUME NEW th \in Threads, Untrack(th) PROVE Loaded'
  BY <1>5 DEF Untrack
<1>6. ASSUME NEW c \in Clients, NEW t \in Tasks, RefuseScope(c, t) PROVE Loaded'
  BY <1>6, ClientThread DEF RefuseScope
<1>7. ASSUME NEW c \in Clients, NEW t \in Tasks, Register(c, t) PROVE Loaded'
  BY <1>7, ClientThread DEF Register, CreateHandle, BecomesState
<1>8. ASSUME NEW c \in Clients, NEW t \in Tasks, Cancel(c, t) PROVE Loaded'
  BY <1>8, ClientThread DEF Cancel
<1>9. ASSUME NEW c \in Clients, NEW s \in Scopes, CancelAll(c, s) PROVE Loaded'
  BY <1>9, ClientThread DEF CancelAll, HandlesOf
<1>10. ASSUME NEW c \in Clients, NEW s \in Scopes, CloseScope(c, s) PROVE Loaded'
  BY <1>10, ClientThread DEF CloseScope, HandlesOf
<1>11. ASSUME NEW c \in Clients, Shutdown(c) PROVE Loaded'
  BY <1>11, ClientThread DEF Shutdown
<1>12. ASSUME NEW c \in Clients, Admit(c) PROVE Loaded'
  BY <1>12, ClientThread DEF Admit
<1>13. ASSUME NEW c \in Clients, Offer(c) PROVE Loaded'
  BY <1>13, ClientThread DEF Offer, AcceptJob, NotifyOne
<1>14. ASSUME NEW c \in Clients, Refuse(c) PROVE Loaded'
  BY <1>14, ClientThread DEF Refuse
<1>15. ASSUME NEW c \in Clients, Bind(c) PROVE Loaded'
  BY <1>15, ClientThread DEF Bind, BindSubmission
<1>16. ASSUME NEW c \in Clients, NEW t \in Tasks, CancelOne(c, t) PROVE Loaded'
  BY <1>16, ClientThread DEF CancelOne, CancelRefused, RequestCancel
<1>17. ASSUME NEW c \in Clients, NEW t \in Tasks, RevokeNext(c, t) PROVE Loaded'
  BY <1>17, ClientThread DEF RevokeNext
<1>18. ASSUME NEW c \in Clients, CancelDone(c) PROVE Loaded'
  BY <1>18, ClientThread DEF CancelDone
<1>19. ASSUME NEW c \in Clients, Unqueue(c) PROVE Loaded'
  BY <1>19, ClientThread DEF Unqueue, RemovePending, NotifyAll
<1>20. ASSUME NEW c \in Clients, Revoke(c) PROVE Loaded'
  BY <1>20, ClientThread DEF Revoke, RevokeJob
<1>21. ASSUME NEW c \in Clients, CloseBackend(c) PROVE Loaded'
  BY <1>21, ClientThread DEF CloseBackend, CloseQueue, NotifyAll
<1>22. ASSUME NEW c \in Clients, ShutdownDone(c) PROVE Loaded'
  BY <1>22, ClientThread DEF ShutdownDone
<1>23. ASSUME NEW t \in Tasks, Deliver(t) PROVE Loaded'
  BY <1>23, OwnerThread DEF Deliver, BeginAdoption
<1>24. ASSUME NEW t \in Tasks, DiscardNext(t) PROVE Loaded'
  BY <1>24, OwnerThread DEF DiscardNext
<1>25. CASE Adopt
  BY <1>25, OwnerThread DEF Adopt
<1>26. CASE DiscardDone
  BY <1>26, OwnerThread DEF DiscardDone
<1>27. CASE CloseDispatcher
  BY <1>27, OwnerThread DEF CloseDispatcher
<1>28. ASSUME NEW w \in Workers, NEW t \in Tasks, Take(w, t) PROVE Loaded'
  BY <1>28, WorkerThread DEF Take, StartJob, RegisterLeaseHook
<1>29. ASSUME NEW w \in Workers, Park(w) PROVE Loaded'
  BY <1>29, WorkerThread DEF Park, WaitForWork
<1>30. ASSUME NEW w \in Workers, Exit(w) PROVE Loaded'
  BY <1>30, WorkerThread DEF Exit
<1>31. ASSUME NEW w \in Workers, RunJob(w) PROVE Loaded'
  BY <1>31, WorkerThread DEF RunJob, ActivateJob
<1>32. ASSUME NEW w \in Workers, Execute(w) PROVE Loaded'
  BY <1>32, WorkerThread DEF Execute, BeginWork, BecomesState
<1>33. ASSUME NEW w \in Workers, WorkReturns(w) PROVE Loaded'
  BY <1>33, WorkerThread DEF WorkReturns, BeginDelivery, BecomesState
<1>34. ASSUME NEW w \in Workers, WorkRaises(w) PROVE Loaded'
  BY <1>34, WorkerThread DEF WorkRaises
<1>35. ASSUME NEW w \in Workers, Dispatch(w) PROVE Loaded'
  BY <1>35, WorkerThread DEF Dispatch
<1>36. ASSUME NEW w \in Workers, Finish(w) PROVE Loaded'
  BY <1>36, WorkerThread DEF Finish, FinishRunning, NotifyAll
<1>37. CASE Rest
  BY <1>37 DEF Rest, vars
<1> QED
  BY <1>1, <1>2, <1>3, <1>4, <1>5, <1>6, <1>7, <1>8, <1>9, <1>10, <1>11, <1>12,
     <1>13, <1>14, <1>15, <1>16, <1>17, <1>18, <1>19, <1>20, <1>21, <1>22, <1>23,
     <1>24, <1>25, <1>26, <1>27, <1>28, <1>29, <1>30, <1>31, <1>32, <1>33, <1>34,
     <1>35, <1>36, <1>37, ZenonT(60) DEF Next, BeginClient, ContinueClient,
     OwnerStep, WorkerStep, SettleStep, Threads

(* Every step leaves the tasks of a closed scope refused, cancelled or about to
   be reached. *)
LEMMA ClosedReachedNext ==
    ASSUME IInv, SubmitInv, ReachInv, Next
    PROVE  ClosedReached'
<1> USE DEF IInv, TypeInv, TypeOK, HandleTypeOK, ThreadInv, RestPCs,
        WorkerPCs, ClientPCs, SettlePCs, Terminal, Live, Threads, handleVars,
        backendVars, scopeVars, dispatchVars, threadVars, At, Goto, Begin, TakeUp,
        SettleThen, OwnershipInv, Undisturbed, SubmitInv, Tracked, ReachInv, Loaded,
        Loops, ClosedReached, Reaching
<1>1. ASSUME NEW th \in Threads, Settle(th) PROVE ClosedReached'
  BY <1>1 DEF Settle, PublishOutcome, BecomesState
<1>2. ASSUME NEW th \in Threads, Signal(th) PROVE ClosedReached'
  BY <1>2 DEF Signal, MarkSettled
<1>3. ASSUME NEW th \in Threads, FreeSlot(th) PROVE ClosedReached'
  BY <1>3 DEF FreeSlot, ReleaseAccepted
<1>4. ASSUME NEW th \in Threads, FreeLease(th) PROVE ClosedReached'
  BY <1>4 DEF FreeLease, RunLeaseHook, ReleaseExclusive, NotifyAll
<1>5. ASSUME NEW th \in Threads, Untrack(th) PROVE ClosedReached'
  BY <1>5 DEF Untrack
<1>6. ASSUME NEW c \in Clients, NEW t \in Tasks, RefuseScope(c, t) PROVE
      ClosedReached'
  BY <1>6, ClientThread DEF RefuseScope
<1>7. ASSUME NEW c \in Clients, NEW t \in Tasks, Register(c, t) PROVE ClosedReached'
  BY <1>7, ClientThread DEF Register, CreateHandle, BecomesState
<1>8. ASSUME NEW c \in Clients, NEW t \in Tasks, Cancel(c, t) PROVE ClosedReached'
  BY <1>8, ClientThread DEF Cancel
<1>9. ASSUME NEW c \in Clients, NEW s \in Scopes, CancelAll(c, s) PROVE
      ClosedReached'
  BY <1>9, ClientThread DEF CancelAll, HandlesOf
<1>10. ASSUME NEW c \in Clients, NEW s \in Scopes, CloseScope(c, s) PROVE
      ClosedReached'
  BY <1>10, ClientThread DEF CloseScope, HandlesOf
<1>11. ASSUME NEW c \in Clients, Shutdown(c) PROVE ClosedReached'
  BY <1>11, ClientThread DEF Shutdown
<1>12. ASSUME NEW c \in Clients, Admit(c) PROVE ClosedReached'
  BY <1>12, ClientThread DEF Admit
<1>13. ASSUME NEW c \in Clients, Offer(c) PROVE ClosedReached'
  BY <1>13, ClientThread DEF Offer, AcceptJob, NotifyOne
<1>14. ASSUME NEW c \in Clients, Refuse(c) PROVE ClosedReached'
  BY <1>14, ClientThread DEF Refuse
<1>15. ASSUME NEW c \in Clients, Bind(c) PROVE ClosedReached'
  BY <1>15, ClientThread DEF Bind, BindSubmission
<1>16. ASSUME NEW c \in Clients, NEW t \in Tasks, CancelOne(c, t) PROVE
      ClosedReached'
  BY <1>16, ClientThread DEF CancelOne, CancelRefused, RequestCancel
<1>17. ASSUME NEW c \in Clients, NEW t \in Tasks, RevokeNext(c, t) PROVE
      ClosedReached'
  BY <1>17, ClientThread DEF RevokeNext
<1>18. ASSUME NEW c \in Clients, CancelDone(c) PROVE ClosedReached'
  BY <1>18, ClientThread DEF CancelDone
<1>19. ASSUME NEW c \in Clients, Unqueue(c) PROVE ClosedReached'
  BY <1>19, ClientThread DEF Unqueue, RemovePending, NotifyAll
<1>20. ASSUME NEW c \in Clients, Revoke(c) PROVE ClosedReached'
  BY <1>20, ClientThread DEF Revoke, RevokeJob
<1>21. ASSUME NEW c \in Clients, CloseBackend(c) PROVE ClosedReached'
  BY <1>21, ClientThread DEF CloseBackend, CloseQueue, NotifyAll
<1>22. ASSUME NEW c \in Clients, ShutdownDone(c) PROVE ClosedReached'
  BY <1>22, ClientThread DEF ShutdownDone
<1>23. ASSUME NEW t \in Tasks, Deliver(t) PROVE ClosedReached'
  BY <1>23, OwnerThread DEF Deliver, BeginAdoption
<1>24. ASSUME NEW t \in Tasks, DiscardNext(t) PROVE ClosedReached'
  BY <1>24, OwnerThread DEF DiscardNext
<1>25. CASE Adopt
  BY <1>25, OwnerThread DEF Adopt
<1>26. CASE DiscardDone
  BY <1>26, OwnerThread DEF DiscardDone
<1>27. CASE CloseDispatcher
  BY <1>27, OwnerThread DEF CloseDispatcher
<1>28. ASSUME NEW w \in Workers, NEW t \in Tasks, Take(w, t) PROVE ClosedReached'
  BY <1>28, WorkerThread DEF Take, StartJob, RegisterLeaseHook
<1>29. ASSUME NEW w \in Workers, Park(w) PROVE ClosedReached'
  BY <1>29, WorkerThread DEF Park, WaitForWork
<1>30. ASSUME NEW w \in Workers, Exit(w) PROVE ClosedReached'
  BY <1>30, WorkerThread DEF Exit
<1>31. ASSUME NEW w \in Workers, RunJob(w) PROVE ClosedReached'
  BY <1>31, WorkerThread DEF RunJob, ActivateJob
<1>32. ASSUME NEW w \in Workers, Execute(w) PROVE ClosedReached'
  BY <1>32, WorkerThread DEF Execute, BeginWork, BecomesState
<1>33. ASSUME NEW w \in Workers, WorkReturns(w) PROVE ClosedReached'
  BY <1>33, WorkerThread DEF WorkReturns, BeginDelivery, BecomesState
<1>34. ASSUME NEW w \in Workers, WorkRaises(w) PROVE ClosedReached'
  BY <1>34, WorkerThread DEF WorkRaises
<1>35. ASSUME NEW w \in Workers, Dispatch(w) PROVE ClosedReached'
  BY <1>35, WorkerThread DEF Dispatch
<1>36. ASSUME NEW w \in Workers, Finish(w) PROVE ClosedReached'
  BY <1>36, WorkerThread DEF Finish, FinishRunning, NotifyAll
<1>37. CASE Rest
  BY <1>37 DEF Rest, vars
<1> QED
  BY <1>1, <1>2, <1>3, <1>4, <1>5, <1>6, <1>7, <1>8, <1>9, <1>10, <1>11, <1>12,
     <1>13, <1>14, <1>15, <1>16, <1>17, <1>18, <1>19, <1>20, <1>21, <1>22, <1>23,
     <1>24, <1>25, <1>26, <1>27, <1>28, <1>29, <1>30, <1>31, <1>32, <1>33, <1>34,
     <1>35, <1>36, <1>37, ZenonT(60) DEF Next, BeginClient, ContinueClient,
     OwnerStep, WorkerStep, SettleStep, Threads

-----------------------------------------------------------------------------
(* Responsibility: every task that has no outcome is in someone's hands.   *)

\* Jobs a client has taken from the queue and will revoke.
Claims(c) == Revocations(c) \cup (IF At(c, "revoke") THEN {cur[c]} ELSE {})

\* A claimed job is nobody else's and has not been entered.
ClaimsApart ==
    /\ \A c \in Clients : /\ Claims(c) \cap activated = {}
                          /\ At(c, "revoke") => cur[c] \notin Revocations(c)
    /\ \A c, d \in Clients : c # d => Claims(c) \cap Claims(d) = {}

(* Nothing is claimed initially. *)
LEMMA ClaimsInit == Init => ClaimsApart
BY ClientThread DEF Init, ClaimsApart, Claims, Revocations, At

(* Only a cancellation or a closing backend claims jobs, from the queue. *)
LEMMA ClaimsNext ==
    ASSUME IInv, ClaimsApart, Next
    PROVE  ClaimsApart'
<1> USE DEF IInv, TypeInv, TypeOK, HandleTypeOK, BackendTypeOK, TaskInHand, ThreadInv,
        RestPCs, WorkerPCs, ClientPCs, SettlePCs, Terminal, Live, States, Threads, handleVars,
        backendVars, scopeVars, dispatchVars, threadVars, At, Goto, Begin, TakeUp,
        SettleThen, Offered, AdoptInv, Untouched, OwnershipInv, Queued, Taken, Revoked,
        Published, Undisturbed, ClaimsApart, Claims, Revocations
<1>1. ASSUME NEW th \in Threads, Settle(th) PROVE ClaimsApart'
  BY <1>1 DEF Settle, PublishOutcome, BecomesState
<1>2. ASSUME NEW th \in Threads, Signal(th) PROVE ClaimsApart'
  BY <1>2 DEF Signal, MarkSettled
<1>3. ASSUME NEW th \in Threads, FreeSlot(th) PROVE ClaimsApart'
  BY <1>3 DEF FreeSlot, ReleaseAccepted
<1>4. ASSUME NEW th \in Threads, FreeLease(th) PROVE ClaimsApart'
  BY <1>4 DEF FreeLease, RunLeaseHook, ReleaseExclusive, NotifyAll
<1>5. ASSUME NEW th \in Threads, Untrack(th) PROVE ClaimsApart'
  BY <1>5 DEF Untrack
<1>6. ASSUME NEW c \in Clients, NEW t \in Tasks, RefuseScope(c, t) PROVE
      ClaimsApart'
  BY <1>6, ClientThread DEF RefuseScope
<1>7. ASSUME NEW c \in Clients, NEW t \in Tasks, Register(c, t) PROVE ClaimsApart'
  BY <1>7, ClientThread DEF Register, CreateHandle, BecomesState
<1>8. ASSUME NEW c \in Clients, NEW t \in Tasks, Cancel(c, t) PROVE ClaimsApart'
  BY <1>8, ClientThread DEF Cancel
<1>9. ASSUME NEW c \in Clients, NEW s \in Scopes, CancelAll(c, s) PROVE ClaimsApart'
  BY <1>9, ClientThread DEF CancelAll, HandlesOf
<1>10. ASSUME NEW c \in Clients, NEW s \in Scopes, CloseScope(c, s) PROVE
      ClaimsApart'
  BY <1>10, ClientThread DEF CloseScope, HandlesOf
<1>11. ASSUME NEW c \in Clients, Shutdown(c) PROVE ClaimsApart'
  BY <1>11, ClientThread DEF Shutdown
<1>12. ASSUME NEW c \in Clients, Admit(c) PROVE ClaimsApart'
  BY <1>12, ClientThread DEF Admit
<1>13. ASSUME NEW c \in Clients, Offer(c) PROVE ClaimsApart'
  BY <1>13, ClientThread DEF Offer, AcceptJob, NotifyOne
<1>14. ASSUME NEW c \in Clients, Refuse(c) PROVE ClaimsApart'
  BY <1>14, ClientThread DEF Refuse
<1>15. ASSUME NEW c \in Clients, Bind(c) PROVE ClaimsApart'
  BY <1>15, ClientThread DEF Bind, BindSubmission
<1>16. ASSUME NEW c \in Clients, NEW t \in Tasks, CancelOne(c, t) PROVE ClaimsApart'
  BY <1>16, ClientThread DEF CancelOne, CancelRefused, RequestCancel
<1>17. ASSUME NEW c \in Clients, NEW t \in Tasks, RevokeNext(c, t) PROVE
      ClaimsApart'
  BY <1>17, ClientThread DEF RevokeNext
<1>18. ASSUME NEW c \in Clients, CancelDone(c) PROVE ClaimsApart'
  BY <1>18, ClientThread DEF CancelDone
<1>19. ASSUME NEW c \in Clients, Unqueue(c) PROVE ClaimsApart'
  BY <1>19, ClientThread DEF Unqueue, RemovePending, NotifyAll
<1>20. ASSUME NEW c \in Clients, Revoke(c) PROVE ClaimsApart'
  BY <1>20, ClientThread DEF Revoke, RevokeJob
<1>21. ASSUME NEW c \in Clients, CloseBackend(c) PROVE ClaimsApart'
  BY <1>21, ClientThread DEF CloseBackend, CloseQueue, NotifyAll
<1>22. ASSUME NEW c \in Clients, ShutdownDone(c) PROVE ClaimsApart'
  BY <1>22, ClientThread DEF ShutdownDone
<1>23. ASSUME NEW t \in Tasks, Deliver(t) PROVE ClaimsApart'
  BY <1>23, OwnerThread DEF Deliver, BeginAdoption
<1>24. ASSUME NEW t \in Tasks, DiscardNext(t) PROVE ClaimsApart'
  BY <1>24, OwnerThread DEF DiscardNext
<1>25. CASE Adopt
  BY <1>25, OwnerThread DEF Adopt
<1>26. CASE DiscardDone
  BY <1>26, OwnerThread DEF DiscardDone
<1>27. CASE CloseDispatcher
  BY <1>27, OwnerThread DEF CloseDispatcher
<1>28. ASSUME NEW w \in Workers, NEW t \in Tasks, Take(w, t) PROVE ClaimsApart'
  BY <1>28, WorkerThread DEF Take, StartJob, RegisterLeaseHook
<1>29. ASSUME NEW w \in Workers, Park(w) PROVE ClaimsApart'
  BY <1>29, WorkerThread DEF Park, WaitForWork
<1>30. ASSUME NEW w \in Workers, Exit(w) PROVE ClaimsApart'
  BY <1>30, WorkerThread DEF Exit
<1>31. ASSUME NEW w \in Workers, RunJob(w) PROVE ClaimsApart'
  BY <1>31, WorkerThread DEF RunJob, ActivateJob
<1>32. ASSUME NEW w \in Workers, Execute(w) PROVE ClaimsApart'
  BY <1>32, WorkerThread DEF Execute, BeginWork, BecomesState
<1>33. ASSUME NEW w \in Workers, WorkReturns(w) PROVE ClaimsApart'
  BY <1>33, SMTT(60), WorkerThread DEF WorkReturns, BeginDelivery, BecomesState
<1>34. ASSUME NEW w \in Workers, WorkRaises(w) PROVE ClaimsApart'
  BY <1>34, WorkerThread DEF WorkRaises
<1>35. ASSUME NEW w \in Workers, Dispatch(w) PROVE ClaimsApart'
  BY <1>35, WorkerThread DEF Dispatch
<1>36. ASSUME NEW w \in Workers, Finish(w) PROVE ClaimsApart'
  BY <1>36, WorkerThread DEF Finish, FinishRunning, NotifyAll
<1>37. CASE Rest
  BY <1>37 DEF Rest, vars
<1> QED
  BY <1>1, <1>2, <1>3, <1>4, <1>5, <1>6, <1>7, <1>8, <1>9, <1>10, <1>11, <1>12,
     <1>13, <1>14, <1>15, <1>16, <1>17, <1>18, <1>19, <1>20, <1>21, <1>22, <1>23,
     <1>24, <1>25, <1>26, <1>27, <1>28, <1>29, <1>30, <1>31, <1>32, <1>33, <1>34,
     <1>35, <1>36, <1>37, ZenonT(60) DEF Next, BeginClient, ContinueClient,
     OwnerStep, WorkerStep, SettleStep, Threads

\* Places where a thread has a task in hand that has no outcome yet.
CarryPCs == {"admit", "offer", "refuse", "revoke", "adopt", "settle", "run", "execute",
             "work", "dispatch"}

\* A task without an outcome waits in the queue or the mailbox, is about to be
\* revoked or discarded, or is in the hands of a thread.
InHands(t) ==
    \/ t \in pending \cup mailbox \cup Discards \cup rejected
    \/ \E c \in Clients : t \in Revocations(c)
    \/ \E th \in Threads : pc[th] \in CarryPCs /\ cur[th] = t

Carried == \A t \in Tasks : state[t] \in Live => InHands(t)

\* A step of one thread leaves a task in the hands it was in, when it is not
\* that thread's and is taken out of no queue.
LEMMA StaysInHands ==
    ASSUME Carried, NEW th \in Threads, NEW x \in Tasks, state[x] \in Live,
           pc[th] \in CarryPCs => cur[th] # x,
           \A tg \in Threads : tg # th => pc'[tg] = pc[tg] /\ cur'[tg] = cur[tg],
           x \in pending => x \in pending', x \in mailbox => x \in mailbox',
           x \in Discards => x \in Discards', x \in rejected => x \in rejected',
           \A c \in Clients : x \in Revocations(c) => x \in Revocations(c)'
    PROVE  InHands(x)'
BY DEF Carried, InHands

(* Every step that lets go of a task without an outcome hands it on. *)
LEMMA CarriedNext ==
    ASSUME IInv, SubmitInv, ClaimsApart, Carried, Next
    PROVE  Carried'
<1> USE DEF IInv, TypeInv, TypeOK, HandleTypeOK, BackendTypeOK, TaskInHand, ThreadInv,
        RestPCs, WorkerPCs, ClientPCs, SettlePCs, Terminal, Live, States, Threads, handleVars,
        backendVars, scopeVars, dispatchVars, threadVars, At, Goto, Begin, TakeUp,
        SettleThen, Offered, AdoptInv, Untouched, OwnershipInv, Queued, Taken, Revoked,
        Published, Undisturbed, ClaimsApart, Claims, Revocations, Discards, Carried, InHands, CarryPCs,
        SubmitInv, Submissions, Submitting
<1>1. ASSUME NEW th \in Threads, Settle(th) PROVE Carried'
  <2> SUFFICES ASSUME NEW x \in Tasks, state'[x] \in Live PROVE InHands(x)'
    OBVIOUS
  <2>1. CASE x = cur[th]
    BY <2>1, <1>1 DEF Settle, PublishOutcome, BecomesState
  <2>2. CASE x # cur[th]
    <3>1. /\ th \in Threads /\ state[x] \in Live
          /\ \A tg \in Threads : tg # th => pc'[tg] = pc[tg] /\ cur'[tg] = cur[tg]
      BY <2>2, <1>1 DEF Settle, PublishOutcome, BecomesState
    <3>2. /\ x \in pending => x \in pending'
          /\ x \in mailbox => x \in mailbox'
          /\ x \in rejected => x \in rejected'
          /\ x \in Discards => x \in Discards'
          /\ \A d \in Clients : x \in Revocations(d) => x \in Revocations(d)'
      BY <2>2, <1>1, OwnerThread, ClientThread DEF Settle, PublishOutcome, BecomesState
    <3> QED BY <2>2, <3>1, <3>2, StaysInHands
  <2> QED BY <2>1, <2>2
<1>2. ASSUME NEW th \in Threads, Signal(th) PROVE Carried'
  BY <1>2 DEF Signal, MarkSettled
<1>3. ASSUME NEW th \in Threads, FreeSlot(th) PROVE Carried'
  BY <1>3 DEF FreeSlot, ReleaseAccepted
<1>4. ASSUME NEW th \in Threads, FreeLease(th) PROVE Carried'
  BY <1>4 DEF FreeLease, RunLeaseHook, ReleaseExclusive, NotifyAll
<1>5. ASSUME NEW th \in Threads, Untrack(th) PROVE Carried'
  BY <1>5 DEF Untrack
<1>6. ASSUME NEW c \in Clients, NEW t \in Tasks, RefuseScope(c, t) PROVE Carried'
  BY <1>6, ClientThread DEF RefuseScope
<1>7. ASSUME NEW c \in Clients, NEW t \in Tasks, Register(c, t) PROVE Carried'
  BY <1>7, ClientThread DEF Register, CreateHandle, BecomesState
<1>8. ASSUME NEW c \in Clients, NEW t \in Tasks, Cancel(c, t) PROVE Carried'
  BY <1>8, ClientThread DEF Cancel
<1>9. ASSUME NEW c \in Clients, NEW s \in Scopes, CancelAll(c, s) PROVE Carried'
  BY <1>9, ClientThread DEF CancelAll, HandlesOf
<1>10. ASSUME NEW c \in Clients, NEW s \in Scopes, CloseScope(c, s) PROVE Carried'
  BY <1>10, ClientThread DEF CloseScope, HandlesOf
<1>11. ASSUME NEW c \in Clients, Shutdown(c) PROVE Carried'
  BY <1>11, ClientThread DEF Shutdown
<1>12. ASSUME NEW c \in Clients, Admit(c) PROVE Carried'
  BY <1>12, ClientThread DEF Admit
<1>13. ASSUME NEW c \in Clients, Offer(c) PROVE Carried'
  <2> SUFFICES ASSUME NEW x \in Tasks, state'[x] \in Live PROVE InHands(x)'
    OBVIOUS
  <2>1. CASE x = cur[c]
    BY <2>1, <1>13, ClientThread DEF Offer, AcceptJob, NotifyOne
  <2>2. CASE x # cur[c]
    <3>1. /\ c \in Threads /\ state[x] \in Live
          /\ \A tg \in Threads : tg # c => pc'[tg] = pc[tg] /\ cur'[tg] = cur[tg]
      BY <2>2, <1>13, ClientThread DEF Offer, AcceptJob, NotifyOne
    <3>2. /\ x \in pending => x \in pending'
          /\ x \in mailbox => x \in mailbox'
          /\ x \in rejected => x \in rejected'
          /\ x \in Discards => x \in Discards'
          /\ \A d \in Clients : x \in Revocations(d) => x \in Revocations(d)'
      BY <2>2, <1>13, ClientThread, OwnerThread, ClientThread DEF Offer, AcceptJob, NotifyOne
    <3> QED BY <2>2, <3>1, <3>2, StaysInHands
  <2> QED BY <2>1, <2>2
<1>14. ASSUME NEW c \in Clients, Refuse(c) PROVE Carried'
  BY <1>14, ClientThread DEF Refuse
<1>15. ASSUME NEW c \in Clients, Bind(c) PROVE Carried'
  BY <1>15, ClientThread DEF Bind, BindSubmission
<1>16. ASSUME NEW c \in Clients, NEW t \in Tasks, CancelOne(c, t) PROVE Carried'
  <2> SUFFICES ASSUME NEW x \in Tasks, state'[x] \in Live PROVE InHands(x)'
    OBVIOUS
  <2>1. /\ c \in Threads /\ state[x] \in Live /\ pc[c] \notin CarryPCs
        /\ \A tg \in Threads : tg # c => pc'[tg] = pc[tg] /\ cur'[tg] = cur[tg]
    BY <1>16, ClientThread DEF CancelOne, RequestCancel
  <2>2. /\ x \in pending => x \in pending'
        /\ x \in mailbox => x \in mailbox'
        /\ x \in rejected => x \in rejected'
    BY <1>16 DEF CancelOne
  <2>3. /\ x \in Discards => x \in Discards'
        /\ \A d \in Clients : x \in Revocations(d) => x \in Revocations(d)'
    BY <1>16, OwnerThread, ClientThread DEF CancelOne
  <2> QED BY <2>1, <2>2, <2>3, StaysInHands
<1>17. ASSUME NEW c \in Clients, NEW t \in Tasks, RevokeNext(c, t) PROVE Carried'
  BY <1>17, ClientThread DEF RevokeNext
<1>18. ASSUME NEW c \in Clients, CancelDone(c) PROVE Carried'
  BY <1>18, ClientThread DEF CancelDone
<1>19. ASSUME NEW c \in Clients, Unqueue(c) PROVE Carried'
  <2> SUFFICES ASSUME NEW x \in Tasks, state'[x] \in Live PROVE InHands(x)'
    OBVIOUS
  <2>1. CASE x = cur[c] /\ cur[c] \in pending
    BY <2>1, <1>19, ClientThread DEF Unqueue
  <2>2. CASE ~(x = cur[c] /\ cur[c] \in pending)
    <3>1. /\ c \in Threads /\ state[x] \in Live /\ pc[c] \notin CarryPCs
          /\ \A tg \in Threads : tg # c => pc'[tg] = pc[tg] /\ cur'[tg] = cur[tg]
      BY <2>2, <1>19, ClientThread DEF Unqueue, RemovePending
    <3>2. /\ x \in pending => x \in pending'
          /\ x \in mailbox => x \in mailbox'
          /\ x \in rejected => x \in rejected'
          /\ x \in Discards => x \in Discards'
          /\ \A d \in Clients : x \in Revocations(d) => x \in Revocations(d)'
      BY <2>2, <1>19, OwnerThread, ClientThread DEF Unqueue, RemovePending
    <3> QED BY <3>1, <3>2, StaysInHands
  <2> QED BY <2>1, <2>2
<1>20. ASSUME NEW c \in Clients, Revoke(c) PROVE Carried'
  <2> SUFFICES ASSUME NEW x \in Tasks, state'[x] \in Live PROVE InHands(x)'
    OBVIOUS
  <2>1. CASE x = cur[c]
    BY <2>1, <1>20, ClientThread DEF Revoke, RevokeJob
  <2>2. CASE x # cur[c]
    <3>1. /\ c \in Threads /\ state[x] \in Live
          /\ \A tg \in Threads : tg # c => pc'[tg] = pc[tg] /\ cur'[tg] = cur[tg]
      BY <2>2, <1>20, ClientThread DEF Revoke, RevokeJob
    <3>2. /\ x \in pending => x \in pending'
          /\ x \in mailbox => x \in mailbox'
          /\ x \in rejected => x \in rejected'
          /\ x \in Discards => x \in Discards'
          /\ \A d \in Clients : x \in Revocations(d) => x \in Revocations(d)'
      BY <2>2, <1>20, ClientThread, OwnerThread, ClientThread DEF Revoke, RevokeJob
    <3> QED BY <2>2, <3>1, <3>2, StaysInHands
  <2> QED BY <2>1, <2>2
<1>21. ASSUME NEW c \in Clients, CloseBackend(c) PROVE Carried'
  BY <1>21, ClientThread DEF CloseBackend, CloseQueue, NotifyAll
<1>22. ASSUME NEW c \in Clients, ShutdownDone(c) PROVE Carried'
  BY <1>22, ClientThread DEF ShutdownDone
<1>23. ASSUME NEW t \in Tasks, Deliver(t) PROVE Carried'
  BY <1>23, OwnerThread DEF Deliver, BeginAdoption
<1>24. ASSUME NEW t \in Tasks, DiscardNext(t) PROVE Carried'
  BY <1>24, OwnerThread DEF DiscardNext
<1>25. CASE Adopt
  BY <1>25, OwnerThread DEF Adopt
<1>26. CASE DiscardDone
  BY <1>26, OwnerThread DEF DiscardDone
<1>27. CASE CloseDispatcher
  BY <1>27, OwnerThread DEF CloseDispatcher
<1>28. ASSUME NEW w \in Workers, NEW t \in Tasks, Take(w, t) PROVE Carried'
  BY <1>28, WorkerThread DEF Take, StartJob, RegisterLeaseHook
<1>29. ASSUME NEW w \in Workers, Park(w) PROVE Carried'
  BY <1>29, WorkerThread DEF Park, WaitForWork
<1>30. ASSUME NEW w \in Workers, Exit(w) PROVE Carried'
  BY <1>30, WorkerThread DEF Exit
<1>31. ASSUME NEW w \in Workers, RunJob(w) PROVE Carried'
  <2> SUFFICES ASSUME NEW x \in Tasks, state'[x] \in Live PROVE InHands(x)'
    OBVIOUS
  <2>1. CASE x = cur[w]
    BY <2>1, <1>31, WorkerThread DEF RunJob, ActivateJob
  <2>2. CASE x # cur[w]
    <3>1. /\ w \in Threads /\ state[x] \in Live
          /\ \A tg \in Threads : tg # w => pc'[tg] = pc[tg] /\ cur'[tg] = cur[tg]
      BY <2>2, <1>31, WorkerThread DEF RunJob, ActivateJob
    <3>2. /\ x \in pending => x \in pending'
          /\ x \in mailbox => x \in mailbox'
          /\ x \in rejected => x \in rejected'
          /\ x \in Discards => x \in Discards'
          /\ \A d \in Clients : x \in Revocations(d) => x \in Revocations(d)'
      BY <2>2, <1>31, WorkerThread, OwnerThread, ClientThread DEF RunJob, ActivateJob
    <3> QED BY <2>2, <3>1, <3>2, StaysInHands
  <2> QED BY <2>1, <2>2
<1>32. ASSUME NEW w \in Workers, Execute(w) PROVE Carried'
  <2> SUFFICES ASSUME NEW x \in Tasks, state'[x] \in Live PROVE InHands(x)'
    OBVIOUS
  <2>1. CASE x = cur[w]
    BY <2>1, <1>32, WorkerThread DEF Execute, BeginWork, BecomesState
  <2>2. CASE x # cur[w]
    <3>1. /\ w \in Threads /\ state[x] \in Live
          /\ \A tg \in Threads : tg # w => pc'[tg] = pc[tg] /\ cur'[tg] = cur[tg]
      BY <2>2, <1>32, WorkerThread DEF Execute, BeginWork, BecomesState
    <3>2. /\ x \in pending => x \in pending'
          /\ x \in mailbox => x \in mailbox'
          /\ x \in rejected => x \in rejected'
          /\ x \in Discards => x \in Discards'
          /\ \A d \in Clients : x \in Revocations(d) => x \in Revocations(d)'
      BY <2>2, <1>32, WorkerThread, OwnerThread, ClientThread DEF Execute, BeginWork, BecomesState
    <3> QED BY <2>2, <3>1, <3>2, StaysInHands
  <2> QED BY <2>1, <2>2
<1>33. ASSUME NEW w \in Workers, WorkReturns(w) PROVE Carried'
  <2> SUFFICES ASSUME NEW x \in Tasks, state'[x] \in Live PROVE InHands(x)'
    OBVIOUS
  <2>1. CASE x = cur[w]
    BY <2>1, <1>33, WorkerThread DEF WorkReturns, BeginDelivery, BecomesState
  <2>2. CASE x # cur[w]
    <3>1. /\ w \in Threads /\ state[x] \in Live
          /\ \A tg \in Threads : tg # w => pc'[tg] = pc[tg] /\ cur'[tg] = cur[tg]
      BY <2>2, <1>33, WorkerThread DEF WorkReturns, BeginDelivery, BecomesState
    <3>2. /\ x \in pending => x \in pending'
          /\ x \in mailbox => x \in mailbox'
          /\ x \in rejected => x \in rejected'
          /\ x \in Discards => x \in Discards'
          /\ \A d \in Clients : x \in Revocations(d) => x \in Revocations(d)'
      BY <2>2, <1>33, WorkerThread, OwnerThread, ClientThread DEF WorkReturns, BeginDelivery, BecomesState
    <3> QED BY <2>2, <3>1, <3>2, StaysInHands
  <2> QED BY <2>1, <2>2
<1>34. ASSUME NEW w \in Workers, WorkRaises(w) PROVE Carried'
  BY <1>34, WorkerThread DEF WorkRaises
<1>35. ASSUME NEW w \in Workers, Dispatch(w) PROVE Carried'
  <2> SUFFICES ASSUME NEW x \in Tasks, state'[x] \in Live PROVE InHands(x)'
    OBVIOUS
  <2>1. CASE x = cur[w]
    BY <2>1, <1>35, WorkerThread DEF Dispatch
  <2>2. CASE x # cur[w]
    <3>1. /\ w \in Threads /\ state[x] \in Live
          /\ \A tg \in Threads : tg # w => pc'[tg] = pc[tg] /\ cur'[tg] = cur[tg]
      BY <2>2, <1>35, WorkerThread DEF Dispatch
    <3>2. /\ x \in pending => x \in pending'
          /\ x \in mailbox => x \in mailbox'
          /\ x \in rejected => x \in rejected'
          /\ x \in Discards => x \in Discards'
          /\ \A d \in Clients : x \in Revocations(d) => x \in Revocations(d)'
      BY <2>2, <1>35, WorkerThread, OwnerThread, ClientThread DEF Dispatch
    <3> QED BY <2>2, <3>1, <3>2, StaysInHands
  <2> QED BY <2>1, <2>2
<1>36. ASSUME NEW w \in Workers, Finish(w) PROVE Carried'
  BY <1>36, WorkerThread DEF Finish, FinishRunning, NotifyAll
<1>37. CASE Rest
  BY <1>37 DEF Rest, vars
<1> QED
  BY <1>1, <1>2, <1>3, <1>4, <1>5, <1>6, <1>7, <1>8, <1>9, <1>10, <1>11, <1>12,
     <1>13, <1>14, <1>15, <1>16, <1>17, <1>18, <1>19, <1>20, <1>21, <1>22, <1>23,
     <1>24, <1>25, <1>26, <1>27, <1>28, <1>29, <1>30, <1>31, <1>32, <1>33, <1>34,
     <1>35, <1>36, <1>37, ZenonT(60) DEF Next, BeginClient, ContinueClient,
     OwnerStep, WorkerStep, SettleStep, Threads

\* Places where the release of a slot, of a lease or of a scope's entry is
\* still to come.
Releasing(t, places) == \E th \in Threads : pc[th] \in places /\ cur[th] = t

\* A slot, a lease and an entry in a scope outlive the outcome of their task
\* only until the thread that published it has released them.
Released ==
    /\ \A t \in accepted : state[t] \in Live \/ Releasing(t, {"signal", "slot"})
    /\ \A t \in leaseHooks :
         state[t] \in Live \/ Releasing(t, {"signal", "slot", "lease"})
    /\ \A t \in handles :
         state[t] \in Live \/ Releasing(t, {"signal", "slot", "lease", "untrack"})

(* Every step keeps what outlives an outcome with the thread that publishes it. *)
LEMMA ReleasedNext ==
    ASSUME IInv, SubmitInv, Released, Next
    PROVE  Released'
<1> USE DEF IInv, TypeInv, TypeOK, HandleTypeOK, BackendTypeOK, TaskInHand, ThreadInv,
        RestPCs, WorkerPCs, ClientPCs, SettlePCs, Terminal, Live, States, Threads, handleVars,
        backendVars, scopeVars, dispatchVars, threadVars, At, Goto, Begin, TakeUp,
        SettleThen, Offered, AdoptInv, Untouched, OwnershipInv, Queued, Taken, Revoked,
        Published, Undisturbed, Released, Releasing, SubmitInv, Submissions, Submitting, Tracked
<1>1. ASSUME NEW th \in Threads, Settle(th) PROVE Released'
  BY <1>1 DEF Settle, PublishOutcome, BecomesState
<1>2. ASSUME NEW th \in Threads, Signal(th) PROVE Released'
  BY <1>2 DEF Signal, MarkSettled
<1>3. ASSUME NEW th \in Threads, FreeSlot(th) PROVE Released'
  BY <1>3 DEF FreeSlot, ReleaseAccepted
<1>4. ASSUME NEW th \in Threads, FreeLease(th) PROVE Released'
  BY <1>4 DEF FreeLease, RunLeaseHook, ReleaseExclusive, NotifyAll
<1>5. ASSUME NEW th \in Threads, Untrack(th) PROVE Released'
  BY <1>5 DEF Untrack
<1>6. ASSUME NEW c \in Clients, NEW t \in Tasks, RefuseScope(c, t) PROVE Released'
  BY <1>6, ClientThread DEF RefuseScope
<1>7. ASSUME NEW c \in Clients, NEW t \in Tasks, Register(c, t) PROVE Released'
  BY <1>7, ClientThread DEF Register, CreateHandle, BecomesState
<1>8. ASSUME NEW c \in Clients, NEW t \in Tasks, Cancel(c, t) PROVE Released'
  BY <1>8, ClientThread DEF Cancel
<1>9. ASSUME NEW c \in Clients, NEW s \in Scopes, CancelAll(c, s) PROVE Released'
  BY <1>9, ClientThread DEF CancelAll, HandlesOf
<1>10. ASSUME NEW c \in Clients, NEW s \in Scopes, CloseScope(c, s) PROVE Released'
  BY <1>10, ClientThread DEF CloseScope, HandlesOf
<1>11. ASSUME NEW c \in Clients, Shutdown(c) PROVE Released'
  BY <1>11, ClientThread DEF Shutdown
<1>12. ASSUME NEW c \in Clients, Admit(c) PROVE Released'
  BY <1>12, ClientThread DEF Admit
<1>13. ASSUME NEW c \in Clients, Offer(c) PROVE Released'
  BY <1>13, ClientThread DEF Offer, AcceptJob, NotifyOne
<1>14. ASSUME NEW c \in Clients, Refuse(c) PROVE Released'
  BY <1>14, ClientThread DEF Refuse
<1>15. ASSUME NEW c \in Clients, Bind(c) PROVE Released'
  BY <1>15, ClientThread DEF Bind, BindSubmission
<1>16. ASSUME NEW c \in Clients, NEW t \in Tasks, CancelOne(c, t) PROVE Released'
  BY <1>16, ClientThread DEF CancelOne, CancelRefused, RequestCancel
<1>17. ASSUME NEW c \in Clients, NEW t \in Tasks, RevokeNext(c, t) PROVE Released'
  BY <1>17, ClientThread DEF RevokeNext
<1>18. ASSUME NEW c \in Clients, CancelDone(c) PROVE Released'
  BY <1>18, ClientThread DEF CancelDone
<1>19. ASSUME NEW c \in Clients, Unqueue(c) PROVE Released'
  BY <1>19, ClientThread DEF Unqueue, RemovePending, NotifyAll
<1>20. ASSUME NEW c \in Clients, Revoke(c) PROVE Released'
  <2>1. UNCHANGED <<state, accepted, leaseHooks, handles>>
    BY <1>20 DEF Revoke, RevokeJob
  <2>2. \A th \in Threads : pc[th] \in SettlePCs =>
            pc'[th] = pc[th] /\ cur'[th] = cur[th]
    BY <1>20, ClientThread DEF Revoke
  <2> QED BY <2>1, <2>2 DEF Released, Releasing
<1>21. ASSUME NEW c \in Clients, CloseBackend(c) PROVE Released'
  BY <1>21, ClientThread DEF CloseBackend, CloseQueue, NotifyAll
<1>22. ASSUME NEW c \in Clients, ShutdownDone(c) PROVE Released'
  BY <1>22, ClientThread DEF ShutdownDone
<1>23. ASSUME NEW t \in Tasks, Deliver(t) PROVE Released'
  BY <1>23, OwnerThread DEF Deliver, BeginAdoption
<1>24. ASSUME NEW t \in Tasks, DiscardNext(t) PROVE Released'
  BY <1>24, OwnerThread DEF DiscardNext
<1>25. CASE Adopt
  BY <1>25, OwnerThread DEF Adopt
<1>26. CASE DiscardDone
  BY <1>26, OwnerThread DEF DiscardDone
<1>27. CASE CloseDispatcher
  BY <1>27, OwnerThread DEF CloseDispatcher
<1>28. ASSUME NEW w \in Workers, NEW t \in Tasks, Take(w, t) PROVE Released'
  BY <1>28, WorkerThread DEF Take, StartJob, RegisterLeaseHook
<1>29. ASSUME NEW w \in Workers, Park(w) PROVE Released'
  BY <1>29, WorkerThread DEF Park, WaitForWork
<1>30. ASSUME NEW w \in Workers, Exit(w) PROVE Released'
  BY <1>30, WorkerThread DEF Exit
<1>31. ASSUME NEW w \in Workers, RunJob(w) PROVE Released'
  BY <1>31, WorkerThread DEF RunJob, ActivateJob
<1>32. ASSUME NEW w \in Workers, Execute(w) PROVE Released'
  BY <1>32, WorkerThread DEF Execute, BeginWork, BecomesState
<1>33. ASSUME NEW w \in Workers, WorkReturns(w) PROVE Released'
  BY <1>33, WorkerThread DEF WorkReturns, BeginDelivery, BecomesState
<1>34. ASSUME NEW w \in Workers, WorkRaises(w) PROVE Released'
  BY <1>34, WorkerThread DEF WorkRaises
<1>35. ASSUME NEW w \in Workers, Dispatch(w) PROVE Released'
  BY <1>35, WorkerThread DEF Dispatch
<1>36. ASSUME NEW w \in Workers, Finish(w) PROVE Released'
  BY <1>36, WorkerThread DEF Finish, FinishRunning, NotifyAll
<1>37. CASE Rest
  BY <1>37 DEF Rest, vars
<1> QED
  BY <1>1, <1>2, <1>3, <1>4, <1>5, <1>6, <1>7, <1>8, <1>9, <1>10, <1>11, <1>12,
     <1>13, <1>14, <1>15, <1>16, <1>17, <1>18, <1>19, <1>20, <1>21, <1>22, <1>23,
     <1>24, <1>25, <1>26, <1>27, <1>28, <1>29, <1>30, <1>31, <1>32, <1>33, <1>34,
     <1>35, <1>36, <1>37, ZenonT(60) DEF Next, BeginClient, ContinueClient,
     OwnerStep, WorkerStep, SettleStep, Threads

\* A running job is some worker's, and a reserved key some holder's.
Backed ==
    /\ \A t \in running : \E w \in Workers :
         cur[w] = t /\ pc[w] \notin {"take", "exited"}
    /\ \A key \in exclusive : \E t \in Holders : KeyOf[t] = key

(* Entries of the backend's books end with the worker or the lease they stand
   for. *)
LEMMA BackedNext ==
    ASSUME IInv, Backed, Next
    PROVE  Backed'
<1> USE DEF IInv, TypeInv, TypeOK, HandleTypeOK, BackendTypeOK, TaskInHand, ThreadInv,
        RestPCs, WorkerPCs, ClientPCs, SettlePCs, Terminal, Live, States, Threads, handleVars,
        backendVars, scopeVars, dispatchVars, threadVars, At, Goto, Begin, TakeUp,
        SettleThen, Offered, AdoptInv, Untouched, OwnershipInv, Queued, Taken, Revoked,
        Published, Undisturbed, Backed, Holders, Hooked, HoldsWhileWorking
<1>1. ASSUME NEW th \in Threads, Settle(th) PROVE Backed'
  BY <1>1 DEF Settle, PublishOutcome, BecomesState
<1>2. ASSUME NEW th \in Threads, Signal(th) PROVE Backed'
  BY <1>2 DEF Signal, MarkSettled
<1>3. ASSUME NEW th \in Threads, FreeSlot(th) PROVE Backed'
  BY <1>3 DEF FreeSlot, ReleaseAccepted
<1>4. ASSUME NEW th \in Threads, FreeLease(th) PROVE Backed'
  BY <1>4 DEF FreeLease, RunLeaseHook, ReleaseExclusive, NotifyAll
<1>5. ASSUME NEW th \in Threads, Untrack(th) PROVE Backed'
  BY <1>5 DEF Untrack
<1>6. ASSUME NEW c \in Clients, NEW t \in Tasks, RefuseScope(c, t) PROVE Backed'
  BY <1>6, ClientThread DEF RefuseScope
<1>7. ASSUME NEW c \in Clients, NEW t \in Tasks, Register(c, t) PROVE Backed'
  BY <1>7, ClientThread DEF Register, CreateHandle, BecomesState
<1>8. ASSUME NEW c \in Clients, NEW t \in Tasks, Cancel(c, t) PROVE Backed'
  BY <1>8, ClientThread DEF Cancel
<1>9. ASSUME NEW c \in Clients, NEW s \in Scopes, CancelAll(c, s) PROVE Backed'
  BY <1>9, ClientThread DEF CancelAll, HandlesOf
<1>10. ASSUME NEW c \in Clients, NEW s \in Scopes, CloseScope(c, s) PROVE Backed'
  BY <1>10, ClientThread DEF CloseScope, HandlesOf
<1>11. ASSUME NEW c \in Clients, Shutdown(c) PROVE Backed'
  BY <1>11, ClientThread DEF Shutdown
<1>12. ASSUME NEW c \in Clients, Admit(c) PROVE Backed'
  BY <1>12, ClientThread DEF Admit
<1>13. ASSUME NEW c \in Clients, Offer(c) PROVE Backed'
  BY <1>13, ClientThread DEF Offer, AcceptJob, NotifyOne
<1>14. ASSUME NEW c \in Clients, Refuse(c) PROVE Backed'
  BY <1>14, ClientThread DEF Refuse
<1>15. ASSUME NEW c \in Clients, Bind(c) PROVE Backed'
  BY <1>15, ClientThread DEF Bind, BindSubmission
<1>16. ASSUME NEW c \in Clients, NEW t \in Tasks, CancelOne(c, t) PROVE Backed'
  BY <1>16, ClientThread DEF CancelOne, CancelRefused, RequestCancel
<1>17. ASSUME NEW c \in Clients, NEW t \in Tasks, RevokeNext(c, t) PROVE Backed'
  BY <1>17, ClientThread DEF RevokeNext
<1>18. ASSUME NEW c \in Clients, CancelDone(c) PROVE Backed'
  BY <1>18, ClientThread DEF CancelDone
<1>19. ASSUME NEW c \in Clients, Unqueue(c) PROVE Backed'
  BY <1>19, ClientThread DEF Unqueue, RemovePending, NotifyAll
<1>20. ASSUME NEW c \in Clients, Revoke(c) PROVE Backed'
  BY <1>20, ClientThread DEF Revoke, RevokeJob
<1>21. ASSUME NEW c \in Clients, CloseBackend(c) PROVE Backed'
  BY <1>21, ClientThread DEF CloseBackend, CloseQueue, NotifyAll
<1>22. ASSUME NEW c \in Clients, ShutdownDone(c) PROVE Backed'
  BY <1>22, ClientThread DEF ShutdownDone
<1>23. ASSUME NEW t \in Tasks, Deliver(t) PROVE Backed'
  BY <1>23, OwnerThread DEF Deliver, BeginAdoption
<1>24. ASSUME NEW t \in Tasks, DiscardNext(t) PROVE Backed'
  BY <1>24, OwnerThread DEF DiscardNext
<1>25. CASE Adopt
  BY <1>25, OwnerThread DEF Adopt
<1>26. CASE DiscardDone
  BY <1>26, OwnerThread DEF DiscardDone
<1>27. CASE CloseDispatcher
  BY <1>27, OwnerThread DEF CloseDispatcher
<1>28. ASSUME NEW w \in Workers, NEW t \in Tasks, Take(w, t) PROVE Backed'
  <2>1. \A u \in running' : \E v \in Workers : cur'[v] = u /\ pc'[v] \notin {"take", "exited"}
    <3>1. cur'[w] = t /\ pc'[w] = "run" /\ running' = running \cup {t}
      BY <1>28, WorkerThread DEF Take, StartJob
    <3>2. \A v \in Workers : pc[v] \notin {"take", "exited"} =>
              pc'[v] = pc[v] /\ cur'[v] = cur[v]
      BY <1>28, WorkerThread DEF Take
    <3> QED BY <3>1, <3>2
  <2>2. \A key \in exclusive' : \E u \in Holders' : KeyOf[u] = key
    <3>1. /\ exclusive' = exclusive \cup ({KeyOf[t]} \cap Keys)
          /\ Holders \subseteq Holders'
          /\ KeyOf[t] \in Keys => t \in Holders'
      BY <1>28, RequirementsAssumption DEF Take, StartJob, RegisterLeaseHook,
         HoldsThroughAdoption
    <3> QED BY <3>1
  <2> QED BY <2>1, <2>2
<1>29. ASSUME NEW w \in Workers, Park(w) PROVE Backed'
  BY <1>29, WorkerThread DEF Park, WaitForWork
<1>30. ASSUME NEW w \in Workers, Exit(w) PROVE Backed'
  BY <1>30, WorkerThread DEF Exit
<1>31. ASSUME NEW w \in Workers, RunJob(w) PROVE Backed'
  BY <1>31, WorkerThread DEF RunJob, ActivateJob
<1>32. ASSUME NEW w \in Workers, Execute(w) PROVE Backed'
  BY <1>32, WorkerThread DEF Execute, BeginWork, BecomesState
<1>33. ASSUME NEW w \in Workers, WorkReturns(w) PROVE Backed'
  BY <1>33, WorkerThread DEF WorkReturns, BeginDelivery, BecomesState
<1>34. ASSUME NEW w \in Workers, WorkRaises(w) PROVE Backed'
  BY <1>34, WorkerThread DEF WorkRaises
<1>35. ASSUME NEW w \in Workers, Dispatch(w) PROVE Backed'
  BY <1>35, WorkerThread DEF Dispatch
<1>36. ASSUME NEW w \in Workers, Finish(w) PROVE Backed'
  BY <1>36, WorkerThread DEF Finish, FinishRunning, NotifyAll
<1>37. CASE Rest
  BY <1>37 DEF Rest, vars
<1> QED
  BY <1>1, <1>2, <1>3, <1>4, <1>5, <1>6, <1>7, <1>8, <1>9, <1>10, <1>11, <1>12,
     <1>13, <1>14, <1>15, <1>16, <1>17, <1>18, <1>19, <1>20, <1>21, <1>22, <1>23,
     <1>24, <1>25, <1>26, <1>27, <1>28, <1>29, <1>30, <1>31, <1>32, <1>33, <1>34,
     <1>35, <1>36, <1>37, ZenonT(60) DEF Next, BeginClient, ContinueClient,
     OwnerStep, WorkerStep, SettleStep, Threads

-----------------------------------------------------------------------------
(* Sums of bytes.  RetainedBytes folds + over a set in an order CHOOSE      *)
(* picks; that the order does not matter is proved from the smallest        *)
(* counterexample, which exists because strict inclusion is well founded.   *)

\* A family of sets of tasks that is not empty has a smallest member.
LEMMA SmallestSet ==
    ASSUME NEW Family \in SUBSET (SUBSET Tasks), Family # {}
    PROVE  \E T \in Family : \A U \in SUBSET T : U \in Family => U = T
<1>1. IsWellFoundedOn(StrictSubsetOrdering(Tasks), SUBSET Tasks)
  BY PolicyAssumption, FS_FiniteSubsetsOfFinite, FS_StrictSubsetOrderingWellFounded
<1>2. PICK T \in Family : \A U \in Family : <<U, T>> \notin StrictSubsetOrdering(Tasks)
  BY <1>1, WFMin
<1>3. ASSUME NEW U \in SUBSET T, U \in Family PROVE U = T
  BY <1>2, <1>3 DEF StrictSubsetOrdering
<1> QED BY <1>3

Pick(S) == CHOOSE t \in S : TRUE

\* sums adds up the bytes of every subset of S, one task at a time.
AddsUp(sums, S) ==
    sums = [U \in SUBSET S |->
               IF U = {} THEN 0 ELSE BytesOf[Pick(U)] + sums[U \ {Pick(U)}]]

Sums(S) == CHOOSE sums : AddsUp(sums, S)

(* A set that is not empty holds the task picked from it. *)
LEMMA PickMember == ASSUME NEW S, S # {} PROVE Pick(S) \in S
BY DEF Pick

(* The sum of the model is one of these. *)
LEMMA BytesAreSums == \A S : RetainedBytes(S) = Sums(S)[S]
BY Zenon DEF RetainedBytes, MapThenSumSet, MapThenFoldSet, Sums, AddsUp, Pick

(* What AddsUp says of one subset. *)
LEMMA AddsUpAt ==
    ASSUME NEW S, NEW sums, AddsUp(sums, S), NEW U \in SUBSET S
    PROVE  sums[U] = IF U = {} THEN 0 ELSE BytesOf[Pick(U)] + sums[U \ {Pick(U)}]
<1> DEFINE Body(V) == IF V = {} THEN 0 ELSE BytesOf[Pick(V)] + sums[V \ {Pick(V)}]
<1>1. sums = [V \in SUBSET S |-> Body(V)]
  BY Zenon DEF AddsUp
<1> HIDE DEF Body
<1>2. sums[U] = Body(U)
  BY <1>1
<1> QED BY <1>2 DEF Body

(* Sums over two sets agree on the subsets of both. *)
LEMMA SumsAgree ==
    ASSUME NEW S \in SUBSET Tasks, NEW R \in SUBSET Tasks, NEW i, NEW j,
           AddsUp(i, S), AddsUp(j, R)
    PROVE  \A U \in SUBSET (S \cap R) : i[U] = j[U]
<1> DEFINE Bad == {U \in SUBSET (S \cap R) : i[U] # j[U]}
<1>1. SUFFICES ASSUME Bad # {} PROVE FALSE
  OBVIOUS
<1>2. PICK T \in Bad : \A U \in SUBSET T : U \in Bad => U = T
  <2>1. Bad \in SUBSET (SUBSET Tasks)
    OBVIOUS
  <2> HIDE DEF Bad
  <2> QED BY <1>1, <2>1, SmallestSet
<1>3. i[T] # j[T] /\ T \in SUBSET S /\ T \in SUBSET R
  OBVIOUS
<1>4. CASE T = {}
  BY <1>3, <1>4, AddsUpAt
<1>5. CASE T # {}
  <2>1. Pick(T) \in T
    BY <1>5, PickMember
  <2>2. i[T \ {Pick(T)}] = j[T \ {Pick(T)}]
    BY <1>2, <1>3, <2>1
  <2>3. /\ i[T] = BytesOf[Pick(T)] + i[T \ {Pick(T)}]
        /\ j[T] = BytesOf[Pick(T)] + j[T \ {Pick(T)}]
    BY <1>3, <1>5, AddsUpAt
  <2> QED BY <1>3, <2>2, <2>3
<1> QED BY <1>4, <1>5

(* Every set of tasks has its sums. *)
LEMMA SumsExist == \A S \in SUBSET Tasks : AddsUp(Sums(S), S)
<1> DEFINE Bad == {S \in SUBSET Tasks : ~ AddsUp(Sums(S), S)}
<1>1. SUFFICES ASSUME Bad # {} PROVE FALSE
  OBVIOUS
<1>2. PICK T \in Bad : \A U \in SUBSET T : U \in Bad => U = T
  <2>1. Bad \in SUBSET (SUBSET Tasks)
    OBVIOUS
  <2> HIDE DEF Bad
  <2> QED BY <1>1, <2>1, SmallestSet
<1>3. \A U \in SUBSET T : U # T => AddsUp(Sums(U), U)
  BY <1>2
<1> DEFINE Others(U) == U \ {Pick(U)}
           Step(U) == IF U = {} THEN 0 ELSE BytesOf[Pick(U)] + Sums(Others(U))[Others(U)]
           whole == [U \in SUBSET T |-> Step(U)]
<1>4. \A U \in SUBSET T : U # {} => Others(U) \in SUBSET T /\ Others(U) # T
  BY PickMember
<1>5. ASSUME NEW V \in SUBSET T, V # T PROVE whole[V] = Sums(V)[V]
  <2>1. AddsUp(Sums(V), V)
    BY <1>3, <1>5
  <2>2. CASE V = {}
    BY <2>1, <2>2, AddsUpAt
  <2>3. CASE V # {}
    <3>1. Sums(V)[V] = BytesOf[Pick(V)] + Sums(V)[Others(V)]
      BY <2>1, <2>3, AddsUpAt
    <3>2. Others(V) \in SUBSET V /\ AddsUp(Sums(Others(V)), Others(V))
      BY <1>3, <1>4, <2>3
    <3>3. Sums(V)[Others(V)] = Sums(Others(V))[Others(V)]
      <4>1. V \in SUBSET Tasks /\ Others(V) \in SUBSET Tasks
        BY <1>2, <3>2
      <4>2. Others(V) \in SUBSET (V \cap Others(V))
        BY <3>2
      <4> HIDE DEF Others
      <4> QED BY <2>1, <3>2, <4>1, <4>2, SumsAgree
    <3> HIDE DEF Others
    <3> QED BY <2>3, <3>1, <3>3
  <2> QED BY <2>2, <2>3
<1>6. AddsUp(whole, T)
  <2>1. \A U \in SUBSET T : U # {} => whole[Others(U)] = Sums(Others(U))[Others(U)]
    BY <1>4, <1>5
  <2>2. whole = [U \in SUBSET T |->
                    IF U = {} THEN 0 ELSE BytesOf[Pick(U)] + whole[U \ {Pick(U)}]]
    <3> DEFINE Next2(U) == IF U = {} THEN 0 ELSE BytesOf[Pick(U)] + whole[Others(U)]
    <3>1. \A U \in SUBSET T : Step(U) = Next2(U)
      <4> HIDE DEF whole, Others
      <4> QED BY <2>1
    <3>2. [U \in SUBSET T |-> Step(U)] = [U \in SUBSET T |-> Next2(U)]
      <4> HIDE DEF Step, Next2
      <4> QED BY <3>1
    <3> QED BY <3>2
  <2> QED BY <2>2 DEF AddsUp
<1>7. AddsUp(Sums(T), T)
  <2> HIDE DEF whole
  <2> QED BY <1>6 DEF Sums
<1> QED BY <1>2, <1>7

(* The bytes of a set of tasks are those of one of them and of the rest. *)
LEMMA BytesUnfold ==
    ASSUME NEW S \in SUBSET Tasks
    PROVE  RetainedBytes(S) = IF S = {} THEN 0
                              ELSE BytesOf[Pick(S)] + RetainedBytes(S \ {Pick(S)})
<1>1. Sums(S)[S] = IF S = {} THEN 0 ELSE BytesOf[Pick(S)] + Sums(S)[S \ {Pick(S)}]
  BY SumsExist, AddsUpAt
<1>2. Sums(S)[S \ {Pick(S)}] = Sums(S \ {Pick(S)})[S \ {Pick(S)}]
  <2> DEFINE R == S \ {Pick(S)}
  <2>1. R \in SUBSET Tasks /\ R \in SUBSET (S \cap R)
    OBVIOUS
  <2>2. AddsUp(Sums(S), S) /\ AddsUp(Sums(R), R)
    BY <2>1, SumsExist
  <2> HIDE DEF R
  <2>3. Sums(S)[R] = Sums(R)[R]
    BY <2>1, <2>2, SumsAgree
  <2> QED BY <2>3 DEF R
<1> QED BY <1>1, <1>2, BytesAreSums

(* Retained bytes are a natural number. *)
LEMMA BytesType == \A S \in SUBSET Tasks : RetainedBytes(S) \in Nat
<1> DEFINE Bad == {S \in SUBSET Tasks : RetainedBytes(S) \notin Nat}
<1>1. SUFFICES ASSUME Bad # {} PROVE FALSE
  OBVIOUS
<1>2. PICK T \in Bad : \A U \in SUBSET T : U \in Bad => U = T
  <2>1. Bad \in SUBSET (SUBSET Tasks)
    OBVIOUS
  <2> HIDE DEF Bad
  <2> QED BY <1>1, <2>1, SmallestSet
<1>3. T # {}
  <2>1. RetainedBytes(T) \notin Nat
    BY <1>2
  <2>2. T = {} => RetainedBytes(T) = 0
    BY <1>2, BytesUnfold
  <2> QED BY <2>1, <2>2
<1>4. Pick(T) \in T
  BY <1>3, PickMember
<1>5. RetainedBytes(T \ {Pick(T)}) \in Nat
  BY <1>2, <1>4
<1> QED BY <1>2, <1>3, <1>4, <1>5, BytesUnfold, RequirementsAssumption

\* Whichever task leaves a set, its bytes leave the sum.
LEMMA BytesWithout ==
    ASSUME NEW S \in SUBSET Tasks, NEW t \in S
    PROVE  RetainedBytes(S) = RetainedBytes(S \ {t}) + BytesOf[t]
<1> DEFINE Bad == {R \in SUBSET Tasks :
                     \E u \in R : RetainedBytes(R) # RetainedBytes(R \ {u}) + BytesOf[u]}
<1>1. SUFFICES ASSUME Bad # {} PROVE FALSE
  OBVIOUS
<1>2. PICK T \in Bad : \A U \in SUBSET T : U \in Bad => U = T
  <2>1. Bad \in SUBSET (SUBSET Tasks)
    OBVIOUS
  <2> HIDE DEF Bad
  <2> QED BY <1>1, <2>1, SmallestSet
<1>3. PICK u \in T : RetainedBytes(T) # RetainedBytes(T \ {u}) + BytesOf[u]
  BY <1>2
<1> DEFINE x == Pick(T)
<1>4. x \in T /\ T \in SUBSET Tasks
  BY <1>3, PickMember
<1>5. RetainedBytes(T) = BytesOf[x] + RetainedBytes(T \ {x})
  BY <1>3, <1>4, BytesUnfold
<1> HIDE DEF x
<1>6. u # x
  <2>1. RetainedBytes(T \ {x}) \in Nat /\ BytesOf[x] \in Nat
    BY <1>4, BytesType, RequirementsAssumption
  <2> QED BY <1>3, <1>5, <2>1
<1>7. ASSUME NEW U \in SUBSET T, U # T, NEW v \in U
      PROVE  RetainedBytes(U) = RetainedBytes(U \ {v}) + BytesOf[v]
  BY <1>2, <1>7
<1>8. RetainedBytes(T \ {x}) = RetainedBytes((T \ {x}) \ {u}) + BytesOf[u]
  <2>1. T \ {x} \in SUBSET T /\ T \ {x} # T /\ u \in T \ {x}
    BY <1>3, <1>4, <1>6
  <2> QED BY <1>7, <2>1
<1>9. RetainedBytes(T \ {u}) = RetainedBytes((T \ {u}) \ {x}) + BytesOf[x]
  <2>1. T \ {u} \in SUBSET T /\ T \ {u} # T /\ x \in T \ {u}
    BY <1>3, <1>4, <1>6
  <2> QED BY <1>7, <2>1
<1>10. (T \ {x}) \ {u} = (T \ {u}) \ {x}
  OBVIOUS
<1>11. /\ BytesOf[x] \in Nat /\ BytesOf[u] \in Nat
       /\ RetainedBytes((T \ {u}) \ {x}) \in Nat
  BY <1>3, <1>4, BytesType, RequirementsAssumption
<1>12. RetainedBytes((T \ {x}) \ {u}) = RetainedBytes((T \ {u}) \ {x})
  BY <1>10
<1> HIDE DEF Bad
<1> QED BY <1>3, <1>5, <1>8, <1>9, <1>11, <1>12

(* A task that joins a set adds its bytes. *)
LEMMA BytesWith ==
    ASSUME NEW S \in SUBSET Tasks, NEW t \in Tasks \ S
    PROVE  RetainedBytes(S \cup {t}) = RetainedBytes(S) + BytesOf[t]
<1>1. S \cup {t} \in SUBSET Tasks /\ t \in S \cup {t} /\ (S \cup {t}) \ {t} = S
  OBVIOUS
<1> QED BY <1>1, BytesWithout

\* A part of a set retains no more than the whole.
LEMMA BytesOfPart ==
    ASSUME NEW S \in SUBSET Tasks, NEW R \in SUBSET S
    PROVE  RetainedBytes(R) <= RetainedBytes(S)
<1> DEFINE Bad == {T \in SUBSET Tasks : R \subseteq T /\ ~ (RetainedBytes(R) <= RetainedBytes(T))}
<1>1. SUFFICES ASSUME Bad # {} PROVE FALSE
  OBVIOUS
<1>2. PICK T \in Bad : \A U \in SUBSET T : U \in Bad => U = T
  <2>1. Bad \in SUBSET (SUBSET Tasks)
    OBVIOUS
  <2> HIDE DEF Bad
  <2> QED BY <1>1, <2>1, SmallestSet
<1>3. RetainedBytes(R) \in Nat /\ RetainedBytes(T) \in Nat
  BY <1>2, BytesType
<1>4. R \subseteq T /\ R # T
  BY <1>2, <1>3
<1>5. PICK t \in T : t \notin R
  <2> HIDE DEF Bad
  <2> QED BY <1>4
<1>6. RetainedBytes(R) <= RetainedBytes(T \ {t})
  BY <1>2, <1>5
<1>7. RetainedBytes(T) = RetainedBytes(T \ {t}) + BytesOf[t]
  BY <1>2, <1>5, BytesWithout
<1>8. RetainedBytes(T \ {t}) \in Nat /\ BytesOf[t] \in Nat
  BY <1>2, <1>5, BytesType, RequirementsAssumption
<1> QED BY <1>2, <1>3, <1>6, <1>7, <1>8

-----------------------------------------------------------------------------
(* Limits.                                                                 *)

(* The tasks, the workers and every set of them are finite. *)
LEMMA FiniteSets ==
    /\ \A S \in SUBSET Tasks : IsFiniteSet(S) /\ Cardinality(S) \in Nat
    /\ \A S \in SUBSET Workers : IsFiniteSet(S) /\ Cardinality(S) \in Nat
BY PolicyAssumption, FS_Subset, FS_CardinalityType

\* The limits the backend compares with are natural numbers, and no request
\* raises the limit of its resource.
LEMMA LimitTypes ==
    /\ NoninteractiveWorkerLimit \in Nat
    /\ \A t \in Tasks : /\ ConcurrencyLimit(t) \in Nat
                         /\ ConcurrencyLimit(t) <= ResourceLimit[ResourceOf[t]]
                         /\ ResourceLimit[ResourceOf[t]] \in Nat
<1>1. MaxWorkers \in Nat
  BY FiniteSets DEF MaxWorkers
<1> QED
  BY <1>1, PolicyAssumption, RequirementsAssumption DEF NoninteractiveWorkerLimit,
     ConcurrencyLimit

\* What is accepted or running changes by one task at a time, and grows only
\* where the backend found room.
AcceptedChanges ==
    \/ accepted' = accepted
    \/ \E t \in Tasks : Admits(t) /\ accepted' = accepted \cup {t} /\ t \notin accepted
    \/ \E t \in Tasks : accepted' = accepted \ {t}
RunningChanges ==
    \/ running' = running
    \/ \E t \in Tasks : Eligible(t) /\ running' = running \cup {t} /\ t \notin running
    \/ \E t \in Tasks : running' = running \ {t}

(* Every step changes what is accepted and running in this way. *)
LEMMA LedgerChanges ==
    ASSUME IInv, SubmitInv, Next
    PROVE  AcceptedChanges /\ RunningChanges
<1> USE DEF IInv, TypeInv, TypeOK, HandleTypeOK, BackendTypeOK, TaskInHand, RestPCs,
        Threads, handleVars, backendVars, scopeVars, dispatchVars, threadVars, At,
        OwnershipInv, Queued, Offered, SubmitInv, Submissions, Submitting, AcceptedChanges,
        RunningChanges
<1>1. ASSUME NEW th \in Threads, Settle(th) PROVE AcceptedChanges /\ RunningChanges
  BY <1>1 DEF Settle, PublishOutcome, BecomesState
<1>2. ASSUME NEW th \in Threads, Signal(th) PROVE AcceptedChanges /\ RunningChanges
  BY <1>2 DEF Signal, MarkSettled
<1>3. ASSUME NEW th \in Threads, FreeSlot(th) PROVE AcceptedChanges /\
      RunningChanges
  BY <1>3 DEF FreeSlot, ReleaseAccepted
<1>4. ASSUME NEW th \in Threads, FreeLease(th) PROVE AcceptedChanges /\
      RunningChanges
  BY <1>4 DEF FreeLease, RunLeaseHook, ReleaseExclusive, NotifyAll
<1>5. ASSUME NEW th \in Threads, Untrack(th) PROVE AcceptedChanges /\ RunningChanges
  BY <1>5 DEF Untrack
<1>6. ASSUME NEW c \in Clients, NEW t \in Tasks, RefuseScope(c, t) PROVE
      AcceptedChanges /\ RunningChanges
  BY <1>6, ClientThread DEF RefuseScope
<1>7. ASSUME NEW c \in Clients, NEW t \in Tasks, Register(c, t) PROVE
      AcceptedChanges /\ RunningChanges
  BY <1>7, ClientThread DEF Register, CreateHandle, BecomesState
<1>8. ASSUME NEW c \in Clients, NEW t \in Tasks, Cancel(c, t) PROVE AcceptedChanges
      /\ RunningChanges
  BY <1>8, ClientThread DEF Cancel
<1>9. ASSUME NEW c \in Clients, NEW s \in Scopes, CancelAll(c, s) PROVE
      AcceptedChanges /\ RunningChanges
  BY <1>9, ClientThread DEF CancelAll, HandlesOf
<1>10. ASSUME NEW c \in Clients, NEW s \in Scopes, CloseScope(c, s) PROVE
      AcceptedChanges /\ RunningChanges
  BY <1>10, ClientThread DEF CloseScope, HandlesOf
<1>11. ASSUME NEW c \in Clients, Shutdown(c) PROVE AcceptedChanges /\ RunningChanges
  BY <1>11, ClientThread DEF Shutdown
<1>12. ASSUME NEW c \in Clients, Admit(c) PROVE AcceptedChanges /\ RunningChanges
  BY <1>12, ClientThread DEF Admit
<1>13. ASSUME NEW c \in Clients, Offer(c) PROVE AcceptedChanges /\ RunningChanges
  BY <1>13, ClientThread DEF Offer, AcceptJob, NotifyOne
<1>14. ASSUME NEW c \in Clients, Refuse(c) PROVE AcceptedChanges /\ RunningChanges
  BY <1>14, ClientThread DEF Refuse
<1>15. ASSUME NEW c \in Clients, Bind(c) PROVE AcceptedChanges /\ RunningChanges
  BY <1>15, ClientThread DEF Bind, BindSubmission
<1>16. ASSUME NEW c \in Clients, NEW t \in Tasks, CancelOne(c, t) PROVE
      AcceptedChanges /\ RunningChanges
  BY <1>16, ClientThread DEF CancelOne, CancelRefused, RequestCancel
<1>17. ASSUME NEW c \in Clients, NEW t \in Tasks, RevokeNext(c, t) PROVE
      AcceptedChanges /\ RunningChanges
  BY <1>17, ClientThread DEF RevokeNext
<1>18. ASSUME NEW c \in Clients, CancelDone(c) PROVE AcceptedChanges /\
      RunningChanges
  BY <1>18, ClientThread DEF CancelDone
<1>19. ASSUME NEW c \in Clients, Unqueue(c) PROVE AcceptedChanges /\ RunningChanges
  BY <1>19, ClientThread DEF Unqueue, RemovePending, NotifyAll
<1>20. ASSUME NEW c \in Clients, Revoke(c) PROVE AcceptedChanges /\ RunningChanges
  BY <1>20, ClientThread DEF Revoke, RevokeJob
<1>21. ASSUME NEW c \in Clients, CloseBackend(c) PROVE AcceptedChanges /\
      RunningChanges
  BY <1>21, ClientThread DEF CloseBackend, CloseQueue, NotifyAll
<1>22. ASSUME NEW c \in Clients, ShutdownDone(c) PROVE AcceptedChanges /\
      RunningChanges
  BY <1>22, ClientThread DEF ShutdownDone
<1>23. ASSUME NEW t \in Tasks, Deliver(t) PROVE AcceptedChanges /\ RunningChanges
  BY <1>23, OwnerThread DEF Deliver, BeginAdoption
<1>24. ASSUME NEW t \in Tasks, DiscardNext(t) PROVE AcceptedChanges /\
      RunningChanges
  BY <1>24, OwnerThread DEF DiscardNext
<1>25. CASE Adopt
  BY <1>25, OwnerThread DEF Adopt
<1>26. CASE DiscardDone
  BY <1>26, OwnerThread DEF DiscardDone
<1>27. CASE CloseDispatcher
  BY <1>27, OwnerThread DEF CloseDispatcher
<1>28. ASSUME NEW w \in Workers, NEW t \in Tasks, Take(w, t) PROVE AcceptedChanges
      /\ RunningChanges
  BY <1>28, WorkerThread DEF Take, StartJob, RegisterLeaseHook
<1>29. ASSUME NEW w \in Workers, Park(w) PROVE AcceptedChanges /\ RunningChanges
  BY <1>29, WorkerThread DEF Park, WaitForWork
<1>30. ASSUME NEW w \in Workers, Exit(w) PROVE AcceptedChanges /\ RunningChanges
  BY <1>30, WorkerThread DEF Exit
<1>31. ASSUME NEW w \in Workers, RunJob(w) PROVE AcceptedChanges /\ RunningChanges
  BY <1>31, WorkerThread DEF RunJob, ActivateJob
<1>32. ASSUME NEW w \in Workers, Execute(w) PROVE AcceptedChanges /\ RunningChanges
  BY <1>32, WorkerThread DEF Execute, BeginWork, BecomesState
<1>33. ASSUME NEW w \in Workers, WorkReturns(w) PROVE AcceptedChanges /\
      RunningChanges
  BY <1>33, WorkerThread DEF WorkReturns, BeginDelivery, BecomesState
<1>34. ASSUME NEW w \in Workers, WorkRaises(w) PROVE AcceptedChanges /\
      RunningChanges
  BY <1>34, WorkerThread DEF WorkRaises
<1>35. ASSUME NEW w \in Workers, Dispatch(w) PROVE AcceptedChanges /\ RunningChanges
  BY <1>35, WorkerThread DEF Dispatch
<1>36. ASSUME NEW w \in Workers, Finish(w) PROVE AcceptedChanges /\ RunningChanges
  BY <1>36, WorkerThread DEF Finish, FinishRunning, NotifyAll
<1>37. CASE Rest
  BY <1>37 DEF Rest, vars
<1> QED
  BY <1>1, <1>2, <1>3, <1>4, <1>5, <1>6, <1>7, <1>8, <1>9, <1>10, <1>11, <1>12,
     <1>13, <1>14, <1>15, <1>16, <1>17, <1>18, <1>19, <1>20, <1>21, <1>22, <1>23,
     <1>24, <1>25, <1>26, <1>27, <1>28, <1>29, <1>30, <1>31, <1>32, <1>33, <1>34,
     <1>35, <1>36, <1>37, ZenonT(60) DEF Next, BeginClient, ContinueClient,
     OwnerStep, WorkerStep, SettleStep, Threads

\* The books of the backend never exceed the policy.
WithinLimits ==
    /\ Cardinality(accepted) <= MaxAccepted
    /\ RetainedBytes(accepted) <= MaxRetainedBytes
    /\ Cardinality(running \ Interactive) <= NoninteractiveWorkerLimit
    /\ \A r \in Resources :
         Cardinality({u \in running : ResourceOf[u] = r}) <= ResourceLimit[r]

(* Nothing is accepted initially. *)
LEMMA LimitsInit == Init => WithinLimits
<1> SUFFICES ASSUME Init PROVE WithinLimits
  OBVIOUS
<1>1. accepted = {} /\ running \ Interactive = {}
      /\ \A r \in Resources : {u \in running : ResourceOf[u] = r} = {}
  BY DEF Init, BackendInit
<1>2. RetainedBytes({}) = 0 /\ Cardinality({}) = 0
  BY BytesUnfold, FS_EmptySet
<1> QED BY <1>1, <1>2, LimitTypes, PolicyAssumption DEF WithinLimits

(* A step that changes the books in that way keeps them within the limits. *)
LEMMA LimitsStep ==
    ASSUME TypeOK, TypeOK', WithinLimits, AcceptedChanges, RunningChanges
    PROVE  WithinLimits'
<1> USE DEF TypeOK, BackendTypeOK
<1>1. /\ Cardinality(accepted') <= MaxAccepted
      /\ RetainedBytes(accepted') <= MaxRetainedBytes
  <2>1. CASE accepted' = accepted
    BY <2>1 DEF WithinLimits
  <2>2. ASSUME NEW t \in Tasks, Admits(t), accepted' = accepted \cup {t}, t \notin accepted
        PROVE  /\ Cardinality(accepted') <= MaxAccepted
               /\ RetainedBytes(accepted') <= MaxRetainedBytes
    <3>1. Cardinality(accepted') = Cardinality(accepted) + 1
      BY <2>2, FiniteSets, FS_AddElement
    <3>2. RetainedBytes(accepted') = RetainedBytes(accepted) + BytesOf[t]
      BY <2>2, BytesWith
    <3> QED BY <2>2, <3>1, <3>2, FiniteSets, PolicyAssumption DEF Admits
  <2>3. ASSUME NEW t \in Tasks, accepted' = accepted \ {t}
        PROVE  /\ Cardinality(accepted') <= MaxAccepted
               /\ RetainedBytes(accepted') <= MaxRetainedBytes
    <3>1. Cardinality(accepted') <= Cardinality(accepted)
      BY <2>3, FiniteSets, FS_Subset
    <3>2. RetainedBytes(accepted') <= RetainedBytes(accepted)
      BY <2>3, BytesOfPart
    <3> QED BY <3>1, <3>2, FiniteSets, BytesType, PolicyAssumption DEF WithinLimits
  <2> QED BY <2>1, <2>2, <2>3 DEF AcceptedChanges
<1>2. ASSUME NEW t \in Tasks, Eligible(t), running' = running \cup {t}, t \notin running
      PROVE  /\ Cardinality(running' \ Interactive) <= NoninteractiveWorkerLimit
             /\ \A r \in Resources :
                  Cardinality({u \in running' : ResourceOf[u] = r}) <= ResourceLimit[r]
  <2>1. Cardinality(running' \ Interactive) <= NoninteractiveWorkerLimit
    <3>1. CASE t \in Interactive
      <4>1. running' \ Interactive = running \ Interactive
        BY <1>2, <3>1
      <4> QED BY <4>1 DEF WithinLimits
    <3>2. CASE t \notin Interactive
      <4>1. running' \ Interactive = (running \ Interactive) \cup {t}
        BY <1>2, <3>2
      <4>2. Cardinality(running' \ Interactive) = Cardinality(running \ Interactive) + 1
        BY <1>2, <4>1, FiniteSets, FS_AddElement
      <4> QED BY <1>2, <3>2, <4>2, FiniteSets, LimitTypes DEF Eligible
    <3> QED BY <3>1, <3>2
  <2>2. ASSUME NEW r \in Resources
        PROVE  Cardinality({u \in running' : ResourceOf[u] = r}) <= ResourceLimit[r]
    <3>1. CASE ResourceOf[t] # r
      <4>1. {u \in running' : ResourceOf[u] = r} = {u \in running : ResourceOf[u] = r}
        BY <1>2, <3>1
      <4> QED BY <4>1 DEF WithinLimits
    <3>2. CASE ResourceOf[t] = r
      <4>1. {u \in running' : ResourceOf[u] = r}
              = {u \in running : ResourceOf[u] = r} \cup {t}
        BY <1>2, <3>2
      <4>2. Cardinality({u \in running' : ResourceOf[u] = r})
              = Cardinality({u \in running : ResourceOf[u] = r}) + 1
        BY <1>2, <4>1, FiniteSets, FS_AddElement
      <4> QED BY <1>2, <3>2, <4>2, FiniteSets, LimitTypes DEF Eligible
    <3> QED BY <3>1, <3>2
  <2> QED BY <2>1, <2>2
<1>3. ASSUME NEW t \in Tasks, running' = running \ {t}
      PROVE  /\ Cardinality(running' \ Interactive) <= NoninteractiveWorkerLimit
             /\ \A r \in Resources :
                  Cardinality({u \in running' : ResourceOf[u] = r}) <= ResourceLimit[r]
  <2>1. Cardinality(running' \ Interactive) <= Cardinality(running \ Interactive)
    BY <1>3, FiniteSets, FS_Subset
  <2>2. \A r \in Resources : Cardinality({u \in running' : ResourceOf[u] = r})
                              <= Cardinality({u \in running : ResourceOf[u] = r})
    <3> SUFFICES ASSUME NEW r \in Resources
                 PROVE  Cardinality({u \in running' : ResourceOf[u] = r})
                          <= Cardinality({u \in running : ResourceOf[u] = r})
      OBVIOUS
    <3>1. {u \in running' : ResourceOf[u] = r} \subseteq {u \in running : ResourceOf[u] = r}
      BY <1>3
    <3> QED BY <3>1, FiniteSets, FS_Subset
  <2>3. \A S \in SUBSET Tasks : Cardinality(S) \in Nat
    BY FiniteSets
  <2>4. Cardinality(running' \ Interactive) \in Nat /\ Cardinality(running \ Interactive) \in Nat
    BY <2>3
  <2>5. \A r \in Resources :
          Cardinality({u \in running' : ResourceOf[u] = r}) <= ResourceLimit[r]
    <3> SUFFICES ASSUME NEW r \in Resources
                 PROVE  Cardinality({u \in running' : ResourceOf[u] = r}) <= ResourceLimit[r]
      OBVIOUS
    <3>1. /\ Cardinality({u \in running' : ResourceOf[u] = r}) \in Nat
          /\ Cardinality({u \in running : ResourceOf[u] = r}) \in Nat
          /\ ResourceLimit[r] \in Nat
      BY <2>3, PolicyAssumption
    <3>2. Cardinality({u \in running : ResourceOf[u] = r}) <= ResourceLimit[r]
      BY DEF WithinLimits
    <3>3. Cardinality({u \in running' : ResourceOf[u] = r})
            <= Cardinality({u \in running : ResourceOf[u] = r})
      BY <2>2
    <3> QED BY <3>1, <3>2, <3>3
  <2> QED BY <2>1, <2>4, <2>5, LimitTypes DEF WithinLimits
<1>4. CASE running' = running
  BY <1>1, <1>4 DEF WithinLimits
<1> QED BY <1>1, <1>2, <1>3, <1>4 DEF RunningChanges, WithinLimits


-----------------------------------------------------------------------------
(* Wakeups.                                                                *)

\* Workers that will look at the queue, and jobs one of them could start.
Awake == {w \in Workers : At(w, "take")} \ idleWorkers
Startable == {t \in pending : Eligible(t)}

\* Parked workers wait at the queue, and unless all are awake there is one
\* awake for each job that could be started.
OneAwakeEach ==
    /\ idleWorkers \subseteq {w \in Workers : At(w, "take")}
    /\ idleWorkers # {} => Cardinality(Startable) <= Cardinality(Awake)

(* Nobody is parked initially. *)
LEMMA AwakeInit == Init => OneAwakeEach
BY DEF Init, BackendInit, OneAwakeEach

\* All workers are woken, or none moves and what they look at stays the same.
AwakeKept ==
    \/ idleWorkers' = {}
    \/ /\ UNCHANGED <<idleWorkers, pending, running, exclusive>>
       /\ \A w \in Workers : At(w, "take")' <=> At(w, "take")

(* Such a step keeps one worker awake for each job. *)
LEMMA AwakeFrom ==
    ASSUME OneAwakeEach, AwakeKept
    PROVE  OneAwakeEach'
<1>1. CASE idleWorkers' = {}
  BY <1>1 DEF OneAwakeEach
<1>2. CASE idleWorkers' # {}
  <2>1. /\ UNCHANGED <<idleWorkers, pending, running, exclusive>>
        /\ \A w \in Workers : At(w, "take")' <=> At(w, "take")
    BY <1>2 DEF AwakeKept
  <2>2. Startable' = Startable
    BY <2>1 DEF Startable, Eligible, KeyIsFree
  <2>3. {w \in Workers : At(w, "take")}' = {w \in Workers : At(w, "take")}
    BY <2>1
  <2> QED BY <2>1, <2>2, <2>3 DEF OneAwakeEach, Awake
<1> QED BY <1>1, <1>2

(* Queue and workers are finite. *)
LEMMA AwakeFinite ==
    ASSUME TypeOK
    PROVE  /\ IsFiniteSet(Awake) /\ Cardinality(Awake) \in Nat
           /\ IsFiniteSet(Startable) /\ Cardinality(Startable) \in Nat
<1>1. Awake \in SUBSET Workers /\ Startable \in SUBSET Tasks
  BY DEF TypeOK, BackendTypeOK, Awake, Startable
<1> QED BY <1>1, FiniteSets

(* A worker that takes a job leaves fewer jobs that could be started. *)
LEMMA TakenNotStartable ==
    ASSUME TypeOK, NEW t \in pending, Eligible(t), StartJob(t)
    PROVE  Startable' \subseteq Startable \ {t}
<1> USE DEF TypeOK, BackendTypeOK
<1>1. running \subseteq running' /\ exclusive \subseteq exclusive'
      /\ running' \in SUBSET Tasks /\ pending' = pending \ {t}
  BY DEF StartJob
<1>2. ASSUME NEW u \in pending \ {t}, Eligible(u)' PROVE Eligible(u)
  <2>1. Cardinality(running \ Interactive) <= Cardinality(running' \ Interactive)
    BY <1>1, FiniteSets, FS_Subset
  <2>2. Cardinality({v \in running : ResourceOf[v] = ResourceOf[u]})
          <= Cardinality({v \in running' : ResourceOf[v] = ResourceOf[u]})
    <3>1. {v \in running : ResourceOf[v] = ResourceOf[u]}
            \subseteq {v \in running' : ResourceOf[v] = ResourceOf[u]}
      BY <1>1
    <3> QED BY <1>1, <3>1, FiniteSets, FS_Subset
  <2>3. /\ Cardinality(running \ Interactive) \in Nat
        /\ Cardinality(running' \ Interactive) \in Nat
        /\ Cardinality({v \in running : ResourceOf[v] = ResourceOf[u]}) \in Nat
        /\ Cardinality({v \in running' : ResourceOf[v] = ResourceOf[u]}) \in Nat
    BY <1>1, FiniteSets
  <2>4. /\ u \in Interactive \/
             Cardinality(running' \ Interactive) < NoninteractiveWorkerLimit
        /\ KeyOf[u] \notin exclusive'
        /\ Cardinality({v \in running' : ResourceOf[v] = ResourceOf[u]})
             < ConcurrencyLimit(u)
    BY <1>2 DEF Eligible, KeyIsFree
  <2> QED BY <1>1, <2>1, <2>2, <2>3, <2>4, LimitTypes DEF Eligible, KeyIsFree
<1> QED BY <1>1, <1>2 DEF Startable

(* Offering a job wakes a worker for it. *)
LEMMA AwakeOffer ==
    ASSUME IInv, OneAwakeEach, NEW c \in Clients, Offer(c)
    PROVE  OneAwakeEach'
<1> USE DEF IInv, TypeInv, TypeOK, BackendTypeOK, TaskInHand, RestPCs, Threads, At, Goto
<1>1. /\ \A w \in Workers : At(w, "take")' <=> At(w, "take")
      /\ cur[c] \in Tasks
  BY ClientThread DEF Offer
<1>2. CASE ~Admits(cur[c])
  BY <1>1, <1>2, AwakeFrom DEF Offer, AwakeKept, backendVars
<1>3. CASE Admits(cur[c]) /\ idleWorkers = {}
  BY <1>3, AwakeFrom DEF Offer, AcceptJob, NotifyOne, AwakeKept
<1>4. CASE Admits(cur[c]) /\ idleWorkers # {}
  <2>1. PICK v \in idleWorkers : idleWorkers' = idleWorkers \ {v}
    BY <1>4 DEF Offer, AcceptJob, NotifyOne
  <2>2. /\ pending' = pending \cup {cur[c]}
        /\ UNCHANGED <<running, exclusive>>
    BY <1>4 DEF Offer, AcceptJob
  <2>3. Startable' \subseteq Startable \cup {cur[c]}
    BY <2>2 DEF Startable, Eligible, KeyIsFree
  <2>4. Awake' = Awake \cup {v} /\ v \notin Awake
    BY <1>1, <2>1 DEF Awake, OneAwakeEach
  <2>5. Cardinality(Startable') <= Cardinality(Startable) + 1
    <3>1. /\ IsFiniteSet(Startable \cup {cur[c]})
          /\ Cardinality(Startable \cup {cur[c]}) <= Cardinality(Startable) + 1
      <4>1. /\ IsFiniteSet(Startable \cup {cur[c]})
            /\ Cardinality(Startable \cup {cur[c]}) =
                 IF cur[c] \in Startable THEN Cardinality(Startable)
                 ELSE Cardinality(Startable) + 1
        BY AwakeFinite, FS_AddElement
      <4> QED BY <4>1, AwakeFinite
    <3>2. Cardinality(Startable') <= Cardinality(Startable \cup {cur[c]})
      BY <2>3, <3>1, FS_Subset
    <3>3. Cardinality(Startable') \in Nat /\ Cardinality(Startable \cup {cur[c]}) \in Nat
      BY <2>3, <3>1, FS_Subset, FS_CardinalityType
    <3> QED BY <3>1, <3>2, <3>3, AwakeFinite
  <2>6. Cardinality(Awake') = Cardinality(Awake) + 1
    BY <2>4, AwakeFinite, FS_AddElement
  <2>7. Cardinality(Startable') \in Nat
    <3>1. Startable' \in SUBSET Tasks
      BY <1>1, <2>3 DEF Startable
    <3> QED BY <3>1, FiniteSets
  <2>8. Cardinality(Startable) <= Cardinality(Awake)
    BY <1>4 DEF OneAwakeEach
  <2>9. idleWorkers' \subseteq {w \in Workers : At(w, "take")}'
    BY <1>1, <2>1 DEF OneAwakeEach
  <2> QED BY <2>5, <2>6, <2>7, <2>8, <2>9, AwakeFinite DEF OneAwakeEach
<1> QED BY <1>2, <1>3, <1>4

(* A worker takes along one job that could be started. *)
LEMMA AwakeTake ==
    ASSUME IInv, OneAwakeEach, NEW w \in Workers, NEW t \in Tasks, Take(w, t)
    PROVE  OneAwakeEach'
<1> USE DEF IInv, TypeInv, TypeOK, BackendTypeOK, Threads, At
<1>1. /\ idleWorkers' = idleWorkers
      /\ w \notin idleWorkers /\ t \in pending /\ Eligible(t)
      /\ \A v \in Workers : pc'[v] = IF v = w THEN "run" ELSE pc[v]
      /\ pc[w] = "take"
  BY DEF Take, StartJob
<1>2. Awake' = Awake \ {w} /\ w \in Awake
  BY <1>1 DEF Awake
<1>3. Cardinality(Awake') = Cardinality(Awake) - 1
  BY <1>2, AwakeFinite, FS_RemoveElement
<1>4. Startable' \subseteq Startable \ {t} /\ t \in Startable
  BY <1>1, TakenNotStartable DEF Take, Startable
<1>5. /\ Cardinality(Startable') <= Cardinality(Startable) - 1
      /\ Cardinality(Startable') \in Nat
  <2>1. /\ IsFiniteSet(Startable \ {t})
        /\ Cardinality(Startable \ {t}) = Cardinality(Startable) - 1
    BY <1>4, AwakeFinite, FS_RemoveElement
  <2> QED BY <1>4, <2>1, FS_Subset, FS_CardinalityType
<1>6. idleWorkers' \subseteq {v \in Workers : At(v, "take")}'
  BY <1>1 DEF OneAwakeEach
<1> QED BY <1>1, <1>3, <1>5, <1>6, AwakeFinite DEF OneAwakeEach

(* Every other step wakes all workers or none, and leaves the queue as it is. *)
LEMMA AwakeNext ==
    ASSUME IInv, OneAwakeEach, Next
    PROVE  OneAwakeEach'
<1> USE AwakeFrom DEF AwakeKept, IInv, TypeInv, TypeOK, BackendTypeOK, TaskInHand, ThreadInv,
        RestPCs, WorkerPCs, ClientPCs, SettlePCs, Threads, handleVars, backendVars,
        scopeVars, dispatchVars, threadVars, At, Goto, Begin, TakeUp, SettleThen
<1>1. ASSUME NEW th \in Threads, Settle(th) PROVE OneAwakeEach'
  BY <1>1 DEF Settle, PublishOutcome, BecomesState
<1>2. ASSUME NEW th \in Threads, Signal(th) PROVE OneAwakeEach'
  BY <1>2 DEF Signal, MarkSettled
<1>3. ASSUME NEW th \in Threads, FreeSlot(th) PROVE OneAwakeEach'
  BY <1>3 DEF FreeSlot, ReleaseAccepted
<1>4. ASSUME NEW th \in Threads, FreeLease(th) PROVE OneAwakeEach'
  BY <1>4 DEF FreeLease, RunLeaseHook, ReleaseExclusive, NotifyAll
<1>5. ASSUME NEW th \in Threads, Untrack(th) PROVE OneAwakeEach'
  BY <1>5 DEF Untrack
<1>6. ASSUME NEW c \in Clients, NEW t \in Tasks, RefuseScope(c, t) PROVE
      OneAwakeEach'
  BY <1>6, ClientThread DEF RefuseScope
<1>7. ASSUME NEW c \in Clients, NEW t \in Tasks, Register(c, t) PROVE OneAwakeEach'
  BY <1>7, ClientThread DEF Register, CreateHandle, BecomesState
<1>8. ASSUME NEW c \in Clients, NEW t \in Tasks, Cancel(c, t) PROVE OneAwakeEach'
  BY <1>8, ClientThread DEF Cancel
<1>9. ASSUME NEW c \in Clients, NEW s \in Scopes, CancelAll(c, s) PROVE
      OneAwakeEach'
  BY <1>9, ClientThread DEF CancelAll, HandlesOf
<1>10. ASSUME NEW c \in Clients, NEW s \in Scopes, CloseScope(c, s) PROVE
      OneAwakeEach'
  BY <1>10, ClientThread DEF CloseScope, HandlesOf
<1>11. ASSUME NEW c \in Clients, Shutdown(c) PROVE OneAwakeEach'
  BY <1>11, ClientThread DEF Shutdown
<1>12. ASSUME NEW c \in Clients, Admit(c) PROVE OneAwakeEach'
  BY <1>12, ClientThread DEF Admit
<1>13. ASSUME NEW c \in Clients, Offer(c) PROVE OneAwakeEach'
  BY <1>13, AwakeOffer
<1>14. ASSUME NEW c \in Clients, Refuse(c) PROVE OneAwakeEach'
  BY <1>14, ClientThread DEF Refuse
<1>15. ASSUME NEW c \in Clients, Bind(c) PROVE OneAwakeEach'
  BY <1>15, ClientThread DEF Bind, BindSubmission
<1>16. ASSUME NEW c \in Clients, NEW t \in Tasks, CancelOne(c, t) PROVE
      OneAwakeEach'
  BY <1>16, ClientThread DEF CancelOne, CancelRefused, RequestCancel
<1>17. ASSUME NEW c \in Clients, NEW t \in Tasks, RevokeNext(c, t) PROVE
      OneAwakeEach'
  BY <1>17, ClientThread DEF RevokeNext
<1>18. ASSUME NEW c \in Clients, CancelDone(c) PROVE OneAwakeEach'
  BY <1>18, ClientThread DEF CancelDone
<1>19. ASSUME NEW c \in Clients, Unqueue(c) PROVE OneAwakeEach'
  BY <1>19, ClientThread DEF Unqueue, RemovePending, NotifyAll
<1>20. ASSUME NEW c \in Clients, Revoke(c) PROVE OneAwakeEach'
  BY <1>20, ClientThread DEF Revoke, RevokeJob
<1>21. ASSUME NEW c \in Clients, CloseBackend(c) PROVE OneAwakeEach'
  BY <1>21, ClientThread DEF CloseBackend, CloseQueue, NotifyAll
<1>22. ASSUME NEW c \in Clients, ShutdownDone(c) PROVE OneAwakeEach'
  BY <1>22, ClientThread DEF ShutdownDone
<1>23. ASSUME NEW t \in Tasks, Deliver(t) PROVE OneAwakeEach'
  BY <1>23, OwnerThread DEF Deliver, BeginAdoption
<1>24. ASSUME NEW t \in Tasks, DiscardNext(t) PROVE OneAwakeEach'
  BY <1>24, OwnerThread DEF DiscardNext
<1>25. CASE Adopt
  BY <1>25, OwnerThread DEF Adopt
<1>26. CASE DiscardDone
  BY <1>26, OwnerThread DEF DiscardDone
<1>27. CASE CloseDispatcher
  BY <1>27, OwnerThread DEF CloseDispatcher
<1>28. ASSUME NEW w \in Workers, NEW t \in Tasks, Take(w, t) PROVE OneAwakeEach'
  BY <1>28, AwakeTake
<1>29. ASSUME NEW w \in Workers, Park(w) PROVE OneAwakeEach'
  <2>1. /\ idleWorkers' = idleWorkers \cup {w} /\ pc[w] = "take"
        /\ UNCHANGED <<pending, running, exclusive, pc>>
    BY <1>29 DEF Park, WaitForWork
  <2>2. Startable' = {}
    BY <1>29, <2>1 DEF Park, Startable, Eligible, KeyIsFree
  <2>3. Cardinality(Awake') \in Nat
    <3>1. Awake' \in SUBSET Workers
      BY DEF Awake
    <3> QED BY <3>1, FiniteSets
  <2> QED BY <2>1, <2>2, <2>3, FS_EmptySet DEF OneAwakeEach
<1>30. ASSUME NEW w \in Workers, Exit(w) PROVE OneAwakeEach'
  <2>1. /\ UNCHANGED <<idleWorkers, pending>> /\ pending = {} /\ w \notin idleWorkers
        /\ \A v \in Workers : v # w => pc'[v] = pc[v]
    BY <1>30 DEF Exit
  <2>2. Startable' = {}
    BY <2>1 DEF Startable
  <2>3. Cardinality(Awake') \in Nat
    <3>1. Awake' \in SUBSET Workers
      BY DEF Awake
    <3> QED BY <3>1, FiniteSets
  <2>4. idleWorkers' \subseteq {v \in Workers : At(v, "take")}'
    BY <2>1 DEF OneAwakeEach
  <2> QED BY <2>2, <2>3, <2>4, FS_EmptySet DEF OneAwakeEach
<1>31. ASSUME NEW w \in Workers, RunJob(w) PROVE OneAwakeEach'
  BY <1>31, WorkerThread DEF RunJob, ActivateJob
<1>32. ASSUME NEW w \in Workers, Execute(w) PROVE OneAwakeEach'
  BY <1>32, WorkerThread DEF Execute, BeginWork, BecomesState
<1>33. ASSUME NEW w \in Workers, WorkReturns(w) PROVE OneAwakeEach'
  BY <1>33, WorkerThread DEF WorkReturns, BeginDelivery, BecomesState
<1>34. ASSUME NEW w \in Workers, WorkRaises(w) PROVE OneAwakeEach'
  BY <1>34, WorkerThread DEF WorkRaises
<1>35. ASSUME NEW w \in Workers, Dispatch(w) PROVE OneAwakeEach'
  BY <1>35, WorkerThread DEF Dispatch
<1>36. ASSUME NEW w \in Workers, Finish(w) PROVE OneAwakeEach'
  BY <1>36, WorkerThread DEF Finish, FinishRunning, NotifyAll
<1>37. CASE Rest
  BY <1>37 DEF Rest, vars
<1> QED
  BY <1>1, <1>2, <1>3, <1>4, <1>5, <1>6, <1>7, <1>8, <1>9, <1>10, <1>11, <1>12,
     <1>13, <1>14, <1>15, <1>16, <1>17, <1>18, <1>19, <1>20, <1>21, <1>22, <1>23,
     <1>24, <1>25, <1>26, <1>27, <1>28, <1>29, <1>30, <1>31, <1>32, <1>33, <1>34,
     <1>35, <1>36, <1>37, ZenonT(60) DEF Next, BeginClient, ContinueClient,
     OwnerStep, WorkerStep, SettleStep, Threads
-----------------------------------------------------------------------------
(* The invariant.                                                          *)

PromiseInv ==
    /\ SubmitInv /\ ReachInv
    /\ ClaimsApart /\ Carried /\ Released /\ Backed
    /\ WithinLimits /\ OneAwakeEach

(* Nothing is in hand, counted or reserved initially. *)
LEMMA PromiseInit == Init => PromiseInv
<1>1. Init => Carried /\ Released /\ Backed
  BY DEF Init, HandleInit, BackendInit, Carried, Released, Backed, Live
<1> QED
  BY <1>1, SubmitInit, ReachInit, ClaimsInit, LimitsInit, AwakeInit DEF PromiseInv

(* A step that changes nothing keeps the invariant. *)
LEMMA PromiseStutter ==
    ASSUME PromiseInv, UNCHANGED vars
    PROVE  PromiseInv'
<1> USE DEF PromiseInv, vars, handleVars, backendVars, scopeVars, dispatchVars, threadVars,
        At
<1>1. SubmitInv'
  BY DEF SubmitInv, Submissions, Submitting, Known, Tracked, Offered
<1>2. ReachInv'
  BY DEF ReachInv, Loaded, ClosedReached, Reaching
<1>3. ClaimsApart'
  BY DEF ClaimsApart, Claims, Revocations
<1>4. Carried'
  BY DEF Carried, InHands, Discards, Revocations
<1>5. Released' /\ Backed'
  BY DEF Released, Releasing, Backed, Holders
<1>6. WithinLimits'
  BY DEF WithinLimits
<1>7. OneAwakeEach'
  BY DEF OneAwakeEach, Awake, Startable, Eligible, KeyIsFree
<1> QED BY <1>1, <1>2, <1>3, <1>4, <1>5, <1>6, <1>7

(* Every step of the engine keeps the invariant. *)
LEMMA PromiseStep == IInv /\ PromiseInv /\ [Next]_vars => PromiseInv'
<1> SUFFICES ASSUME IInv, PromiseInv, [Next]_vars PROVE PromiseInv'
  OBVIOUS
<1>1. CASE UNCHANGED vars
  BY <1>1, PromiseStutter
<1>2. CASE Next
  <2> USE <1>2 DEF PromiseInv
  <2>1. SubmitInv' /\ ReachInv'
    BY SubmitNext, LoadedNext, ClosedReachedNext DEF ReachInv
  <2>2. ClaimsApart' /\ Carried' /\ Released' /\ Backed'
    BY ClaimsNext, CarriedNext, ReleasedNext, BackedNext
  <2>3. WithinLimits'
    <3>1. TypeOK /\ TypeOK'
      BY TypeStep DEF IInv, TypeInv
    <3> QED BY <3>1, LedgerChanges, LimitsStep
  <2>4. OneAwakeEach'
    BY AwakeNext
  <2> QED BY <2>1, <2>2, <2>3, <2>4
<1> QED BY <1>1, <1>2

\* Submissions, responsibility, limits and wakeups are as described in every
\* state of the engine (scope.py, runtime.py, handle.py, default_backend.py).
THEOREM PromiseInvariant == Spec => [](IInv /\ PromiseInv)
<1>1. Spec => []IInv
  BY InductiveInvariant
<1>2. Init => PromiseInv
  BY PromiseInit
<1>3. IInv /\ PromiseInv /\ [Next]_vars => PromiseInv'
  BY PromiseStep
<1> QED BY <1>1, <1>2, <1>3, PTL DEF Spec

-----------------------------------------------------------------------------
(* What it implies.                                                        *)

(* Threads with different tasks in hand are no more than the tasks. *)
LEMMA NoMoreThanTasks ==
    ASSUME NEW S, NEW T, IsFiniteSet(T),
           \A w \in S : cur[w] \in T,
           \A w, v \in S : w # v => cur[w] # cur[v]
    PROVE  Cardinality(S) <= Cardinality(T)
<1> DEFINE f == [w \in S |-> cur[w]]
<1>1. f \in Injection(S, T)
  BY DEF Injection, IsInjective
<1> HIDE DEF f
<1> QED BY <1>1, FS_Injection

(* Every task that is queued, running or delivering is counted. *)
LEMMA LiveAreAccepted ==
    ASSUME IInv, PromiseInv
    PROVE  pending \cup {t \in Tasks : state[t] \in {"running", "delivering"}}
             \subseteq accepted
<1> USE DEF IInv, PromiseInv, TypeInv, TypeOK, HandleTypeOK, BackendTypeOK
<1>1. ASSUME NEW t \in pending PROVE t \in accepted
  BY DEF OwnershipInv, Queued, Offered
<1>2. ASSUME NEW t \in Tasks, state[t] \in {"running", "delivering"}
      PROVE  t \in accepted
  <2>1. t \in Offered
    BY <1>2 DEF AdoptInv, Untouched, Offered
  <2> QED BY <1>2, <2>1 DEF SubmitInv, Tracked, Live
<1> QED BY <1>1, <1>2

(* The retained work that exists stays within the admission limits. *)
LEMMA RetainedWork == IInv /\ PromiseInv => RetainedWorkBounded
<1> SUFFICES ASSUME IInv, PromiseInv PROVE RetainedWorkBounded
  OBVIOUS
<1> DEFINE live == pending \cup {t \in Tasks : state[t] \in {"running", "delivering"}}
<1>1. accepted \in SUBSET Tasks
  BY DEF IInv, TypeInv, TypeOK, BackendTypeOK
<1>2. live \subseteq accepted
  BY LiveAreAccepted
<1>3. live \in SUBSET Tasks
  BY <1>1, <1>2
<1> HIDE DEF live
<1>4. Cardinality(live) <= MaxAccepted
  <2>1. Cardinality(live) <= Cardinality(accepted)
    BY <1>1, <1>2, FiniteSets, FS_Subset
  <2>2. Cardinality(live) \in Nat /\ Cardinality(accepted) \in Nat
    BY <1>1, <1>3, FiniteSets
  <2>3. Cardinality(accepted) <= MaxAccepted
    BY DEF PromiseInv, WithinLimits
  <2> QED BY <2>1, <2>2, <2>3, PolicyAssumption
<1>5. RetainedBytes(live) <= MaxRetainedBytes
  <2>1. RetainedBytes(live) <= RetainedBytes(accepted)
    BY <1>1, <1>2, BytesOfPart
  <2>2. RetainedBytes(live) \in Nat /\ RetainedBytes(accepted) \in Nat
    BY <1>1, <1>3, BytesType
  <2>3. RetainedBytes(accepted) <= MaxRetainedBytes
    BY DEF PromiseInv, WithinLimits
  <2> QED BY <2>1, <2>2, <2>3, PolicyAssumption
<1> QED BY <1>2, <1>4, <1>5 DEF RetainedWorkBounded, live

(* What the workers compute stays within the worker and resource limits. *)
LEMMA Capacity == IInv /\ PromiseInv => CapacityRespected
<1> SUFFICES ASSUME IInv, PromiseInv PROVE CapacityRespected
  OBVIOUS
<1>1. running \in SUBSET Tasks
  BY DEF IInv, TypeInv, TypeOK, BackendTypeOK
<1>2. /\ Computing \in SUBSET Workers
      /\ \A w \in Computing : cur[w] \in running
      /\ \A w, v \in Computing : w # v => cur[w] # cur[v]
  BY DEF IInv, OwnershipInv, Taken, Computing
<1>3. Cardinality({w \in Computing : cur[w] \notin Interactive})
        <= NoninteractiveWorkerLimit
  <2> DEFINE S == {w \in Computing : cur[w] \notin Interactive}
             T == running \ Interactive
  <2>1. /\ S \in SUBSET Workers /\ T \in SUBSET Tasks
        /\ \A w \in S : cur[w] \in T
        /\ \A w, v \in S : w # v => cur[w] # cur[v]
    BY <1>1, <1>2
  <2>2. Cardinality(T) <= NoninteractiveWorkerLimit
    BY DEF PromiseInv, WithinLimits
  <2> HIDE DEF S, T
  <2>3. Cardinality(S) <= Cardinality(T)
    BY <2>1, FiniteSets, NoMoreThanTasks
  <2>4. Cardinality(S) \in Nat /\ Cardinality(T) \in Nat
    BY <2>1, FiniteSets
  <2>5. Cardinality(S) <= NoninteractiveWorkerLimit
    BY <2>2, <2>3, <2>4, LimitTypes
  <2> QED BY <2>5 DEF S
<1>4. ASSUME NEW r \in Resources
      PROVE  Cardinality({w \in Computing : ResourceOf[cur[w]] = r}) <= ResourceLimit[r]
  <2> DEFINE S == {w \in Computing : ResourceOf[cur[w]] = r}
             T == {u \in running : ResourceOf[u] = r}
  <2>1. /\ S \in SUBSET Workers /\ T \in SUBSET Tasks
        /\ \A w \in S : cur[w] \in T
        /\ \A w, v \in S : w # v => cur[w] # cur[v]
    BY <1>1, <1>2
  <2>2. Cardinality(T) <= ResourceLimit[r] /\ ResourceLimit[r] \in Nat
    BY PolicyAssumption DEF PromiseInv, WithinLimits
  <2> HIDE DEF S, T
  <2>3. Cardinality(S) <= Cardinality(T)
    BY <2>1, FiniteSets, NoMoreThanTasks
  <2>4. Cardinality(S) \in Nat /\ Cardinality(T) \in Nat
    BY <2>1, FiniteSets
  <2>5. Cardinality(S) <= ResourceLimit[r]
    BY <2>2, <2>3, <2>4
  <2> QED BY <2>5 DEF S
<1>5. \A w \in Computing : ResourceOf[cur[w]] \in Resources
  BY <1>1, <1>2, RequirementsAssumption
<1> QED BY <1>3, <1>4, <1>5 DEF CapacityRespected

\* The limits of the policy bound what the threads really do, from admission to
\* adoption, for every policy and every number of workers and tasks.
THEOREM LimitsRespectedAlways == Spec => []LimitsRespected
<1>1. IInv /\ PromiseInv => LimitsRespected
  BY RetainedWork, Capacity DEF LimitsRespected
<1> QED BY <1>1, PromiseInvariant, PTL

\* A worker is awake whenever one is parked and a queued job could be started,
\* so no change of the queue, a lease or a limit goes unnoticed.
THEOREM NoLostWakeupAlways == Spec => []NoLostWakeup
<1>1. IInv /\ PromiseInv => NoLostWakeup
  <2> SUFFICES ASSUME IInv, PromiseInv, idleWorkers # {}, NEW t \in pending, Eligible(t)
               PROVE  \E w \in Workers : At(w, "take") /\ w \notin idleWorkers
    BY DEF NoLostWakeup
  <2>1. t \in Startable
    BY DEF Startable
  <2>2. Cardinality(Startable) # 0
    BY <2>1, AwakeFinite, FS_EmptySet DEF IInv, TypeInv
  <2>3. Cardinality(Awake) # 0
    BY <2>2, AwakeFinite DEF IInv, TypeInv, PromiseInv, OneAwakeEach
  <2>4. Awake # {}
    BY <2>3, FS_EmptySet
  <2> QED BY <2>4 DEF Awake
<1> QED BY <1>1, PromiseInvariant, PTL

(* When every thread rests, no thread has anything in hand or still to do. *)
LEMMA RestingHands ==
    ASSUME IInv, PromiseInv, Quiescent
    PROVE  /\ \A th \in Threads : pc[th] \in {"idle", "take", "exited"}
           /\ Discards = {} /\ \A c \in Clients : Revocations(c) = {}
<1>1. \A th \in Threads : pc[th] \in {"idle", "take", "exited"}
  BY DEF Quiescent, PromiseInv, OneAwakeEach, Threads, At
<1>2. \A th \in Threads : after[th] = "idle"
  BY <1>1 DEF IInv, ThreadInv, SettlePCs
<1> QED BY <1>1, <1>2, OwnerThread, ClientThread DEF Discards, Revocations, At

\* When every thread has come to rest every accepted task has its outcome, and
\* no slot, lease, worker entry or scope entry is left behind.
THEOREM NothingLeftBehindAlways == Spec => []NothingLeftBehind
<1>1. IInv /\ PromiseInv => NothingLeftBehind
  <2> SUFFICES ASSUME IInv, PromiseInv, Quiescent
               PROVE  /\ \A t \in Tasks : state[t] # "absent" =>
                            state[t] \in Terminal \/ t \in rejected
                      /\ accepted = {} /\ running = {} /\ exclusive = {} /\ handles = {}
    BY DEF NothingLeftBehind
  <2> USE DEF IInv, PromiseInv, TypeInv, TypeOK, HandleTypeOK, BackendTypeOK
  <2>1. \A t \in Tasks : state[t] \in Live => t \in rejected
    BY RestingHands DEF Carried, InHands, Quiescent, CarryPCs
  <2>2. \A t \in Tasks : state[t] # "absent" => state[t] \in Terminal \/ t \in rejected
    BY <2>1 DEF States
  <2>3. rejected \cap Offered = {} /\ handles \cap rejected = {}
        /\ accepted \cup leaseHooks \subseteq Offered
    BY DEF SubmitInv, Submissions, Tracked, OwnershipInv, Queued, Offered
  <2>4. accepted = {} /\ leaseHooks = {} /\ handles = {}
    BY <2>1, <2>3, RestingHands DEF Released, Releasing
  <2>5. running = {}
    BY RestingHands, WorkerThread DEF Backed, Quiescent, OneAwakeEach, At
  <2>6. exclusive = {}
    BY <2>4, <2>5 DEF Backed, Holders
  <2> QED BY <2>2, <2>4, <2>5, <2>6
<1> QED BY <1>1, PromiseInvariant, PTL

(* Only the worker that executes a task starts it, and looks at its token
   first. *)
LEMMA OnlyExecuteStarts ==
    ASSUME IInv, Next, NEW x \in Tasks, state[x] = "pending", state'[x] = "running"
    PROVE  \E w \in Workers : At(w, "execute") /\ cur[w] = x /\ x \notin cancelled
<1> DEFINE Starts == \E w \in Workers : At(w, "execute") /\ cur[w] = x /\ x \notin cancelled
<1> SUFFICES Starts
  OBVIOUS
<1> HIDE DEF Starts
<1> USE DEF IInv, TypeInv, TypeOK, HandleTypeOK, TaskInHand, RestPCs, WorkerPCs, ClientPCs,
        SettlePCs, Terminal, States, Threads, handleVars, At, Goto
<1>1. ASSUME NEW th \in Threads, Settle(th) PROVE Starts
  BY <1>1 DEF Settle, PublishOutcome, BecomesState
<1>2. ASSUME NEW th \in Threads, Signal(th) PROVE Starts
  BY <1>2 DEF Signal, MarkSettled
<1>3. ASSUME NEW th \in Threads, FreeSlot(th) PROVE Starts
  BY <1>3 DEF FreeSlot, ReleaseAccepted
<1>4. ASSUME NEW th \in Threads, FreeLease(th) PROVE Starts
  BY <1>4 DEF FreeLease, RunLeaseHook, ReleaseExclusive, NotifyAll
<1>5. ASSUME NEW th \in Threads, Untrack(th) PROVE Starts
  BY <1>5 DEF Untrack
<1>6. ASSUME NEW c \in Clients, NEW t \in Tasks, RefuseScope(c, t) PROVE Starts
  BY <1>6, ClientThread DEF RefuseScope
<1>7. ASSUME NEW c \in Clients, NEW t \in Tasks, Register(c, t) PROVE Starts
  BY <1>7, ClientThread DEF Register, CreateHandle, BecomesState
<1>8. ASSUME NEW c \in Clients, NEW t \in Tasks, Cancel(c, t) PROVE Starts
  BY <1>8, ClientThread DEF Cancel
<1>9. ASSUME NEW c \in Clients, NEW s \in Scopes, CancelAll(c, s) PROVE Starts
  BY <1>9, ClientThread DEF CancelAll, HandlesOf
<1>10. ASSUME NEW c \in Clients, NEW s \in Scopes, CloseScope(c, s) PROVE Starts
  BY <1>10, ClientThread DEF CloseScope, HandlesOf
<1>11. ASSUME NEW c \in Clients, Shutdown(c) PROVE Starts
  BY <1>11, ClientThread DEF Shutdown
<1>12. ASSUME NEW c \in Clients, Admit(c) PROVE Starts
  BY <1>12, ClientThread DEF Admit
<1>13. ASSUME NEW c \in Clients, Offer(c) PROVE Starts
  BY <1>13, ClientThread DEF Offer, AcceptJob, NotifyOne
<1>14. ASSUME NEW c \in Clients, Refuse(c) PROVE Starts
  BY <1>14, ClientThread DEF Refuse
<1>15. ASSUME NEW c \in Clients, Bind(c) PROVE Starts
  BY <1>15, ClientThread DEF Bind, BindSubmission
<1>16. ASSUME NEW c \in Clients, NEW t \in Tasks, CancelOne(c, t) PROVE Starts
  BY <1>16, ClientThread DEF CancelOne, CancelRefused, RequestCancel
<1>17. ASSUME NEW c \in Clients, NEW t \in Tasks, RevokeNext(c, t) PROVE Starts
  BY <1>17, ClientThread DEF RevokeNext
<1>18. ASSUME NEW c \in Clients, CancelDone(c) PROVE Starts
  BY <1>18, ClientThread DEF CancelDone
<1>19. ASSUME NEW c \in Clients, Unqueue(c) PROVE Starts
  BY <1>19, ClientThread DEF Unqueue, RemovePending, NotifyAll
<1>20. ASSUME NEW c \in Clients, Revoke(c) PROVE Starts
  BY <1>20, ClientThread DEF Revoke, RevokeJob
<1>21. ASSUME NEW c \in Clients, CloseBackend(c) PROVE Starts
  BY <1>21, ClientThread DEF CloseBackend, CloseQueue, NotifyAll
<1>22. ASSUME NEW c \in Clients, ShutdownDone(c) PROVE Starts
  BY <1>22, ClientThread DEF ShutdownDone
<1>23. ASSUME NEW t \in Tasks, Deliver(t) PROVE Starts
  BY <1>23, OwnerThread DEF Deliver, BeginAdoption
<1>24. ASSUME NEW t \in Tasks, DiscardNext(t) PROVE Starts
  BY <1>24, OwnerThread DEF DiscardNext
<1>25. CASE Adopt
  BY <1>25, OwnerThread DEF Adopt
<1>26. CASE DiscardDone
  BY <1>26, OwnerThread DEF DiscardDone
<1>27. CASE CloseDispatcher
  BY <1>27, OwnerThread DEF CloseDispatcher
<1>28. ASSUME NEW w \in Workers, NEW t \in Tasks, Take(w, t) PROVE Starts
  BY <1>28, WorkerThread DEF Take, StartJob, RegisterLeaseHook
<1>29. ASSUME NEW w \in Workers, Park(w) PROVE Starts
  BY <1>29, WorkerThread DEF Park, WaitForWork
<1>30. ASSUME NEW w \in Workers, Exit(w) PROVE Starts
  BY <1>30, WorkerThread DEF Exit
<1>31. ASSUME NEW w \in Workers, RunJob(w) PROVE Starts
  BY <1>31, WorkerThread DEF RunJob, ActivateJob
<1>32. ASSUME NEW w \in Workers, Execute(w) PROVE Starts
  BY <1>32, WorkerThread DEF Execute, BeginWork, BecomesState, Starts
<1>33. ASSUME NEW w \in Workers, WorkReturns(w) PROVE Starts
  BY <1>33, WorkerThread DEF WorkReturns, BeginDelivery, BecomesState
<1>34. ASSUME NEW w \in Workers, WorkRaises(w) PROVE Starts
  BY <1>34, WorkerThread DEF WorkRaises
<1>35. ASSUME NEW w \in Workers, Dispatch(w) PROVE Starts
  BY <1>35, WorkerThread DEF Dispatch
<1>36. ASSUME NEW w \in Workers, Finish(w) PROVE Starts
  BY <1>36, WorkerThread DEF Finish, FinishRunning, NotifyAll
<1>37. CASE Rest
  BY <1>37 DEF Rest, vars
<1> QED
  BY <1>1, <1>2, <1>3, <1>4, <1>5, <1>6, <1>7, <1>8, <1>9, <1>10, <1>11, <1>12,
     <1>13, <1>14, <1>15, <1>16, <1>17, <1>18, <1>19, <1>20, <1>21, <1>22, <1>23,
     <1>24, <1>25, <1>26, <1>27, <1>28, <1>29, <1>30, <1>31, <1>32, <1>33, <1>34,
     <1>35, <1>36, <1>37, ZenonT(60) DEF Next, BeginClient, ContinueClient,
     OwnerStep, WorkerStep, SettleStep, Threads

\* Once a scope is closed none of its tasks begins its work, except those whose
\* cancellation the closing thread has still to call.
THEOREM ClosedScopeStartsNothingAlways == Spec => ClosedScopeStartsNothing
<1>1. IInv /\ PromiseInv /\ [Next]_vars =>
        [\A t \in Tasks :
            state[t] = "pending" /\ state'[t] = "running" =>
                \/ ScopeOf[t] \notin scopeClosed
                \/ \E c \in Clients : t \in todo[c]]_vars
  <2> SUFFICES ASSUME IInv, PromiseInv, Next, NEW x \in Tasks,
                      state[x] = "pending", state'[x] = "running",
                      ScopeOf[x] \in scopeClosed
               PROVE  \E c \in Clients : x \in todo[c]
    OBVIOUS
  <2>1. PICK w \in Workers : At(w, "execute") /\ cur[w] = x /\ x \notin cancelled
    BY OnlyExecuteStarts
  <2>2. x \in activated
    BY <2>1 DEF IInv, AdoptInv, WorkersHold, At
  <2>3. x \notin rejected
    BY <2>2 DEF PromiseInv, SubmitInv, Submissions, Offered
  <2> QED BY <2>1, <2>3 DEF PromiseInv, ReachInv, ClosedReached, Reaching
<1> QED BY <1>1, PromiseInvariant, PTL DEF Spec, ClosedScopeStartsNothing

-----------------------------------------------------------------------------
(* The contract of TaskContract, step by step.                             *)

ContractStep == [Contract!ContractNext]_(Contract!contractVars)

\* What the owner of task x observes becomes o; what it sees of others stays.
Shows(x, o) ==
    /\ x \in Tasks /\ Observed(x)' = o
    /\ \A t \in Tasks \ {x} : Observed(t)' = Observed(t)
ShowsNothing == \A t \in Tasks : Observed(t)' = Observed(t)

(* What is observed changes as a function when it changes for one task. *)
LEMMA ShowsAsFunction ==
    ASSUME NEW x, NEW o, Shows(x, o)
    PROVE  [t \in Tasks |-> Observed(t)]' =
               [[t \in Tasks |-> Observed(t)] EXCEPT ![x] = o]
BY DEF Shows

(* A task that is rejected shows as refused. *)
LEMMA RefusalShows ==
    ASSUME NEW x \in Tasks, state' = state, rejected' = rejected \cup {x}
    PROVE  Shows(x, "refused")
BY DEF Shows, Observed

(* A step the owner cannot see is a stuttering step of the contract. *)
LEMMA Unseen ==
    ASSUME ShowsNothing, UNCHANGED <<cancelled, adopting, accepted>>
    PROVE  ContractStep
BY DEF ShowsNothing, ContractStep, Contract!contractVars

(* Registering a task opens it. *)
LEMMA Opens ==
    ASSUME NEW x, Shows(x, "open"), Observed(x) = "new",
           UNCHANGED <<cancelled, adopting, accepted>>
    PROVE  ContractStep
<1>1. Contract!Open(x) /\ x \in Tasks
  BY ShowsAsFunction DEF Shows, Contract!Open
<1> QED BY <1>1 DEF ContractStep, Contract!ContractNext

(* A refusal turns away a task that occupies no place. *)
LEMMA TurnsAway ==
    ASSUME NEW x, Shows(x, "refused"), Observed(x) \in {"new", "open"}, x \notin accepted,
           UNCHANGED <<cancelled, adopting, accepted>>
    PROVE  ContractStep
<1>1. Contract!TurnAway(x) /\ x \in Tasks
  BY ShowsAsFunction DEF Shows, Contract!TurnAway
<1> QED BY <1>1 DEF ContractStep, Contract!ContractNext

(* The contract counts as the engine does. *)
LEMMA SameCount == \A S : Contract!Cardinality(S) = Cardinality(S)
BY Zenon DEF Cardinality, Contract!Cardinality, Contract!IsFiniteSet, IsFiniteSet

(* An accepted job takes one of the places. *)
LEMMA Accepts ==
    ASSUME NEW x \in Tasks, ShowsNothing, Observed(x) = "open", x \notin accepted,
           Cardinality(accepted) < MaxAccepted, accepted' = accepted \cup {x},
           UNCHANGED <<cancelled, adopting>>
    PROVE  ContractStep
<1>1. Contract!Accept(x)
  BY SameCount DEF ShowsNothing, Contract!Accept
<1> QED BY <1>1 DEF ContractStep, Contract!ContractNext

(* A granted cancellation dooms a task that is not being adopted. *)
LEMMA Dooms ==
    ASSUME NEW x \in Tasks, ShowsNothing, Observed(x) \in {"open", "refused"},
           x \notin adopting, cancelled' = cancelled \cup {x},
           UNCHANGED <<adopting, accepted>>
    PROVE  ContractStep
<1>1. Contract!Doom(x)
  BY DEF ShowsNothing, Contract!Doom
<1> QED BY <1>1 DEF ContractStep, Contract!ContractNext

(* An adoption begins for an accepted task that was neither doomed nor adopted. *)
LEMMA BeginsAdopting ==
    ASSUME NEW x \in Tasks, ShowsNothing, Observed(x) = "open", x \in accepted,
           x \notin cancelled \cup adopting, adopting' = adopting \cup {x},
           UNCHANGED <<cancelled, accepted>>
    PROVE  ContractStep
<1>1. Contract!BeginAdopting(x)
  BY DEF ShowsNothing, Contract!BeginAdopting
<1> QED BY <1>1 DEF ContractStep, Contract!ContractNext

(* An outcome ends an open, accepted task in the way it is entitled to. *)
LEMMA Ends ==
    ASSUME NEW x, NEW o \in Terminal, Shows(x, o), Observed(x) = "open", x \in accepted,
           o = "succeeded" => x \in adopting, o = "cancelled" => x \notin adopting,
           UNCHANGED <<cancelled, adopting, accepted>>
    PROVE  ContractStep
<1>1. Contract!End(x, o) /\ x \in Tasks
  BY ShowsAsFunction DEF Shows, Contract!End
<1>2. o \in Contract!Outcomes
  BY DEF Terminal, Contract!Outcomes
<1> QED BY <1>1, <1>2 DEF ContractStep, Contract!ContractNext, Contract!Conclude

(* A place is released after the outcome. *)
LEMMA Releases ==
    ASSUME NEW x \in Tasks, ShowsNothing, Observed(x) \in Terminal, x \in accepted,
           accepted' = accepted \ {x}, UNCHANGED <<cancelled, adopting>>
    PROVE  ContractStep
<1>1. Contract!Release(x)
  BY DEF ShowsNothing, Terminal, Contract!Release, Contract!Outcomes
<1> QED BY <1>1 DEF ContractStep, Contract!ContractNext, Contract!Conclude

(* Every step of the engine is a step of the contract or unseen. *)
LEMMA KeepsContractStep ==
    ASSUME IInv, SubmitInv, Next
    PROVE  ContractStep
<1> USE Unseen DEF IInv, TypeInv, TypeOK, HandleTypeOK, BackendTypeOK, TaskInHand,
        RestPCs, WorkerPCs, ClientPCs, SettlePCs, Terminal, Live, States, Threads,
        handleVars, backendVars, scopeVars, dispatchVars, threadVars, At, Goto, Begin, TakeUp,
        SettleThen, Observed, ShowsNothing
<1>1. ASSUME NEW th \in Threads, Settle(th) PROVE ContractStep
  <2>1. CASE state[cur[th]] \in Terminal
    BY <1>1, <2>1 DEF Settle
  <2>2. CASE state[cur[th]] \notin Terminal
    <3>1. /\ cur[th] \in activated /\ cur[th] \in Tasks
          /\ fate[th] = "succeeded" => cur[th] \in adopting
          /\ fate[th] = "cancelled" => cur[th] \notin adopting
      BY <1>1 DEF Settle, AdoptInv, Entitled
    <3>2. cur[th] \notin rejected /\ state[cur[th]] \in Live /\ cur[th] \in accepted
      BY <2>2, <3>1 DEF OwnershipInv, Queued, Offered, SubmitInv, Submissions, Tracked
    <3>3. Observed(cur[th]) = "open" /\ Shows(cur[th], fate[th])
      BY <1>1, <2>2, <3>1, <3>2 DEF Settle, PublishOutcome, BecomesState, Shows
    <3>4. UNCHANGED <<cancelled, adopting, accepted>> /\ fate[th] \in Terminal
      BY <1>1, <2>2 DEF Settle, PublishOutcome, BecomesState
    <3> HIDE DEF Observed, ShowsNothing, Terminal
    <3> QED BY <3>1, <3>2, <3>3, <3>4, Ends
  <2> QED BY <2>1, <2>2
<1>2. ASSUME NEW th \in Threads, Signal(th) PROVE ContractStep
  BY <1>2 DEF Signal, MarkSettled
<1>3. ASSUME NEW th \in Threads, FreeSlot(th) PROVE ContractStep
  <2>1. CASE cur[th] \in accepted
    <3>1. Observed(cur[th]) \in Terminal /\ cur[th] \in Tasks
      BY <1>3, <2>1 DEF FreeSlot, OwnershipInv, Published, SubmitInv, Submissions, Offered
    <3>2. /\ ShowsNothing /\ UNCHANGED <<cancelled, adopting>>
          /\ accepted' = accepted \ {cur[th]}
      BY <1>3 DEF FreeSlot, ReleaseAccepted
    <3> QED BY <2>1, <3>1, <3>2, Releases
  <2>2. CASE cur[th] \notin accepted
    BY <1>3, <2>2 DEF FreeSlot, ReleaseAccepted
  <2> QED BY <2>1, <2>2
<1>4. ASSUME NEW th \in Threads, FreeLease(th) PROVE ContractStep
  BY <1>4 DEF FreeLease, RunLeaseHook, ReleaseExclusive, NotifyAll
<1>5. ASSUME NEW th \in Threads, Untrack(th) PROVE ContractStep
  BY <1>5 DEF Untrack
<1>6. ASSUME NEW c \in Clients, NEW t \in Tasks, RefuseScope(c, t) PROVE
      ContractStep
  <2>1. Shows(t, "refused") /\ Observed(t) = "new"
    BY <1>6 DEF RefuseScope, Shows
  <2>2. t \notin accepted /\ UNCHANGED <<cancelled, adopting, accepted>>
    BY <1>6 DEF RefuseScope, OwnershipInv, Queued, Offered
  <2> QED BY <2>1, <2>2, TurnsAway
<1>7. ASSUME NEW c \in Clients, NEW t \in Tasks, Register(c, t) PROVE ContractStep
  <2>1. Shows(t, "open") /\ Observed(t) = "new"
    BY <1>7 DEF Register, CreateHandle, BecomesState, Shows
  <2>2. UNCHANGED <<cancelled, adopting, accepted>>
    BY <1>7 DEF Register, CreateHandle, BecomesState
  <2> QED BY <2>1, <2>2, Opens
<1>8. ASSUME NEW c \in Clients, NEW t \in Tasks, Cancel(c, t) PROVE ContractStep
  BY <1>8, ClientThread DEF Cancel
<1>9. ASSUME NEW c \in Clients, NEW s \in Scopes, CancelAll(c, s) PROVE ContractStep
  BY <1>9, ClientThread DEF CancelAll, HandlesOf
<1>10. ASSUME NEW c \in Clients, NEW s \in Scopes, CloseScope(c, s) PROVE
      ContractStep
  BY <1>10, ClientThread DEF CloseScope, HandlesOf
<1>11. ASSUME NEW c \in Clients, Shutdown(c) PROVE ContractStep
  BY <1>11, ClientThread DEF Shutdown
<1>12. ASSUME NEW c \in Clients, Admit(c) PROVE ContractStep
  BY <1>12, ClientThread DEF Admit
<1>13. ASSUME NEW c \in Clients, Offer(c) PROVE ContractStep
  <2>1. CASE ~Admits(cur[c])
    BY <1>13, <2>1 DEF Offer
  <2>2. CASE Admits(cur[c])
    <3>1. cur[c] \in Tasks /\ cur[c] \notin Offered \cup rejected /\ state[cur[c]] = "pending"
      BY <1>13, ClientThread DEF Offer, SubmitInv, Submissions, Submitting, AdoptInv,
         Untouched, Offered
    <3>2. Observed(cur[c]) = "open" /\ cur[c] \notin accepted
      BY <3>1 DEF Offered
    <3>3. /\ ShowsNothing /\ UNCHANGED <<cancelled, adopting>>
          /\ accepted' = accepted \cup {cur[c]}
          /\ Cardinality(accepted) < MaxAccepted
      BY <1>13, <2>2 DEF Offer, AcceptJob, Admits
    <3> QED BY <3>1, <3>2, <3>3, Accepts
  <2> QED BY <2>1, <2>2
<1>14. ASSUME NEW c \in Clients, Refuse(c) PROVE ContractStep
  <2>1. PICK x \in Tasks : x = cur[c]
    BY <1>14, ClientThread DEF Refuse
  <2>2. x \notin Offered \cup rejected /\ state[x] = "pending"
    BY <1>14, <2>1, ClientThread DEF Refuse, SubmitInv, Submissions, Submitting, AdoptInv,
       Untouched, Offered
  <2>3. Observed(x) = "open" /\ x \notin accepted
    BY <2>2 DEF Offered
  <2>4. /\ rejected' = rejected \cup {x} /\ state' = state
        /\ UNCHANGED <<cancelled, adopting, accepted>>
    BY <1>14, <2>1 DEF Refuse
  <2> HIDE DEF Observed, ShowsNothing
  <2>5. Shows(x, "refused")
    BY <2>4, RefusalShows
  <2> QED BY <2>3, <2>4, <2>5, TurnsAway
<1>15. ASSUME NEW c \in Clients, Bind(c) PROVE ContractStep
  BY <1>15, ClientThread DEF Bind, BindSubmission
<1>16. ASSUME NEW c \in Clients, NEW t \in Tasks, CancelOne(c, t) PROVE ContractStep
  <2>1. CASE CancelRefused(t)
    BY <1>16, <2>1 DEF CancelOne
  <2>2. CASE ~CancelRefused(t)
    <3>1. state[t] # "absent"
      BY <1>16, ClientThread DEF CancelOne, SubmitInv, Known
    <3>2. Observed(t) \in {"open", "refused"} /\ t \notin adopting
      BY <2>2, <3>1 DEF CancelRefused
    <3>3. /\ ShowsNothing /\ cancelled' = cancelled \cup {t}
          /\ UNCHANGED <<adopting, accepted>>
      BY <1>16, <2>2 DEF CancelOne, RequestCancel
    <3> QED BY <3>2, <3>3, Dooms
  <2> QED BY <2>1, <2>2
<1>17. ASSUME NEW c \in Clients, NEW t \in Tasks, RevokeNext(c, t) PROVE
      ContractStep
  BY <1>17, ClientThread DEF RevokeNext
<1>18. ASSUME NEW c \in Clients, CancelDone(c) PROVE ContractStep
  BY <1>18, ClientThread DEF CancelDone
<1>19. ASSUME NEW c \in Clients, Unqueue(c) PROVE ContractStep
  BY <1>19, ClientThread DEF Unqueue, RemovePending, NotifyAll
<1>20. ASSUME NEW c \in Clients, Revoke(c) PROVE ContractStep
  <2>1. CASE cur[c] \in activated
    BY <1>20, <2>1 DEF Revoke
  <2>2. CASE cur[c] \notin activated
    <3>1. /\ cur[c] \in Tasks /\ cur[c] \in Offered
          /\ state[cur[c]] = "pending" /\ cur[c] \notin adopting
      BY <1>20, <2>2, ClientThread DEF Revoke, OwnershipInv, Revoked, Queued, AdoptInv,
         Untouched, ResultPath
    <3>2. Observed(cur[c]) = "open"
      BY <3>1 DEF SubmitInv, Submissions
    <3>3. /\ ShowsNothing /\ cancelled' = cancelled \cup {cur[c]}
          /\ UNCHANGED <<adopting, accepted>>
      BY <1>20, <2>2 DEF Revoke, RevokeJob
    <3> QED BY <3>1, <3>2, <3>3, Dooms
  <2> QED BY <2>1, <2>2
<1>21. ASSUME NEW c \in Clients, CloseBackend(c) PROVE ContractStep
  BY <1>21, ClientThread DEF CloseBackend, CloseQueue, NotifyAll
<1>22. ASSUME NEW c \in Clients, ShutdownDone(c) PROVE ContractStep
  BY <1>22, ClientThread DEF ShutdownDone
<1>23. ASSUME NEW t \in Tasks, Deliver(t) PROVE ContractStep
  <2>1. CASE state[t] # "delivering" \/ t \in cancelled
    BY <1>23, <2>1 DEF Deliver
  <2>2. CASE state[t] = "delivering" /\ t \notin cancelled
    <3>1. t \in activated /\ t \notin adopting
      BY <1>23 DEF Deliver, AdoptInv, ResultPath
    <3>2. Observed(t) = "open" /\ t \in accepted
      BY <2>2, <3>1 DEF SubmitInv, Submissions, Tracked, Offered
    <3>3. /\ ShowsNothing /\ adopting' = adopting \cup {t}
          /\ UNCHANGED <<cancelled, accepted>>
      BY <1>23, <2>2 DEF Deliver, BeginAdoption
    <3> QED BY <2>2, <3>1, <3>2, <3>3, BeginsAdopting
  <2> QED BY <2>1, <2>2
<1>24. ASSUME NEW t \in Tasks, DiscardNext(t) PROVE ContractStep
  BY <1>24, OwnerThread DEF DiscardNext
<1>25. CASE Adopt
  BY <1>25, OwnerThread DEF Adopt
<1>26. CASE DiscardDone
  BY <1>26, OwnerThread DEF DiscardDone
<1>27. CASE CloseDispatcher
  BY <1>27, OwnerThread DEF CloseDispatcher
<1>28. ASSUME NEW w \in Workers, NEW t \in Tasks, Take(w, t) PROVE ContractStep
  BY <1>28, WorkerThread DEF Take, StartJob, RegisterLeaseHook
<1>29. ASSUME NEW w \in Workers, Park(w) PROVE ContractStep
  BY <1>29, WorkerThread DEF Park, WaitForWork
<1>30. ASSUME NEW w \in Workers, Exit(w) PROVE ContractStep
  BY <1>30, WorkerThread DEF Exit
<1>31. ASSUME NEW w \in Workers, RunJob(w) PROVE ContractStep
  BY <1>31, WorkerThread DEF RunJob, ActivateJob
<1>32. ASSUME NEW w \in Workers, Execute(w) PROVE ContractStep
  <2>1. state[cur[w]] = "pending" => cur[w] \in Tasks
    BY <1>32, WorkerThread DEF Execute
  <2> QED BY <1>32, <2>1 DEF Execute, BeginWork, BecomesState
<1>33. ASSUME NEW w \in Workers, WorkReturns(w) PROVE ContractStep
  BY <1>33, WorkerThread DEF WorkReturns, BeginDelivery, BecomesState
<1>34. ASSUME NEW w \in Workers, WorkRaises(w) PROVE ContractStep
  BY <1>34, WorkerThread DEF WorkRaises
<1>35. ASSUME NEW w \in Workers, Dispatch(w) PROVE ContractStep
  BY <1>35, WorkerThread DEF Dispatch
<1>36. ASSUME NEW w \in Workers, Finish(w) PROVE ContractStep
  BY <1>36, WorkerThread DEF Finish, FinishRunning, NotifyAll
<1>37. CASE Rest
  BY <1>37 DEF Rest, vars
<1> QED
  BY <1>1, <1>2, <1>3, <1>4, <1>5, <1>6, <1>7, <1>8, <1>9, <1>10, <1>11, <1>12,
     <1>13, <1>14, <1>15, <1>16, <1>17, <1>18, <1>19, <1>20, <1>21, <1>22, <1>23,
     <1>24, <1>25, <1>26, <1>27, <1>28, <1>29, <1>30, <1>31, <1>32, <1>33, <1>34,
     <1>35, <1>36, <1>37, ZenonT(60) DEF Next, BeginClient, ContinueClient,
     OwnerStep, WorkerStep, SettleStep, Threads

\* Every behaviour of the engine starts as TaskContract does and takes only its
\* steps: the safety half of KeepsContract.
THEOREM ContractSafety ==
    Spec => Contract!ContractInit /\ [][Contract!ContractNext]_(Contract!contractVars)
<1>1. Init => Contract!ContractInit
  BY DEF Init, HandleInit, BackendInit, Contract!ContractInit, Observed
<1>2. IInv /\ PromiseInv /\ [Next]_vars => ContractStep
  <2>1. ASSUME IInv, PromiseInv, Next PROVE ContractStep
    BY <2>1, KeepsContractStep DEF PromiseInv
  <2>2. ASSUME UNCHANGED vars PROVE ContractStep
    BY <2>2, Unseen DEF vars, handleVars, backendVars, scopeVars, ShowsNothing, Observed
  <2> QED BY <2>1, <2>2
<1>3. IInv /\ PromiseInv /\ [Next]_vars =>
        [Contract!ContractNext]_(Contract!contractVars)
  BY <1>2 DEF ContractStep
<1> QED BY <1>1, <1>3, PromiseInvariant, PTL DEF Spec

=============================================================================
