---------------------------- MODULE OwnerDelivery ----------------------------
(***************************************************************************)
(* The engine as a component of the Qt owner thread sees it: handles whose *)
(* work runs elsewhere and whose adoption or outcome comes back through    *)
(* the owner's event queue (qpane/execution/handle.py, qt_dispatch.py).    *)
(* ExecutionRuntime shows how this comes about; here it is one step.       *)
(***************************************************************************)
EXTENDS Integers, Sequences, FiniteSets, SequencesExt

CONSTANT Pool      \* a bound on handles that nobody has forgotten yet

VARIABLES
    work,    \* where a handle stands
    queue    \* the owner's event queue

deliveryVars == <<work, queue>>

DeliveryTypeOK ==
    /\ work \in [Pool -> {"free", "working", "doomed", "delivering", "ended"}]
    /\ queue \in Seq([handle : Pool, kind : {"adopt", "outcome"}])

DeliveryInit ==
    /\ work = [h \in Pool |-> "free"]
    /\ queue = <<>>

Event(h, kind) == [handle |-> h, kind |-> kind]

Free(h) == work[h] = "free"
\* The owner has not heard of the end yet.
Unheard(h) == ~Free(h)

Submitted(h) ==
    /\ Free(h)
    /\ work' = [work EXCEPT ![h] = "working"]
    /\ UNCHANGED queue

\* Handles are cancelled one after the other.  Work that has not begun and
\* results that are not adopted are settled at once, other work when it ends.
Cancelled(handles) ==
    \E begun \in SUBSET {h \in handles : work[h] = "working"} :
        LET settled == {h \in handles : work[h] \in {"working", "delivering"}} \ begun
        IN  /\ work' = [h \in Pool |->
                   IF h \in begun THEN "doomed"
                   ELSE IF h \in settled THEN "ended" ELSE work[h]]
            /\ \E order \in SetToSeqs(settled) :
                   queue' = queue \o [i \in DOMAIN order |-> Event(order[i], "outcome")]

Returns(h) ==
    /\ work[h] = "working"
    /\ work' = [work EXCEPT ![h] = "delivering"]
    /\ queue' = Append(queue, Event(h, "adopt"))

\* The work raises, or finds that it was cancelled.
Ends(h) ==
    /\ work[h] \in {"working", "doomed"}
    /\ work' = [work EXCEPT ![h] = "ended"]
    /\ queue' = Append(queue, Event(h, "outcome"))

\* The event loop: a result is adopted, or dropped when it was cancelled
\* meanwhile; a handle whose end the owner has heard of is forgotten.
Adopting(h) ==
    /\ queue # <<>> /\ Head(queue) = Event(h, "adopt") /\ work[h] = "delivering"
    /\ queue' = Tail(queue) /\ work' = [work EXCEPT ![h] = "free"]
Dropping(h) ==
    /\ queue # <<>> /\ Head(queue) = Event(h, "adopt") /\ work[h] # "delivering"
    /\ queue' = Tail(queue) /\ UNCHANGED work
Hearing(h) ==
    /\ queue # <<>> /\ Head(queue) = Event(h, "outcome")
    /\ queue' = Tail(queue) /\ work' = [work EXCEPT ![h] = "free"]

=============================================================================
