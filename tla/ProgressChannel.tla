-------------------------- MODULE ProgressChannel --------------------------
(***************************************************************************)
(* Progress of one task: execution/progress_channel.py over the two        *)
(* dispatchers of execution/dispatch.py and execution/qt_dispatch.py.      *)
(* Work may report from several threads, the owner's event loop (or, with  *)
(* the inline dispatcher, the reporting thread itself) calls the observer, *)
(* and settlement or cancellation closes the channel from any thread.      *)
(* Reports are numbered in the order in which they take the lock.          *)
(***************************************************************************)
EXTENDS Integers, FiniteSets

CONSTANTS
    Reporters,     \* threads on which the work reports
    Owner,         \* the thread of the Qt receiver
    MaxReports     \* bound on reports

ASSUME ProgressAssumption == Owner \notin Reporters /\ MaxReports \in Nat

VARIABLES
    inline,        \* the dispatcher is the InlineDispatcher
    reported,      \* reports made so far
    latest,        \* _latest, 0 for _MISSING
    queued,        \* _queued
    channelClosed, \* _closed
    observed,      \* _observer is not None
    posted,        \* deliveries waiting in the owner's event queue
    receiverGone,  \* the Qt dispatcher is closed
    step,          \* what each thread does in the channel
    taken,         \* the value a delivering thread took from _latest
    seen           \* the last value the observer was called with

progressVars == <<inline, reported, latest, queued, channelClosed, observed,
                  posted, receiverGone, step, taken, seen>>

Threads == Reporters \cup {Owner}
Delivering == {"dispatch", "deliver", "call", "after"}

ProgressTypeOK ==
    /\ reported \in 0..MaxReports /\ latest \in 0..reported /\ seen \in 0..reported
    /\ step \in [Threads -> {"idle"} \cup Delivering]
    /\ taken \in [Threads -> 0..reported]
    /\ posted \in 0..1
    /\ inline \in BOOLEAN /\ queued \in BOOLEAN /\ channelClosed \in BOOLEAN
    /\ observed \in BOOLEAN /\ receiverGone \in BOOLEAN

ProgressInit ==
    /\ inline \in BOOLEAN
    /\ reported = 0 /\ latest = 0 /\ seen = 0 /\ posted = 0
    /\ queued = FALSE /\ channelClosed = FALSE /\ receiverGone = FALSE
    /\ observed = TRUE
    /\ step = [a \in Threads |-> "idle"]
    /\ taken = [a \in Threads |-> 0]

Goes(a, s) == step' = [step EXCEPT ![a] = s]

Suppressed == channelClosed \/ ~observed

\* Variant: every report asks for a delivery of its own.
ReportEagerly(a) ==
    /\ step[a] = "idle" /\ reported < MaxReports /\ ~Suppressed
    /\ reported' = reported + 1
    /\ latest' = reported'
    /\ queued' = TRUE
    /\ Goes(a, "dispatch")
    /\ UNCHANGED <<inline, channelClosed, observed, posted, receiverGone, taken, seen>>

\* report; a suppressed report changes nothing.
Report(a) ==
    /\ step[a] = "idle" /\ reported < MaxReports /\ ~Suppressed
    /\ reported' = reported + 1
    /\ latest' = reported'
    /\ queued' = TRUE
    /\ IF queued THEN UNCHANGED step ELSE Goes(a, "dispatch")
    /\ UNCHANGED <<inline, channelClosed, observed, posted, receiverGone, taken, seen>>

\* close: what settlement, cancellation and a discarded delivery do.
Closed ==
    /\ channelClosed' = TRUE
    /\ observed' = FALSE
    /\ latest' = 0

CloseChannel ==
    /\ Closed
    /\ UNCHANGED <<inline, reported, queued, posted, receiverGone, step, taken, seen>>

\* _queue_delivery through either dispatcher.
QueueDelivery(a) ==
    /\ step[a] = "dispatch"
    /\ Goes(a, IF inline THEN "deliver" ELSE "idle")
    /\ IF receiverGone
       THEN Closed /\ UNCHANGED posted
       ELSE posted' = (IF inline THEN posted ELSE posted + 1)
            /\ UNCHANGED <<channelClosed, observed, latest>>
    /\ UNCHANGED <<inline, reported, queued, receiverGone, taken, seen>>

\* The event loop runs a queued delivery.
EventLoop ==
    /\ posted > 0 /\ step[Owner] = "idle"
    /\ posted' = posted - 1
    /\ Goes(Owner, "deliver")
    /\ UNCHANGED <<inline, reported, latest, queued, channelClosed, observed,
                   receiverGone, taken, seen>>

\* The first critical section of _deliver.
Deliver(a) ==
    /\ step[a] = "deliver"
    /\ latest' = 0
    /\ IF Suppressed
       THEN queued' = FALSE /\ Goes(a, "idle") /\ UNCHANGED taken
       ELSE /\ taken' = [taken EXCEPT ![a] = latest]
            /\ Goes(a, IF latest = 0 THEN "after" ELSE "call")
            /\ UNCHANGED queued
    /\ UNCHANGED <<inline, reported, channelClosed, observed, posted, receiverGone, seen>>

\* The observer is called outside the lock; when it raises it is dropped.
CallObserver(a) ==
    /\ step[a] = "call"
    /\ seen' = taken[a]
    /\ \/ UNCHANGED <<observed, latest>>
       \/ observed' = FALSE /\ latest' = 0
    /\ Goes(a, "after")
    /\ UNCHANGED <<inline, reported, queued, channelClosed, posted, receiverGone, taken>>

\* Variant: the channel is marked idle without looking for a newer report.
ForgetNewer(a) ==
    /\ step[a] = "after"
    /\ queued' = FALSE /\ Goes(a, "idle")
    /\ UNCHANGED <<inline, reported, latest, channelClosed, observed, posted,
                   receiverGone, taken, seen>>

\* The last critical section of _deliver: a report made meanwhile is delivered.
AfterCall(a) ==
    /\ step[a] = "after"
    /\ IF Suppressed \/ latest = 0
       THEN queued' = FALSE /\ Goes(a, "idle")
       ELSE Goes(a, "dispatch") /\ UNCHANGED queued
    /\ UNCHANGED <<inline, reported, latest, channelClosed, observed, posted,
                   receiverGone, taken, seen>>

\* QtOwnerDispatcher.close discards what is queued.
CloseReceiver ==
    /\ ~inline /\ ~receiverGone
    /\ receiverGone' = TRUE
    /\ posted' = 0
    /\ IF posted > 0 THEN Closed ELSE UNCHANGED <<channelClosed, observed, latest>>
    /\ UNCHANGED <<inline, reported, queued, step, taken, seen>>

DeliveryStep(a) == QueueDelivery(a) \/ Deliver(a) \/ CallObserver(a) \/ AfterCall(a)

ProgressNext ==
    \/ \E a \in Reporters : Report(a)
    \/ \E a \in Threads : DeliveryStep(a)
    \/ EventLoop
    \/ CloseChannel
    \/ CloseReceiver

\* Threads that are inside the channel keep running, and the owner keeps
\* running its event loop.
ProgressSpec ==
    /\ ProgressInit /\ [][ProgressNext]_progressVars
    /\ \A a \in Threads : WF_progressVars(DeliveryStep(a))
    /\ WF_progressVars(EventLoop)

-----------------------------------------------------------------------------
\* At most one delivery is on its way or being made: the observer is never
\* called by two threads at once, nor again from inside its own call.
OneDelivery ==
    /\ Cardinality({a \in Threads : step[a] \in Delivering}) + posted <= 1
    /\ (posted > 0 \/ \E a \in Threads : step[a] \in Delivering) => queued

\* The newest report is not forgotten: once the work has stopped reporting,
\* the observer has seen its last report, unless the channel was closed or
\* the observer dropped.
NewestProgressArrives == <>[](seen = reported \/ Suppressed)

\* The channel implements LatestValue, although reports, a failing observer,
\* the closing of the channel and of its dispatcher meet on several threads: the
\* observer is called with newer and newer reports, the newest when the delivery
\* takes one, and nothing is taken once the channel is closed.
InHand == LET callers == {a \in Threads : step[a] = "call"}
          IN  IF callers = {} THEN 0 ELSE taken[CHOOSE a \in callers : TRUE]
Inbox == INSTANCE LatestValue WITH
    offered <- reported, due <- latest # 0, inHand <- InHand, received <- seen,
    access <- IF Suppressed THEN "shut" ELSE "open"
ProgressCoalesces == Inbox!LatestSpec

=============================================================================
