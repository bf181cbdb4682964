--------------------------- MODULE DiagnosticsHub ---------------------------
(***************************************************************************)
(* Diagnostics delivery: DiagnosticsHub of execution/diagnostics.py as the *)
(* default backend uses it (default_backend.py publishes under its own     *)
(* lock, so snapshots arrive in order).  One worker thread hands the       *)
(* newest snapshot to the observers it found under the lock.  Snapshots    *)
(* are numbered in the order in which they are published.                  *)
(***************************************************************************)
EXTENDS Integers

CONSTANTS
    Observers,      \* observer identities, each the subject of one subscription
    MaxSnapshots    \* bound on publish calls

ASSUME HubAssumption == MaxSnapshots \in Nat

VARIABLES
    published,      \* number of snapshots published
    pending,        \* _latest, 0 for None
    subscribed,     \* _observers
    retired,        \* observers whose subscription was closed
    hubClosed,      \* _closed
    hubWorker,      \* what the worker thread does
    batch,          \* the snapshot and the observers it still has to call
    got,            \* the last snapshot each observer was called with
    joining,        \* a close(wait=True) waits for the thread
    joined          \* a close(wait=True) has returned

hubVars == <<published, pending, subscribed, retired, hubClosed, hubWorker,
             batch, got, joining, joined>>

Empty == [snapshot |-> 0, left |-> {}]

HubTypeOK ==
    /\ published \in 0..MaxSnapshots /\ pending \in 0..published
    /\ subscribed \subseteq Observers /\ retired \subseteq Observers
    /\ hubWorker \in {"waiting", "calling", "exited"}
    /\ batch \in [snapshot : 0..published, left : SUBSET Observers]
    /\ got \in [Observers -> 0..published]
    /\ hubClosed \in BOOLEAN /\ joining \in BOOLEAN /\ joined \in BOOLEAN

HubInit ==
    /\ published = 0 /\ pending = 0
    /\ subscribed = {} /\ retired = {}
    /\ hubClosed = FALSE /\ joining = FALSE /\ joined = FALSE
    /\ hubWorker = "waiting"
    /\ batch = Empty
    /\ got = [o \in Observers |-> 0]

\* Variant: a snapshot that was not delivered yet keeps its place.
PublishKeepingOlder ==
    /\ ~hubClosed /\ published < MaxSnapshots
    /\ published' = published + 1
    /\ pending' = IF pending = 0 THEN published' ELSE pending
    /\ UNCHANGED <<subscribed, retired, hubClosed, hubWorker, batch, got, joining, joined>>

Publish ==
    /\ ~hubClosed /\ published < MaxSnapshots
    /\ published' = published + 1
    /\ pending' = published'
    /\ UNCHANGED <<subscribed, retired, hubClosed, hubWorker, batch, got, joining, joined>>

Subscribe(o) ==
    /\ ~hubClosed /\ o \notin subscribed \cup retired
    /\ subscribed' = subscribed \cup {o}
    /\ UNCHANGED <<published, pending, retired, hubClosed, hubWorker, batch, got,
                   joining, joined>>

\* DiagnosticsSubscription.close: idempotent, and legal on a closed hub.
Unsubscribe(o) ==
    /\ o \in subscribed \ retired
    /\ retired' = retired \cup {o}
    /\ subscribed' = subscribed \ {o}
    /\ UNCHANGED <<published, pending, hubClosed, hubWorker, batch, got, joining, joined>>

\* close: only the first call releases anything, and only it may wait.
CloseHub(wait) ==
    /\ ~hubClosed
    /\ hubClosed' = TRUE
    /\ pending' = 0
    /\ subscribed' = {}
    /\ joining' = wait
    /\ UNCHANGED <<published, retired, hubWorker, batch, got, joined>>

\* The join of close(wait=True) returns.
JoinHub ==
    /\ joining /\ hubWorker = "exited"
    /\ joining' = FALSE /\ joined' = TRUE
    /\ UNCHANGED <<published, pending, subscribed, retired, hubClosed, hubWorker,
                   batch, got>>

\* Variant: the snapshot that is taken stays pending.
TakeKeeping ==
    /\ hubWorker = "waiting" /\ pending # 0 /\ ~hubClosed
    /\ batch' = [snapshot |-> pending, left |-> subscribed]
    /\ hubWorker' = "calling"
    /\ UNCHANGED <<published, pending, subscribed, retired, hubClosed, got, joining, joined>>

\* The critical section of _run: woken by publish or close.
TakeSnapshot ==
    /\ hubWorker = "waiting" /\ pending # 0 /\ ~hubClosed
    /\ batch' = [snapshot |-> pending, left |-> subscribed]
    /\ pending' = 0
    /\ hubWorker' = "calling"
    /\ UNCHANGED <<published, subscribed, retired, hubClosed, got, joining, joined>>

\* Observers are called outside the lock; an exception is contained.
CallNext(o) ==
    /\ hubWorker = "calling" /\ o \in batch.left
    /\ got' = [got EXCEPT ![o] = batch.snapshot]
    /\ batch' = [batch EXCEPT !.left = @ \ {o}]
    /\ UNCHANGED <<published, pending, subscribed, retired, hubClosed, hubWorker,
                   joining, joined>>

BatchDone ==
    /\ hubWorker = "calling" /\ batch.left = {}
    /\ batch' = Empty
    /\ hubWorker' = "waiting"
    /\ UNCHANGED <<published, pending, subscribed, retired, hubClosed, got, joining, joined>>

HubWorkerExit ==
    /\ hubWorker = "waiting" /\ hubClosed
    /\ hubWorker' = "exited"
    /\ UNCHANGED <<published, pending, subscribed, retired, hubClosed, batch, got,
                   joining, joined>>

HubThread ==
    \/ TakeSnapshot
    \/ \E o \in Observers : CallNext(o)
    \/ BatchDone
    \/ HubWorkerExit

HubNext ==
    \/ Publish
    \/ \E o \in Observers : Subscribe(o) \/ Unsubscribe(o)
    \/ \E wait \in BOOLEAN : CloseHub(wait)
    \/ HubThread
    \/ JoinHub

\* The thread is a daemon that runs until it exits; the joiner returns.
HubSpec ==
    /\ HubInit /\ [][HubNext]_hubVars
    /\ WF_hubVars(HubThread) /\ WF_hubVars(JoinHub)

-----------------------------------------------------------------------------
\* An observer that stays subscribed learns of the newest snapshot, however
\* many are published while the worker is busy, unless the hub is closed.
NewestSnapshotArrives ==
    \A o \in Observers :
        (pending # 0 /\ o \in subscribed) ~>
            (got[o] = published \/ o \notin subscribed \/ hubClosed)

\* The hub implements LatestValue for each observer by itself, although one
\* thread serves them all and they come and go while it calls them: nobody is
\* called with a snapshot twice or with an older one, one that is subscribed
\* when the thread takes a snapshot is called with it, and what is taken is the
\* newest.
Access(o) ==
    IF o \in subscribed THEN "open" ELSE IF hubClosed \/ o \in retired THEN "shut" ELSE "none"
InboxOf(o) == INSTANCE LatestValue WITH
    offered <- published, due <- pending # 0, received <- got[o], access <- Access(o),
    inHand <- IF o \in batch.left THEN batch.snapshot ELSE 0
InboxStep(o) == [InboxOf(o)!LatestNext]_(InboxOf(o)!latestVars)
SnapshotsCoalesce ==
    /\ \A o \in Observers : InboxOf(o)!LatestInit
    /\ [][\A o \in Observers : InboxStep(o)]_hubVars

=============================================================================
