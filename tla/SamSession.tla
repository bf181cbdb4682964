----------------------------- MODULE SamSession -----------------------------
(***************************************************************************)
(* Assisted selection: sam/manager.py on the owner thread over             *)
(* sam/session.py on its native lane, with the retries of                  *)
(* qpane/execution/retry.py.  The manager keeps metadata about predictors  *)
(* that only the lane may touch.  All native work shares one affinity and  *)
(* holds its lease through adoption, so the engine is a FIFO lane whose    *)
(* head stays until it is settled (AffinityLane).  Tasks are numbered as   *)
(* they are accepted, so the lane is the set of its tasks and the head has *)
(* the smallest number.  Each call of the manager is one step, and what    *)
(* its signals make others do (the cache coordinator removes images) are   *)
(* further calls.  The checkpoint exists.                                  *)
(***************************************************************************)
EXTENDS Integers, Sequences, FiniteSets, SequencesExt

CONSTANTS
    Images,
    NoImage,
    Limits,      \* cache limits somebody may set
    MaxNative    \* bound on accepted native tasks, not counting the cleanup

ASSUME SamAssumption ==
    NoImage \notin Images /\ MaxNative \in Nat /\ Limits \subseteq Nat /\ Limits # {}

VARIABLES
    references,   \* keys of _references and _predictor_sizes
    preparing,    \* _pending: the task that prepares an image, or 0
    retrying,     \* keys with an entry in the retry controller
    boxes,        \* _inference_handles
    managerLimit, \* _cache_limit of the manager
    mayOwn,       \* _session_may_own_native_resources
    closing,      \* _closing
    cleanup,      \* what became of the cleanup task
    accepted,     \* number of tasks accepted so far
    nativeLane,   \* accepted tasks that have not been settled
    phase,        \* where its head stands
    doomedHead,   \* its token is cancelled
    ownerEvents,  \* the callbacks in the owner's event queue
    predictors,   \* _predictors of the session, oldest first
    sessionLimit, \* _cache_limit of the session
    unseen        \* the session was changed by work whose product was dropped

managerVars == <<references, preparing, retrying, boxes, managerLimit, mayOwn, closing>>
laneVars == <<nativeLane, phase, doomedHead>>
sessionVars == <<predictors, sessionLimit>>
samVars == <<managerVars, cleanup, accepted, laneVars, ownerEvents, sessionVars, unseen>>

Ids == 1..(MaxNative + 1)
Native == [id : Ids, op : {"prepare", "box", "remove", "clear", "limit", "cleanup"},
           arg : Images \cup Limits \cup {NoImage}]
Callbacks == [kind : {"adopt", "failed", "cancelled"}, task : Native, snapshot : SUBSET Images]

SamTypeOK ==
    /\ references \subseteq Images /\ retrying \subseteq Images
    /\ preparing \in [Images -> 0..accepted] /\ boxes \subseteq Ids
    /\ managerLimit \in Limits /\ sessionLimit \in Limits
    /\ cleanup \in {"none", "deferred", "accepted", "rejected", "done"}
    /\ accepted \in 0..(MaxNative + 1)
    /\ nativeLane \subseteq Native /\ ownerEvents \in Seq(Callbacks)
    /\ phase \in {"queued", "working", "worked", "delivering"}
    /\ predictors \in Seq(Images) /\ IsInjective(predictors)
    /\ Len(predictors) <= sessionLimit
    /\ nativeLane = {} => phase = "queued" /\ ~doomedHead

SamInit ==
    /\ references = {} /\ retrying = {} /\ boxes = {}
    /\ preparing = [i \in Images |-> 0]
    /\ managerLimit \in Limits /\ sessionLimit = managerLimit
    /\ mayOwn = FALSE /\ closing = FALSE /\ cleanup = "none"
    /\ accepted = 0 /\ nativeLane = {} /\ phase = "queued" /\ doomedHead = FALSE
    /\ ownerEvents = <<>> /\ predictors = <<>> /\ unseen = FALSE

-----------------------------------------------------------------------------
\* The engine, as the manager sees it.

Told(kind, t, snapshot) == [kind |-> kind, task |-> t, snapshot |-> snapshot]

\* Both scopes are closed once the cleanup has settled.
ScopeOpen == cleanup \notin {"done", "rejected"}

\* Besides the cleanup MaxNative tasks are accepted.
Room ==
    \/ accepted < MaxNative
    \/ cleanup = "accepted" /\ accepted = MaxNative

Accepted(op, arg) == {[id |-> accepted + 1, op |-> op, arg |-> arg]}

\* What a submission may add to the lane: nothing if it is refused.
Submissions(op, arg) ==
    {{}} \cup (IF ScopeOpen /\ Room THEN {Accepted(op, arg)} ELSE {})

LaneHead == CHOOSE t \in nativeLane : \A u \in nativeLane : t.id <= u.id

\* A cancellation withdraws a task that waits and drops a result that is not
\* adopted yet; a task that runs only learns of it.
Running(t) == t = LaneHead /\ phase \in {"working", "worked"}

\* Cancelled preparations and boxes have something to settle in the manager, in
\* any order: each settlement is about its own request.
Settlements(ts) ==
    SetToSeq({Told("cancelled", t, {}) : t \in {u \in ts : u.op \in {"prepare", "box"}}})

\* Some tasks are cancelled, and then others accepted.
CancelThen(ids, added) ==
    LET kept == {t \in nativeLane : t.id \in ids => Running(t)}
        dropped == nativeLane \ kept
        headDropped == dropped # {} /\ LaneHead \in dropped
    IN  /\ nativeLane' = kept \cup added
        /\ accepted' = accepted + Cardinality(added)
        /\ phase' = IF headDropped THEN "queued" ELSE phase
        /\ doomedHead' = (doomedHead \/ \E t \in kept : t.id \in ids)
        /\ unseen' = (unseen \/ (headDropped /\ phase = "delivering" /\ LaneHead.op # "box"))
        /\ ownerEvents' = ownerEvents \o Settlements(dropped)

-----------------------------------------------------------------------------
\* The calls of the manager.

PreparingIds(images) == {preparing[i] : i \in images} \ {0}

\* Variant: what the session may own is noted when a product is adopted.
AttemptUnnoted(i, added) ==
    /\ preparing' = [preparing EXCEPT ![i] = IF added = {} THEN @ ELSE accepted + 1]
    /\ retrying' = IF added = {} THEN retrying \cup {i} ELSE retrying \ {i}
    /\ mayOwn' = (references # {})

\* RetryController._attempt over _submit_preparation: a refused submission is
\* kept for another attempt.
Attempt(i, added) ==
    /\ preparing' = [preparing EXCEPT ![i] = IF added = {} THEN @ ELSE accepted + 1]
    /\ retrying' = IF added = {} THEN retrying \cup {i} ELSE retrying \ {i}
    /\ mayOwn' = (mayOwn \/ added # {})

\* requestPredictor without a reference; with one it only answers.
RequestPredictor(i) ==
    /\ i \notin references /\ ~closing /\ preparing[i] = 0
    /\ i \notin retrying
    /\ \E added \in Submissions("prepare", i) :
        Attempt(i, added) /\ CancelThen({}, added)
    /\ UNCHANGED <<references, boxes, managerLimit, closing, cleanup, sessionVars>>

RetryFires(i) ==
    /\ i \in retrying
    /\ \E added \in Submissions("prepare", i) :
        Attempt(i, added) /\ CancelThen({}, added)
    /\ UNCHANGED <<references, boxes, managerLimit, closing, cleanup, sessionVars>>

\* The manager forgets what it was preparing.
Forget(images) ==
    /\ retrying' = retrying \ images
    /\ preparing' = [i \in Images |-> IF i \in images THEN 0 ELSE preparing[i]]

CancelPendingPredictor(i) ==
    /\ preparing[i] # 0 \/ i \in retrying
    /\ Forget({i})
    /\ CancelThen(PreparingIds({i}), {})
    /\ UNCHANGED <<references, boxes, managerLimit, mayOwn, closing, cleanup, sessionVars>>

\* Only a reference is removed natively.
RemoveFromCache(i) ==
    /\ i \in references \/ preparing[i] # 0 \/ i \in retrying
    /\ Forget({i})
    /\ \E added \in IF i \in references THEN Submissions("remove", i) ELSE {{}} :
        CancelThen(PreparingIds({i}), added)
    /\ UNCHANGED <<references, boxes, managerLimit, mayOwn, closing, cleanup, sessionVars>>

ClearCache ==
    /\ Forget(Images)
    /\ \E added \in Submissions("clear", NoImage) :
        CancelThen(PreparingIds(Images), added)
    /\ UNCHANGED <<references, boxes, managerLimit, mayOwn, closing, cleanup, sessionVars>>

SetCacheLimit(n) ==
    /\ n # managerLimit
    /\ managerLimit' = n
    /\ \E added \in Submissions("limit", n) : CancelThen({}, added)
    /\ UNCHANGED <<references, preparing, retrying, boxes, mayOwn, closing, cleanup,
                   sessionVars>>

\* Without a reference, and when it is refused, a box is answered at once.
GenerateMaskFromBox(i) ==
    /\ i \in references
    /\ \E added \in Submissions("box", i) :
        /\ added # {}
        /\ boxes' = boxes \cup {accepted + 1}
        /\ CancelThen({}, added)
    /\ UNCHANGED <<references, preparing, retrying, managerLimit, mayOwn, closing, cleanup,
                   sessionVars>>

CleanupTask == Accepted("cleanup", NoImage)

\* The cleanup goes to a finalization scope: it is accepted, retained until
\* there is room for it, or refused because the engine is shut down.
Shutdown ==
    /\ ~closing
    /\ closing' = TRUE
    /\ Forget(Images)
    /\ boxes' = {}
    /\ cleanup' \in IF mayOwn THEN {"accepted", "deferred", "rejected"} ELSE {"done"}
    /\ CancelThen(Ids, IF cleanup' = "accepted" THEN CleanupTask ELSE {})
    /\ UNCHANGED <<references, managerLimit, mayOwn, sessionVars>>

\* The engine finds room for the retained cleanup, or is shut down first.
CleanupAdmitted ==
    /\ cleanup = "deferred"
    /\ cleanup' \in {"accepted", "rejected"}
    /\ IF cleanup' = "accepted" THEN CancelThen({}, CleanupTask) ELSE CancelThen(Ids, {})
    /\ UNCHANGED <<managerVars, sessionVars>>

-----------------------------------------------------------------------------
\* The lane.

TaskStarts ==
    /\ nativeLane # {} /\ phase = "queued"
    /\ phase' = "working"
    /\ UNCHANGED <<managerVars, cleanup, accepted, nativeLane, doomedHead, ownerEvents,
                   sessionVars, unseen>>

\* The head leaves the lane.
HeadSettles(told) ==
    /\ nativeLane' = nativeLane \ {LaneHead}
    /\ phase' = "queued" /\ doomedHead' = FALSE
    /\ ownerEvents' = ownerEvents \o told
    /\ UNCHANGED accepted

\* The newest n predictors.
Enforced(ps, n) == IF Len(ps) > n THEN SubSeq(ps, Len(ps) - n + 1, Len(ps)) ELSE ps

\* What the session holds after a task: prepare, predict, remove, clear and
\* set_cache_limit.
PredictorsAfter(t) ==
    CASE t.op = "prepare" -> Enforced(Append(RemoveFirst(predictors, t.arg), t.arg), sessionLimit)
      [] t.op = "box" -> IF t.arg \in Range(predictors)
                         THEN Append(RemoveFirst(predictors, t.arg), t.arg) ELSE predictors
      [] t.op = "remove" -> RemoveFirst(predictors, t.arg)
      [] t.op = "limit" -> Enforced(predictors, t.arg)
      [] OTHER -> <<>>

\* The work sees the cancellation, which clear never asks for, or fails.  A box
\* may have made its predictor the newest by then.
WorkStops ==
    /\ phase = "working"
    /\ LET t == LaneHead IN
        /\ \/ doomedHead /\ t.op \notin {"clear", "cleanup"}
              /\ HeadSettles(Settlements({t}))
           \/ ~doomedHead /\ t.op \in {"prepare", "box"}
              /\ HeadSettles(<<Told("failed", t, {})>>)
        /\ \/ UNCHANGED predictors
           \/ t.op = "box" /\ predictors' = PredictorsAfter(t)
    /\ UNCHANGED <<managerVars, cleanup, sessionLimit, unseen>>

WorkDone ==
    /\ phase = "working"
    /\ LET t == LaneHead IN
        /\ doomedHead => t.op \in {"clear", "cleanup"}
        /\ predictors' = PredictorsAfter(t)
        /\ sessionLimit' = IF t.op = "limit" THEN t.arg ELSE sessionLimit
    /\ phase' = "worked"
    /\ UNCHANGED <<managerVars, cleanup, accepted, nativeLane, doomedHead, ownerEvents, unseen>>

\* The handle takes the result: it was cancelled meanwhile, or its adoption is
\* dispatched.  The cleanup has no adoption; its end closes the scopes, which
\* cancels whatever was accepted behind it.
ResultTaken ==
    /\ phase = "worked"
    /\ LET t == LaneHead IN
        IF t.op = "cleanup"
        THEN /\ cleanup' = "done"
             /\ nativeLane' = {} /\ phase' = "queued" /\ doomedHead' = FALSE
             /\ ownerEvents' = ownerEvents \o Settlements(nativeLane \ {t})
             /\ UNCHANGED <<accepted, unseen>>
        ELSE IF doomedHead
        THEN /\ HeadSettles(Settlements({t}))
             /\ unseen' = (unseen \/ t.op # "box")
             /\ UNCHANGED cleanup
        ELSE /\ phase' = "delivering"
             /\ ownerEvents' = Append(ownerEvents, Told("adopt", t, Range(predictors)))
             /\ UNCHANGED <<accepted, nativeLane, doomedHead, cleanup, unseen>>
    /\ UNCHANGED <<managerVars, sessionVars>>

NativeLane == TaskStarts \/ WorkStops \/ WorkDone \/ ResultTaken

-----------------------------------------------------------------------------
\* The callbacks on the owner thread.

\* Variant: a settlement is matched by the image alone.
SettleByImage(e) ==
    /\ preparing' = [i \in Images |-> IF i = e.task.arg THEN 0 ELSE preparing[i]]
    /\ boxes' = boxes \ {e.task.id}

\* Variant: a failure is only logged.
SettleUnlessFailed(e) ==
    IF e.kind = "failed" THEN UNCHANGED <<preparing, boxes>>
    ELSE /\ preparing' = [i \in Images |-> IF preparing[i] = e.task.id THEN 0 ELSE preparing[i]]
         /\ boxes' = boxes \ {e.task.id}

\* _settle_preparation and _settle_mask.  Preparations are matched by request:
\* the image may have been requested again.
SettleRequest(e) ==
    /\ preparing' = [i \in Images |-> IF preparing[i] = e.task.id THEN 0 ELSE preparing[i]]
    /\ boxes' = boxes \ {e.task.id}

\* A settlement that is not a success.
HandleSettled ==
    /\ ownerEvents # <<>> /\ Head(ownerEvents).kind # "adopt"
    /\ SettleRequest(Head(ownerEvents))
    /\ ownerEvents' = Tail(ownerEvents)
    /\ UNCHANGED <<references, retrying, managerLimit, mayOwn, closing, cleanup, accepted,
                   laneVars, sessionVars, unseen>>

\* The manager takes the session's snapshot, but for a preparation that it no
\* longer waits for.
Adopts(t) == t.op = "prepare" => preparing[t.arg] = t.id

\* A dispatched adoption: of a task that was cancelled since then it does
\* nothing.
HandleAdoption ==
    /\ ownerEvents # <<>> /\ Head(ownerEvents).kind = "adopt"
    /\ LET e == Head(ownerEvents)
           t == e.task
           current == nativeLane # {} /\ LaneHead = t /\ phase = "delivering"
       IN IF current
          THEN /\ nativeLane' = nativeLane \ {t} /\ phase' = "queued" /\ doomedHead' = FALSE
               /\ preparing' = [i \in Images |-> IF preparing[i] = t.id THEN 0 ELSE preparing[i]]
               /\ boxes' = boxes \ {t.id}
               /\ IF t.op # "box" /\ Adopts(t)
                  THEN references' = e.snapshot /\ unseen' = FALSE
                  ELSE UNCHANGED <<references, unseen>>
          ELSE UNCHANGED <<laneVars, preparing, boxes, references, unseen>>
    /\ ownerEvents' = Tail(ownerEvents)
    /\ UNCHANGED <<retrying, managerLimit, mayOwn, closing, cleanup, accepted, sessionVars>>

SamNext ==
    \/ \E i \in Images : RequestPredictor(i) \/ RetryFires(i) \/ CancelPendingPredictor(i)
                         \/ RemoveFromCache(i) \/ GenerateMaskFromBox(i)
    \/ ClearCache
    \/ \E n \in Limits : SetCacheLimit(n)
    \/ Shutdown
    \/ CleanupAdmitted
    \/ NativeLane
    \/ HandleSettled
    \/ HandleAdoption

\* The lane's thread works and the owner runs its event loop.
SamSpec ==
    /\ SamInit /\ [][SamNext]_samVars
    /\ WF_samVars(NativeLane)
    /\ WF_samVars(HandleSettled \/ HandleAdoption)

-----------------------------------------------------------------------------
\* The manager's metadata is the session's state whenever no finished work is
\* still to be adopted.  The exception is work that was cancelled after it had
\* changed the session: until the next adoption the manager is behind.
ReferencesAreTruthful ==
    (phase \in {"queued", "working"} /\ ~unseen /\ ~closing) => references = Range(predictors)

\* Every accepted preparation and box is adopted, fails or is cancelled, and
\* once no more are accepted the manager waits for nothing.
RequestsSettle == <>[](boxes = {} /\ \A i \in Images : preparing[i] = 0)

\* A shutdown whose cleanup is done, or was not needed, leaves no predictor
\* behind, however much work was accepted or running when it was called.
SessionIsEmptied == <>[](cleanup = "done" => predictors = <<>>)

=============================================================================
