-------------------------- MODULE PyramidGeneration --------------------------
(***************************************************************************)
(* How image pyramids come about: PyramidManager with its work coordinator *)
(* (qpane/rendering/pyramid.py, pyramid_work.py).  The manager keeps what  *)
(* it tracks and what it has cached apart, the coordinator keeps handles   *)
(* and retries, and each forgets by key.  A change of the reconstruction   *)
(* space makes everything that exists, or is on its way, worthless.        *)
(***************************************************************************)
EXTENDS Integers, FiniteSets

CONSTANTS
    Assets,         \* keys of sources
    Spaces,         \* reconstruction spaces
    Untracked,
    PyramidHandles, \* a bound on handles that have not been forgotten
    NoWork

ASSUME PyramidAssumption ==
    /\ IsFiniteSet(PyramidHandles) /\ NoWork \notin PyramidHandles
    /\ Untracked \notin Assets \cup Spaces
    /\ Untracked \notin [space : Spaces,
                         status : {"pending", "generating", "complete", "cancelled", "failed"}]

VARIABLES
    space,          \* _config.viewport_reconstruction_space
    tracked,        \* _pyramids: the space and the status of a pyramid
    cachedIn,       \* _cache: the space of the cached pyramid
    active,         \* _active
    pyramidRetry,   \* _retry: does the pyramid it holds still be tracked?
    madeFor,        \* the key and the space a handle generates for
    pyramidWork,    \* where the handle stands
    pyramidEvents   \* the owner's event queue

productVars == <<space, tracked, cachedIn>>
coordinatorVars == <<active, pyramidRetry>>
pyramidEngineVars == <<madeFor, pyramidWork, pyramidEvents>>
pyramidVars == <<productVars, coordinatorVars, pyramidEngineVars>>

Work == INSTANCE OwnerDelivery WITH
            Pool <- PyramidHandles, work <- pyramidWork, queue <- pyramidEvents

Statuses == {"pending", "generating", "complete", "cancelled", "failed"}
Idle == [asset |-> Untracked, space |-> Untracked]
IsTracked(a) == tracked[a] # Untracked

PyramidTypeOK ==
    /\ space \in Spaces
    /\ tracked \in [Assets -> [space : Spaces, status : Statuses] \cup {Untracked}]
    /\ cachedIn \in [Assets -> Spaces \cup {Untracked}]
    /\ active \in [Assets -> PyramidHandles \cup {NoWork}]
    /\ pyramidRetry \in [Assets -> {"none", "tracked", "orphan"}]
    /\ madeFor \in [PyramidHandles -> [asset : Assets, space : Spaces] \cup {Idle}]
    /\ Work!DeliveryTypeOK

PyramidInit ==
    /\ space \in Spaces
    /\ tracked = [a \in Assets |-> Untracked] /\ cachedIn = tracked
    /\ active = [a \in Assets |-> NoWork]
    /\ pyramidRetry = [a \in Assets |-> "none"]
    /\ madeFor = [h \in PyramidHandles |-> Idle]
    /\ Work!DeliveryInit

-----------------------------------------------------------------------------
\* submit of the work coordinator, for a pyramid that is tracked or is not.

StatusOf(pyramids, a, ours, status) ==
    IF ours THEN [pyramids EXCEPT ![a].status = status] ELSE pyramids

AlreadyActive(a, pyramids) ==
    /\ active[a] # NoWork
    /\ tracked' = pyramids
    /\ pyramidRetry' = [pyramidRetry EXCEPT ![a] = "none"]
    /\ UNCHANGED <<active, pyramidEngineVars>>

Accepted(a, pyramids, ours) ==
    \E h \in PyramidHandles :
        /\ active[a] = NoWork
        /\ Work!Submitted(h)
        /\ madeFor' = [madeFor EXCEPT ![h] = [asset |-> a, space |-> space]]
        /\ active' = [active EXCEPT ![a] = h]
        /\ tracked' = StatusOf(pyramids, a, ours, "generating")
        /\ pyramidRetry' = [pyramidRetry EXCEPT ![a] = "none"]

\* Variant: the status stays when the submission is refused.
RefusedGenerating(a, pyramids, ours) ==
    /\ active[a] = NoWork
    /\ tracked' = StatusOf(pyramids, a, ours, "generating")
    /\ pyramidRetry' = [pyramidRetry EXCEPT ![a] = IF ours THEN "tracked" ELSE "orphan"]
    /\ UNCHANGED <<active, pyramidEngineVars>>

Refused(a, pyramids, ours) ==
    /\ active[a] = NoWork
    /\ tracked' = StatusOf(pyramids, a, ours, "pending")
    /\ pyramidRetry' = [pyramidRetry EXCEPT ![a] = IF ours THEN "tracked" ELSE "orphan"]
    /\ UNCHANGED <<active, pyramidEngineVars>>

Attempted(a, pyramids, ours) ==
    \/ AlreadyActive(a, pyramids)
    \/ Accepted(a, pyramids, ours)
    \/ Refused(a, pyramids, ours)

-----------------------------------------------------------------------------
\* generate_pyramid_for_asset
GeneratePyramid(a) ==
    LET pyramids == IF IsTracked(a) THEN tracked
                    ELSE [tracked EXCEPT ![a] = [space |-> space, status |-> "pending"]]
    IN  /\ IsTracked(a) => tracked[a].status \notin {"complete", "generating"}
        /\ \/ /\ pyramidRetry[a] = "none"
              /\ Attempted(a, pyramids, TRUE)
           \/ /\ pyramidRetry[a] # "none"
              /\ tracked' = pyramids
              /\ UNCHANGED <<coordinatorVars, pyramidEngineVars>>
        /\ UNCHANGED <<space, cachedIn>>

\* A retry's delay is over.
PyramidRetryFires(a) ==
    /\ pyramidRetry[a] # "none"
    /\ Attempted(a, tracked, pyramidRetry[a] = "tracked")
    /\ UNCHANGED <<space, cachedIn>>

CancelActive(assets) ==
    /\ Work!Cancelled({active[a] : a \in assets} \ {NoWork})
    /\ active' = [a \in Assets |-> IF a \in assets THEN NoWork ELSE active[a]]
    /\ pyramidRetry' = [a \in Assets |-> IF a \in assets THEN "none" ELSE pyramidRetry[a]]
    /\ UNCHANGED madeFor

Discarded(f, assets) == [a \in Assets |-> IF a \in assets THEN Untracked ELSE f[a]]

\* cancel_prefetch, which keeps what is tracked.
CancelPrefetch(a) ==
    /\ CancelActive({a})
    /\ UNCHANGED productVars

\* remove_pyramid
RemovePyramid(a) ==
    /\ CancelActive({a})
    /\ tracked' = Discarded(tracked, {a}) /\ cachedIn' = Discarded(cachedIn, {a})
    /\ UNCHANGED space

\* apply_config with another reconstruction space
ChangeSpace(s) ==
    /\ s # space /\ space' = s
    /\ CancelActive(Assets)
    /\ tracked' = Discarded(tracked, Assets) /\ cachedIn' = Discarded(cachedIn, Assets)

\* A step of _run_eviction_batch.  A pyramid that is regenerated is evicted
\* with its old levels, and the coordinator goes on without the manager.
EvictPyramid(a) ==
    /\ cachedIn[a] # Untracked
    /\ tracked' = Discarded(tracked, {a}) /\ cachedIn' = Discarded(cachedIn, {a})
    /\ pyramidRetry' = [pyramidRetry EXCEPT ![a] = IF @ = "tracked" THEN "orphan" ELSE @]
    /\ UNCHANGED <<space, active, pyramidEngineVars>>

\* What both ends of a generation forget, by key.
Concluded(h) ==
    LET a == madeFor[h].asset IN
    /\ active' = [active EXCEPT ![a] = NoWork]
    /\ pyramidRetry' = [pyramidRetry EXCEPT ![a] = "none"]
    /\ madeFor' = [madeFor EXCEPT ![h] = Idle]

\* Variant: the product's space is not compared.
WantedInAnySpace(h) == IsTracked(madeFor[h].asset)

Wanted(h) ==
    LET a == madeFor[h].asset IN
    /\ IsTracked(a) /\ tracked[a].space = madeFor[h].space
    /\ madeFor[h].space = space

\* _adopt_generated and _on_pyramid_generated: a product that nobody wants any
\* more is dropped, and one that the cache does not admit is not tracked.
AdoptPyramid(h) ==
    LET a == madeFor[h].asset
        made == madeFor[h].space
    IN  /\ Work!Adopting(h)
        /\ Concluded(h)
        /\ \/ /\ Wanted(h)
              /\ tracked' = [tracked EXCEPT ![a] = [space |-> made, status |-> "complete"]]
              /\ cachedIn' = [cachedIn EXCEPT ![a] = made]
           \/ /\ Wanted(h)
              /\ tracked' = Discarded(tracked, {a})
              /\ UNCHANGED cachedIn
           \/ ~Wanted(h) /\ UNCHANGED <<tracked, cachedIn>>
        /\ UNCHANGED space

\* _apply_outcome and _on_pyramid_outcome
PyramidOutcome(h) ==
    LET a == madeFor[h].asset IN
    /\ Work!Hearing(h)
    /\ Concluded(h)
    /\ \E status \in {"cancelled", "failed"} : tracked' = StatusOf(tracked, a, IsTracked(a), status)
    /\ UNCHANGED <<space, cachedIn>>

PyramidElsewhere(h) ==
    /\ Work!Returns(h) \/ Work!Ends(h) \/ Work!Dropping(h)
    /\ UNCHANGED <<productVars, coordinatorVars, madeFor>>

PyramidNext ==
    \/ \E a \in Assets :
        \/ GeneratePyramid(a) \/ PyramidRetryFires(a) \/ CancelPrefetch(a)
        \/ RemovePyramid(a) \/ EvictPyramid(a)
    \/ \E s \in Spaces : ChangeSpace(s)
    \/ \E h \in PyramidHandles :
        AdoptPyramid(h) \/ PyramidOutcome(h) \/ PyramidElsewhere(h)

PyramidSpec == PyramidInit /\ [][PyramidNext]_pyramidVars

-----------------------------------------------------------------------------
\* Whatever is cancelled, evicted, refused, or answered late and by key: a
\* pyramid that the manager takes to be generated is heard of again, or nobody
\* would ever ask for it a second time, and no product of an abandoned
\* reconstruction space is ever used.
PyramidsFollowRequests ==
    \A a \in Assets :
        /\ IsTracked(a) /\ tracked[a].status = "generating" =>
              \E h \in PyramidHandles : Work!Unheard(h) /\ madeFor[h].asset = a
        /\ IsTracked(a) => tracked[a].space = space
        /\ cachedIn[a] \in {space, Untracked}
=============================================================================
