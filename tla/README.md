# CuteCanvas: TLA+ models, model checking and proofs

This directory models the concurrent core of the CuteCanvas monorepo, checks it
with TLC and proves parts of it with TLAPS.  Every definition is translated from
the source; `PROJECT.json` ("map") names the lines each one stands for.

## 1. Inventory

The repository holds three products that share one process:

| Part | Where | State it keeps | Operations | Talks to |
| --- | --- | --- | --- | --- |
| Execution runtime, scopes, handles, jobs | `packages/qpane/src/qpane/execution/{runtime,scope,handle,backend,cancellation,model}.py` | closed flags, the handles a scope retains, the state of a handle, its token, submission and adoption flag, the settled callbacks of a job | open scope or child, submit, cancel, cancel_all, close, shutdown, execute, adopt, settle | backends, dispatcher, diagnostics |
| Default backend | `execution/{default_backend,default_policy}.py` | pending jobs, accepted bytes, running jobs, active exclusive keys, closed flag | submit, take, run, finish, cancel pending, release slot and key, shutdown | jobs (settled callbacks) |
| Deferred finalization | `execution/runtime.py` | retained finalizers, "draining" flag | retain on saturation, drain, withdraw | backend, jobs |
| Affinity backend | `execution/affinity_backend.py` | a FIFO lane and thread per affinity key, exclusive keys | submit, run entry, wait for settlement, cancel, shutdown | jobs |
| Owner dispatcher | `execution/qt_dispatch.py` | queued adoptions and progress, closed flag | dispatch, deliver, close | handles, progress channels |
| Progress channel | `execution/progress_channel.py` | the newest value, queued and closed flags | report, deliver, close, discard | dispatcher |
| Retry controller | `execution/retry.py` | one delayed entry per key | submit or coalesce, retry, cancel | delay scheduler, producers |
| Diagnostics hub | `execution/diagnostics*.py` | observers and counters | record, subscribe, close | runtime |
| Mask autosave | `cutecanvas/masks/autosave*.py`, `cutecanvas/runtime/latest_requests.py` | dirty masks, debounce timer, current request per mask, retries, active handles | schedule, perform, finish, cancel, shutdown | execution scope, retry controller, latest requests |
| Edit history | `cutecanvas/composition/{edit_history,history_policy}.py` | undo and redo stacks, retained bytes, leases | record, undo, redo, discard, evict | resources, documents |
| Cache coordinator | `qpane/cache/coordinator.py` | usage, capacity and entitlement per consumer | update usage, admit, enforce budget, trim | cache consumers (callbacks) |
| SAM manager | `cutecanvas/sam/{manager,session,delegate}.py` | metadata about predictors on the owner thread, the predictors on a native lane | request a predictor or a box, adopt, remove, clear, limit, shut down | execution scope, retry controller, cache |
| Tiles and pyramids | `qpane/rendering/{tiles,pyramid,pyramid_work,raster_planner}.py` | caches, waiters and representatives per payload, active handles, retries | ask, coalesce, retry, adopt, cancel, remove, evict | execution scope, retry controller, cache coordinator |
| Renderers and presentation | `qpane/{raster,rendering,hybrid,vector,catalog,features}` | viewport geometry, drawing state | plan, draw | tiles and pyramids |
| Documents, persistence, placed sources, resources | `cutecanvas/{document,persistence,placed,resources,composition}` | document graph, revision, saved revision, resource leases | edit, save, load, relink | edit history, execution scope |
| Editor UI, tools, selection, painting, snapping | `cutecanvas/{ui,tools,selection,painting,snapping,interaction}` | widget and gesture state | pointer and key handlers | documents |
| Ferrastra | `src/crates/ferrastra-*`, `packages/ferrastra` | raster store, node graph, engine caches | allocate, edit, evaluate | Python binding |
| Tools, examples, tests | `src/tools`, `**/examples`, `**/tests` | none | none | |

What is hard in this code is the execution engine.  Client threads, the Qt owner
thread and workers touch one handle under three different locks; settlement runs
callbacks into the backend on whichever thread settled; the pool must wake the
right worker; cancellation, scope closing, shutdown and dispatcher closing may
meet a task at every stage; retained finalizers are admitted from inside the
settlement of other tasks.  Everything above it (masks, tiles, SAM, persistence)
relies on its promises, and adds debounce timers, retries and "latest request"
freshness of its own.

What makes each part correct:

- engine: cancellation and adoption exclude each other; a job is entered once;
  an accepted task settles once and gives back its slot, key and scope entry; a
  key serializes its users through adoption; limits bound real work; no worker
  sleeps through eligible work; a closed scope starts nothing; shutdown drains;
- deferred finalization: a retained finalizer is admitted once, in order, and
  capacity that returns reaches it;
- affinity backend: lanes are FIFO and stable, keys exclude across lanes,
  shutdown joins;
- progress and retries: the newest value wins, nothing is delivered after close,
  one entry per key, no payload is lost unreported;
- autosave: the last edit of a mask is saved, only the current request publishes;
- history: undo then redo restores, eviction never drops a live resource;
- cache: the budget bounds usage once trimming is over, trims are not re-entered;
- assisted selection: what the owner believes about predictors agrees with the
  native session, every request settles, shutdown empties the session;
- tiles and pyramids: what is asked for comes or is tried again, a cancelled or
  late generation leaves nothing behind, one of old settings is never used.

The hazards behind these properties are listed, line by line, in
`PROJECT.json` ("hazards").

## 2. The modules

| Module | Models | Uses |
| --- | --- | --- |
| `ExecutionModel` | `model.py`, `default_policy.py`: what a task requires and what the policy allows; all of it constant, with the assumptions the code validates | |
| `ExecutionHandle` | `handle.py`, `backend.py`, `cancellation.py`: the state of a handle, its token, its job and the job's settled callbacks, one operator per critical section | `ExecutionModel` |
| `DefaultBackend` | `default_backend.py`: admission, the queue, eligibility, leases, parking and waking, shutdown | `ExecutionModel` |
| `ExecutionRuntime` | `runtime.py`, `scope.py`, `qt_dispatch.py` and the threads that run all of the above | `ExecutionHandle`, `DefaultBackend` |
| `TaskContract` | what the SDK promises the owner of a task; `ExecutionRuntime` implements it | |
| `ExecutionRuntime_proofs` | the theorems about `ExecutionRuntime` | TLAPS |
| `SchedulerAging` | the choice among eligible jobs that `DefaultBackend` leaves open: `_take_next_locked` with the ranks and the aging of `default_policy.py` | |
| `DeferredFinalization` | the retained finalizers of `runtime.py` and the drain, over a simpler backend | |
| `AffinityLane` | what a lane of native work promises; `AffinityBackend` implements it | |
| `AffinityBackend` | `affinity_backend.py` with the handle, the job and the shutdown that drive it | |
| `ScopeTree` | `scope.py` and the scope registry of `runtime.py`: children, handles, closing | |
| `LatestValue` | what a channel promises that delivers only the newest value; `ProgressChannel` and, for each observer, `DiagnosticsHub` implement it | |
| `ProgressChannel` | `progress_channel.py` over the inline and the Qt dispatcher | `LatestValue` |
| `DiagnosticsHub` | `diagnostics.py`: snapshots, subscriptions, the hub's thread | `LatestValue` |
| `CacheBudget` | `cache/coordinator.py`, `cache/consumers.py`, `cache/foreground_reclamation.py` | |
| `SamSession` | `sam/manager.py` over `sam/session.py` on a native lane, with its retries | |
| `MaskAutosave` | `masks/autosave.py`, `masks/autosave_products.py`, `runtime/latest_requests.py`, and `retry.py` as they use it | |
| `EditHistory` | `composition/edit_history.py`, `history_policy.py`, `edit_controller.py`, the layer transitions and the leases on sources | |
| `OwnerDelivery` | the engine as a component of the owner thread sees it: handles whose adoption or outcome comes back through the event queue | |
| `TileGeneration` | `rendering/tiles.py` as the frame planner and the owners of sources use it | `OwnerDelivery` |
| `PyramidGeneration` | `rendering/pyramid.py` and `pyramid_work.py` | `OwnerDelivery` |
| `DeferredFinalization_proofs`, `AffinityBackend_proofs`, `EditHistory_proofs`, `OwnerDelivery_proofs` | the theorems about those modules | TLAPS |
| `Parts_proofs` | the theorems about `SchedulerAging`, `ProgressChannel`, `ScopeTree`, `SamSession`, `DiagnosticsHub`, `CacheBudget` and their composition `PartsMC` | TLAPS, `AffinityBackend_proofs` |
| `OwnerParts_proofs` | the theorems about `TileGeneration`, `PyramidGeneration`, `MaskAutosave` and the composition `OwnerPartsMC` | TLAPS, `EditHistory_proofs`, `OwnerDelivery_proofs` |
| `QueueLemmas` | lemmas about queues without repetition, for the proofs above | TLAPS |

`ExecutionRuntimeMC`, `DeferredFinalizationMC` and `CacheBudgetMC` give the
constants of the runs.  `PartsMC` and `OwnerPartsMC` check several components in
one run: a variable chosen in the initial state says which of them a behaviour
runs, and the others stay as they were built.  This is sound because these
components share no state; the fairness of each is the one of its own
specification.  `PROJECT.json` ("map") names the lines of every definition.

**ExecutionRuntime.**  A step is one critical section of one lock.  The code
never calls another component with a lock held, with one exception that is
modelled (settled callbacks are registered under the backend's lock), so a
thread between two critical sections is a program counter `pc`, the task `cur`
it works on, the rest `todo` of the loop it runs, the outcome `fate` it will
publish and the place `after` it returns to.  `handleVars` are the fields of all
handles and jobs, `backendVars` the fields of the backend, `scopeVars` those of
scopes and runtime, `dispatchVars` those of the dispatcher.  Submitting is
`Register`, `Admit`, `Offer`, `Bind`; settling is `Settle`, `Signal`,
`FreeSlot`, `FreeLease`, `Untrack`, on whichever thread settles; a worker goes
`Take`, `RunJob`, `Execute`, `WorkReturns`/`WorkRaises`, `Dispatch`, `Finish`,
and parks with `Park`.

**TaskContract** has four variables: the observed status, the granted
cancellations, the begun adoptions and the occupied places.  The refinement
mapping reads them off handles and backend (`Observed`, `cancelled`,
`adopting`, `accepted`).

**DeferredFinalization** keeps the threads and settlement of the engine in a
smaller form and adds what it leaves out: a saturated finalizer is retained
(`Defer`), the settlement of any task drains (`Drain`, `Peek`, `Rebind`, `Offer..`,
`Pop`, `Stop`), a cancellation withdraws (`Withdraw`).  A thread that re-enters
the backend's lock is `stuck`.

**MaskAutosave** has one mask, two views with a manager each and the worker
steps of a save; contents are version numbers and a snapshot that was read
across an edit is torn.  Managers run on the owner thread, so a handler is one
action.

**EditHistory** has compositions with one layer and three kinds of commands
(layer, stroke, selection).  The two branches of a composition are sets of
numbered commands: commands are numbered as they are recorded, what is done last
is undone first, so the numbers are the order of the code's lists, the newest of
`undo` and the oldest of `redo` are their last entries, and the commands that an
eviction keeps are those whose newer ones are within the limits (`Retained`).
An edit is a sequence of groups of lease operations in the code's order
(`AcquireAll`, `ReleaseAll`, `RestoreLayer`, `RecordLeases`, `Replacement`); a source
whose last lease goes on the way is deleted, even if it is leased again, and its
owner discards its commands (`Disposed`).  Sources are identities, and which new
one is taken is of no matter (`FreshSource`).

**AffinityBackend**: a lane is a FIFO queue with one thread that takes the key
(`AcquireKey`), runs its entry and, for a lease held through adoption, waits for
the settlement.  A submission has the steps `RegisterTask`, `AcceptTask`,
`QueueTask`, `BindTask` (or `ReturnPlace`, when the lane was closed in between),
a cancellation `CancelTask`, `WithdrawTask`, `RevokeRemoved`, each one critical section of the backend's, a lane's or a
handle's lock; the shutdown goes through tasks, entries and lanes one by one.
**AffinityLane** has the waiting tasks, the one whose turn it is and the settled
ones; the mapping reads the queue and the worker's entry.

**ScopeTree**: `close` collects children and handles under the lock and works
through them outside (`frame`, `toClose`, `calling`, `toCancel`), while other
threads open children and register handles.  The runtime is the root.

**ProgressChannel** and **DiagnosticsHub** number what is reported, so that
"newest" is a comparison; a delivering thread reads under the lock and calls
after it.  **LatestValue** is what an observer sees of either: values are
offered, the newest is taken once, the observer is called with it before another
is taken, and nothing is taken for one that is gone.  The mapping reads the
pending value and what a delivering thread has in hand.

**SchedulerAging** counts time in ticks, a whole number of which is one aging
interval, and lets what the resource limits allow change arbitrarily.

**CacheBudget**: an enforcement is a loop over consumers whose trims report the
new usage into the coordinator that is enforcing (`again`), a reclamation a loop
of its own whose trims may start one.  A cache evicts entries of any size in
batches.  Shares are computed with the code's integer arithmetic.

**SamSession** keeps the manager's metadata and the session's predictors apart.
The lane is the set of its tasks, numbered as they are accepted; the one with the
smallest number is the head and stays until it is settled, which is what
`AffinityLane` promises.  Adoptions and outcomes come through the owner's queue.

**OwnerDelivery** is the engine in three variables' worth: a handle is free,
working, doomed, delivering or ended, and its adoption and outcome are events of
the owner's queue.  Cancelling a result that waits for adoption settles it at
once and leaves its adoption in the queue, to be dropped.  **TileGeneration**
and **PyramidGeneration** are the two clients: each of their handlers is one
action of the owner thread, and both forget by key what they know of a handle.

## 3. The runs

| Run | Instance | Shows |
| --- | --- | --- |
| `engine_races` | 2 tasks that share a key, 2 scopes, 2 workers; two threads submit while the owner closes the dispatcher and the other thread cancels, closes scopes and shuts down | cancel or adopt, one activation, callbacks registered in time, nothing left behind at rest, closed scopes start nothing |
| `engine_capacity` | 4 tasks, 2 of them on one key, 2 on a single device, 3 that fit into 4 bytes together but not into 2 places, one of 5 bytes, a reserved worker, a canceller | lease exclusion, limits on the retained work and the places (`LimitsRespected`), no lost wakeup |
| `engine_contract` | 2 tasks on one key against one place; the owner submits and closes the dispatcher, another thread shuts down | the refinement, with its fairness, and that shutdown drains |
| `deferral_races` | 3 tasks, 2 of them finalizers, one place, 2 workers, a client that submits, cancels and shuts down | at most one admission, in order |
| `deferral_lost_wakeup`, `deferral_submit_deadlock` | smaller instances of the same | the findings below |
| `parts` | the seven smaller parts, see below | native lanes implement `AffinityLane` and a shutdown returns; a close reaches everything under a scope; progress and diagnostics implement `LatestValue` (`ChannelsCoalesce`), and the newest value arrives; aging bounds how an urgent job overtakes; enforcement takes only what is owed, finds a cache to take it from (`DebtorsPay`) and ends within the budget; the metadata about predictors is truthful and shutdown empties the session |
| `owner_parts` | the four parts of the owner thread, see below | replay, leases, limits; freshness of saves, no step back on disk, honest completion, every request ends; no reservation outlives its generation; pyramids follow requests |
| `autosave_lost_edit`, `autosave_blank_overwrites` | one view | the findings below |
| `cache_reclaim_short`, `tiles_stranded` | the instances of `parts` and `owner_parts` | the findings below |

*Bounds.*  Two tasks and two client threads let every kind of call meet a task at
every place of its life; the third task of `engine_capacity` is what the reservation, the
key and the device limit need to get in each other's way, and the fourth is one
that only the byte limit refuses: without the test of the places, and without
that of the bytes, `LimitsRespected` fails.  That the bytes of several tasks add
up is left to the theorem `LimitsRespectedAlways`.  One place against
two tasks makes saturation and the wait for a slot common.  In the deferral runs
one place, one ordinary task and two finalizers is the smallest system with an
order to get wrong.

In `parts`: three tasks on two lanes, two of them in different lanes with one
key and two in one lane, against two places, one task may be cancelled; three
scopes (a child of a child of the runtime) and one handle; two reporters and
four reports, so that a report meets a delivery that has begun and one that has
not; two observers and three snapshots; three jobs, three ranks, an interval of
two ticks and four ticks, which is the age at which a job of the lowest rank
overtakes; one cache of each kind with at most three bytes, one batch for a trim
that a reclamation asks for and one call that changes the settings; two images
under limits one and two, with two native tasks besides the cleanup.

In `owner_parts`: two compositions, two sources and four commands against limits
of two commands and three bytes, where the history evicts after the third
command of a class (after the second stroke), so that evictions happen in both
classes, sources lose their first command, redo branches are dropped and a
composition is removed whose source the other one shows; two views of one mask
with two edits, two requests and one refusal, file error and withdrawal each,
enough for a superseded save; two layers that show one payload and two handles,
so that a late outcome meets a second generation; one source, two reconstruction
spaces and three handles, so that the outcomes of two cancelled generations meet
a third one.

Workers are symmetric and are reduced by symmetry in the engine's runs without
liveness.  `CHECK_DEADLOCK FALSE` stands where the system may really stop: no
more edits, tasks or reports within the bounds.  The engine's modules have an
explicit `Rest` step for threads at rest and are checked for deadlock.

*Fairness.*  `ExecutionRuntime`: weak fairness for a client inside a call and
for each worker (the operating system schedules threads, work returns), strong
fairness for the owner's event loop, which serves its queue again and again
between the calls the owner makes itself.  Nobody is obliged to begin a call.
`MaskAutosave`: timers, delays, workers and callbacks run; nobody has to edit.
The deferral's safety run needs none; `deferral_lost_wakeup` runs under
`Spec`, with weak fairness for every thread inside a call.
`PartsSpec`: the threads of the engine (a lane's worker, a thread inside a
submission, a cancellation or a shutdown, a thread in `close`, a reporter that
delivers, the hub's thread) run, the owner's event loop serves its queue, an
enforcement or reclamation that has begun is one synchronous call and ends, the
native lane and its callbacks go on.  Nobody has to submit, report, publish,
close or shut down.  The tiles and pyramids are checked for safety only.

## 4. What the code does otherwise than documented

- `deferral_lost_wakeup`: a finalizer retained just after the last accepted task
  drained stays retained although all places are free (`runtime.py:220-226` and
  `282`); the SDK says that it waits "until an accepted task releases capacity".
- `deferral_submit_deadlock`: the drain offers a job that a cancellation settles
  meanwhile; `default_backend.py:168` then runs the settled callback, which takes
  the lock that is held.
- `autosave_lost_edit`: `_finish_save` clears the dirty mark that an edit during
  the save had set; the debounce timer then finds nothing to save.
- `autosave_blank_overwrites`: the blank save tests that there is no file long
  before it writes one.
- `cache_reclaim_short`: `reclaim_bytes` lowers the limit of a cache and trims;
  the first batch reports its usage, the coordinator takes that for an ordinary
  report, enforces the budget and restores the limit in the middle of the trim,
  and nothing more is freed although the caller asked for more.
- `tiles_stranded`: the retry of a tile nobody sees is cancelled, but the tile
  stays among the waiters of its payload; `get_tile` takes the payload for
  pending from then on and returns None for good.

Each is a run that TLC ends with a trace; the quoted lines are in
`PROJECT.json` ("findings").

## 5. The proofs

`ExecutionRuntime_proofs` proves for any tasks, scopes, keys, resources, workers
and clients, from `RequirementsAssumption`, `PolicyAssumption` and
`ThreadAssumption` (validated by the code's dataclasses, or the meaning of the
constants):

| Theorem | Property |
| --- | --- |
| `TypeCorrect` | `TypeOK` |
| `CancelOrAdoptAlways` | `CancelOrAdopt` |
| `ActivatedOnceAlways` | `ActivatedOnce` |
| `RegistersBeforeSettlementAlways` | `RegistersBeforeSettlement` |
| `LeaseExclusionAlways` | `LeaseExclusion` |

None of these is inductive.  That two tasks never use one key follows only when
one knows that the key's entry in `exclusive` is there from the take to the
settled callback or to `Finish`, which needs that no second thread settles or
runs the task, which needs that a job is in exactly one place: in the queue, in
the hands of one worker, in a revocation.  `IInv` says so in four layers, each
proved inductive with the ones before it:

1. `TypeInv`: types, and a thread that is not at rest has a task in hand;
2. `ThreadInv`: workers, clients and the owner stay in their own programs and
   return to them after a settlement;
3. `AdoptInv`: where a result is between the worker and its adoption, that only
   one thread has it, and who is entitled to which outcome;
4. `OwnershipInv`: queued, taken and revoked jobs have one owner, leases are
   hooked to the settlement that frees them, every key has its holder.

`IInv` and the parts were checked with TLC before they were proved.  The proof
of a step splits on the actions of `Next`; the closing of the dispatcher and of
the backend, which take over whole sets of tasks, are steps of their own.

The second half of the module proves the rest of what the engine promises, on
top of `IInv`:

| Theorem | Property |
| --- | --- |
| `PromiseInvariant` | `IInv /\ PromiseInv`, the inductive invariant |
| `LimitsRespectedAlways` | `LimitsRespected` |
| `NoLostWakeupAlways` | `NoLostWakeup` |
| `NothingLeftBehindAlways` | `NothingLeftBehind` |
| `ClosedScopeStartsNothingAlways` | `ClosedScopeStartsNothing` |
| `ContractSafety` | the safety half of `KeepsContract`: the initial states are the contract's, and every step is one of its steps or a stutter |

`PromiseInv` adds to `IInv`:

- who submits a task and what the scope and the backend know of it (`SubmitInv`);
- that every task of a closed scope which has not begun is refused, cancelled or
  on the list of a thread that cancels (`ReachInv`); without it a scope could
  close and one of its tasks start afterwards;
- that each task without an outcome is in someone's hands: queued, in the
  mailbox, about to be revoked or discarded, or the task of a thread (`ClaimsApart`,
  `Carried`, `Released`, `Backed`).  Hence nothing is left when all threads rest;
- that what the backend counts is within the policy (`WithinLimits`), with sums
  of bytes over sets that a step adds to or takes from;
- that, unless all workers are awake, there is one awake for each job that could
  be started (`OneAwakeEach`).  `NoLostWakeup` itself is not inductive: a job that
  is queued wakes one worker, and another job may use that worker up.

The other parts have theorems of their own, each from the named assumption on
the constants of its module and from nothing about the instance:

| Theorem | Module | Property |
| --- | --- | --- |
| `DrainInvariant` | `DeferredFinalization_proofs` | `DrainInv`, the inductive invariant |
| `TypesStay`, `AdmittedOnceAlways`, `AdmittedInOrderAlways` | `DeferredFinalization_proofs` | `TypeOK`, `AdmittedOnce`, `AdmittedInOrder` |
| `AffinityTypes`, `PlacesAndKeysStayExact` | `AffinityBackend_proofs` | `AffinityTypeOK`, `PlacesAndKeysAreExact` |
| `LanesKeepTheirPromiseAlways` | `AffinityBackend_proofs` | `LanesKeepTheirPromise`: the backend implements `AffinityLane` |
| `HistoryInvariant` | `EditHistory_proofs` | `HistoryInv`, the inductive invariant |
| `HistoryTypesStay`, `ReplayableForEverAlways`, `LeasesAreExactAlways` | `EditHistory_proofs` | `HistoryTypeOK`, `ReplayableForEver`, `LeasesAreExact` |
| `ReplayRestoresAlways`, `LimitsKeepTheNewestAlways` | `EditHistory_proofs` | `ReplayRestores`, `LimitsKeepTheNewest` |
| `AgingTypeCorrect`, `OvertakenBrieflyAlways` | `Parts_proofs` | `AgingTypeOK`, `OvertakenBriefly` |
| `ProgressTypeCorrect`, `OneDeliveryAlways` | `Parts_proofs` | `ProgressTypeOK`, `OneDelivery` |
| `ProgressCoalescesAlways` | `Parts_proofs` | `ProgressCoalesces`: the channel implements `LatestValue` |
| `HubInvariant`, `HubTypesStay` | `Parts_proofs` | `HubInv`, the inductive invariant, and `HubTypeOK` |
| `SnapshotsCoalesceAlways` | `Parts_proofs` | `SnapshotsCoalesce`: the hub implements `LatestValue` for each observer |
| `CacheTypesStay`, `EvictionsAreOwedAlways` | `Parts_proofs` | `CacheTypeOK`, `EvictionsAreOwed` |
| `PressureHasContendersAlways`, `DebtorsPayAlways` | `Parts_proofs` | `PressureHasContenders`; with the former, `DebtorsPay` |
| `ChannelsCoalesceAlways` | `Parts_proofs` | `ChannelsCoalesce`, of the composition |
| `PartsTypesStay` | `Parts_proofs` | `PartsTypeOK`, of the composition |
| `NothingEscapesCloseAlways`, `ScopesRetainedWhileOpenAlways` | `Parts_proofs` | `NothingEscapesClose`, `ScopesRetainedWhileOpen` |
| `SamInvariant` | `Parts_proofs` | `SamInv`, the inductive invariant |
| `SamTypesStay`, `ReferencesAreTruthfulAlways` | `Parts_proofs` | `SamTypeOK`, `ReferencesAreTruthful` |
| `ReservationsEndAlways`, `PyramidsFollowRequestsAlways` | `OwnerParts_proofs` | `ReservationsEnd`, `PyramidsFollowRequests` |
| `TileTypesStay`, `PyramidTypesStay` | `OwnerParts_proofs` | `TileTypeOK`, `PyramidTypeOK` |
| `OwnerPartsTypesStay` | `OwnerParts_proofs` | `OwnerPartsTypeOK`, of the composition |
| `SaveInvariant` | `OwnerParts_proofs` | `SaveInv`, the inductive invariant |
| `FreshnessAgreesAlways`, `FileNeverGoesBackAlways`, `CompletedIsOnDiskAlways` | `OwnerParts_proofs` | `FreshnessAgrees`, `FileNeverGoesBack`, `CompletedIsOnDisk` |

- *Deferral.*  A finalizer may be withdrawn at any moment while another thread
  offers it, so "the drain works on the head of the retained ones" is false.
  `DrainInv` says what is true: it works on the head or on one that is not
  retained any more (`Draining`); a retained finalizer has a job at the backend
  only while its drain is between the admission and the line that drops it
  (`Retained`); and what a submission placed itself is never what a drain works
  on (`PlacedDirectly`).  `RunOnce` and `Unknown` are what the worker's and the
  submitter's steps need.
- *Native lanes.*  `LaneInv` says where an entry can be (waiting once in its own
  lane, in the hands of its worker, taken out by a cancellation or by the
  shutdown) and derives that places and keys are exact, task by task.  For the
  refinement the waiting tasks of a lane are its queue without what was taken
  out; each action is a step of `AffinityLane` or leaves `waiting`, `turn` and the
  settled tasks as they are.
- *Autosave.*  `FreshnessAgrees` needs that a save which the pool may still start
  is tracked (`Tracked`) and that a delayed retry is of the registered save, at
  the stage where that save waits (`Retrying`); a corollary is that the coalescing
  of `submit_or_coalesce` never joins two saves here, because a new request drops
  the retry of the one it supersedes.  `FileNeverGoesBack` needs that one worker at
  a time is between its read and the replacement (`OneSave`), and
  `CompletedIsOnDisk` that a success not yet announced is what the file holds
  while nobody else is about to write (`OnDisk`).
- *Edit history.*  `ReplayableForEver` and `ReplayRestores` are not inductive:
  an undo that restores the right value now says nothing of the commands behind
  it.  `HistoryInv` describes whole branches.  The done commands about one thing
  lead up to what the document shows and the undone ones lead away from it, each
  starting where its neighbour ends (`Behind`, `Ahead`, `Threaded`); what evictions
  and deletions take from a thread is its oldest part or all of it.  A stroke
  leases nothing, so why does its source exist?  Because it was painted while the
  layer showed it: the next transition starts from that source and leases it, or
  the layer shows it still (`StrokesBehind`, `StrokesAhead`).  Evictions keep this
  because the transition after a retained stroke is newer, so it is retained too.  The leases
  are counted: every action, taken as a whole, leaves one live lease for each
  layer that shows a source, one history lease for each retained transition that
  refers to it and no session lease (`Leased`); a source whose count meets zero on
  the way is one that no layer shows and no retained command needs, so disposing
  of its strokes leaves the threads of the others alone.  The proof assumes
  `LimitAssumption` only: the prices of commands and the limits are any naturals.
- *Aging.*  The queue is sorted by a score with an integer division in it.  The
  argument is that a whole number of intervals measures a wait from below and,
  with one more, from above (`WholeIntervals`); a later job that is chosen has
  a better score or the same one, so the difference of the ranks bounds the
  difference of the waits (`OvertakingIsBrief`).
- *Progress.*  `OneDelivery` counts; the proof says instead that no two threads
  deliver, that none does while a delivery is posted, and that the channel's
  flag is up for as long (`Alone`).  The run checks `ChannelsCoalesce` instead, in
  which a second delivery shows as a value taken while another is in hand.
- *Newest values.*  That the channel and the hub implement `LatestValue` rests on
  one order: what is pending is newer than what a thread has in hand, and that is
  newer than what its observer has seen, and only one thread has something in
  hand.  For the hub (`HubInv`) the order is per observer, because a thread works
  through a batch while observers come and go, and one that is gone never comes
  back under its old number.
- *Cache.*  `EvictionsAreOwed` needs that a trim knows the bytes its cache has at
  that moment, although reports come in the middle of it, and that a global trim
  aims at the share its round computed.  `PressureHasContenders` is arithmetic:
  what the caches keep beyond their entitlements, multiplied by the total weight
  so that it is exact, adds up to the usage beyond the budget, times that weight;
  when this is positive, one summand is (`SomebodyOwes`).  A cache that the
  overrides empty after the weights were read keeps its weight in the total, and
  its summand is not positive.  Sums over caches are unfolded and split by the
  smallest counterexample, see below.  The code's entitlements are floats; their
  rounding, which may move a share by a byte, is left out.
- *Scopes.*  A close works outside the lock on what it collected under it.  The
  invariant adds where a close stands (`FramesInv`) and that children and
  parents agree (`ChildrenInv`); a step is a change of one node, and
  `OpenedKeepsIInv` and `CollectKeepsParts` carry the two that change more.
- *Assisted selection.*  `ReferencesAreTruthful` says nothing while a product waits
  to be adopted, so it is not inductive.  `SamInv` adds that what such a product
  shows is the session as it is now (`EventsFit`: only the head can be adopted and
  nothing else runs before it is), that the manager adopts it, because it waits
  for each preparation in the lane that is not already told to stop (`Awaited`),
  and that the manager knows the session until a head that may change it has done
  its work (`Believed`; a box changes only the order).  `CleanupLast` gives the
  cleanup a number, and `Numbered` keeps a late settlement from ending the wait
  for a newer request for the same image.  Every call that cancels and submits is
  one lemma (`CancelKeeps`), whichever tasks it cancels.
- *Tiles and pyramids.*  Both rest on `OwnerDelivery_proofs`: an outcome in the
  owner's queue is of a handle that has ended, and there is one per handle
  (`DeliveryInv`).  A late outcome is therefore never of a handle that has been
  given to a new request, so that forgetting by key leaves nothing of the old one.  For tiles
  the three parts of `ReservationsEnd` are then inductive together with "a handle
  that is waited for has a key"; for pyramids one has to know that the handle
  that is waited for works for the present space (`GeneratingInv`), because its
  product would be dropped otherwise.  The types of the tiles need, besides, that
  who waits for a payload is a key of it (`WaitersOK`).
- *Compositions.*  A step of a composition is for each component a step of its own
  or none, so the conjunction of the components' invariants is inductive
  (`PartsStep`, `OwnerPartsStep`).

*Induction over data.*  The library's induction theorems take an operator as a
parameter, which the provers cannot instantiate.  For finite sets the smallest
counterexample does the same work: `SmallestSet` (a set of sets that has a member
has a smallest one, from the well-foundedness of strict subsets) gives the
recursive sum of bytes its unfolding (`BytesUnfold`).

*Only model-checked* are
- liveness under fairness: `ShutdownDrains`, the fairness half of `KeepsContract`,
  `EveryRequestEnds`, `ShutdownReturns`, `ShutdownReachesEverything`,
  `RequestsSettle`, `SessionIsEmptied`, `NewestArrives` and `PressureIsRelieved`, because
  fairness is stated with `ENABLED`, which the provers do not handle;
- the disagreements of section 4, which are counterexamples.

Every invariant and every safety property over steps that a passing run checks
is stated by a theorem.

## 6. What is not modelled

- Exceptions from work are one outcome; their text, logging and diagnostics
  records are left out, and so is a dispatcher or backend that raises from a
  call that is documented not to.
- In `ExecutionRuntime` any eligible job may be taken, which covers every order;
  the order itself is `SchedulerAging`, and a composition of the two is not
  checked.
- The rebinding of a finalizer that was cancelled since the drain peeked at it
  (`runtime.py:295`) happens in `DeferredFinalization` and may cost a place; no
  document promises otherwise, so it is a hazard without a property.
- Autosave of several masks by one manager (they share only the timer) and the
  closing of the registry; previews and gestures, provisional commands, more
  than one layer and clearing a whole history.
- Cache weights are constants and a cache that refuses an entry under a hard cap
  simply does not grow; the release of speculative work is left out.
- The acquisition of a checkpoint, the models themselves and the sizes that the
  SAM manager reports to the cache coordinator.
- Callbacks of the retry controller that submit the same key again from inside
  `rejected`; none of its users does.  A delay that cannot be scheduled
  (`RetrySchedulingError`, `retry.py:192`), after which a request is given up:
  `qt_delay.py` raises it only off the owner's thread, where no user submits.
- The second planning pass of a frame that is not ready to be exact: it asks for
  the keys of the first, which are cached or wait by then, so that `get_tile`
  changes nothing.  A closed scope is released by its parent and by the runtime in
  two critical sections, of which `Unlink` makes one step: only one of the two
  retains it.
- Prefetching of tiles and `remove_tiles_for_asset` (nothing under `src/` but
  tests calls them), retired grids, sizes, and the shutdown of both managers.
  That the outcome of a cancelled generation, which is handled by key, makes the
  next frame generate a payload twice, or marks a complete pyramid cancelled, is
  a behaviour of the models; these are hazards without a property.
- Drawing, viewport geometry, file formats, widgets, and the Rust crates.  They
  are most of the repository by lines and have little state that several actors
  share; see the components in `PROJECT.json`.

## 7. Plan

What is left, in this order:

1. `SchedulerAging` composed with `DefaultBackend`, and `SamSession` composed
   with `CacheBudget`, whose removals it would receive.
2. The retry controller on its own, with callbacks that re-enter it.
3. The resource store and the saved revision of documents.
