---------------------------- MODULE MaskAutosave ----------------------------
(***************************************************************************)
(* Debounced persistence of one mask by the autosave managers of the views *)
(* on one document: AutosaveManager (cutecanvas/masks/autosave.py), the    *)
(* freshness registry it shares with the other views                       *)
(* (runtime/latest_requests.py), the retry of refused submissions          *)
(* (qpane/execution/retry.py) and the worker that writes the file          *)
(* (masks/autosave_products.py).                                           *)
(*                                                                         *)
(* The contents of the mask are a version number: every edit makes the     *)
(* next one and version 0 is blank.  The managers run on the owner thread, *)
(* so a handler is one action; a save is a sequence of worker steps that   *)
(* interleave with them.  A manager hands the worker a function that reads *)
(* the live pixels without a lock, so the worker reads the mask in two     *)
(* steps and what an edit in between makes of them is torn.                *)
(***************************************************************************)
EXTENDS Integers, Sequences, FiniteSets

CONSTANTS
    Managers,           \* one autosave manager per mounted view
    CreationAutosave,   \* mask_autosave_on_creation
    MaxEdits,           \* bounds the versions of the contents
    MaxRequests,        \* bounds the saves that are begun
    MaxRejections,      \* bounds the submissions the backend refuses
    MaxFailures,        \* bounds the file errors
    MaxWithdrawals      \* bounds cancelPendingMask

ASSUME SaveAssumption ==
    CreationAutosave \in BOOLEAN /\ MaxEdits \in Nat /\ MaxRequests \in Nat

VARIABLES
    content,      \* the version of the mask
    file,         \* what the destination file holds
    dirty,        \* _dirty_masks_for_autosave has the mask, by manager
    timer,        \* the debounce timer is running, by manager
    requestId,    \* _request_ids of the mask, by manager; 0: none
    current,      \* the registry's entry for the mask; 0: none
    retry,        \* the request a delayed retry resubmits, by manager and stage
    task,         \* the requests in the order they were begun
    open,         \* the managers not shut down
    announced,    \* the newest version saveCompleted was emitted for
    budget        \* rejections, failures and withdrawals so far

vars == <<content, file, dirty, timer, requestId, current, retry, task, open,
          announced, budget>>
worker == <<dirty, timer, requestId, current, retry, open, announced, content>>

Stages  == {"encode", "save"}
Phases  == {"waiting", "pending", "reading", "writing", "replacing", "settled",
            "delivered"}
NoFile  == [version |-> -1, torn |-> FALSE]
NoRetry == [s \in Stages |-> 0]

Requests == DOMAIN task
Working  == {r \in Requests : task[r].phase \in {"reading", "writing", "replacing"}}
Unused(kind, limit) == budget[kind] < limit
Spend(kind) == budget' = [budget EXCEPT ![kind] = @ + 1]

Init ==
    /\ content = 0 /\ file = NoFile
    /\ dirty = [m \in Managers |-> FALSE] /\ timer = [m \in Managers |-> FALSE]
    /\ requestId = [m \in Managers |-> 0] /\ current = 0
    /\ retry = [m \in Managers |-> NoRetry]
    /\ task = <<>> /\ open = Managers /\ announced = -1
    /\ budget = [rejected |-> 0, failed |-> 0, withdrawn |-> 0]
-----------------------------------------------------------------------------
(* _cancel_local_request: the handles a manager still tracks are cancelled *)
(* and its delayed retries are dropped.                                    *)
Revoked(t) ==
    CASE ~t.tracked -> t
      [] t.tracked /\ t.phase = "pending" ->
            [t EXCEPT !.tracked = FALSE, !.phase = "settled", !.outcome = "cancelled"]
      [] OTHER -> [t EXCEPT !.tracked = FALSE, !.cancelled = (t.phase # "settled")]
TasksWithout(losers) ==
    [r \in Requests |-> IF task[r].owner \in losers THEN Revoked(task[r]) ELSE task[r]]
\* Variant: the delayed retry of a superseded request is kept.
RetryKept(losers) == retry

RetryWithout(losers) ==
    [m \in Managers |-> IF m \in losers THEN NoRetry ELSE retry[m]]

(* The manager whose cancellation callback finds that it still owns the    *)
(* registry's entry (_cancel_request).                                     *)
Superseded == {m \in Managers : current # 0 /\ requestId[m] = current}

NewRequest(m, stage) ==
    [owner |-> m, stage |-> stage, phase |-> "waiting", tracked |-> FALSE,
     blank |-> (stage = "encode"), cancelled |-> FALSE, outcome |-> "none",
     version |-> 0, torn |-> FALSE]

(* RetryController.submit_or_coalesce and _attempt: a submission joins the *)
(* delayed retry of its key, or is accepted, or is refused, which retains  *)
(* it.  A refusal marks the mask dirty, and so does a save that joins      *)
(* (_report_rejection, _mark_coalesced); "was" is the mark before.         *)
Offer(ts, rt, was, r, accepted) ==
    LET m == ts[r].owner
        s == ts[r].stage
        joins == rt[m][s] # 0
    IN  /\ accepted \/ (~joins /\ Unused("rejected", MaxRejections))
        /\ IF accepted THEN UNCHANGED budget ELSE Spend("rejected")
        /\ task' = CASE joins -> [ts EXCEPT ![rt[m][s]].blank = ts[r].blank]
                     [] ~joins /\ accepted ->
                            [ts EXCEPT ![r].phase = "pending", ![r].tracked = TRUE]
                     [] OTHER -> ts
        /\ retry' = IF accepted THEN rt ELSE [rt EXCEPT ![m][s] = r]
        /\ dirty' = [dirty EXCEPT ![m] = was \/ ~accepted \/ (joins /\ s = "save")]

(* _begin_request, then _queue_save or _queue_blank_encode. *)
Begin(m, stage, was, accepted) ==
    LET r == Len(task) + 1 IN
    /\ r <= MaxRequests
    /\ current' = r
    /\ requestId' = [n \in Managers |-> IF n = m THEN r
                                        ELSE IF n \in Superseded THEN 0
                                        ELSE requestId[n]]
    /\ Offer(Append(TasksWithout(Superseded), NewRequest(m, stage)),
             RetryWithout(Superseded), was, r, accepted)
-----------------------------------------------------------------------------
(* Handlers of the owner thread. *)

(* An edit through one view, and the scheduleSave it signals there. *)
Edit(m) ==
    /\ content < MaxEdits /\ m \in open
    /\ content' = content + 1
    /\ dirty' = [dirty EXCEPT ![m] = TRUE] /\ timer' = [timer EXCEPT ![m] = TRUE]
    /\ UNCHANGED <<file, requestId, current, retry, task, open, announced, budget>>

(* The debounce timer fires: performSave, saveMaskToPath. *)
PerformSave(m, accepted) ==
    /\ timer[m] /\ timer' = [timer EXCEPT ![m] = FALSE]
    /\ UNCHANGED <<content, file, open, announced>>
    /\ \/ /\ dirty[m]
          /\ Begin(m, "save", FALSE, accepted)
       \/ /\ ~dirty[m] /\ accepted
          /\ UNCHANGED <<dirty, requestId, current, retry, task, budget>>

(* active_mask_properties_changed: saveBlankMask. *)
SaveBlank(m, accepted) ==
    /\ CreationAutosave /\ m \in open /\ file = NoFile
    /\ Begin(m, "encode", dirty[m], accepted)
    /\ UNCHANGED <<content, file, timer, open, announced>>

(* The delay of a refused submission ends. *)
RetryFires(m, stage, accepted) ==
    /\ retry[m][stage] # 0
    /\ Offer(task, [retry EXCEPT ![m][stage] = 0], dirty[m], retry[m][stage], accepted)
    /\ UNCHANGED <<content, file, timer, requestId, current, open, announced>>

(* cancelPendingMask and shutdown give up the request of one manager. *)
GiveUp(m) ==
    /\ current' = IF m \in Superseded THEN 0 ELSE current
    /\ requestId' = [requestId EXCEPT ![m] = 0]
    /\ task' = TasksWithout({m}) /\ retry' = RetryWithout({m})

CancelPendingMask(m) ==
    /\ m \in open /\ Unused("withdrawn", MaxWithdrawals) /\ Spend("withdrawn")
    /\ GiveUp(m)
    /\ dirty' = [dirty EXCEPT ![m] = FALSE]
    /\ UNCHANGED <<content, file, timer, open, announced>>

Shutdown(m) ==
    /\ m \in open /\ Unused("withdrawn", MaxWithdrawals) /\ Spend("withdrawn")
    /\ GiveUp(m)
    /\ timer' = [timer EXCEPT ![m] = FALSE] /\ open' = open \ {m}
    /\ UNCHANGED <<content, file, dirty, announced>>
-----------------------------------------------------------------------------
(* The worker: save_mask_payload and encode_blank_mask. *)
\* Variant: the outcome is written where the phase belongs.
SettleSwapped(r, outcome) ==
    task' = [task EXCEPT ![r].phase = outcome, ![r].outcome = "settled"]

Settle(r, outcome) ==
    task' = [task EXCEPT ![r].phase = "settled", ![r].outcome = outcome]
ToPhase(r, from, to) ==
    /\ task[r].phase = from
    /\ task' = [task EXCEPT ![r].phase = to]

\* Variant: saves of one mask do not exclude each other.
KeyUnused(r) == TRUE

(* A save needs the exclusive key of the mask, which its worker holds. *)
KeyFree(r) ==
    task[r].stage = "save" => \A s \in Working \ {r} : task[s].stage = "encode"
Start(r) ==
    /\ task[r].phase = "pending" /\ KeyFree(r)
    /\ task' = [task EXCEPT ![r].phase = "reading",
                            ![r].version = IF task[r].blank THEN 0 ELSE content]
    /\ UNCHANGED <<worker, file, budget>>

(* The live pixels are read tile by tile: an edit since Start tears them.  *)
FinishRead(r) ==
    /\ task[r].phase = "reading" /\ task[r].stage = "save"
    /\ \E torn \in {FALSE, ~task[r].blank /\ content # task[r].version} :
          task' = [task EXCEPT ![r].phase = "writing", ![r].torn = torn]
    /\ UNCHANGED <<worker, file, budget>>

FinishEncode(r) ==
    /\ task[r].phase = "reading" /\ task[r].stage = "encode"
    /\ Settle(r, IF task[r].cancelled THEN "cancelled" ELSE "succeeded")
    /\ UNCHANGED <<worker, file, budget>>

(* The last cancellation check before os.replace. *)
CheckCancelled(r) ==
    /\ \/ task[r].cancelled /\ task[r].phase = "writing" /\ Settle(r, "cancelled")
       \/ ~task[r].cancelled /\ ToPhase(r, "writing", "replacing")
    /\ UNCHANGED <<worker, file, budget>>

Replace(r) ==
    /\ task[r].phase = "replacing"
    /\ file' = [version |-> task[r].version, torn |-> task[r].torn]
    /\ Settle(r, IF task[r].cancelled THEN "cancelled" ELSE "succeeded")
    /\ UNCHANGED <<worker, budget>>

Fail(r) ==
    /\ r \in Working /\ Unused("failed", MaxFailures) /\ Spend("failed")
    /\ Settle(r, "failed")
    /\ UNCHANGED <<worker, file>>
-----------------------------------------------------------------------------
(* Done callbacks, on the owner thread. *)
IsCurrent(r) == requestId[task[r].owner] = r /\ current = r
\* Variant: the manager forgets its request and the registry keeps it.
ReleaseLocally(r) ==
    /\ requestId' = [requestId EXCEPT ![task[r].owner] = 0]
    /\ UNCHANGED current

Release(r) ==
    /\ requestId' = [requestId EXCEPT ![task[r].owner] = 0]
    /\ current' = 0
\* Nothing reads a delivered handle again.
Delivered(r) ==
    task' = [task EXCEPT ![r] =
                [NewRequest(@.owner, "save") EXCEPT !.phase = "delivered"]]

CallbackStale(r) ==
    /\ task[r].phase = "settled" /\ ~IsCurrent(r)
    /\ Delivered(r)
    /\ UNCHANGED <<worker, file, budget>>

(* _finish_blank_encode *)
CallbackEncode(r, accepted) ==
    /\ task[r].phase = "settled" /\ IsCurrent(r) /\ task[r].stage = "encode"
    /\ \/ /\ task[r].outcome = "succeeded"
          /\ Offer([task EXCEPT ![r].stage = "save", ![r].phase = "waiting",
                                ![r].tracked = FALSE], retry, dirty[task[r].owner], r, accepted)
          /\ UNCHANGED <<requestId, current>>
       \/ /\ task[r].outcome = "failed" /\ accepted
          /\ Release(r) /\ Delivered(r)
          /\ UNCHANGED <<dirty, retry, budget>>
    /\ UNCHANGED <<content, file, timer, open, announced>>

\* Variant: saveCompleted is emitted whatever the outcome.
CallbackSaveAnnouncing(r) ==
    /\ task[r].phase = "settled" /\ IsCurrent(r) /\ task[r].stage = "save"
    /\ Release(r) /\ Delivered(r)
    /\ dirty' = [dirty EXCEPT ![task[r].owner] = (task[r].outcome = "failed")]
    /\ announced' = task[r].version
    /\ UNCHANGED <<content, file, timer, retry, open, budget>>

(* _finish_save: a failure marks the mask dirty, a success clears it. *)
CallbackSave(r) ==
    /\ task[r].phase = "settled" /\ IsCurrent(r) /\ task[r].stage = "save"
    /\ Release(r) /\ Delivered(r)
    /\ dirty' = [dirty EXCEPT ![task[r].owner] = (task[r].outcome = "failed")]
    /\ announced' = IF task[r].outcome = "succeeded" THEN task[r].version ELSE announced
    /\ UNCHANGED <<content, file, timer, retry, open, budget>>
-----------------------------------------------------------------------------
Owner ==
    \/ \E m \in Managers : Edit(m) \/ CancelPendingMask(m) \/ Shutdown(m)
    \/ \E m \in Managers, accepted \in BOOLEAN : SaveBlank(m, accepted)
TimerOf(m) == \E accepted \in BOOLEAN : PerformSave(m, accepted)
DelayOf(m) == \E stage \in Stages, accepted \in BOOLEAN : RetryFires(m, stage, accepted)
WorkerOf(r) ==
    /\ r \in Requests
    /\ \/ Start(r) \/ FinishRead(r) \/ FinishEncode(r)
       \/ CheckCancelled(r) \/ Replace(r) \/ Fail(r)
CallbackOf(r) ==
    /\ r \in Requests
    /\ \/ CallbackStale(r)
       \/ \E accepted \in BOOLEAN : CallbackEncode(r, accepted)
       \/ CallbackSave(r)

Next ==
    \/ Owner
    \/ \E m \in Managers : TimerOf(m) \/ DelayOf(m)
    \/ \E r \in 1..MaxRequests : WorkerOf(r) \/ CallbackOf(r)

(* The event loop delivers timers, delays and callbacks, and the pool runs *)
(* what it accepted.  Nothing makes anyone edit or cancel.                 *)
Spec == Init /\ [][Next]_vars
FairSpec ==
    /\ Spec
    /\ \A m \in Managers : WF_vars(TimerOf(m)) /\ WF_vars(DelayOf(m))
    /\ \A r \in 1..MaxRequests : WF_vars(WorkerOf(r)) /\ WF_vars(CallbackOf(r))
-----------------------------------------------------------------------------
(* Every variable has its type. *)
TypeOK ==
    /\ content \in 0..MaxEdits
    /\ file \in [version : -1..MaxEdits, torn : BOOLEAN]
    /\ dirty \in [Managers -> BOOLEAN] /\ timer \in [Managers -> BOOLEAN]
    /\ requestId \in [Managers -> 0..MaxRequests] /\ current \in 0..MaxRequests
    /\ retry \in [Managers -> [Stages -> 0..MaxRequests]]
    /\ \A r \in Requests :
          task[r] \in [owner : Managers, stage : Stages, phase : Phases,
                       tracked : BOOLEAN, blank : BOOLEAN, cancelled : BOOLEAN,
                       outcome : {"none", "succeeded", "failed", "cancelled"},
                       version : 0..MaxEdits, torn : BOOLEAN]
    /\ open \subseteq Managers /\ announced \in -1..MaxEdits

(* Whatever saves of however many views overlap, are cancelled late or are *)
(* retried, contents never give way to older contents: the exclusive key   *)
(* holds back a newer save until a cancelled one that passed its last      *)
(* check has replaced the file.                                            *)
FileNeverGoesBack == [][file'.version = 0 \/ file'.version >= file.version]_file

(* The registry and the managers agree on who owns the mask, and whatever  *)
(* is still tracked or retried belongs to that owner's request: a view     *)
(* that lost the mask keeps no work alive, and no retry outlives its       *)
(* request to be coalesced with a later one.                               *)
FreshnessAgrees ==
    /\ \A m \in Managers : requestId[m] # 0 => requestId[m] = current
    /\ current # 0 => requestId[task[current].owner] = current
    /\ \A r \in Requests : task[r].tracked => r = current
    /\ \A m \in Managers, s \in Stages : retry[m][s] # 0 => retry[m][s] = current

(* saveCompleted is emitted only while the file holds the very contents it *)
(* was emitted for: an owner that is still current was not overwritten.    *)
CompletedIsOnDisk == [][file.version = announced']_announced

(* Every request that claims the mask lets go of it, by an outcome, a      *)
(* retry that is accepted in the end, or a newer request.                  *)
EveryRequestEnds == \A r \in 1..MaxRequests : (current = r) ~> (current # r)

(* What the documentation promises of the debounce: once every timer, save *)
(* and retry is over, nothing failed and nobody cancelled, the file holds  *)
(* the last change.                                                        *)
AtRest ==
    /\ \A m \in Managers : ~timer[m] /\ requestId[m] = 0
    /\ \A r \in Requests : task[r].phase = "delivered"
    /\ budget.failed = 0 /\ budget.withdrawn = 0
LastChangeSaved ==
    AtRest /\ content > 0 => file = [version |-> content, torn |-> FALSE]

(* Creation autosave never replaces contents that were saved before. *)
BlankNeverOverwrites == [][file.version > 0 => file'.version > 0]_file
=============================================================================
