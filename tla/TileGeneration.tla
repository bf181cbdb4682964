--------------------------- MODULE TileGeneration ---------------------------
(***************************************************************************)
(* How raster tiles come about: TileManager of qpane/rendering/tiles.py    *)
(* with its RetryController, as the frame planner and the owners of        *)
(* sources use it.  Layers that show the same pixels share one payload:    *)
(* the first key that asks is its representative, the others wait.  All of *)
(* it runs on the Qt owner thread, between two entries of the event queue; *)
(* work ends on other threads and posts its adoption or its outcome there, *)
(* so an outcome is handled long after the handle was cancelled.           *)
(***************************************************************************)
EXTENDS Integers, Sequences, FiniteSets

CONSTANTS
    TileKeys,      \* keys that layers ask for
    Payloads,      \* source payloads
    PayloadOf,     \* _SourceTilePayloadKey.from_layer_key
    NoKey,
    TileHandles,   \* a bound on handles that have not been forgotten
    NoHandle

ASSUME TileAssumption ==
    /\ PayloadOf \in [TileKeys -> Payloads]
    /\ NoKey \notin TileKeys
    /\ IsFiniteSet(TileHandles) /\ NoHandle \notin TileHandles

VARIABLES
    tileCache,      \* _tile_cache
    tileWaiters,    \* _payload_waiters, empty for no entry
    representative, \* _payload_workers
    reserved,       \* the keys of _worker_payload_keys
    tileHandle,     \* _worker_state
    tileRetry,      \* the keys waiting in _tile_retry
    frame,          \* what the planner still asks for, and what is visible
    tileOf,         \* the key a handle generates
    tileWork,       \* where the handle stands
    tileEvents      \* the owner's event queue

bookVars == <<tileWaiters, representative, reserved, tileHandle>>
tileEngineVars == <<tileOf, tileWork, tileEvents>>
TileWork == INSTANCE OwnerDelivery WITH
                Pool <- TileHandles, work <- tileWork, queue <- tileEvents

tileVars == <<tileCache, bookVars, tileRetry, frame, tileEngineVars>>

NoFrame == [on |-> FALSE, asks |-> {}, visible |-> {}]

TileTypeOK ==
    /\ tileCache \subseteq Payloads
    /\ tileWaiters \in [Payloads -> SUBSET TileKeys]
    /\ representative \in [Payloads -> TileKeys \cup {NoKey}]
    /\ reserved \subseteq TileKeys
    /\ tileHandle \in [TileKeys -> TileHandles \cup {NoHandle}]
    /\ tileRetry \subseteq TileKeys
    /\ frame \in [on : BOOLEAN, asks : SUBSET TileKeys, visible : SUBSET TileKeys]
    /\ tileOf \in [TileHandles -> TileKeys \cup {NoKey}]
    /\ TileWork!DeliveryTypeOK
    /\ \A p \in Payloads : \A k \in tileWaiters[p] : PayloadOf[k] = p

TileInit ==
    /\ tileCache = {} /\ tileRetry = {} /\ reserved = {}
    /\ tileWaiters = [p \in Payloads |-> {}]
    /\ representative = [p \in Payloads |-> NoKey]
    /\ tileHandle = [k \in TileKeys |-> NoHandle]
    /\ frame = NoFrame
    /\ tileOf = [h \in TileHandles |-> NoKey]
    /\ TileWork!DeliveryInit

-----------------------------------------------------------------------------
\* The bookkeeping.

\* An attempt to submit: _submit, and the retry when it is refused.
TileAccepted(k) ==
    \E h \in TileHandles :
        /\ TileWork!Submitted(h)
        /\ tileOf' = [tileOf EXCEPT ![h] = k]
        /\ tileHandle' = [tileHandle EXCEPT ![k] = h]
        /\ reserved' = reserved \cup {k}
        /\ representative' = [representative EXCEPT ![PayloadOf[k]] = k]
        /\ tileRetry' = tileRetry \ {k}

TileRefused(k) ==
    /\ reserved' = reserved \ {k}
    /\ representative' = [representative EXCEPT ![PayloadOf[k]] = NoKey]
    /\ tileRetry' = tileRetry \cup {k}
    /\ UNCHANGED <<tileHandle, tileEngineVars>>

TileAttempt(k) == TileAccepted(k) \/ TileRefused(k)

\* Variant: the representative stays.
ForgetButLead(keys) ==
    LET payloads == {PayloadOf[k] : k \in keys} IN
    /\ reserved' = reserved \ keys
    /\ UNCHANGED representative
    /\ tileWaiters' = [p \in Payloads |-> IF p \in payloads THEN {} ELSE tileWaiters[p]]
    /\ tileHandle' = [k \in TileKeys |-> IF k \in keys THEN NoHandle ELSE tileHandle[k]]

\* What the end of a generation, its cancellation and its failure forget; all
\* of it goes by the key, not by the handle.
Forget(keys) ==
    LET payloads == {PayloadOf[k] : k \in keys} IN
    /\ reserved' = reserved \ keys
    /\ representative' = [p \in Payloads |-> IF p \in payloads THEN NoKey ELSE representative[p]]
    /\ tileWaiters' = [p \in Payloads |-> IF p \in payloads THEN {} ELSE tileWaiters[p]]
    /\ tileHandle' = [k \in TileKeys |-> IF k \in keys THEN NoHandle ELSE tileHandle[k]]

Coming(p) == representative[p] # NoKey \/ tileWaiters[p] # {}

\* get_tile
GetTile(k) ==
    LET p == PayloadOf[k] IN
    IF p \in tileCache
    THEN tileRetry' = tileRetry \ {k} /\ UNCHANGED <<bookVars, tileEngineVars>>
    ELSE /\ tileWaiters' = [tileWaiters EXCEPT ![p] = @ \cup {k}]
         /\ IF Coming(p) \/ k \in tileRetry
            THEN UNCHANGED <<representative, reserved, tileHandle, tileRetry, tileEngineVars>>
            ELSE TileAttempt(k)

\* _stop_worker of entries of _worker_state
StopTiles(keys) ==
    /\ Forget(keys)
    /\ TileWork!Cancelled({tileHandle[k] : k \in keys})
    /\ UNCHANGED tileOf

-----------------------------------------------------------------------------
\* The owner thread.  A frame asks for every visible key and then cancels what
\* nobody sees.  A frame that is not ready to be exact is planned once more; by
\* then every key it asks for is cached or waits, and get_tile changes nothing.

PlanFrame(visible) ==
    /\ ~frame.on
    /\ frame' = [on |-> TRUE, asks |-> visible, visible |-> visible]
    /\ UNCHANGED <<tileCache, bookVars, tileRetry, tileEngineVars>>

AskForTile(k) ==
    /\ frame.on /\ k \in frame.asks
    /\ frame' = [frame EXCEPT !.asks = @ \ {k}]
    /\ GetTile(k)
    /\ UNCHANGED tileCache

\* Those who would be told when the generation that k leads, or the retry of k,
\* had a tile.
AudienceOfWork(k) ==
    IF k \in reserved /\ tileWaiters[PayloadOf[k]] # {} THEN tileWaiters[PayloadOf[k]] ELSE {k}
AudienceOfRetry(waiters, k) ==
    IF waiters[PayloadOf[k]] # {} THEN waiters[PayloadOf[k]] ELSE {k}

\* cancel_invisible_workers
CancelInvisible ==
    LET hidden == {k \in TileKeys : tileHandle[k] # NoHandle
                                    /\ AudienceOfWork(k) \cap frame.visible = {}}
    IN  /\ frame.on /\ frame.asks = {}
        /\ frame' = NoFrame
        /\ StopTiles(hidden)
        /\ tileRetry' = {k \in tileRetry \ hidden :
               AudienceOfRetry(tileWaiters', k) \cap frame.visible # {}}
        /\ UNCHANGED tileCache

\* A retry's delay is over.
RetryTile(k) ==
    /\ ~frame.on /\ k \in tileRetry
    /\ TileAttempt(k)
    /\ UNCHANGED <<tileCache, tileWaiters, frame>>

\* remove_tiles_for_source_asset: an owner discards the source, or a frame finds
\* a newer revision of it.
RemoveSourceTiles(p) ==
    LET mine == {k \in TileKeys : PayloadOf[k] = p}
    IN  /\ mine \cap frame.visible = {}
        /\ tileCache' = tileCache \ {p}
        /\ tileRetry' = tileRetry \ mine
        /\ StopTiles({k \in mine : tileHandle[k] # NoHandle})
        /\ UNCHANGED frame

\* clear_caches, which a new grid calls
ClearTiles ==
    /\ ~frame.on
    /\ tileCache' = {} /\ tileRetry' = {}
    /\ Forget(TileKeys)
    /\ TileWork!Cancelled(TileHandles)
    /\ UNCHANGED <<frame, tileOf>>

\* A batch of _evict_cache_batch
EvictTiles(some) ==
    /\ ~frame.on
    /\ some # {} /\ some \subseteq tileCache
    /\ tileCache' = tileCache \ some
    /\ UNCHANGED <<bookVars, tileRetry, frame, tileEngineVars>>

\* _on_tile_generated; the cache may not admit the tile.
AdoptTile(h) ==
    LET k == tileOf[h] IN
    /\ TileWork!Adopting(h)
    /\ Forget({k})
    /\ tileRetry' = tileRetry \ {k}
    /\ tileCache' \in {tileCache, tileCache \cup {PayloadOf[k]}}
    /\ tileOf' = [tileOf EXCEPT ![h] = NoKey]

\* _on_tile_outcome of a cancelled or failed generation
TileOutcome(h) ==
    /\ TileWork!Hearing(h)
    /\ Forget({tileOf[h]})
    /\ tileRetry' = tileRetry \ {tileOf[h]}
    /\ tileOf' = [tileOf EXCEPT ![h] = NoKey]
    /\ UNCHANGED tileCache

\* Work that returns or ends, and a result that comes too late.
TileElsewhere(h) ==
    /\ \/ TileWork!Returns(h)
       \/ TileWork!Ends(h)
       \/ ~frame.on /\ TileWork!Dropping(h)
    /\ UNCHANGED <<tileCache, bookVars, tileRetry, frame, tileOf>>

TileNext ==
    \/ \E visible \in SUBSET TileKeys : PlanFrame(visible)
    \/ \E k \in TileKeys : AskForTile(k) \/ RetryTile(k)
    \/ CancelInvisible
    \/ \E p \in Payloads : RemoveSourceTiles(p)
    \/ \E some \in SUBSET Payloads : EvictTiles(some)
    \/ ClearTiles
    \/ \E h \in TileHandles :
        \/ TileElsewhere(h)
        \/ ~frame.on /\ (AdoptTile(h) \/ TileOutcome(h)) /\ UNCHANGED frame

TileSpec == TileInit /\ [][TileNext]_tileVars

-----------------------------------------------------------------------------
\* Work for a payload that has not been heard of yet, or will be tried again.
UnderWay(p) ==
    \/ \E h \in TileHandles : TileWork!Unheard(h) /\ PayloadOf[tileOf[h]] = p
    \/ \E k \in tileRetry : PayloadOf[k] = p

\* Nothing is left behind by a generation that is over: a representative,
\* whose payload nobody else may generate, and every reservation and handle
\* that is kept belongs to work that the owner has still to hear of, in
\* whatever order cancellations, late outcomes and new requests meet.
ReservationsEnd ==
    /\ \A p \in Payloads : representative[p] # NoKey =>
        \E h \in TileHandles : TileWork!Unheard(h) /\ PayloadOf[tileOf[h]] = p
    /\ \A k \in TileKeys : tileHandle[k] # NoHandle =>
        TileWork!Unheard(tileHandle[k]) /\ tileOf[tileHandle[k]] = k
    /\ reserved \subseteq {tileOf[h] : h \in {g \in TileHandles : TileWork!Unheard(g)}}

\* get_tile says that it returns None if generation is pending: a tile that
\* was asked for and is not there is being generated or will be tried again.
NoneMeansPending ==
    [][\A k \in frame.asks \ frame'.asks :
        PayloadOf[k] \in tileCache \/ UnderWay(PayloadOf[k])']_tileVars

=============================================================================
