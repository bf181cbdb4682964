-------------------------- MODULE OwnerParts_proofs --------------------------
(***************************************************************************)
(* The components on the owner thread, which share no state: the tiles of  *)
(* a viewport, the pyramids of its sources and the saves of a mask, each   *)
(* for every value of its constants, and at last all that live on it, the  *)
(* edit history included, as one system.                                   *)
(***************************************************************************)
EXTENDS OwnerPartsMC, EditHistory_proofs, SequenceTheorems, TLAPS

-----------------------------------------------------------------------------
(* TileGeneration: no representative, reservation or handle of a tile      *)
(* outlives the work it stands for.                                        *)

TileFacts == INSTANCE OwnerDelivery_proofs WITH
             Pool <- TileHandles, work <- tileWork, queue <- tileEvents

\* The part of the type invariant that the argument needs.
BooksOK ==
    /\ representative \in [Payloads -> TileKeys \cup {NoKey}]
    /\ tileHandle \in [TileKeys -> TileHandles \cup {NoHandle}]
    /\ tileOf \in [TileHandles -> TileKeys \cup {NoKey}]
    /\ tileWork \in [TileHandles -> {"free", "working", "doomed", "delivering", "ended"}]
    /\ reserved \subseteq TileKeys
    /\ tileRetry \subseteq TileKeys

\* A handle whose end the owner has not heard of was submitted for a key.
TileHandlesInv == \A h \in TileHandles : TileWork!Unheard(h) => tileOf[h] \in TileKeys

LeadersInv ==
    \A p \in Payloads : representative[p] # NoKey =>
        \E h \in TileHandles : TileWork!Unheard(h) /\ PayloadOf[tileOf[h]] = p

WorkersInv ==
    \A k \in TileKeys : tileHandle[k] # NoHandle =>
        TileWork!Unheard(tileHandle[k]) /\ tileOf[tileHandle[k]] = k

ReservedInv ==
    \A k \in reserved : \E h \in TileHandles : TileWork!Unheard(h) /\ tileOf[h] = k

TileInv == TileFacts!DeliveryInv /\ BooksOK /\ TileHandlesInv /\ LeadersInv /\ WorkersInv /\ ReservedInv

\* The marks are no keys and no handles, and every key has a payload.
LEMMA NamesAreDistinct ==
    /\ NoKey \notin TileKeys /\ NoHandle \notin TileHandles
    /\ \A k \in TileKeys : PayloadOf[k] \in Payloads
  BY TileAssumption DEF TileAssumption

\* The engine of the facts is the one of the tile manager.
LEMMA TileSameEngine ==
    /\ TileWork!DeliveryInit <=> TileFacts!DeliveryInit
    /\ \A h : /\ TileWork!Submitted(h) <=> TileFacts!Submitted(h)
              /\ TileWork!Returns(h) <=> TileFacts!Returns(h)
              /\ TileWork!Ends(h) <=> TileFacts!Ends(h)
              /\ TileWork!Adopting(h) <=> TileFacts!Adopting(h)
              /\ TileWork!Dropping(h) <=> TileFacts!Dropping(h)
              /\ TileWork!Hearing(h) <=> TileFacts!Hearing(h)
    /\ \A handles : TileWork!Cancelled(handles) <=> TileFacts!Cancelled(handles)
<1>1. TileWork!DeliveryInit <=> TileFacts!DeliveryInit
  BY DEF TileWork!DeliveryInit, TileFacts!DeliveryInit
<1>2. ASSUME NEW h PROVE TileWork!Submitted(h) <=> TileFacts!Submitted(h)
  BY DEF TileWork!Submitted, TileFacts!Submitted, TileWork!Free, TileFacts!Free
<1>3. ASSUME NEW h PROVE TileWork!Returns(h) <=> TileFacts!Returns(h)
  BY DEF TileWork!Returns, TileFacts!Returns, TileWork!Event, TileFacts!Event
<1>4. ASSUME NEW h PROVE TileWork!Ends(h) <=> TileFacts!Ends(h)
  BY DEF TileWork!Ends, TileFacts!Ends, TileWork!Event, TileFacts!Event
<1>5. ASSUME NEW h PROVE TileWork!Adopting(h) <=> TileFacts!Adopting(h)
  BY DEF TileWork!Adopting, TileFacts!Adopting, TileWork!Event, TileFacts!Event
<1>6. ASSUME NEW h PROVE TileWork!Dropping(h) <=> TileFacts!Dropping(h)
  BY DEF TileWork!Dropping, TileFacts!Dropping, TileWork!Event, TileFacts!Event
<1>7. ASSUME NEW h PROVE TileWork!Hearing(h) <=> TileFacts!Hearing(h)
  BY DEF TileWork!Hearing, TileFacts!Hearing, TileWork!Event, TileFacts!Event
<1>8. ASSUME NEW handles PROVE TileWork!Cancelled(handles) <=> TileFacts!Cancelled(handles)
  <2>1. \A s : TileWork!SetToSeqs(s) = TileFacts!SetToSeqs(s)
    BY DEF TileWork!SetToSeqs, TileFacts!SetToSeqs, TileWork!Cardinality, TileFacts!Cardinality
  <2>2. \A h, kind : TileWork!Event(h, kind) = TileFacts!Event(h, kind)
    BY DEF TileWork!Event, TileFacts!Event
  <2> QED
    BY <2>1, <2>2, Zenon DEF TileWork!Cancelled, TileFacts!Cancelled
<1> QED
  BY <1>1, <1>2, <1>3, <1>4, <1>5, <1>6, <1>7, <1>8

\* A step that leaves the engine alone leaves the facts about it alone.
LEMMA TileEngineUnchanged ==
    ASSUME TileFacts!DeliveryInv, UNCHANGED <<tileWork, tileEvents>>
    PROVE  TileFacts!DeliveryInv'
  BY DEF TileFacts!DeliveryInv, TileFacts!IsOutcome

\* Initially nobody works.
LEMMA InitTileInv == TileInit => TileInv
<1>1. TileInit => TileFacts!DeliveryInv
  BY TileSameEngine, TileFacts!DeliveryBegins DEF TileInit
<1> QED
  BY <1>1, NamesAreDistinct
  DEF TileInit, TileInv, BooksOK, TileHandlesInv, LeadersInv, WorkersInv, ReservedInv,
      TileWork!DeliveryInit, TileWork!Unheard, TileWork!Free

-----------------------------------------------------------------------------
\* Forgetting keys, while every handle of another key that was waited for still
\* is, leaves nothing behind.
LEMMA ForgettingKeepsBooks ==
    ASSUME TileInv, NEW keys \in SUBSET TileKeys, Forget(keys),
           tileOf' \in [TileHandles -> TileKeys \cup {NoKey}],
           tileWork' \in [TileHandles -> {"free", "working", "doomed", "delivering", "ended"}],
           tileRetry' \subseteq TileKeys, TileHandlesInv',
           \A h \in TileHandles : TileWork!Unheard(h) /\ tileOf[h] \notin keys =>
              TileWork!Unheard(h)' /\ tileOf'[h] = tileOf[h]
    PROVE  BooksOK' /\ LeadersInv' /\ WorkersInv' /\ ReservedInv'
<1> USE NamesAreDistinct
<1> DEFINE payloads == {PayloadOf[k] : k \in keys}
<1>1. /\ reserved' = reserved \ keys
      /\ representative' = [p \in Payloads |-> IF p \in payloads THEN NoKey ELSE representative[p]]
      /\ tileHandle' = [k \in TileKeys |-> IF k \in keys THEN NoHandle ELSE tileHandle[k]]
  BY DEF Forget
<1>2. BooksOK'
  BY <1>1 DEF TileInv, BooksOK
<1>3. LeadersInv'
  <2> SUFFICES ASSUME NEW p \in Payloads, representative'[p] # NoKey
               PROVE  \E h \in TileHandles : TileWork!Unheard(h)' /\ PayloadOf[tileOf'[h]] = p
    BY DEF LeadersInv
  <2>1. p \notin payloads /\ representative[p] # NoKey
    BY <1>1
  <2>2. PICK h \in TileHandles : TileWork!Unheard(h) /\ PayloadOf[tileOf[h]] = p
    BY <2>1 DEF TileInv, LeadersInv
  <2>3. tileOf[h] \notin keys
    BY <2>1, <2>2
  <2>4. TileWork!Unheard(h)' /\ tileOf'[h] = tileOf[h]
    BY <2>2, <2>3 DEF TileWork!Unheard, TileWork!Free
  <2> QED
    BY <2>2, <2>4
<1>4. WorkersInv'
  <2> SUFFICES ASSUME NEW k \in TileKeys, tileHandle'[k] # NoHandle
               PROVE  tileWork'[tileHandle'[k]] # "free" /\ tileOf'[tileHandle'[k]] = k
    BY DEF WorkersInv, TileWork!Unheard, TileWork!Free
  <2>1. k \notin keys /\ tileHandle'[k] = tileHandle[k] /\ tileHandle[k] \in TileHandles
    BY <1>1 DEF TileInv, BooksOK
  <2>2. TileWork!Unheard(tileHandle[k]) /\ tileOf[tileHandle[k]] = k
    BY <2>1 DEF TileInv, WorkersInv
  <2> QED
    BY <2>1, <2>2 DEF TileWork!Unheard, TileWork!Free
<1>5. ReservedInv'
  <2> SUFFICES ASSUME NEW k \in reserved'
               PROVE  \E h \in TileHandles : TileWork!Unheard(h)' /\ tileOf'[h] = k
    BY DEF ReservedInv
  <2>1. k \in reserved /\ k \notin keys
    BY <1>1
  <2>2. PICK h \in TileHandles : TileWork!Unheard(h) /\ tileOf[h] = k
    BY <2>1 DEF TileInv, ReservedInv
  <2>3. TileWork!Unheard(h)' /\ tileOf'[h] = tileOf[h]
    BY <2>1, <2>2 DEF TileWork!Unheard, TileWork!Free
  <2> QED
    BY <2>2, <2>3
<1> QED
  BY <1>2, <1>3, <1>4, <1>5

\* Cancelling frees no handle and gives none away.
LEMMA StoppingKeepsTileInv ==
    ASSUME TileInv, NEW keys \in SUBSET TileKeys, NEW handles \in SUBSET TileHandles,
           Forget(keys), TileWork!Cancelled(handles), UNCHANGED tileOf,
           tileRetry' \subseteq TileKeys
    PROVE  TileInv'
<1>1. PICK begun \in SUBSET {h \in handles : tileWork[h] = "working"} :
        tileWork' =
          [h \in TileHandles |->
            IF h \in begun THEN "doomed"
            ELSE IF h \in {g \in handles : tileWork[g] \in {"working", "delivering"}} \ begun
                 THEN "ended" ELSE tileWork[h]]
  BY DEF TileWork!Cancelled
<1>2. /\ tileWork' \in [TileHandles -> {"free", "working", "doomed", "delivering", "ended"}]
      /\ \A h \in TileHandles : TileWork!Unheard(h)' <=> TileWork!Unheard(h)
  BY <1>1 DEF TileInv, BooksOK, TileWork!Unheard, TileWork!Free
<1>3. TileHandlesInv'
  BY <1>2 DEF TileInv, TileHandlesInv
<1>4. BooksOK' /\ LeadersInv' /\ WorkersInv' /\ ReservedInv'
  BY <1>2, <1>3, ForgettingKeepsBooks DEF TileInv, BooksOK
<1>5. TileFacts!DeliveryInv'
  <2>1. TileFacts!Cancelled(handles)
    BY TileSameEngine
  <2>2. TileFacts!IsFiniteSet(TileHandles)
    BY TileAssumption DEF TileAssumption, IsFiniteSet, TileFacts!IsFiniteSet
  <2>3. TileFacts!DeliveryInv
    BY DEF TileInv
  <2> QED
    BY <2>1, <2>2, <2>3, TileFacts!CancelledKeeps
<1> QED
  BY <1>3, <1>4, <1>5 DEF TileInv

\* An attempt to submit gives a free handle away, or gives the payload up.
LEMMA AttemptKeepsTileInv ==
    ASSUME TileInv, NEW k \in TileKeys, TileAttempt(k)
    PROVE  TileInv'
<1> USE NamesAreDistinct
<1>1. CASE TileAccepted(k)
  <2>1. PICK h \in TileHandles :
        /\ TileWork!Submitted(h) /\ tileWork[h] = "free"
        /\ tileWork' = [tileWork EXCEPT ![h] = "working"]
        /\ tileOf' = [tileOf EXCEPT ![h] = k]
        /\ tileHandle' = [tileHandle EXCEPT ![k] = h]
        /\ reserved' = reserved \cup {k}
        /\ representative' = [representative EXCEPT ![PayloadOf[k]] = k]
        /\ tileRetry' = tileRetry \ {k}
    BY <1>1 DEF TileAccepted, TileWork!Submitted, TileWork!Free
  <2>2. BooksOK'
    BY <2>1 DEF TileInv, BooksOK
  <2>3. /\ TileWork!Unheard(h)' /\ tileOf'[h] = k /\ ~TileWork!Unheard(h)
        /\ \A g \in TileHandles : TileWork!Unheard(g) => TileWork!Unheard(g)' /\ tileOf'[g] = tileOf[g]
        /\ \A g \in TileHandles \ {h} : TileWork!Unheard(g)' => TileWork!Unheard(g) /\ tileOf'[g] = tileOf[g]
    BY <2>1 DEF TileInv, BooksOK, TileWork!Unheard, TileWork!Free
  <2>4. TileHandlesInv'
    BY <2>3 DEF TileInv, TileHandlesInv
  <2>5. LeadersInv'
    <3> SUFFICES ASSUME NEW p \in Payloads, representative'[p] # NoKey
                 PROVE  \E g \in TileHandles : TileWork!Unheard(g)' /\ PayloadOf[tileOf'[g]] = p
      BY DEF LeadersInv
    <3>1. CASE p = PayloadOf[k]
      BY <2>3, <3>1
    <3>2. CASE p # PayloadOf[k]
      <4>1. PICK g \in TileHandles : TileWork!Unheard(g) /\ PayloadOf[tileOf[g]] = p
        BY <2>1, <3>2 DEF TileInv, BooksOK, LeadersInv
      <4>2. TileWork!Unheard(g)' /\ tileOf'[g] = tileOf[g]
        BY <2>3, <4>1 DEF TileWork!Unheard, TileWork!Free
      <4> QED
        BY <4>1, <4>2
    <3> QED
      BY <3>1, <3>2
  <2>6. WorkersInv'
    <3> SUFFICES ASSUME NEW l \in TileKeys, tileHandle'[l] # NoHandle
                 PROVE  tileWork'[tileHandle'[l]] # "free" /\ tileOf'[tileHandle'[l]] = l
      BY DEF WorkersInv, TileWork!Unheard, TileWork!Free
    <3>1. CASE l = k
      BY <2>1, <2>3, <3>1 DEF TileInv, BooksOK, TileWork!Unheard, TileWork!Free
    <3>2. CASE l # k
      <4>1. tileHandle'[l] = tileHandle[l] /\ tileHandle[l] \in TileHandles
        BY <2>1, <3>2 DEF TileInv, BooksOK
      <4>2. TileWork!Unheard(tileHandle[l]) /\ tileOf[tileHandle[l]] = l
        BY <4>1 DEF TileInv, WorkersInv
      <4> QED
        BY <2>3, <4>1, <4>2 DEF TileWork!Unheard, TileWork!Free
    <3> QED
      BY <3>1, <3>2
  <2>7. ReservedInv'
    BY <2>1, <2>3 DEF TileInv, ReservedInv
  <2>8. TileFacts!DeliveryInv'
    BY <2>1, TileSameEngine, TileFacts!SubmittedKeeps DEF TileInv
  <2> QED
    BY <2>2, <2>4, <2>5, <2>6, <2>7, <2>8 DEF TileInv
<1>2. CASE TileRefused(k)
  <2>1. /\ reserved' = reserved \ {k}
        /\ representative' = [representative EXCEPT ![PayloadOf[k]] = NoKey]
        /\ tileRetry' = tileRetry \cup {k}
        /\ UNCHANGED <<tileHandle, tileOf, tileWork, tileEvents>>
    BY <1>2 DEF TileRefused, tileEngineVars
  <2>2. BooksOK'
    BY <2>1 DEF TileInv, BooksOK
  <2>3. TileHandlesInv' /\ WorkersInv' /\ ReservedInv'
    BY <2>1 DEF TileInv, TileHandlesInv, WorkersInv, ReservedInv, TileWork!Unheard, TileWork!Free
  <2>4. LeadersInv'
    BY <2>1 DEF TileInv, BooksOK, LeadersInv, TileWork!Unheard, TileWork!Free
  <2>5. TileFacts!DeliveryInv'
    BY <2>1, TileEngineUnchanged DEF TileInv
  <2> QED
    BY <2>2, <2>3, <2>4, <2>5 DEF TileInv
<1> QED
  BY <1>1, <1>2 DEF TileAttempt

\* A handle that the owner hears of is forgotten with its key.
LEMMA ConcludingKeepsTileInv ==
    ASSUME TileInv, NEW h \in TileHandles, TileWork!Unheard(h), Forget({tileOf[h]}),
           tileWork' = [tileWork EXCEPT ![h] = "free"],
           tileOf' = [tileOf EXCEPT ![h] = NoKey],
           tileRetry' \subseteq TileKeys, TileFacts!DeliveryInv'
    PROVE  TileInv'
<1>1. {tileOf[h]} \in SUBSET TileKeys
  BY DEF TileInv, TileHandlesInv
<1>2. /\ tileOf' \in [TileHandles -> TileKeys \cup {NoKey}]
      /\ tileWork' \in [TileHandles -> {"free", "working", "doomed", "delivering", "ended"}]
  BY DEF TileInv, BooksOK
<1>3. /\ ~TileWork!Unheard(h)'
      /\ \A g \in TileHandles \ {h} :
            (TileWork!Unheard(g)' <=> TileWork!Unheard(g)) /\ tileOf'[g] = tileOf[g]
  BY DEF TileInv, BooksOK, TileWork!Unheard, TileWork!Free
<1>4. TileHandlesInv'
  BY <1>3 DEF TileInv, TileHandlesInv
<1>5. \A g \in TileHandles : TileWork!Unheard(g) /\ tileOf[g] \notin {tileOf[h]} =>
        TileWork!Unheard(g)' /\ tileOf'[g] = tileOf[g]
  BY <1>3
<1> QED
  BY <1>1, <1>2, <1>4, <1>5, ForgettingKeepsBooks DEF TileInv

-----------------------------------------------------------------------------
\* Every action keeps the books and the work together.
LEMMA StepKeepsTileInv == TileInv /\ [TileNext]_tileVars => TileInv'
<1> SUFFICES ASSUME TileInv, [TileNext]_tileVars PROVE TileInv'
  OBVIOUS
<1>1. ASSUME UNCHANGED <<representative, reserved, tileHandle, tileRetry, tileEngineVars>>
      PROVE  TileInv'
  <2>1. TileFacts!DeliveryInv'
    BY <1>1, TileEngineUnchanged DEF tileEngineVars, TileInv
  <2> QED
    BY <1>1, <2>1
    DEF tileEngineVars, TileInv, BooksOK, TileHandlesInv, LeadersInv, WorkersInv, ReservedInv,
        TileWork!Unheard, TileWork!Free
<1>2. ASSUME NEW visible \in SUBSET TileKeys, PlanFrame(visible) PROVE TileInv'
  BY <1>1, <1>2 DEF PlanFrame, bookVars
<1>3. ASSUME NEW k \in TileKeys, AskForTile(k) PROVE TileInv'
  <2>1. \/ tileRetry' = tileRetry \ {k} /\ UNCHANGED <<bookVars, tileEngineVars>>
        \/ UNCHANGED <<representative, reserved, tileHandle, tileRetry, tileEngineVars>>
        \/ TileAttempt(k)
    BY <1>3 DEF AskForTile, GetTile
  <2>2. CASE tileRetry' = tileRetry \ {k} /\ UNCHANGED <<bookVars, tileEngineVars>>
    <3>1. TileFacts!DeliveryInv'
      BY <2>2, TileEngineUnchanged DEF tileEngineVars, TileInv
    <3> QED
      BY <2>2, <3>1
      DEF bookVars, tileEngineVars, TileInv, BooksOK, TileHandlesInv, LeadersInv, WorkersInv, ReservedInv,
          TileWork!Unheard, TileWork!Free
  <2> QED
    BY <1>1, <2>1, <2>2, AttemptKeepsTileInv
<1>4. ASSUME NEW k \in TileKeys, RetryTile(k) PROVE TileInv'
  BY <1>4, AttemptKeepsTileInv DEF RetryTile
<1>5. ASSUME NEW keys \in SUBSET {k \in TileKeys : tileHandle[k] # NoHandle}, StopTiles(keys),
             tileRetry' \subseteq TileKeys
      PROVE  TileInv'
  <2>1. keys \in SUBSET TileKeys /\ {tileHandle[k] : k \in keys} \in SUBSET TileHandles
    BY <1>5 DEF TileInv, BooksOK
  <2> QED
    BY <1>5, <2>1, StoppingKeepsTileInv DEF StopTiles
<1>6. CASE CancelInvisible
  <2> DEFINE hidden == {k \in TileKeys : tileHandle[k] # NoHandle
                                         /\ AudienceOfWork(k) \cap frame.visible = {}}
  <2>1. StopTiles(hidden) /\ tileRetry' \subseteq tileRetry
    BY <1>6 DEF CancelInvisible
  <2>2. hidden \in SUBSET {k \in TileKeys : tileHandle[k] # NoHandle}
    OBVIOUS
  <2>3. tileRetry' \subseteq TileKeys
    BY <2>1 DEF TileInv, BooksOK
  <2> HIDE DEF hidden
  <2> QED
    BY <1>5, <2>1, <2>2, <2>3
<1>7. ASSUME NEW p \in Payloads, RemoveSourceTiles(p) PROVE TileInv'
  <2> DEFINE mine == {k \in TileKeys : PayloadOf[k] = p}
             busy == {k \in mine : tileHandle[k] # NoHandle}
  <2>1. StopTiles(busy) /\ tileRetry' = tileRetry \ mine
    BY <1>7 DEF RemoveSourceTiles
  <2>2. busy \in SUBSET {k \in TileKeys : tileHandle[k] # NoHandle}
    OBVIOUS
  <2>3. tileRetry' \subseteq TileKeys
    BY <2>1 DEF TileInv, BooksOK
  <2> HIDE DEF busy
  <2> QED
    BY <1>5, <2>1, <2>2, <2>3
<1>8. ASSUME NEW some \in SUBSET Payloads, EvictTiles(some) PROVE TileInv'
  BY <1>1, <1>8 DEF EvictTiles, bookVars
<1>9. CASE ClearTiles
  <2>1. /\ Forget(TileKeys) /\ TileWork!Cancelled(TileHandles) /\ UNCHANGED tileOf
        /\ tileRetry' \subseteq TileKeys
    BY <1>9 DEF ClearTiles
  <2>2. TileKeys \in SUBSET TileKeys /\ TileHandles \in SUBSET TileHandles
    OBVIOUS
  <2> QED
    BY <2>1, <2>2, StoppingKeepsTileInv
<1>10. ASSUME NEW h \in TileHandles, AdoptTile(h) PROVE TileInv'
  <2>1. /\ TileWork!Unheard(h) /\ tileWork' = [tileWork EXCEPT ![h] = "free"]
        /\ Forget({tileOf[h]}) /\ tileOf' = [tileOf EXCEPT ![h] = NoKey]
        /\ tileRetry' = tileRetry \ {tileOf[h]}
    BY <1>10 DEF AdoptTile, TileWork!Adopting, TileWork!Unheard, TileWork!Free
  <2>2. TileFacts!DeliveryInv'
    BY <1>10, TileSameEngine, TileFacts!AdoptingKeeps DEF AdoptTile, TileInv
  <2>3. tileRetry' \subseteq TileKeys
    BY <2>1 DEF TileInv, BooksOK
  <2> QED
    BY <2>1, <2>2, <2>3, ConcludingKeepsTileInv
<1>11. ASSUME NEW h \in TileHandles, TileOutcome(h) PROVE TileInv'
  <2>1. /\ tileWork' = [tileWork EXCEPT ![h] = "free"]
        /\ Forget({tileOf[h]}) /\ tileOf' = [tileOf EXCEPT ![h] = NoKey]
        /\ tileRetry' = tileRetry \ {tileOf[h]}
    BY <1>11 DEF TileOutcome, TileWork!Hearing
  <2>2. TileWork!Unheard(h) /\ TileFacts!DeliveryInv'
    BY <1>11, TileSameEngine, TileFacts!HearingKeeps
    DEF TileOutcome, TileInv, TileWork!Unheard, TileWork!Free
  <2>3. tileRetry' \subseteq TileKeys
    BY <2>1 DEF TileInv, BooksOK
  <2> QED
    BY <2>1, <2>2, <2>3, ConcludingKeepsTileInv
<1>12. ASSUME NEW h \in TileHandles, TileElsewhere(h) PROVE TileInv'
  <2>1. /\ UNCHANGED <<representative, reserved, tileHandle, tileRetry, tileOf>>
        /\ tileWork' \in [TileHandles -> {"free", "working", "doomed", "delivering", "ended"}]
        /\ \A g \in TileHandles : TileWork!Unheard(g)' <=> TileWork!Unheard(g)
    BY <1>12
    DEF TileElsewhere, bookVars, TileWork!Returns, TileWork!Ends, TileWork!Dropping,
        TileInv, BooksOK, TileWork!Unheard, TileWork!Free
  <2>2. TileFacts!DeliveryInv'
    BY <1>12, TileSameEngine, TileFacts!ReturnsKeeps, TileFacts!EndsKeeps, TileFacts!DroppingKeeps
    DEF TileElsewhere, TileInv
  <2>3. BooksOK' /\ TileHandlesInv' /\ LeadersInv' /\ ReservedInv'
    BY <2>1 DEF TileInv, BooksOK, TileHandlesInv, LeadersInv, ReservedInv
  <2>4. WorkersInv'
    <3> SUFFICES ASSUME NEW k \in TileKeys, tileHandle[k] # NoHandle
                 PROVE  TileWork!Unheard(tileHandle[k])' /\ tileOf[tileHandle[k]] = k
      BY <2>1 DEF WorkersInv, TileWork!Unheard, TileWork!Free
    <3>1. tileHandle[k] \in TileHandles
      BY DEF TileInv, BooksOK
    <3> QED
      BY <2>1, <3>1 DEF TileInv, WorkersInv, TileWork!Unheard, TileWork!Free
  <2> QED
    BY <2>2, <2>3, <2>4 DEF TileInv
<1>13. CASE UNCHANGED tileVars
  BY <1>1, <1>13 DEF tileVars, bookVars
<1> QED
  BY <1>2, <1>3, <1>4, <1>6, <1>7, <1>8, <1>9, <1>10, <1>11, <1>12, <1>13 DEF TileNext

\* TileInv always holds.
LEMMA AlwaysTileInv == TileSpec => []TileInv
  BY InitTileInv, StepKeepsTileInv, PTL DEF TileSpec

-----------------------------------------------------------------------------
\* What is kept of a generation belongs to work that the owner has still to
\* hear of (_worker_state, _worker_payload_keys and _payload_workers, tiles.py).
THEOREM ReservationsEndAlways == TileSpec => []ReservationsEnd
<1>1. TileInv => ReservationsEnd
  BY DEF TileInv, LeadersInv, WorkersInv, ReservedInv, ReservationsEnd
<1> QED
  BY <1>1, AlwaysTileInv, PTL

-----------------------------------------------------------------------------
(* The rest of the tiles' types.                                           *)

\* What the books say nothing about: the cache, the frame, and that those who
\* wait for a payload are keys of it.
WaitersOK ==
    /\ tileCache \subseteq Payloads
    /\ tileWaiters \in [Payloads -> SUBSET TileKeys]
    /\ frame \in [on : BOOLEAN, asks : SUBSET TileKeys, visible : SUBSET TileKeys]
    /\ \A p \in Payloads : \A k \in tileWaiters[p] : PayloadOf[k] = p

\* Forgetting only takes waiters away.
LEMMA ForgettingKeepsWaiters ==
    ASSUME WaitersOK, NEW keys, Forget(keys)
    PROVE  /\ tileWaiters' \in [Payloads -> SUBSET TileKeys]
           /\ \A p \in Payloads : \A k \in tileWaiters'[p] : PayloadOf[k] = p
<1>1. tileWaiters' = [p \in Payloads |->
                        IF p \in {PayloadOf[k] : k \in keys} THEN {} ELSE tileWaiters[p]]
  BY DEF Forget
<1>2. tileWaiters' \in [Payloads -> SUBSET TileKeys]
  BY <1>1 DEF WaitersOK
<1>3. \A p \in Payloads : tileWaiters'[p] \subseteq tileWaiters[p]
  BY <1>1
<1> QED
  BY <1>2, <1>3 DEF WaitersOK

\* Every action keeps the waiters: one joins those of its own payload.
LEMMA StepKeepsWaiters == TileInv /\ WaitersOK /\ [TileNext]_tileVars => WaitersOK'
<1> SUFFICES ASSUME TileInv, WaitersOK, [TileNext]_tileVars PROVE WaitersOK'
  OBVIOUS
<1> USE NamesAreDistinct
<1>1. ASSUME NEW visible \in SUBSET TileKeys, PlanFrame(visible) PROVE WaitersOK'
  BY <1>1 DEF PlanFrame, bookVars, WaitersOK
<1>2. ASSUME NEW k \in TileKeys, AskForTile(k) PROVE WaitersOK'
  <2>1. /\ frame' = [frame EXCEPT !.asks = @ \ {k}] /\ tileCache' = tileCache
        /\ \/ UNCHANGED tileWaiters
           \/ tileWaiters' = [tileWaiters EXCEPT ![PayloadOf[k]] = @ \cup {k}]
    BY <1>2 DEF AskForTile, GetTile, bookVars
  <2>2. frame' \in [on : BOOLEAN, asks : SUBSET TileKeys, visible : SUBSET TileKeys]
    BY <2>1 DEF WaitersOK
  <2>3. /\ tileWaiters' \in [Payloads -> SUBSET TileKeys]
        /\ \A p \in Payloads : \A l \in tileWaiters'[p] : PayloadOf[l] = p
    BY <2>1 DEF WaitersOK
  <2> QED
    BY <2>1, <2>2, <2>3 DEF WaitersOK
<1>3. ASSUME NEW k \in TileKeys, RetryTile(k) PROVE WaitersOK'
  BY <1>3 DEF RetryTile, WaitersOK
<1>4. CASE CancelInvisible
  <2>1. PICK keys : Forget(keys)
    BY <1>4 DEF CancelInvisible, StopTiles
  <2>2. frame' = NoFrame /\ tileCache' = tileCache
    BY <1>4 DEF CancelInvisible
  <2> QED
    BY <2>1, <2>2, ForgettingKeepsWaiters DEF WaitersOK, NoFrame
<1>5. ASSUME NEW p \in Payloads, RemoveSourceTiles(p) PROVE WaitersOK'
  <2>1. PICK keys : Forget(keys)
    BY <1>5 DEF RemoveSourceTiles, StopTiles
  <2>2. frame' = frame /\ tileCache' = tileCache \ {p}
    BY <1>5 DEF RemoveSourceTiles
  <2> QED
    BY <2>1, <2>2, ForgettingKeepsWaiters DEF WaitersOK
<1>6. ASSUME NEW some \in SUBSET Payloads, EvictTiles(some) PROVE WaitersOK'
  BY <1>6 DEF EvictTiles, bookVars, WaitersOK
<1>7. CASE ClearTiles
  <2>1. Forget(TileKeys) /\ frame' = frame /\ tileCache' = {}
    BY <1>7 DEF ClearTiles
  <2> QED
    BY <2>1, ForgettingKeepsWaiters DEF WaitersOK
<1>8. ASSUME NEW h \in TileHandles, AdoptTile(h), UNCHANGED frame PROVE WaitersOK'
  <2>1. Forget({tileOf[h]}) /\ tileCache' \in {tileCache, tileCache \cup {PayloadOf[tileOf[h]]}}
    BY <1>8 DEF AdoptTile
  <2>2. PayloadOf[tileOf[h]] \in Payloads
    <3>1. TileWork!Unheard(h)
      BY <1>8 DEF AdoptTile, TileWork!Adopting, TileWork!Unheard, TileWork!Free
    <3> QED
      BY <3>1 DEF TileInv, TileHandlesInv
  <2> QED
    BY <1>8, <2>1, <2>2, ForgettingKeepsWaiters DEF WaitersOK
<1>9. ASSUME NEW h \in TileHandles, TileOutcome(h), UNCHANGED frame PROVE WaitersOK'
  <2>1. Forget({tileOf[h]}) /\ tileCache' = tileCache
    BY <1>9 DEF TileOutcome
  <2> QED
    BY <1>9, <2>1, ForgettingKeepsWaiters DEF WaitersOK
<1>10. ASSUME NEW h \in TileHandles, TileElsewhere(h) PROVE WaitersOK'
  BY <1>10 DEF TileElsewhere, bookVars, WaitersOK
<1>11. CASE UNCHANGED tileVars
  BY <1>11 DEF tileVars, bookVars, WaitersOK
<1> QED
  BY <1>1, <1>2, <1>3, <1>4, <1>5, <1>6, <1>7, <1>8, <1>9, <1>10, <1>11 DEF TileNext

\* Initially nothing is cached and nobody waits.
LEMMA InitWaiters == TileInit => WaitersOK
  BY DEF TileInit, WaitersOK, NoFrame

\* Books and waiters have the types.
LEMMA TileTypes == TileInv /\ WaitersOK => TileTypeOK
  BY DEF TileInv, BooksOK, WaitersOK, TileTypeOK, TileWork!DeliveryTypeOK,
         TileFacts!DeliveryInv, TileFacts!Entries

\* Every variable of the tile manager keeps its type, and whoever waits for a
\* payload is a key of it, so that a finished generation reports to its own
\* layers (_payload_waiters, tiles.py).
THEOREM TileTypesStay == TileSpec => []TileTypeOK
<1>1. TileInit => TileInv /\ WaitersOK
  BY InitTileInv, InitWaiters
<1>2. TileInv /\ WaitersOK /\ [TileNext]_tileVars => (TileInv /\ WaitersOK)'
  BY StepKeepsTileInv, StepKeepsWaiters
<1> QED
  BY <1>1, <1>2, TileTypes, PTL DEF TileSpec

-----------------------------------------------------------------------------
(* PyramidGeneration: nobody waits for a pyramid that is not generated, and *)
(* no product of an abandoned space is used.                               *)

PyramidFacts == INSTANCE OwnerDelivery_proofs WITH
             Pool <- PyramidHandles, work <- pyramidWork, queue <- pyramidEvents

\* The part of the type invariant that the argument needs.
RecordsOK ==
    /\ space \in Spaces
    /\ tracked \in [Assets -> [space : Spaces, status : Statuses] \cup {Untracked}]
    /\ cachedIn \in [Assets -> Spaces \cup {Untracked}]
    /\ pyramidRetry \in [Assets -> {"none", "tracked", "orphan"}]
    /\ active \in [Assets -> PyramidHandles \cup {NoWork}]
    /\ madeFor \in [PyramidHandles -> [asset : Assets, space : Spaces] \cup {Idle}]
    /\ pyramidWork \in [PyramidHandles -> {"free", "working", "doomed", "delivering", "ended"}]

\* A handle whose end the owner has not heard of was submitted for a source.
PyramidHandlesInv ==
    \A h \in PyramidHandles :
        Work!Unheard(h) => madeFor[h] \in [asset : Assets, space : Spaces]

\* A retry whose pyramid is tracked finds it tracked.
RetriesInv == \A a \in Assets : pyramidRetry[a] = "tracked" => IsTracked(a)

\* Who waits for a pyramid is heard of again with a product of the present
\* space: one of another space would be dropped without a word.
GeneratingInv ==
    \A a \in Assets :
        IsTracked(a) /\ tracked[a].status = "generating" =>
            \E h \in PyramidHandles :
                Work!Unheard(h) /\ madeFor[h] = [asset |-> a, space |-> space]

SpaceInv ==
    \A a \in Assets :
        /\ IsTracked(a) => tracked[a].space = space
        /\ cachedIn[a] \in {space, Untracked}

PyramidInv == PyramidFacts!DeliveryInv /\ RecordsOK /\ PyramidHandlesInv /\ RetriesInv /\ GeneratingInv /\ SpaceInv

\* The engine of the facts is the one of the manager.
LEMMA PyramidSameEngine ==
    /\ Work!DeliveryInit <=> PyramidFacts!DeliveryInit
    /\ \A h : /\ Work!Submitted(h) <=> PyramidFacts!Submitted(h)
              /\ Work!Returns(h) <=> PyramidFacts!Returns(h)
              /\ Work!Ends(h) <=> PyramidFacts!Ends(h)
              /\ Work!Adopting(h) <=> PyramidFacts!Adopting(h)
              /\ Work!Dropping(h) <=> PyramidFacts!Dropping(h)
              /\ Work!Hearing(h) <=> PyramidFacts!Hearing(h)
    /\ \A handles : Work!Cancelled(handles) <=> PyramidFacts!Cancelled(handles)
<1>1. Work!DeliveryInit <=> PyramidFacts!DeliveryInit
  BY DEF Work!DeliveryInit, PyramidFacts!DeliveryInit
<1>2. ASSUME NEW h PROVE Work!Submitted(h) <=> PyramidFacts!Submitted(h)
  BY DEF Work!Submitted, PyramidFacts!Submitted, Work!Free, PyramidFacts!Free
<1>3. ASSUME NEW h PROVE Work!Returns(h) <=> PyramidFacts!Returns(h)
  BY DEF Work!Returns, PyramidFacts!Returns, Work!Event, PyramidFacts!Event
<1>4. ASSUME NEW h PROVE Work!Ends(h) <=> PyramidFacts!Ends(h)
  BY DEF Work!Ends, PyramidFacts!Ends, Work!Event, PyramidFacts!Event
<1>5. ASSUME NEW h PROVE Work!Adopting(h) <=> PyramidFacts!Adopting(h)
  BY DEF Work!Adopting, PyramidFacts!Adopting, Work!Event, PyramidFacts!Event
<1>6. ASSUME NEW h PROVE Work!Dropping(h) <=> PyramidFacts!Dropping(h)
  BY DEF Work!Dropping, PyramidFacts!Dropping, Work!Event, PyramidFacts!Event
<1>7. ASSUME NEW h PROVE Work!Hearing(h) <=> PyramidFacts!Hearing(h)
  BY DEF Work!Hearing, PyramidFacts!Hearing, Work!Event, PyramidFacts!Event
<1>8. ASSUME NEW handles PROVE Work!Cancelled(handles) <=> PyramidFacts!Cancelled(handles)
  <2>1. \A s : Work!SetToSeqs(s) = PyramidFacts!SetToSeqs(s)
    BY DEF Work!SetToSeqs, PyramidFacts!SetToSeqs, Work!Cardinality, PyramidFacts!Cardinality
  <2>2. \A h, kind : Work!Event(h, kind) = PyramidFacts!Event(h, kind)
    BY DEF Work!Event, PyramidFacts!Event
  <2> QED
    BY <2>1, <2>2, Zenon DEF Work!Cancelled, PyramidFacts!Cancelled
<1> QED
  BY <1>1, <1>2, <1>3, <1>4, <1>5, <1>6, <1>7, <1>8

\* A step that leaves the engine alone leaves the facts about it alone.
LEMMA PyramidEngineUnchanged ==
    ASSUME PyramidFacts!DeliveryInv, UNCHANGED <<pyramidWork, pyramidEvents>>
    PROVE  PyramidFacts!DeliveryInv'
  BY DEF PyramidFacts!DeliveryInv, PyramidFacts!IsOutcome

\* What is tracked is a record.
LEMMA TrackedRecords ==
    /\ Untracked \notin [space : Spaces, status : Statuses]
    /\ Untracked \notin Spaces
    /\ Idle \notin [asset : Assets, space : Spaces]
    /\ NoWork \notin PyramidHandles
  BY PyramidAssumption DEF PyramidAssumption, Statuses, Idle

\* Initially nothing is tracked and nobody works.
LEMMA InitPyramidInv == PyramidInit => PyramidInv
<1>1. PyramidInit => PyramidFacts!DeliveryInv
  BY PyramidSameEngine, PyramidFacts!DeliveryBegins DEF PyramidInit
<1> QED
  BY <1>1, TrackedRecords
  DEF PyramidInit, PyramidInv, RecordsOK, PyramidHandlesInv, RetriesInv, GeneratingInv, SpaceInv, IsTracked,
      Work!DeliveryInit, Work!Unheard, Work!Free

-----------------------------------------------------------------------------
\* Cancelling frees no handle and gives none away.
LEMMA CancelledKeepsUnheard ==
    ASSUME RecordsOK, NEW handles, Work!Cancelled(handles)
    PROVE  /\ pyramidWork' \in [PyramidHandles -> {"free", "working", "doomed", "delivering", "ended"}]
           /\ \A h \in PyramidHandles : Work!Unheard(h)' <=> Work!Unheard(h)
<1>1. PICK begun \in SUBSET {h \in handles : pyramidWork[h] = "working"} :
        pyramidWork' =
          [h \in PyramidHandles |->
            IF h \in begun THEN "doomed"
            ELSE IF h \in {g \in handles : pyramidWork[g] \in {"working", "delivering"}} \ begun
                 THEN "ended" ELSE pyramidWork[h]]
  BY DEF Work!Cancelled
<1> QED
  BY <1>1 DEF RecordsOK, Work!Unheard, Work!Free

\* What an attempt to submit does to a tracked pyramid and its handle.
LEMMA AttemptKeepsPyramidInv ==
    ASSUME PyramidInv, NEW a \in Assets, NEW pyramids, NEW ours \in BOOLEAN,
           pyramids \in [Assets -> [space : Spaces, status : Statuses] \cup {Untracked}],
           \A b \in Assets : b # a => pyramids[b] = tracked[b],
           pyramids[a] = tracked[a] \/ pyramids[a] = [space |-> space, status |-> "pending"],
           ours => pyramids[a] # Untracked,
           IsTracked(a) => pyramids[a] = tracked[a],
           Attempted(a, pyramids, ours), UNCHANGED <<space, cachedIn>>
    PROVE  PyramidInv'
<1> USE TrackedRecords
<1>1. \A b \in Assets : pyramids[b] # Untracked =>
        pyramids[b] \in [space : Spaces, status : Statuses] /\ pyramids[b].space = space
  BY DEF PyramidInv, RecordsOK, SpaceInv, IsTracked
<1>2. \A b \in Assets : pyramids[b] # Untracked /\ pyramids[b].status = "generating" =>
        IsTracked(b) /\ tracked[b].status = "generating"
  BY DEF PyramidInv, RecordsOK, IsTracked
<1>3. CASE AlreadyActive(a, pyramids)
  <2>1. RecordsOK' /\ SpaceInv'
    BY <1>1, <1>3 DEF AlreadyActive, pyramidEngineVars, PyramidInv, RecordsOK, SpaceInv, IsTracked
  <2>2. PyramidHandlesInv' /\ GeneratingInv'
    BY <1>2, <1>3
    DEF AlreadyActive, pyramidEngineVars, PyramidInv, PyramidHandlesInv, GeneratingInv, IsTracked,
        Work!Unheard, Work!Free
  <2>4. PyramidFacts!DeliveryInv'
    BY <1>3, PyramidEngineUnchanged DEF AlreadyActive, pyramidEngineVars, PyramidInv
  <2>3. RetriesInv'
    BY <1>3 DEF AlreadyActive, PyramidInv, RecordsOK, RetriesInv, IsTracked
  <2> QED
    BY <2>1, <2>2, <2>3, <2>4 DEF PyramidInv
<1>4. CASE Refused(a, pyramids, ours)
  <2>0. StatusOf(pyramids, a, ours, "pending") \in
            [Assets -> [space : Spaces, status : Statuses] \cup {Untracked}]
    BY <1>1 DEF StatusOf, Statuses
  <2>1. RecordsOK'
    BY <1>4, <2>0 DEF Refused, pyramidEngineVars, PyramidInv, RecordsOK
  <2>2. \A b \in Assets :
        /\ IsTracked(b)' <=> pyramids[b] # Untracked
        /\ IsTracked(b)' => tracked'[b].space = pyramids[b].space
        /\ IsTracked(b)' /\ tracked'[b].status = "generating" => pyramids[b].status = "generating"
    BY <1>1, <1>4 DEF Refused, StatusOf, IsTracked, Statuses
  <2>3. SpaceInv'
    BY <1>1, <2>2, <1>4 DEF PyramidInv, SpaceInv
  <2>4. PyramidHandlesInv' /\ GeneratingInv'
    BY <1>2, <1>4, <2>2
    DEF Refused, pyramidEngineVars, PyramidInv, PyramidHandlesInv, GeneratingInv, Work!Unheard, Work!Free
  <2>5. RetriesInv'
    BY <1>4, <2>2 DEF Refused, PyramidInv, RecordsOK, RetriesInv, IsTracked
  <2>6. PyramidFacts!DeliveryInv'
    BY <1>4, PyramidEngineUnchanged DEF Refused, pyramidEngineVars, PyramidInv
  <2> QED
    BY <2>1, <2>3, <2>4, <2>5, <2>6 DEF PyramidInv
<1>5. CASE Accepted(a, pyramids, ours)
  <2>1. PICK h \in PyramidHandles :
        /\ pyramidWork[h] = "free" /\ Work!Submitted(h)
        /\ pyramidWork' = [pyramidWork EXCEPT ![h] = "working"]
        /\ madeFor' = [madeFor EXCEPT ![h] = [asset |-> a, space |-> space]]
        /\ tracked' = StatusOf(pyramids, a, ours, "generating")
        /\ pyramidRetry' = [pyramidRetry EXCEPT ![a] = "none"]
        /\ active' = [active EXCEPT ![a] = h]
    BY <1>5 DEF Accepted, Work!Submitted, Work!Free
  <2>2. StatusOf(pyramids, a, ours, "generating") \in
            [Assets -> [space : Spaces, status : Statuses] \cup {Untracked}]
    BY <1>1 DEF StatusOf, Statuses
  <2>3. RecordsOK'
    BY <2>1, <2>2 DEF PyramidInv, RecordsOK
  <2>4. \A b \in Assets :
        /\ IsTracked(b)' <=> pyramids[b] # Untracked
        /\ IsTracked(b)' => tracked'[b].space = pyramids[b].space
        /\ IsTracked(b)' /\ tracked'[b].status = "generating" =>
              b = a \/ pyramids[b].status = "generating"
    BY <1>1, <2>1 DEF StatusOf, IsTracked, Statuses
  <2>5. SpaceInv'
    BY <1>1, <2>4 DEF PyramidInv, SpaceInv
  <2>6. PyramidHandlesInv'
    BY <2>1 DEF PyramidInv, RecordsOK, PyramidHandlesInv, Work!Unheard, Work!Free
  <2>7. GeneratingInv'
    <3> SUFFICES ASSUME NEW b \in Assets, IsTracked(b)', tracked'[b].status = "generating"
                 PROVE  \E g \in PyramidHandles :
                          Work!Unheard(g)' /\ madeFor'[g] = [asset |-> b, space |-> space]
      BY DEF GeneratingInv
    <3>1. CASE b = a
      <4>1. Work!Unheard(h)' /\ madeFor'[h] = [asset |-> b, space |-> space]
        BY <2>1, <3>1 DEF PyramidInv, RecordsOK, Work!Unheard, Work!Free
      <4> QED
        BY <4>1
    <3>2. CASE b # a
      <4>1. PICK g \in PyramidHandles :
              Work!Unheard(g) /\ madeFor[g] = [asset |-> b, space |-> space]
        BY <1>2, <2>4, <3>2 DEF PyramidInv, GeneratingInv
      <4>2. Work!Unheard(g)' /\ madeFor'[g] = madeFor[g]
        BY <2>1, <4>1 DEF PyramidInv, RecordsOK, Work!Unheard, Work!Free
      <4> QED
        BY <4>1, <4>2
    <3> QED
      BY <3>1, <3>2
  <2>8. RetriesInv'
    BY <2>1, <2>4 DEF PyramidInv, RecordsOK, RetriesInv, IsTracked
  <2>9. PyramidFacts!DeliveryInv'
    BY <2>1, PyramidSameEngine, PyramidFacts!SubmittedKeeps DEF PyramidInv
  <2> QED
    BY <2>3, <2>5, <2>6, <2>7, <2>8, <2>9 DEF PyramidInv
<1> QED
  BY <1>3, <1>4, <1>5 DEF Attempted

-----------------------------------------------------------------------------
\* What is discarded is not tracked and not cached, the rest is as it was.
LEMMA DiscardingKeepsSpaces ==
    ASSUME PyramidInv, NEW some \in SUBSET Assets, tracked' = Discarded(tracked, some),
           cachedIn' = Discarded(cachedIn, some), UNCHANGED space
    PROVE  /\ tracked' \in [Assets -> [space : Spaces, status : Statuses] \cup {Untracked}]
           /\ cachedIn' \in [Assets -> Spaces \cup {Untracked}]
           /\ SpaceInv'
           /\ \A a \in Assets : IsTracked(a)' <=> IsTracked(a) /\ a \notin some
           /\ \A a \in Assets : IsTracked(a)' => tracked'[a] = tracked[a]
  BY DEF Discarded, PyramidInv, RecordsOK, SpaceInv, IsTracked

\* Every action keeps what is generated, tracked and cached together.
LEMMA StepKeepsPyramidInv == PyramidInv /\ [PyramidNext]_pyramidVars => PyramidInv'
<1> SUFFICES ASSUME PyramidInv, [PyramidNext]_pyramidVars PROVE PyramidInv'
  OBVIOUS
<1> USE TrackedRecords
<1>1. ASSUME NEW a \in Assets, GeneratePyramid(a) PROVE PyramidInv'
  <2> DEFINE pyramids == IF IsTracked(a) THEN tracked
                         ELSE [tracked EXCEPT ![a] = [space |-> space, status |-> "pending"]]
  <2>1. /\ pyramids \in [Assets -> [space : Spaces, status : Statuses] \cup {Untracked}]
        /\ \A b \in Assets : b # a => pyramids[b] = tracked[b]
        /\ pyramids[a] = tracked[a] \/ pyramids[a] = [space |-> space, status |-> "pending"]
        /\ pyramids[a] # Untracked
        /\ IsTracked(a) => pyramids[a] = tracked[a]
    BY DEF PyramidInv, RecordsOK, IsTracked, Statuses
  <2>2. UNCHANGED <<space, cachedIn>>
    BY <1>1 DEF GeneratePyramid
  <2>3. \/ Attempted(a, pyramids, TRUE)
        \/ tracked' = pyramids /\ UNCHANGED <<coordinatorVars, pyramidEngineVars>>
    BY <1>1 DEF GeneratePyramid
  <2> HIDE DEF pyramids
  <2>4. CASE Attempted(a, pyramids, TRUE)
    BY <2>1, <2>2, <2>4, AttemptKeepsPyramidInv
  <2>5. CASE tracked' = pyramids /\ UNCHANGED <<coordinatorVars, pyramidEngineVars>>
    <3>1. RecordsOK'
      BY <2>1, <2>2, <2>5 DEF coordinatorVars, pyramidEngineVars, PyramidInv, RecordsOK
    <3>2. SpaceInv'
      BY <2>1, <2>2, <2>5 DEF PyramidInv, RecordsOK, SpaceInv, IsTracked
    <3>3. PyramidHandlesInv' /\ RetriesInv'
      BY <2>1, <2>5
      DEF coordinatorVars, pyramidEngineVars, PyramidInv, PyramidHandlesInv, RetriesInv, IsTracked,
          Work!Unheard, Work!Free
    <3>4. \A b \in Assets : IsTracked(b)' /\ tracked'[b].status = "generating" =>
            IsTracked(b) /\ tracked[b].status = "generating"
      BY <2>1, <2>5 DEF IsTracked
    <3>5. GeneratingInv'
      BY <2>2, <2>5, <3>4
      DEF coordinatorVars, pyramidEngineVars, PyramidInv, GeneratingInv, Work!Unheard, Work!Free
    <3>6. PyramidFacts!DeliveryInv'
      BY <2>5, PyramidEngineUnchanged DEF pyramidEngineVars, PyramidInv
    <3> QED
      BY <3>1, <3>2, <3>3, <3>5, <3>6 DEF PyramidInv
  <2> QED
    BY <2>3, <2>4, <2>5
<1>2. ASSUME NEW a \in Assets, PyramidRetryFires(a) PROVE PyramidInv'
  <2>1. /\ tracked \in [Assets -> [space : Spaces, status : Statuses] \cup {Untracked}]
        /\ pyramidRetry[a] = "tracked" => tracked[a] # Untracked
        /\ (pyramidRetry[a] = "tracked") \in BOOLEAN
    BY DEF PyramidInv, RecordsOK, RetriesInv, IsTracked
  <2>2. Attempted(a, tracked, pyramidRetry[a] = "tracked") /\ UNCHANGED <<space, cachedIn>>
    BY <1>2 DEF PyramidRetryFires
  <2> QED
    BY <2>1, <2>2, AttemptKeepsPyramidInv
\* Whatever is cancelled, its handle is still heard of.
<1>3. ASSUME NEW some \in SUBSET Assets, CancelActive(some)
      PROVE  /\ pyramidWork' \in [PyramidHandles -> {"free", "working", "doomed", "delivering", "ended"}]
             /\ active' \in [Assets -> PyramidHandles \cup {NoWork}]
             /\ pyramidRetry' \in [Assets -> {"none", "tracked", "orphan"}]
             /\ UNCHANGED madeFor /\ PyramidHandlesInv' /\ PyramidFacts!DeliveryInv'
             /\ \A h \in PyramidHandles : Work!Unheard(h) => Work!Unheard(h)'
             /\ \A a \in Assets : pyramidRetry'[a] = "tracked" => pyramidRetry[a] = "tracked" /\ a \notin some
  <2> DEFINE handles == {active[a] : a \in some} \ {NoWork}
  <2>1. Work!Cancelled(handles) /\ UNCHANGED madeFor
        /\ pyramidRetry' = [a \in Assets |-> IF a \in some THEN "none" ELSE pyramidRetry[a]]
        /\ active' = [a \in Assets |-> IF a \in some THEN NoWork ELSE active[a]]
    BY <1>3 DEF CancelActive
  <2>2. handles \in SUBSET PyramidHandles
    BY DEF PyramidInv, RecordsOK
  <2> HIDE DEF handles
  <2>3. PyramidFacts!DeliveryInv'
    <3>1. PyramidFacts!Cancelled(handles)
      BY <2>1, PyramidSameEngine
    <3>2. PyramidFacts!IsFiniteSet(PyramidHandles)
      BY PyramidAssumption DEF PyramidAssumption, IsFiniteSet, PyramidFacts!IsFiniteSet
    <3>3. PyramidFacts!DeliveryInv
      BY DEF PyramidInv
    <3> QED
      BY <2>2, <3>1, <3>2, <3>3, PyramidFacts!CancelledKeeps
  <2>4. /\ pyramidWork' \in [PyramidHandles -> {"free", "working", "doomed", "delivering", "ended"}]
        /\ \A h \in PyramidHandles : Work!Unheard(h)' <=> Work!Unheard(h)
    BY <2>1, CancelledKeepsUnheard DEF PyramidInv
  <2> QED
    BY <2>1, <2>3, <2>4 DEF PyramidInv, RecordsOK, PyramidHandlesInv
<1>4. ASSUME NEW a \in Assets, CancelPrefetch(a) PROVE PyramidInv'
  <2>1. CancelActive({a}) /\ UNCHANGED <<space, tracked, cachedIn>>
    BY <1>4 DEF CancelPrefetch, productVars
  <2> QED
    BY <1>3, <2>1 DEF PyramidInv, RecordsOK, RetriesInv, GeneratingInv, SpaceInv, IsTracked
<1>5. ASSUME NEW a \in Assets, RemovePyramid(a) PROVE PyramidInv'
  <2>0. {a} \in SUBSET Assets
    OBVIOUS
  <2>1. /\ CancelActive({a}) /\ UNCHANGED space
        /\ tracked' = Discarded(tracked, {a}) /\ cachedIn' = Discarded(cachedIn, {a})
    BY <1>5 DEF RemovePyramid
  <2>2. /\ tracked' \in [Assets -> [space : Spaces, status : Statuses] \cup {Untracked}]
        /\ cachedIn' \in [Assets -> Spaces \cup {Untracked}]
        /\ SpaceInv'
        /\ \A b \in Assets : IsTracked(b)' <=> IsTracked(b) /\ b \notin {a}
        /\ \A b \in Assets : IsTracked(b)' => tracked'[b] = tracked[b]
    BY <2>0, <2>1, DiscardingKeepsSpaces
  <2>3. /\ pyramidWork' \in [PyramidHandles -> {"free", "working", "doomed", "delivering", "ended"}]
        /\ active' \in [Assets -> PyramidHandles \cup {NoWork}]
        /\ pyramidRetry' \in [Assets -> {"none", "tracked", "orphan"}]
        /\ UNCHANGED madeFor /\ PyramidHandlesInv' /\ PyramidFacts!DeliveryInv'
        /\ \A h \in PyramidHandles : Work!Unheard(h) => Work!Unheard(h)'
        /\ \A b \in Assets : pyramidRetry'[b] = "tracked" => pyramidRetry[b] = "tracked" /\ b \notin {a}
    BY <1>3, <2>0, <2>1
  <2>4. RecordsOK' /\ RetriesInv'
    BY <2>1, <2>2, <2>3 DEF PyramidInv, RecordsOK, RetriesInv
  <2>5. GeneratingInv'
    BY <2>1, <2>2, <2>3 DEF PyramidInv, GeneratingInv
  <2> QED
    BY <2>2, <2>3, <2>4, <2>5 DEF PyramidInv
<1>6. ASSUME NEW s \in Spaces, ChangeSpace(s) PROVE PyramidInv'
  <2>1. /\ CancelActive(Assets) /\ space' = s
        /\ tracked' = Discarded(tracked, Assets) /\ cachedIn' = Discarded(cachedIn, Assets)
    BY <1>6 DEF ChangeSpace
  <2>2. \A a \in Assets : tracked'[a] = Untracked /\ cachedIn'[a] = Untracked
    BY <2>1 DEF Discarded
  <2>3. RecordsOK' /\ PyramidHandlesInv' /\ RetriesInv'
    BY <1>3, <2>1 DEF Discarded, PyramidInv, RecordsOK, RetriesInv
  <2>4. GeneratingInv' /\ SpaceInv'
    BY <2>2 DEF GeneratingInv, SpaceInv, IsTracked
  <2> QED
    BY <1>3, <2>1, <2>3, <2>4 DEF PyramidInv
<1>7. ASSUME NEW a \in Assets, EvictPyramid(a) PROVE PyramidInv'
  <2>0. {a} \in SUBSET Assets
    OBVIOUS
  <2>1. /\ UNCHANGED <<space, active, pyramidEngineVars>>
        /\ tracked' = Discarded(tracked, {a}) /\ cachedIn' = Discarded(cachedIn, {a})
        /\ pyramidRetry' = [pyramidRetry EXCEPT ![a] = IF @ = "tracked" THEN "orphan" ELSE @]
    BY <1>7 DEF EvictPyramid
  <2>2. /\ tracked' \in [Assets -> [space : Spaces, status : Statuses] \cup {Untracked}]
        /\ cachedIn' \in [Assets -> Spaces \cup {Untracked}]
        /\ SpaceInv'
        /\ \A b \in Assets : IsTracked(b)' <=> IsTracked(b) /\ b \notin {a}
        /\ \A b \in Assets : IsTracked(b)' => tracked'[b] = tracked[b]
    BY <2>0, <2>1, DiscardingKeepsSpaces
  <2>3. RecordsOK' /\ PyramidHandlesInv' /\ RetriesInv'
    BY <2>1, <2>2
    DEF pyramidEngineVars, PyramidInv, RecordsOK, PyramidHandlesInv, RetriesInv, Work!Unheard, Work!Free
  <2>4. GeneratingInv'
    BY <2>1, <2>2 DEF pyramidEngineVars, PyramidInv, GeneratingInv, Work!Unheard, Work!Free
  <2>5. PyramidFacts!DeliveryInv'
    BY <2>1, PyramidEngineUnchanged DEF pyramidEngineVars, PyramidInv
  <2> QED
    BY <2>2, <2>3, <2>4, <2>5 DEF PyramidInv
\* When a handle is heard of, it is idle, and the others are as they were.
<1>8. ASSUME NEW h \in PyramidHandles, Work!Unheard(h), Concluded(h),
             pyramidWork' = [pyramidWork EXCEPT ![h] = "free"]
      PROVE  /\ madeFor[h].asset \in Assets
             /\ pyramidWork' \in [PyramidHandles -> {"free", "working", "doomed", "delivering", "ended"}]
             /\ madeFor' \in [PyramidHandles -> [asset : Assets, space : Spaces] \cup {Idle}]
             /\ pyramidRetry' \in [Assets -> {"none", "tracked", "orphan"}]
             /\ active' \in [Assets -> PyramidHandles \cup {NoWork}]
             /\ PyramidHandlesInv'
             /\ \A b \in Assets : pyramidRetry'[b] = "tracked" =>
                    pyramidRetry[b] = "tracked" /\ b # madeFor[h].asset
             /\ \A g \in PyramidHandles : Work!Unheard(g) /\ g # h =>
                    Work!Unheard(g)' /\ madeFor'[g] = madeFor[g]
  <2>1. madeFor[h] \in [asset : Assets, space : Spaces]
    BY <1>8 DEF PyramidInv, PyramidHandlesInv
  <2>2. /\ madeFor' = [madeFor EXCEPT ![h] = Idle]
        /\ pyramidRetry' = [pyramidRetry EXCEPT ![madeFor[h].asset] = "none"]
        /\ active' = [active EXCEPT ![madeFor[h].asset] = NoWork]
    BY <1>8 DEF Concluded
  <2>3. madeFor[h].asset \in Assets
    BY <2>1
  <2> QED
    BY <1>8, <2>2, <2>3 DEF PyramidInv, RecordsOK, PyramidHandlesInv, Work!Unheard, Work!Free
<1>9. ASSUME NEW h \in PyramidHandles, AdoptPyramid(h) PROVE PyramidInv'
  <2>1. /\ Work!Unheard(h) /\ Concluded(h) /\ UNCHANGED space
        /\ pyramidWork' = [pyramidWork EXCEPT ![h] = "free"]
    BY <1>9 DEF AdoptPyramid, Work!Adopting, Work!Unheard, Work!Free
  <2>2. PICK a \in Assets, made \in Spaces : madeFor[h] = [asset |-> a, space |-> made]
    BY <2>1 DEF PyramidInv, PyramidHandlesInv
  <2>3. madeFor[h].asset = a /\ madeFor[h].space = made
    BY <2>2
  <2>4. \/ /\ Wanted(h)
           /\ tracked' = [tracked EXCEPT ![a] = [space |-> made, status |-> "complete"]]
           /\ cachedIn' = [cachedIn EXCEPT ![a] = made]
        \/ /\ Wanted(h)
           /\ tracked' = Discarded(tracked, {a})
           /\ UNCHANGED cachedIn
        \/ ~Wanted(h) /\ UNCHANGED <<tracked, cachedIn>>
    BY <1>9, <2>3 DEF AdoptPyramid
  <2>5. Wanted(h) => IsTracked(a) /\ made = space
    BY <2>3 DEF Wanted
  <2>6. ~Wanted(h) => ~IsTracked(a) \/ made # space
    BY <2>3 DEF Wanted, PyramidInv, SpaceInv
  <2>7. /\ tracked' \in [Assets -> [space : Spaces, status : Statuses] \cup {Untracked}]
        /\ cachedIn' \in [Assets -> Spaces \cup {Untracked}]
    BY <2>4 DEF PyramidInv, RecordsOK, Statuses, Discarded
  <2>8. SpaceInv'
    BY <2>1, <2>4, <2>5 DEF PyramidInv, RecordsOK, SpaceInv, Discarded, IsTracked
  <2>9. /\ \A b \in Assets \ {a} : tracked'[b] = tracked[b]
        /\ Wanted(h) /\ IsTracked(a)' => tracked'[a].status = "complete"
        /\ ~Wanted(h) => tracked' = tracked
    BY <2>4 DEF PyramidInv, RecordsOK, Discarded, IsTracked
  <2>10. GeneratingInv'
    <3> SUFFICES ASSUME NEW b \in Assets, IsTracked(b)', tracked'[b].status = "generating"
                 PROVE  \E g \in PyramidHandles :
                          Work!Unheard(g)' /\ madeFor'[g] = [asset |-> b, space |-> space']
      BY DEF GeneratingInv
    <3>1. IsTracked(b) /\ tracked[b].status = "generating" /\ (b = a => ~Wanted(h))
      BY <2>9 DEF IsTracked
    <3>2. PICK g \in PyramidHandles :
            Work!Unheard(g) /\ madeFor[g] = [asset |-> b, space |-> space]
      BY <3>1 DEF PyramidInv, GeneratingInv
    <3>3. g # h
      BY <2>2, <2>6, <3>1, <3>2
    <3>4. Work!Unheard(g)' /\ madeFor'[g] = madeFor[g]
      BY <1>8, <2>1, <3>2, <3>3 DEF Work!Unheard, Work!Free
    <3> QED
      BY <2>1, <3>2, <3>4
  <2>11. RetriesInv'
    <3>1. \A b \in Assets : pyramidRetry'[b] = "tracked" => pyramidRetry[b] = "tracked" /\ b # a
      BY <1>8, <2>1, <2>3
    <3> QED
      BY <2>9, <3>1 DEF PyramidInv, RetriesInv, IsTracked
  <2>12. PyramidFacts!DeliveryInv'
    BY <1>9, PyramidSameEngine, PyramidFacts!AdoptingKeeps DEF AdoptPyramid, PyramidInv
  <2>13. RecordsOK' /\ PyramidHandlesInv'
    BY <1>8, <2>1, <2>7 DEF PyramidInv, RecordsOK
  <2> QED
    BY <2>8, <2>10, <2>11, <2>12, <2>13 DEF PyramidInv
<1>10. ASSUME NEW h \in PyramidHandles, PyramidOutcome(h) PROVE PyramidInv'
  <2>0. Work!Hearing(h) /\ Concluded(h) /\ UNCHANGED <<space, cachedIn>>
    BY <1>10 DEF PyramidOutcome
  <2>1. pyramidWork' = [pyramidWork EXCEPT ![h] = "free"]
    BY <2>0 DEF Work!Hearing
  <2>2. Work!Unheard(h) /\ PyramidFacts!DeliveryInv'
    BY <2>0, PyramidSameEngine, PyramidFacts!HearingKeeps DEF PyramidInv, Work!Unheard, Work!Free
  <2>3. PICK a \in Assets : madeFor[h].asset = a
    BY <1>8, <2>0, <2>1, <2>2
  <2>4. PICK status \in {"cancelled", "failed"} :
          tracked' = StatusOf(tracked, a, IsTracked(a), status)
    BY <1>10, <2>3 DEF PyramidOutcome
  <2>5. tracked' \in [Assets -> [space : Spaces, status : Statuses] \cup {Untracked}]
    BY <2>4 DEF PyramidInv, RecordsOK, StatusOf, IsTracked, Statuses
  <2>6. \A b \in Assets :
        /\ IsTracked(b)' <=> IsTracked(b)
        /\ IsTracked(b) => tracked'[b].space = tracked[b].space
        /\ IsTracked(b) /\ tracked'[b].status = "generating" =>
              b # a /\ tracked[b].status = "generating"
    BY <2>4 DEF PyramidInv, RecordsOK, StatusOf, IsTracked, Statuses
  <2>7. SpaceInv'
    BY <2>0, <2>6 DEF PyramidInv, SpaceInv
  <2>8. GeneratingInv'
    <3> SUFFICES ASSUME NEW b \in Assets, IsTracked(b)', tracked'[b].status = "generating"
                 PROVE  \E g \in PyramidHandles :
                          Work!Unheard(g)' /\ madeFor'[g] = [asset |-> b, space |-> space']
      BY DEF GeneratingInv
    <3>1. PICK g \in PyramidHandles :
            Work!Unheard(g) /\ madeFor[g] = [asset |-> b, space |-> space]
      BY <2>6 DEF PyramidInv, GeneratingInv
    <3>2. g # h
      BY <2>3, <2>6, <3>1
    <3>3. Work!Unheard(g)' /\ madeFor'[g] = madeFor[g]
      BY <1>8, <2>0, <2>1, <2>2, <3>1, <3>2 DEF Work!Unheard, Work!Free
    <3> QED
      BY <2>0, <3>1, <3>3
  <2>9. RetriesInv'
    BY <1>8, <2>0, <2>1, <2>2, <2>6 DEF PyramidInv, RetriesInv
  <2>10. RecordsOK' /\ PyramidHandlesInv'
    BY <1>8, <2>0, <2>1, <2>2, <2>5 DEF PyramidInv, RecordsOK
  <2> QED
    BY <2>2, <2>7, <2>8, <2>9, <2>10 DEF PyramidInv
<1>11. ASSUME NEW h \in PyramidHandles, PyramidElsewhere(h) PROVE PyramidInv'
  <2>1. /\ UNCHANGED <<space, tracked, cachedIn, active, pyramidRetry, madeFor>>
        /\ pyramidWork' \in [PyramidHandles -> {"free", "working", "doomed", "delivering", "ended"}]
        /\ \A g \in PyramidHandles : Work!Unheard(g)' <=> Work!Unheard(g)
    BY <1>11
    DEF PyramidElsewhere, productVars, coordinatorVars, Work!Returns, Work!Ends, Work!Dropping,
        PyramidInv, RecordsOK, Work!Unheard, Work!Free
  <2>2. PyramidFacts!DeliveryInv'
    BY <1>11, PyramidSameEngine, PyramidFacts!ReturnsKeeps, PyramidFacts!EndsKeeps, PyramidFacts!DroppingKeeps
    DEF PyramidElsewhere, PyramidInv
  <2> QED
    BY <2>1, <2>2
    DEF PyramidInv, RecordsOK, PyramidHandlesInv, RetriesInv, GeneratingInv, SpaceInv, IsTracked
<1>12. CASE UNCHANGED pyramidVars
  BY <1>12, PyramidEngineUnchanged
  DEF pyramidVars, productVars, coordinatorVars, pyramidEngineVars, PyramidInv, RecordsOK, PyramidHandlesInv,
      RetriesInv, GeneratingInv, SpaceInv, IsTracked, Work!Unheard, Work!Free
<1> QED
  BY <1>1, <1>2, <1>4, <1>5, <1>6, <1>7, <1>9, <1>10, <1>11, <1>12 DEF PyramidNext

\* PyramidInv always holds.
LEMMA AlwaysPyramidInv == PyramidSpec => []PyramidInv
  BY InitPyramidInv, StepKeepsPyramidInv, PTL DEF PyramidSpec

-----------------------------------------------------------------------------
\* A pyramid that counts as being generated is heard of again, and none of an
\* abandoned space is tracked or cached (pyramid.py, pyramid_work.py).
THEOREM PyramidsFollowRequestsAlways == PyramidSpec => []PyramidsFollowRequests
<1>1. PyramidInv => PyramidsFollowRequests
  <2> SUFFICES ASSUME PyramidInv, NEW a \in Assets
               PROVE  /\ IsTracked(a) /\ tracked[a].status = "generating" =>
                            \E h \in PyramidHandles : Work!Unheard(h) /\ madeFor[h].asset = a
                      /\ IsTracked(a) => tracked[a].space = space
                      /\ cachedIn[a] \in {space, Untracked}
    BY DEF PyramidsFollowRequests
  <2>1. IsTracked(a) /\ tracked[a].status = "generating" =>
          \E h \in PyramidHandles : Work!Unheard(h) /\ madeFor[h] = [asset |-> a, space |-> space]
    BY DEF PyramidInv, GeneratingInv
  <2> QED
    BY <2>1 DEF PyramidInv, SpaceInv
<1> QED
  BY <1>1, AlwaysPyramidInv, PTL

\* The invariant has the types.
LEMMA PyramidTypes == PyramidInv => PyramidTypeOK
  BY DEF PyramidInv, RecordsOK, PyramidTypeOK, Work!DeliveryTypeOK,
         PyramidFacts!DeliveryInv, PyramidFacts!Entries

\* Every variable of the pyramid manager and of its coordinator keeps its type.
THEOREM PyramidTypesStay == PyramidSpec => []PyramidTypeOK
  BY AlwaysPyramidInv, PyramidTypes, PTL

-----------------------------------------------------------------------------
(* MaskAutosave: who owns a mask, and what its file holds.                 *)

\* One save, from its request to its outcome.
Saves == [owner : Managers, stage : Stages, phase : Phases,
          tracked : BOOLEAN, blank : BOOLEAN, cancelled : BOOLEAN,
          outcome : {"none", "succeeded", "failed", "cancelled"},
          version : 0..MaxEdits, torn : BOOLEAN]

\* Every variable has its type, and the registry names a save that was begun.
SavesTyped ==
    /\ TypeOK /\ task \in Seq(Saves) /\ Len(task) <= MaxRequests
    /\ current \in 0..Len(task)

\* Whoever claims the mask owns the save that the registry names, and its owner
\* claims it.
Claims ==
    /\ \A m \in Managers : requestId[m] # 0 =>
          requestId[m] = current /\ task[current].owner = m
    /\ current # 0 => requestId[task[current].owner] = current

\* Only the registered save is tracked, and the pool is to run no other.
Tracked ==
    \A r \in Requests :
        /\ task[r].tracked => r = current
        /\ task[r].phase = "pending" => task[r].tracked

\* A delayed retry is of the registered save, at the stage where it waits.
Retrying ==
    \A m \in Managers, s \in Stages : retry[m][s] # 0 =>
        /\ retry[m][s] = current /\ requestId[m] = current
        /\ task[current].phase = "waiting" /\ task[current].stage = s

\* One save at a time has the exclusive key, and it brings nothing older than
\* what is on disk.
OneSave ==
    /\ file.version <= content /\ \A r \in Requests : task[r].version <= content
    /\ \A r \in Requests : task[r].phase \in {"writing", "replacing"} => task[r].stage = "save"
    /\ \A r, s \in Working : task[r].stage = "save" /\ task[s].stage = "save" => r = s
    /\ \A r \in Working : task[r].stage = "save" =>
          task[r].version = 0 \/ task[r].version >= file.version

\* A success that is still to be announced is on disk, and nobody overwrites it.
OnDisk ==
    \A r \in Requests :
        /\ r = current
        /\ task[r].stage = "save" /\ task[r].phase = "settled"
        /\ task[r].outcome = "succeeded"
        => /\ file.version = task[r].version
           /\ \A s \in Working : task[s].stage = "encode"

SaveInv == SavesTyped /\ Claims /\ Tracked /\ Retrying /\ OneSave /\ OnDisk

(* The registry is empty and nothing was begun. *)
LEMMA InitSaveInv ==
    ASSUME Init
    PROVE  SaveInv
<1>. USE DEF Init, Requests
<1>1. task \in Seq(Saves) /\ Len(task) = 0 /\ Requests = {}
  BY EmptySeq
<1>2. SavesTyped
  BY <1>1, SaveAssumption DEF SavesTyped, TypeOK, NoFile, NoRetry
<1>3. Claims /\ Tracked /\ Retrying /\ OnDisk
  BY <1>1 DEF Claims, Tracked, Retrying, OnDisk, NoRetry
<1>4. OneSave
  BY <1>1 DEF OneSave, Working, NoFile
<1>. QED  BY <1>2, <1>3, <1>4 DEF SaveInv

(* The requests are the places of the sequence of saves. *)
LEMMA RequestsAreNumbered ==
    ASSUME SavesTyped
    PROVE  /\ Len(task) \in Nat /\ Requests = 1..Len(task)
           /\ task \in [1..Len(task) -> Saves]
           /\ \A r \in Requests : task[r] \in Saves
BY LenProperties DEF SavesTyped, Requests

(* A function on places is a sequence of saves. *)
LEMMA SavesInARow ==
    ASSUME NEW n \in Nat, NEW f \in [1..n -> Saves]
    PROVE  f \in Seq(Saves) /\ Len(f) = n /\ DOMAIN f = 1..n
<1>1. f \in Seq(Saves)
  BY SeqDef
<1>. QED  BY <1>1, LenProperties

(* A step of the worker leaves the claims of the managers alone. *)
LEMMA WorkerKeepsBooks ==
    ASSUME SaveInv, NEW r \in Requests, UNCHANGED worker,
           task' \in [1..Len(task) -> Saves],
           \A s \in Requests \ {r} : task'[s] = task[s],
           task'[r].owner = task[r].owner, task'[r].stage = task[r].stage,
           task'[r].tracked = task[r].tracked,
           task[r].phase # "waiting", task'[r].phase # "pending",
           file' \in [version : -1..MaxEdits, torn : BOOLEAN]
    PROVE  /\ SavesTyped' /\ Claims' /\ Tracked' /\ Retrying'
           /\ Requests' = Requests
           /\ \A s : s \in Working' <=>
                s \in Requests /\ task'[s].phase \in {"reading", "writing", "replacing"}
<1>. USE DEF SaveInv, worker
<1>1. /\ Len(task) \in Nat /\ Requests = 1..Len(task)
      /\ \A s \in Requests : task[s] \in Saves
  BY RequestsAreNumbered
<1>2. task' \in Seq(Saves) /\ Len(task') = Len(task) /\ Requests' = Requests
  BY <1>1, SavesInARow DEF Requests
<1>3. SavesTyped'
  BY <1>1, <1>2 DEF SavesTyped, TypeOK, Saves
<1>4. current \in 0..Len(task)
  BY DEF SavesTyped
<1>5. Claims'
  BY <1>1, <1>4 DEF Claims
<1>6. Tracked'
  BY <1>1, <1>2 DEF Tracked
<1>7. Retrying'
  BY <1>1, <1>4 DEF Retrying
<1>8. \A s : s \in Working' <=>
         s \in Requests /\ task'[s].phase \in {"reading", "writing", "replacing"}
  BY <1>2 DEF Working
<1>. QED  BY <1>2, <1>3, <1>5, <1>6, <1>7, <1>8

(* Two fields of one save are written. *)
LEMMA TwoFields ==
    ASSUME NEW n \in Nat, NEW f \in [1..n -> Saves], NEW r \in 1..n, NEW g, NEW t \in Saves,
           g = [f EXCEPT ![r] = t]
    PROVE  g \in [1..n -> Saves] /\ g[r] = t /\ \A s \in (1..n) \ {r} : g[s] = f[s]
OBVIOUS

(* A worker takes up a save while no other save holds the key. *)
LEMMA StartKeeps ==
    ASSUME SaveInv, NEW r \in Requests, Start(r)
    PROVE  SaveInv'
<1>. USE DEF SaveInv
<1>1. /\ Len(task) \in Nat /\ Requests = 1..Len(task) /\ task \in [1..Len(task) -> Saves]
      /\ \A s \in Requests : task[s] \in Saves
  BY RequestsAreNumbered
<1>2. /\ UNCHANGED <<worker, file>> /\ task[r].phase = "pending" /\ KeyFree(r)
      /\ content \in 0..MaxEdits
  BY DEF Start, SavesTyped, TypeOK
<1>3. /\ task' \in [1..Len(task) -> Saves]
      /\ \A s \in Requests \ {r} : task'[s] = task[s]
      /\ task'[r].owner = task[r].owner /\ task'[r].stage = task[r].stage
      /\ task'[r].tracked = task[r].tracked /\ task'[r].phase = "reading"
      /\ task'[r].version \in {0, content}
  <2>1. PICK v : v = IF task[r].blank THEN 0 ELSE content
    OBVIOUS
  <2>2. PICK t : t = [task[r] EXCEPT !.phase = "reading", !.version = v]
    OBVIOUS
  <2>3. task' = [task EXCEPT ![r] = t]
    BY <1>1, <2>1, <2>2 DEF Start
  <2>4. v \in {0, content} /\ v \in 0..MaxEdits
    BY <1>2, <2>1, SaveAssumption
  <2>5. /\ t \in Saves /\ t.owner = task[r].owner /\ t.stage = task[r].stage
        /\ t.tracked = task[r].tracked /\ t.version = v /\ t.phase = "reading"
    BY <1>1, <2>2, <2>4 DEF Saves, Phases
  <2>. QED  BY <1>1, <2>3, <2>4, <2>5, TwoFields
<1>4. /\ SavesTyped' /\ Claims' /\ Tracked' /\ Retrying' /\ Requests' = Requests
      /\ \A s : s \in Working' <=>
           s \in Requests /\ task'[s].phase \in {"reading", "writing", "replacing"}
  <2>1. file' \in [version : -1..MaxEdits, torn : BOOLEAN]
    BY <1>2 DEF SavesTyped, TypeOK
  <2>. QED  BY <1>2, <1>3, <2>1, WorkerKeepsBooks
<1>5. \A s : s \in Working' <=> s \in Working \/ s = r
  BY <1>2, <1>3, <1>4 DEF Working
<1>6. task[r].stage = "save" => \A s \in Working : task[s].stage = "encode"
  BY <1>2 DEF KeyFree, Working
<1>7. \A s \in Working : s \in Requests /\ s # r
  BY <1>2 DEF Working
<1>8. OneSave'
  <2>1. content' = content /\ file' = file /\ file.version \in Int /\ content \in Nat
    BY <1>2, SaveAssumption DEF worker, SavesTyped, TypeOK
  <2>2. /\ file'.version <= content'
        /\ \A s \in Requests' : task'[s].version <= content'
    BY <1>3, <1>4, <2>1 DEF OneSave
  <2>3. \A s \in Requests' :
           task'[s].phase \in {"writing", "replacing"} => task'[s].stage = "save"
    BY <1>3, <1>4 DEF OneSave
  <2>4. \A s, u \in Working' :
           task'[s].stage = "save" /\ task'[u].stage = "save" => s = u
    BY <1>3, <1>5, <1>6, <1>7 DEF OneSave
  <2>5. \A s \in Working' : task'[s].stage = "save" =>
           task'[s].version = 0 \/ task'[s].version >= file'.version
    BY <1>3, <1>5, <1>7, <2>1 DEF OneSave
  <2>. QED  BY <2>2, <2>3, <2>4, <2>5 DEF OneSave
<1>9. OnDisk'
  <2>1. task[r].tracked /\ r = current /\ current' = current
    BY <1>2 DEF Tracked, worker
  <2>. QED  BY <1>3, <1>4, <2>1 DEF OnDisk
<1>. QED  BY <1>4, <1>8, <1>9

(* A save that was working goes on, or ends without having replaced the file. *)
LEMMA ProgressKeeps ==
    ASSUME SaveInv, NEW r \in Requests, UNCHANGED <<worker, file>>, r \in Working,
           task' \in [1..Len(task) -> Saves],
           \A s \in Requests \ {r} : task'[s] = task[s],
           task'[r].owner = task[r].owner, task'[r].stage = task[r].stage,
           task'[r].tracked = task[r].tracked, task'[r].version = task[r].version,
           \/ /\ task'[r].phase \in {"writing", "replacing"}
              /\ task[r].stage = "save"
           \/ /\ task'[r].phase = "settled"
              /\ task[r].stage = "save" => task'[r].outcome # "succeeded"
    PROVE  SaveInv'
<1>. USE DEF SaveInv
<1>1. /\ Len(task) \in Nat /\ Requests = 1..Len(task)
      /\ \A s \in Requests : task[s] \in Saves
  BY RequestsAreNumbered
<1>2. /\ SavesTyped' /\ Claims' /\ Tracked' /\ Retrying' /\ Requests' = Requests
      /\ \A s : s \in Working' <=>
           s \in Requests /\ task'[s].phase \in {"reading", "writing", "replacing"}
  <2>1. file' \in [version : -1..MaxEdits, torn : BOOLEAN]
    BY DEF SavesTyped, TypeOK
  <2>2. task[r].phase # "waiting"
    BY DEF Working
  <2>. QED  BY <2>1, <2>2, WorkerKeepsBooks
<1>3. \A s \in Working' : s \in Working
  BY <1>2 DEF Working
<1>4. \A s \in Requests : task'[s].stage = task[s].stage /\ task'[s].version = task[s].version
  OBVIOUS
<1>5. Working \subseteq Requests /\ Working' \subseteq Requests
  BY <1>2 DEF Working
<1>6. OneSave'
  <2>1. content' = content /\ file' = file
    BY DEF worker
  <2>. QED  BY <1>2, <1>3, <1>4, <1>5, <2>1 DEF OneSave
<1>7. OnDisk'
  <2>1. current' = current
    BY DEF worker
  <2>. QED  BY <1>2, <1>3, <1>4, <1>5, <2>1 DEF OnDisk
<1>. QED  BY <1>2, <1>6, <1>7

(* The pixels have been read. *)
LEMMA FinishReadKeeps ==
    ASSUME SaveInv, NEW r \in Requests, FinishRead(r)
    PROVE  SaveInv'
<1>1. /\ Len(task) \in Nat /\ Requests = 1..Len(task) /\ task \in [1..Len(task) -> Saves]
      /\ \A s \in Requests : task[s] \in Saves
  BY RequestsAreNumbered DEF SaveInv
<1>2. UNCHANGED <<worker, file>> /\ r \in Working /\ task[r].stage = "save"
  BY DEF FinishRead, Working
<1>3. /\ task' \in [1..Len(task) -> Saves]
      /\ \A s \in Requests \ {r} : task'[s] = task[s]
      /\ task'[r].owner = task[r].owner /\ task'[r].stage = task[r].stage
      /\ task'[r].tracked = task[r].tracked /\ task'[r].version = task[r].version
      /\ task'[r].phase = "writing"
  <2>1. PICK torn \in BOOLEAN :
           task' = [task EXCEPT ![r].phase = "writing", ![r].torn = torn]
    BY DEF FinishRead
  <2>2. PICK t : t = [task[r] EXCEPT !.phase = "writing", !.torn = torn]
    OBVIOUS
  <2>3. task' = [task EXCEPT ![r] = t]
    BY <1>1, <2>1, <2>2
  <2>4. /\ t \in Saves /\ t.owner = task[r].owner /\ t.stage = task[r].stage
        /\ t.tracked = task[r].tracked /\ t.version = task[r].version /\ t.phase = "writing"
    BY <1>1, <2>2 DEF Saves, Phases
  <2>. QED  BY <1>1, <2>3, <2>4, TwoFields
<1>. QED  BY <1>2, <1>3, ProgressKeeps

(* A save or an encoding that was working is settled with an outcome. *)
LEMMA SettledFields ==
    ASSUME SaveInv, NEW r \in Requests, NEW outcome \in {"succeeded", "failed", "cancelled"},
           Settle(r, outcome)
    PROVE  /\ task' \in [1..Len(task) -> Saves]
           /\ \A s \in Requests \ {r} : task'[s] = task[s]
           /\ task'[r].owner = task[r].owner /\ task'[r].stage = task[r].stage
           /\ task'[r].tracked = task[r].tracked /\ task'[r].version = task[r].version
           /\ task'[r].phase = "settled" /\ task'[r].outcome = outcome
<1>1. /\ Len(task) \in Nat /\ Requests = 1..Len(task) /\ task \in [1..Len(task) -> Saves]
      /\ \A s \in Requests : task[s] \in Saves
  BY RequestsAreNumbered DEF SaveInv
<1>2. PICK t : t = [task[r] EXCEPT !.phase = "settled", !.outcome = outcome]
  OBVIOUS
<1>3. task' = [task EXCEPT ![r] = t]
  BY <1>1, <1>2 DEF Settle
<1>4. /\ t \in Saves /\ t.owner = task[r].owner /\ t.stage = task[r].stage
      /\ t.tracked = task[r].tracked /\ t.version = task[r].version
      /\ t.phase = "settled" /\ t.outcome = outcome
  BY <1>1, <1>2 DEF Saves, Phases
<1>. QED  BY <1>1, <1>3, <1>4, TwoFields

(* The blank mask is encoded. *)
LEMMA FinishEncodeKeeps ==
    ASSUME SaveInv, NEW r \in Requests, FinishEncode(r)
    PROVE  SaveInv'
<1>1. UNCHANGED <<worker, file>> /\ r \in Working /\ task[r].stage = "encode"
  BY DEF FinishEncode, Working
<1>2. PICK outcome \in {"succeeded", "failed", "cancelled"} : Settle(r, outcome)
  BY DEF FinishEncode
<1>. QED  BY <1>1, <1>2, SettledFields, ProgressKeeps

(* The last check before the file is replaced. *)
LEMMA CheckCancelledKeeps ==
    ASSUME SaveInv, NEW r \in Requests, CheckCancelled(r)
    PROVE  SaveInv'
<1>1. /\ Len(task) \in Nat /\ Requests = 1..Len(task) /\ task \in [1..Len(task) -> Saves]
      /\ \A s \in Requests : task[s] \in Saves
  BY RequestsAreNumbered DEF SaveInv
<1>2. UNCHANGED <<worker, file>> /\ r \in Working /\ task[r].stage = "save"
  BY DEF CheckCancelled, ToPhase, Working, SaveInv, OneSave
<1>3. CASE Settle(r, "cancelled")
  BY <1>2, <1>3, SettledFields, ProgressKeeps
<1>4. CASE ToPhase(r, "writing", "replacing")
  <2>1. /\ task' \in [1..Len(task) -> Saves]
        /\ \A s \in Requests \ {r} : task'[s] = task[s]
        /\ task'[r].owner = task[r].owner /\ task'[r].stage = task[r].stage
        /\ task'[r].tracked = task[r].tracked /\ task'[r].version = task[r].version
        /\ task'[r].phase = "replacing"
    BY <1>1, <1>4 DEF ToPhase, Saves, Phases
  <2>. QED  BY <1>2, <2>1, ProgressKeeps
<1>. QED  BY <1>3, <1>4 DEF CheckCancelled

(* A file error. *)
LEMMA FailKeeps ==
    ASSUME SaveInv, NEW r \in Requests, Fail(r)
    PROVE  SaveInv'
<1>1. UNCHANGED <<worker, file>> /\ r \in Working /\ Settle(r, "failed")
  BY DEF Fail
<1>. QED  BY <1>1, SettledFields, ProgressKeeps

(* The file is replaced: nobody else is about to. *)
LEMMA FileReplacedKeeps ==
    ASSUME SaveInv, NEW r \in Requests, Replace(r)
    PROVE  SaveInv' /\ (file'.version = 0 \/ file'.version >= file.version)
<1>. USE DEF SaveInv
<1>1. /\ Len(task) \in Nat /\ Requests = 1..Len(task)
      /\ \A s \in Requests : task[s] \in Saves
  BY RequestsAreNumbered
<1>2. /\ UNCHANGED worker /\ r \in Working /\ task[r].stage = "save"
      /\ file'.version = task[r].version
      /\ file' \in [version : -1..MaxEdits, torn : BOOLEAN]
  BY <1>1, SaveAssumption DEF Replace, Working, OneSave, Saves
<1>3. PICK outcome \in {"succeeded", "failed", "cancelled"} : Settle(r, outcome)
  BY DEF Replace
<1>4. /\ task' \in [1..Len(task) -> Saves]
      /\ \A s \in Requests \ {r} : task'[s] = task[s]
      /\ task'[r].owner = task[r].owner /\ task'[r].stage = task[r].stage
      /\ task'[r].tracked = task[r].tracked /\ task'[r].version = task[r].version
      /\ task'[r].phase = "settled"
  BY <1>3, SettledFields
<1>5. /\ SavesTyped' /\ Claims' /\ Tracked' /\ Retrying' /\ Requests' = Requests
      /\ \A s : s \in Working' <=>
           s \in Requests /\ task'[s].phase \in {"reading", "writing", "replacing"}
  <2>1. task[r].phase # "waiting"
    BY <1>2 DEF Working
  <2>. QED  BY <1>2, <1>4, <2>1, WorkerKeepsBooks
<1>6. \A s \in Working' : s \in Working /\ s \in Requests /\ s # r
  BY <1>4, <1>5 DEF Working
<1>7. \A s \in Working' : task'[s].stage = "encode"
  <2>1. \A s \in Working' : task[s].stage # "save" /\ task'[s] = task[s] /\ task[s] \in Saves
    BY <1>1, <1>2, <1>4, <1>6 DEF OneSave
  <2>. QED  BY <2>1 DEF Saves, Stages
<1>8. /\ file.version \in Int /\ content \in Nat /\ task[r].version \in 0..content
      /\ task[r].version = 0 \/ task[r].version >= file.version
  <2>1. task[r].version = 0 \/ task[r].version >= file.version
    BY <1>2 DEF OneSave
  <2>2. file.version \in Int /\ content \in Nat
    BY SaveAssumption DEF SavesTyped, TypeOK
  <2>. QED  BY <2>1, <2>2, <1>1, <1>2 DEF Saves, OneSave
<1>9. OneSave'
  <2>1. content' = content
    BY <1>2 DEF worker
  <2>. QED  BY <1>2, <1>4, <1>5, <1>7, <1>8, <2>1 DEF OneSave
<1>10. OnDisk'
  <2>1. current' = current
    BY <1>2 DEF worker
  <2>2. ASSUME r # current, NEW s \in Requests, s = current, task[s].stage = "save",
               task[s].phase = "settled", task[s].outcome = "succeeded"
        PROVE  FALSE
    BY <1>2, <2>2 DEF OnDisk
  <2>. QED  BY <1>2, <1>4, <1>5, <1>7, <2>1, <2>2 DEF OnDisk
<1>. QED  BY <1>2, <1>5, <1>8, <1>9, <1>10

(* Revoking the saves of some managers leaves what they read and whose they  *)
(* are, and nothing of them waits for the pool.                            *)
LEMMA RevokedSaves ==
    ASSUME SavesTyped, NEW losers, NEW ts, ts = TasksWithout(losers)
    PROVE  /\ ts \in [1..Len(task) -> Saves]
           /\ \A r \in Requests :
                /\ ts[r].owner = task[r].owner /\ ts[r].stage = task[r].stage
                /\ ts[r].version = task[r].version
                /\ task[r].owner \in losers => ~ts[r].tracked
                /\ ~task[r].tracked \/ task[r].owner \notin losers => ts[r] = task[r]
                /\ \/ ts[r].phase = task[r].phase /\ ts[r].outcome = task[r].outcome
                   \/ ts[r].phase = "settled" /\ ts[r].outcome = "cancelled"
                /\ task[r].phase = "pending" /\ task[r].tracked /\ task[r].owner \in losers =>
                      ts[r].phase = "settled"
<1>1. /\ Len(task) \in Nat /\ Requests = 1..Len(task)
      /\ \A r \in Requests : task[r] \in Saves
  BY RequestsAreNumbered
<1>2. ASSUME NEW t \in Saves
      PROVE  /\ Revoked(t) \in Saves /\ Revoked(t).owner = t.owner
             /\ Revoked(t).stage = t.stage /\ Revoked(t).version = t.version
             /\ ~Revoked(t).tracked /\ (~t.tracked => Revoked(t) = t)
             /\ \/ Revoked(t).phase = t.phase /\ Revoked(t).outcome = t.outcome
                \/ Revoked(t).phase = "settled" /\ Revoked(t).outcome = "cancelled"
             /\ t.phase = "pending" /\ t.tracked => Revoked(t).phase = "settled"
  <2>1. CASE ~t.tracked
    BY <2>1 DEF Revoked
  <2>2. CASE t.tracked /\ t.phase = "pending"
    <3>1. Revoked(t) =
            [t EXCEPT !.tracked = FALSE, !.phase = "settled", !.outcome = "cancelled"]
      BY <2>2 DEF Revoked
    <3>. QED  BY <2>2, <3>1 DEF Saves, Phases
  <2>3. CASE t.tracked /\ t.phase # "pending"
    <3>1. Revoked(t) = [t EXCEPT !.tracked = FALSE, !.cancelled = (t.phase # "settled")]
      BY <2>3 DEF Revoked
    <3>. QED  BY <2>3, <3>1 DEF Saves
  <2>4. t.tracked \in BOOLEAN
    BY DEF Saves
  <2>. QED  BY <2>1, <2>2, <2>3, <2>4
<1>3. \A r \in Requests :
         ts[r] = IF task[r].owner \in losers THEN Revoked(task[r]) ELSE task[r]
  BY DEF TasksWithout
<1>4. ts \in [1..Len(task) -> Saves]
  <2>1. DOMAIN ts = 1..Len(task)
    BY <1>1 DEF TasksWithout
  <2>2. \A r \in 1..Len(task) : ts[r] \in Saves
    BY <1>1, <1>2, <1>3
  <2>3. ts = [r \in Requests |-> ts[r]]
    BY DEF TasksWithout
  <2>. QED  BY <1>1, <2>1, <2>2, <2>3
<1>. QED  BY <1>1, <1>2, <1>3, <1>4

\* The saves of n requests, and the delayed retries.
SavesOf(n) == [1..n -> Saves]
Delays == [Managers -> [Stages -> 0..MaxRequests]]

(* A submission that joins no other is accepted, or retained by its manager. *)
LEMMA Offered ==
    ASSUME NEW n \in Nat, NEW ts \in SavesOf(n), NEW r \in 1..n, r <= MaxRequests,
           ts[r].phase = "waiting",
           NEW rt \in Delays,
           rt[ts[r].owner][ts[r].stage] = 0,
           NEW was \in BOOLEAN, NEW accepted \in BOOLEAN,
           Offer(ts, rt, was, r, accepted), dirty \in [Managers -> BOOLEAN]
    PROVE  /\ dirty' \in [Managers -> BOOLEAN]
           /\ task' \in SavesOf(n) /\ \A s \in (1..n) \ {r} : task'[s] = ts[s]
           /\ task'[r].owner = ts[r].owner /\ task'[r].stage = ts[r].stage
           /\ task'[r].version = ts[r].version
           /\ retry' \in Delays
           /\ \A m \in Managers, s \in Stages :
                 \/ retry'[m][s] = rt[m][s]
                 \/ /\ task'[r].phase = "waiting" /\ retry'[m][s] = r
                    /\ m = ts[r].owner /\ s = ts[r].stage
           /\ \/ task'[r].phase = "waiting"
              \/ task'[r].phase = "pending" /\ task'[r].tracked
<1>. USE DEF SavesOf, Delays
<1>1. ts[r] \in Saves /\ ts[r].owner \in Managers /\ ts[r].stage \in Stages
  BY DEF Saves
<1>2. dirty' \in [Managers -> BOOLEAN]
  <2>1. PICK mark : mark = (was \/ ~accepted)
    OBVIOUS
  <2>2. mark \in BOOLEAN /\ dirty' = [dirty EXCEPT ![ts[r].owner] = mark]
    BY <2>1 DEF Offer
  <2>. QED  BY <1>1, <2>2
<1>3. CASE accepted
  <2>1. task' = [ts EXCEPT ![r].phase = "pending", ![r].tracked = TRUE] /\ retry' = rt
    BY <1>3 DEF Offer
  <2>2. PICK t : t = [ts[r] EXCEPT !.phase = "pending", !.tracked = TRUE]
    OBVIOUS
  <2>3. task' = [ts EXCEPT ![r] = t]
    BY <2>1, <2>2
  <2>4. /\ t \in Saves /\ t.owner = ts[r].owner /\ t.stage = ts[r].stage
        /\ t.version = ts[r].version /\ t.phase = "pending" /\ t.tracked
    BY <1>1, <2>2 DEF Saves, Phases
  <2>5. /\ task' \in SavesOf(n) /\ task'[r] = t
        /\ \A s \in (1..n) \ {r} : task'[s] = ts[s]
    BY <2>3, <2>4, TwoFields
  <2>. QED  BY <1>2, <2>1, <2>4, <2>5
<1>4. CASE ~accepted
  <2>1. task' = ts /\ retry' = [rt EXCEPT ![ts[r].owner][ts[r].stage] = r]
    BY <1>4 DEF Offer
  <2>2. r \in 0..MaxRequests
    BY SaveAssumption
  <2>. QED  BY <1>1, <1>2, <2>1, <2>2
<1>. QED  BY <1>3, <1>4

(* One save is registered, and every other has been given up. *)
LEMMA RegisteredKeeps ==
    ASSUME SaveInv, TypeOK', UNCHANGED <<content, file>>,
           NEW n \in Nat, n <= MaxRequests, Len(task) <= n, NEW r \in 1..n, current' = r,
           task' \in SavesOf(n),
           \A s \in (1..n) \ {r} :
               /\ s \in Requests /\ ~task'[s].tracked /\ task'[s].phase # "pending"
               /\ task'[s].stage = task[s].stage /\ task'[s].version = task[s].version
               /\ \/ task'[s].phase = task[s].phase
                  \/ task'[s].phase = "settled",
           task'[r].version <= content,
           \/ task'[r].phase = "waiting"
           \/ task'[r].phase = "pending" /\ task'[r].tracked,
           requestId'[task'[r].owner] = r,
           \A m \in Managers : m # task'[r].owner => requestId'[m] = 0,
           \A m \in Managers, s \in Stages : retry'[m][s] # 0 =>
               /\ retry'[m][s] = r /\ m = task'[r].owner
               /\ s = task'[r].stage /\ task'[r].phase = "waiting"
    PROVE  SaveInv'
<1>. USE DEF SaveInv
<1>1. /\ Len(task) \in Nat /\ Requests = 1..Len(task)
      /\ \A s \in Requests : task[s] \in Saves
  BY RequestsAreNumbered
<1>2. task' \in Seq(Saves) /\ Len(task') = n /\ Requests' = 1..n
  BY SavesInARow DEF Requests, SavesOf
<1>3. SavesTyped'
  BY <1>2 DEF SavesTyped
<1>4. Claims'
  BY DEF Claims
<1>5. Tracked'
  BY <1>2 DEF Tracked
<1>6. Retrying'
  BY DEF Retrying
<1>7. \A s \in Working' :
         s \in Working /\ s \in Requests /\ s # r /\ s \in 1..n
  BY <1>2 DEF Working
<1>8. OneSave'
  BY <1>2, <1>7 DEF OneSave
<1>9. OnDisk'
  BY <1>2 DEF OnDisk
<1>. QED  BY <1>3, <1>4, <1>5, <1>6, <1>8, <1>9

(* No save is registered, and every one has been given up or has ended. *)
LEMMA ReleasedKeeps ==
    ASSUME SaveInv, TypeOK', UNCHANGED <<content, file>>, current' = 0,
           task' \in [1..Len(task) -> Saves],
           \A s \in Requests :
               /\ ~task'[s].tracked /\ task'[s].phase # "pending"
               /\ \/ /\ task'[s].stage = task[s].stage /\ task'[s].version = task[s].version
                     /\ task'[s].phase = task[s].phase \/ task'[s].phase = "settled"
                  \/ task'[s].phase = "delivered" /\ task'[s].version = 0,
           \A m \in Managers : requestId'[m] = 0,
           \A m \in Managers, s \in Stages : retry'[m][s] = 0
    PROVE  SaveInv'
<1>. USE DEF SaveInv
<1>1. /\ Len(task) \in Nat /\ Requests = 1..Len(task)
      /\ \A s \in Requests : task[s] \in Saves
  BY RequestsAreNumbered
<1>2. task' \in Seq(Saves) /\ Len(task') = Len(task) /\ Requests' = Requests
  BY <1>1, SavesInARow DEF Requests
<1>3. SavesTyped'
  BY <1>1, <1>2 DEF SavesTyped
<1>4. Claims' /\ Retrying'
  BY DEF Claims, Retrying
<1>5. Tracked'
  BY <1>2 DEF Tracked
<1>6. \A s \in Working' :
         /\ s \in Working /\ s \in Requests
         /\ task'[s].stage = task[s].stage /\ task'[s].version = task[s].version
  BY <1>2 DEF Working
<1>7. content \in Nat
  BY SaveAssumption DEF SavesTyped, TypeOK
<1>8. OneSave'
  BY <1>2, <1>6, <1>7 DEF OneSave
<1>9. OnDisk'
  BY <1>1, <1>2 DEF OnDisk
<1>. QED  BY <1>3, <1>4, <1>5, <1>8, <1>9

(* Whoever loses the mask to a new request, nothing of the registered save is *)
(* tracked or retried any longer.                                          *)
LEMMA OwnerLoses ==
    ASSUME SaveInv, NEW losers, current # 0 => task[current].owner \in losers,
           NEW ts, ts = TasksWithout(losers)
    PROVE  /\ \A r \in Requests : ~ts[r].tracked /\ ts[r].phase # "pending"
           /\ \A m \in Managers, s \in Stages : RetryWithout(losers)[m][s] = 0
           /\ \A m \in Managers : requestId[m] # 0 => m \in losers
<1>. USE DEF SaveInv
<1>1. /\ Requests = 1..Len(task) /\ \A r \in Requests : task[r] \in Saves
  BY RequestsAreNumbered
<1>2. \A r \in Requests : task[r].tracked => task[r].owner \in losers
  <2>1. \A r \in Requests : r # 0
    BY <1>1
  <2>. QED  BY <2>1 DEF Tracked
<1>3. ASSUME NEW r \in Requests  PROVE ~ts[r].tracked /\ ts[r].phase # "pending"
  <2>1. CASE task[r].tracked
    BY <1>2, <2>1, RevokedSaves
  <2>2. CASE ~task[r].tracked
    <3>1. ts[r] = task[r] /\ task[r].phase # "pending"
      BY <2>2, RevokedSaves DEF Tracked
    <3>. QED  BY <2>2, <3>1
  <2>. QED  BY <2>1, <2>2
<1>4. \A m \in Managers : requestId[m] # 0 => m \in losers
  BY DEF Claims
<1>5. \A m \in Managers, s \in Stages : RetryWithout(losers)[m][s] = 0
  <2>1. ASSUME NEW m \in Managers, m \notin losers, NEW s \in Stages  PROVE retry[m][s] = 0
    <3>1. requestId[m] = 0
      BY <1>4, <2>1
    <3>. QED  BY <3>1 DEF Retrying
  <2>. QED  BY <2>1 DEF RetryWithout, NoRetry
<1>. QED  BY <1>3, <1>4, <1>5

(* What a handler of the owner thread writes has its type. *)
LEMMA StaysTyped ==
    ASSUME SaveInv, content' \in 0..MaxEdits, file' = file,
           dirty' \in [Managers -> BOOLEAN], timer' \in [Managers -> BOOLEAN],
           requestId' \in [Managers -> 0..MaxRequests], current' \in 0..MaxRequests,
           retry' \in [Managers -> [Stages -> 0..MaxRequests]],
           NEW n \in Nat, task' \in SavesOf(n),
           open' \subseteq Managers, announced' \in -1..MaxEdits
    PROVE  TypeOK'
<1>. USE DEF SavesOf
<1>1. Requests' = 1..n
  BY DEF Requests
<1>2. \A r \in Requests' : task'[r] \in Saves
  BY <1>1
<1>. QED  BY <1>2 DEF SaveInv, SavesTyped, TypeOK, Saves

(* The variables that handlers read have their types. *)
LEMMA OwnerTypes ==
    ASSUME SaveInv
    PROVE  /\ content \in 0..MaxEdits /\ dirty \in [Managers -> BOOLEAN]
           /\ timer \in [Managers -> BOOLEAN]
           /\ requestId \in [Managers -> 0..MaxRequests] /\ current \in 0..MaxRequests
           /\ retry \in [Managers -> [Stages -> 0..MaxRequests]]
           /\ open \subseteq Managers /\ announced \in -1..MaxEdits
           /\ content \in Nat /\ MaxEdits \in Nat /\ MaxRequests \in Nat
           /\ Len(task) \in Nat /\ Len(task) <= MaxRequests /\ Requests = 1..Len(task)
           /\ task \in [1..Len(task) -> Saves]
           /\ \A r \in Requests : task[r] \in Saves
<1>1. SavesTyped
  BY DEF SaveInv
<1>. QED  BY <1>1, RequestsAreNumbered, SaveAssumption DEF SavesTyped, TypeOK

(* A new request takes the mask over. *)
LEMMA BeginKeeps ==
    ASSUME SaveInv, NEW m \in Managers, NEW stage \in Stages, NEW accepted \in BOOLEAN,
           NEW was \in BOOLEAN, Begin(m, stage, was, accepted),
           UNCHANGED <<content, file, open, announced>>, timer' \in [Managers -> BOOLEAN]
    PROVE  SaveInv'
<1>1. PICK n : n = Len(task) + 1
  OBVIOUS
<1>2. PICK lost : lost = TasksWithout(Superseded)
  OBVIOUS
<1>3. PICK new : new = NewRequest(m, stage)
  OBVIOUS
<1>4. PICK ts : ts = Append(lost, new)
  OBVIOUS
<1>5. PICK rt : rt = RetryWithout(Superseded)
  OBVIOUS
<1>6. /\ n <= MaxRequests /\ current' = n /\ Offer(ts, rt, was, n, accepted)
      /\ requestId' = [x \in Managers |-> IF x = m THEN n
                                          ELSE IF x \in Superseded THEN 0
                                          ELSE requestId[x]]
  BY <1>1, <1>2, <1>3, <1>4, <1>5 DEF Begin
<1>7. /\ n \in Nat /\ n \in 1..n /\ n \in 0..MaxRequests /\ Len(task) <= n
      /\ Requests = 1..(n - 1) /\ n - 1 = Len(task) /\ (1..n) \ {n} = 1..(n - 1)
  BY <1>1, <1>6, OwnerTypes
<1>8. current # 0 => task[current].owner \in Superseded
  <2>1. current \in 0..Len(task)
    BY DEF SaveInv, SavesTyped
  <2>2. current # 0 => task[current] \in Saves
    <3>1. current # 0 => current \in Requests
      BY <2>1, OwnerTypes
    <3>. QED  BY <3>1, OwnerTypes
  <2>. QED  BY <2>2 DEF SaveInv, Claims, Superseded, Saves
<1>9. /\ \A r \in Requests : ~lost[r].tracked /\ lost[r].phase # "pending"
      /\ \A x \in Managers, s \in Stages : rt[x][s] = 0
      /\ \A x \in Managers : requestId[x] # 0 => x \in Superseded
  BY <1>2, <1>5, <1>8, OwnerLoses
<1>10. /\ lost \in [1..Len(task) -> Saves]
       /\ \A r \in Requests :
            /\ lost[r].stage = task[r].stage /\ lost[r].version = task[r].version
            /\ lost[r].phase = task[r].phase \/ lost[r].phase = "settled"
  BY <1>2, RevokedSaves DEF SaveInv
<1>11. /\ new \in Saves /\ new.owner = m /\ new.stage = stage /\ new.phase = "waiting"
       /\ new.version = 0
  BY <1>3, OwnerTypes DEF NewRequest, Saves, Phases
<1>12. /\ ts \in [1..n -> Saves] /\ ts[n] = new
       /\ \A r \in 1..(n - 1) : ts[r] = lost[r]
  <2>1. lost \in Seq(Saves) /\ Len(lost) = Len(task)
    BY <1>10, OwnerTypes, SavesInARow
  <2>2. ts \in Seq(Saves) /\ Len(ts) = n
    BY <1>1, <1>4, <1>11, <2>1, AppendProperties
  <2>3. ts[n] = new /\ \A r \in 1..(n - 1) : ts[r] = lost[r]
    BY <1>1, <1>4, <1>7, <1>11, <2>1, AppendProperties
  <2>. QED  BY <2>2, <2>3, LenProperties
<1>13. rt \in [Managers -> [Stages -> 0..MaxRequests]]
  BY <1>5, OwnerTypes DEF RetryWithout, NoRetry
<1>14. /\ dirty' \in [Managers -> BOOLEAN]
       /\ task' \in [1..n -> Saves] /\ \A s \in (1..n) \ {n} : task'[s] = ts[s]
       /\ task'[n].owner = m /\ task'[n].stage = stage /\ task'[n].version = 0
       /\ retry' \in [Managers -> [Stages -> 0..MaxRequests]]
       /\ \A x \in Managers, s \in Stages :
             \/ retry'[x][s] = rt[x][s]
             \/ task'[n].phase = "waiting" /\ retry'[x][s] = n /\ x = m /\ s = stage
       /\ \/ task'[n].phase = "waiting"
          \/ task'[n].phase = "pending" /\ task'[n].tracked
  <2>1. rt[ts[n].owner][ts[n].stage] = 0 /\ ts[n].phase = "waiting"
    BY <1>9, <1>11, <1>12
  <2>2. /\ n \in Nat /\ ts \in SavesOf(n) /\ n \in 1..n /\ n <= MaxRequests
        /\ rt \in Delays /\ dirty \in [Managers -> BOOLEAN] /\ Offer(ts, rt, was, n, accepted)
    BY <1>6, <1>7, <1>12, <1>13, OwnerTypes DEF SavesOf, Delays
  <2>3. ts[n].owner = m /\ ts[n].stage = stage /\ ts[n].version = 0
    BY <1>11, <1>12
  <2>4. /\ dirty' \in [Managers -> BOOLEAN]
        /\ task' \in SavesOf(n) /\ \A s \in (1..n) \ {n} : task'[s] = ts[s]
        /\ task'[n].owner = ts[n].owner /\ task'[n].stage = ts[n].stage
        /\ task'[n].version = ts[n].version /\ retry' \in Delays
        /\ \A x \in Managers, s \in Stages :
              \/ retry'[x][s] = rt[x][s]
              \/ /\ task'[n].phase = "waiting" /\ retry'[x][s] = n
                 /\ x = ts[n].owner /\ s = ts[n].stage
        /\ \/ task'[n].phase = "waiting"
           \/ task'[n].phase = "pending" /\ task'[n].tracked
    BY <2>1, <2>2, Offered
  <2>. QED  BY <2>3, <2>4 DEF SavesOf, Delays
<1>15. requestId' \in [Managers -> 0..MaxRequests]
  BY <1>6, <1>7, OwnerTypes
<1>16. TypeOK'
  <2>1. /\ content' \in 0..MaxEdits /\ task' \in SavesOf(n) /\ current' \in 0..MaxRequests
        /\ open' \subseteq Managers /\ announced' \in -1..MaxEdits
    BY <1>6, <1>7, <1>14, OwnerTypes DEF SavesOf
  <2>. QED  BY <1>7, <1>14, <1>15, <2>1, StaysTyped
<1>17. requestId'[m] = n /\ \A x \in Managers : x # m => requestId'[x] = 0
  BY <1>6, <1>9
<1>18. \A s \in (1..n) \ {n} :
          /\ s \in Requests /\ ~task'[s].tracked /\ task'[s].phase # "pending"
          /\ task'[s].stage = task[s].stage /\ task'[s].version = task[s].version
          /\ task'[s].phase = task[s].phase \/ task'[s].phase = "settled"
  BY <1>7, <1>9, <1>10, <1>12, <1>14
<1>19. \A x \in Managers, s \in Stages : retry'[x][s] # 0 =>
          /\ retry'[x][s] = n /\ x = task'[n].owner
          /\ s = task'[n].stage /\ task'[n].phase = "waiting"
  <2>1. ASSUME NEW x \in Managers, NEW s \in Stages, retry'[x][s] # 0
        PROVE  /\ task'[n].phase = "waiting" /\ retry'[x][s] = n /\ x = m /\ s = stage
    <3>1. rt[x][s] = 0
      BY <1>9
    <3>2. \/ retry'[x][s] = rt[x][s]
          \/ task'[n].phase = "waiting" /\ retry'[x][s] = n /\ x = m /\ s = stage
      BY <1>14
    <3>. QED  BY <2>1, <3>1, <3>2
  <2>. QED  BY <1>14, <2>1
<1>20. task'[n].version <= content
  BY <1>14, OwnerTypes
<1>21. /\ n \in Nat /\ n <= MaxRequests /\ Len(task) <= n /\ n \in 1..n /\ current' = n
       /\ task' \in SavesOf(n)
       /\ requestId'[task'[n].owner] = n
       /\ \A x \in Managers : x # task'[n].owner => requestId'[x] = 0
       /\ \/ task'[n].phase = "waiting"
          \/ task'[n].phase = "pending" /\ task'[n].tracked
  BY <1>6, <1>7, <1>14, <1>17 DEF SavesOf
<1>. QED  BY <1>16, <1>18, <1>19, <1>20, <1>21, RegisteredKeeps

(* The registered save is offered to the pool once more. *)
LEMMA OfferedAgain ==
    ASSUME SaveInv, NEW r \in Requests, r = current, NEW accepted \in BOOLEAN,
           NEW was \in BOOLEAN,
           UNCHANGED <<content, file, timer, requestId, current, open, announced>>,
           NEW ts \in [1..Len(task) -> Saves],
           \A s \in Requests \ {r} : ts[s] = task[s],
           ts[r].owner = task[r].owner, ts[r].version = task[r].version,
           ts[r].phase = "waiting",
           NEW rt \in [Managers -> [Stages -> 0..MaxRequests]],
           \A m \in Managers, s \in Stages : rt[m][s] = 0,
           Offer(ts, rt, was, r, accepted)
    PROVE  SaveInv'
<1>1. PICK n : n = Len(task)
  OBVIOUS
<1>2. /\ n \in Nat /\ r \in 1..n /\ r <= MaxRequests /\ Requests = 1..n /\ r # 0
      /\ n <= MaxRequests /\ ts \in [1..n -> Saves] /\ Len(task) <= n
  BY <1>1, OwnerTypes
<1>3. ts[r] \in Saves /\ ts[r].owner \in Managers /\ ts[r].stage \in Stages
  BY <1>1, <1>2 DEF Saves
<1>4. /\ dirty' \in [Managers -> BOOLEAN]
      /\ task' \in [1..n -> Saves] /\ \A s \in (1..n) \ {r} : task'[s] = ts[s]
      /\ task'[r].owner = ts[r].owner /\ task'[r].stage = ts[r].stage
      /\ task'[r].version = ts[r].version
      /\ retry' \in [Managers -> [Stages -> 0..MaxRequests]]
      /\ \A m \in Managers, s \in Stages :
            \/ retry'[m][s] = rt[m][s]
            \/ /\ task'[r].phase = "waiting" /\ retry'[m][s] = r
               /\ m = ts[r].owner /\ s = ts[r].stage
      /\ \/ task'[r].phase = "waiting"
         \/ task'[r].phase = "pending" /\ task'[r].tracked
  <2>1. rt[ts[r].owner][ts[r].stage] = 0
    BY <1>3
  <2>2. ts \in SavesOf(n) /\ rt \in Delays /\ dirty \in [Managers -> BOOLEAN]
    BY <1>2, OwnerTypes DEF SavesOf, Delays
  <2>3. /\ dirty' \in [Managers -> BOOLEAN]
        /\ task' \in SavesOf(n) /\ \A s \in (1..n) \ {r} : task'[s] = ts[s]
        /\ task'[r].owner = ts[r].owner /\ task'[r].stage = ts[r].stage
        /\ task'[r].version = ts[r].version /\ retry' \in Delays
        /\ \A m \in Managers, s \in Stages :
              \/ retry'[m][s] = rt[m][s]
              \/ /\ task'[r].phase = "waiting" /\ retry'[m][s] = r
                 /\ m = ts[r].owner /\ s = ts[r].stage
        /\ \/ task'[r].phase = "waiting"
           \/ task'[r].phase = "pending" /\ task'[r].tracked
    BY <1>2, <2>1, <2>2, Offered
  <2>. QED  BY <2>3 DEF SavesOf, Delays
<1>5. TypeOK'
  <2>1. /\ content' \in 0..MaxEdits /\ timer' \in [Managers -> BOOLEAN]
        /\ requestId' \in [Managers -> 0..MaxRequests] /\ current' \in 0..MaxRequests
        /\ open' \subseteq Managers /\ announced' \in -1..MaxEdits
    BY OwnerTypes
  <2>2. task' \in SavesOf(n)
    BY <1>4 DEF SavesOf
  <2>. QED  BY <1>2, <1>4, <2>1, <2>2, StaysTyped
<1>6. requestId'[task'[r].owner] = r
      /\ \A m \in Managers : m # task'[r].owner => requestId'[m] = 0
  BY <1>2, <1>4 DEF SaveInv, Claims
<1>7. \A s \in (1..n) \ {r} :
         /\ s \in Requests /\ ~task'[s].tracked /\ task'[s].phase # "pending"
         /\ task'[s] = task[s]
  BY <1>2, <1>4 DEF SaveInv, Tracked
<1>8. task'[r].version <= content
  BY <1>4 DEF SaveInv, OneSave
<1>9. \A m \in Managers, s \in Stages : retry'[m][s] # 0 =>
         /\ retry'[m][s] = r /\ m = task'[r].owner
         /\ s = task'[r].stage /\ task'[r].phase = "waiting"
  BY <1>4
<1>10. /\ current' = r /\ task' \in SavesOf(n)
       /\ \/ task'[r].phase = "waiting"
          \/ task'[r].phase = "pending" /\ task'[r].tracked
  BY <1>4 DEF SavesOf
<1>. QED  BY <1>2, <1>5, <1>6, <1>7, <1>8, <1>9, <1>10, RegisteredKeeps

(* A delayed retry is of the registered save: the others have none. *)
LEMMA RetryFiresKeeps ==
    ASSUME SaveInv, NEW m \in Managers, NEW stage \in Stages, NEW accepted \in BOOLEAN,
           RetryFires(m, stage, accepted)
    PROVE  SaveInv'
<1>1. PICK r : r = retry[m][stage]
  OBVIOUS
<1>2. PICK rt : rt = [retry EXCEPT ![m][stage] = 0]
  OBVIOUS
<1>3. /\ Offer(task, rt, dirty[m], r, accepted) /\ r # 0
      /\ UNCHANGED <<content, file, timer, requestId, current, open, announced>>
  BY <1>1, <1>2 DEF RetryFires
<1>4. r = current /\ task[r].phase = "waiting" /\ r \in Requests
  <2>1. r = current /\ task[r].phase = "waiting"
    BY <1>1, <1>3 DEF SaveInv, Retrying
  <2>. QED  BY <1>3, <2>1, OwnerTypes DEF SaveInv, SavesTyped
<1>5. rt \in [Managers -> [Stages -> 0..MaxRequests]]
  BY <1>2, OwnerTypes
<1>6. ASSUME NEW x \in Managers, NEW s \in Stages  PROVE rt[x][s] = 0
  <2>1. CASE retry[x][s] = 0
    BY <1>2, <2>1, OwnerTypes
  <2>2. CASE retry[x][s] # 0
    <3>1. /\ requestId[x] = current /\ requestId[m] = current
          /\ task[current].stage = s /\ task[current].stage = stage
      BY <1>1, <1>3, <2>2 DEF SaveInv, Retrying
    <3>2. x = m /\ s = stage
      BY <1>3, <1>4, <3>1 DEF SaveInv, Claims
    <3>. QED  BY <1>2, <3>2, OwnerTypes
  <2>. QED  BY <2>1, <2>2
<1>7. dirty[m] \in BOOLEAN
  BY OwnerTypes
<1>8. task \in [1..Len(task) -> Saves]
  BY OwnerTypes
<1>. QED  BY <1>3, <1>4, <1>5, <1>6, <1>7, <1>8, OfferedAgain

(* Nothing of the books changes; the contents may have been edited. *)
LEMMA BooksKeep ==
    ASSUME SaveInv, TypeOK', UNCHANGED <<file, requestId, current, retry, task>>,
           content' >= content
    PROVE  SaveInv'
<1>. USE DEF SaveInv
<1>1. Requests' = Requests /\ Working' = Working
  BY DEF Requests, Working
<1>2. SavesTyped'
  BY DEF SavesTyped, Saves
<1>3. Claims' /\ Retrying' /\ Tracked' /\ OnDisk'
  BY <1>1 DEF Claims, Retrying, Tracked, OnDisk
<1>4. content \in Nat /\ content' \in Nat /\ file.version \in Int
  BY SaveAssumption DEF SavesTyped, TypeOK
<1>5. \A r \in Requests : task[r].version \in Int
  BY OwnerTypes DEF Saves
<1>6. OneSave'
  BY <1>1, <1>4, <1>5 DEF OneSave
<1>. QED  BY <1>2, <1>3, <1>6

(* A manager that gives up the mask takes its request from the registry, and *)
(* one that had lost it has nothing left to give up.                       *)
LEMMA GiveUpKeeps ==
    ASSUME SaveInv, NEW m \in Managers, GiveUp(m),
           UNCHANGED <<content, file, announced>>,
           dirty' \in [Managers -> BOOLEAN], timer' \in [Managers -> BOOLEAN],
           open' \subseteq Managers
    PROVE  SaveInv'
<1>1. /\ current' = IF m \in Superseded THEN 0 ELSE current
      /\ requestId' = [requestId EXCEPT ![m] = 0]
      /\ task' = TasksWithout({m}) /\ retry' = RetryWithout({m})
  BY DEF GiveUp
<1>2. /\ task' \in [1..Len(task) -> Saves]
      /\ \A r \in Requests :
           /\ task'[r].stage = task[r].stage /\ task'[r].version = task[r].version
           /\ task'[r].phase = task[r].phase \/ task'[r].phase = "settled"
           /\ ~task[r].tracked \/ task[r].owner # m => task'[r] = task[r]
  <2>1. PICK ts : ts = TasksWithout({m})
    OBVIOUS
  <2>2. SavesTyped
    BY DEF SaveInv
  <2>. QED  BY <1>1, <2>1, <2>2, RevokedSaves
<1>3. /\ requestId' \in [Managers -> 0..MaxRequests] /\ requestId'[m] = 0
      /\ \A x \in Managers : x # m => requestId'[x] = requestId[x]
  BY <1>1, OwnerTypes
<1>4. TypeOK'
  <2>1. retry' \in [Managers -> [Stages -> 0..MaxRequests]]
    BY <1>1, OwnerTypes DEF RetryWithout, NoRetry
  <2>2. /\ current' \in 0..MaxRequests /\ content' \in 0..MaxEdits
        /\ announced' \in -1..MaxEdits
    BY <1>1, OwnerTypes
  <2>3. Len(task) \in Nat /\ task' \in SavesOf(Len(task))
    BY <1>2, OwnerTypes DEF SavesOf
  <2>. QED  BY <1>3, <2>1, <2>2, <2>3, StaysTyped
<1>5. CASE m \in Superseded
  <2>1. current # 0 /\ requestId[m] = current /\ task[current].owner = m
    BY <1>5 DEF Superseded, SaveInv, Claims
  <2>2. /\ \A r \in Requests : ~task'[r].tracked /\ task'[r].phase # "pending"
        /\ \A x \in Managers, s \in Stages : retry'[x][s] = 0
        /\ \A x \in Managers : requestId[x] # 0 => x \in {m}
    <3>1. PICK ts : ts = TasksWithout({m})
      OBVIOUS
    <3>2. current # 0 => task[current].owner \in {m}
      BY <2>1
    <3>. QED  BY <1>1, <3>1, <3>2, OwnerLoses
  <2>3. \A x \in Managers : requestId'[x] = 0
    BY <1>3, <2>2
  <2>4. current' = 0
    BY <1>1, <1>5
  <2>. QED  BY <1>2, <1>4, <2>2, <2>3, <2>4, ReleasedKeeps
<1>6. CASE m \notin Superseded
  <2>1. requestId[m] = 0
    BY <1>6 DEF Superseded, SaveInv, Claims
  <2>2. requestId' = requestId
    BY <1>1, <2>1, OwnerTypes
  <2>3. retry' = retry
    <3>1. \A s \in Stages : retry[m][s] = 0
      BY <2>1 DEF SaveInv, Retrying
    <3>2. retry[m] = NoRetry
      BY <3>1, OwnerTypes DEF NoRetry
    <3>3. \A x \in Managers : RetryWithout({m})[x] = retry[x]
      BY <3>2 DEF RetryWithout
    <3>. QED  BY <1>1, <3>3, OwnerTypes DEF RetryWithout
  <2>4. task' = task
    <3>1. \A r \in Requests : task[r].tracked => task[r].owner # m
      <4>1. \A r \in Requests : r # 0
        BY OwnerTypes
      <4>. QED  BY <2>1, <4>1 DEF SaveInv, Tracked, Claims
    <3>2. \A r \in Requests : task'[r] = task[r]
      BY <1>2, <3>1
    <3>3. Requests = 1..Len(task) /\ task \in [1..Len(task) -> Saves]
      BY OwnerTypes
    <3>. QED  BY <1>2, <3>2, <3>3
  <2>5. current' = current /\ content' >= content
    BY <1>1, <1>6, OwnerTypes
  <2>. QED  BY <1>4, <2>2, <2>3, <2>4, <2>5, BooksKeep
<1>. QED  BY <1>5, <1>6

(* A handle that was delivered is of no save any more. *)
LEMMA DeliveredFields ==
    ASSUME SaveInv, NEW r \in Requests, Delivered(r)
    PROVE  /\ task' \in [1..Len(task) -> Saves]
           /\ \A s \in Requests \ {r} : task'[s] = task[s]
           /\ task'[r].owner = task[r].owner /\ ~task'[r].tracked
           /\ task'[r].phase = "delivered" /\ task'[r].version = 0
<1>1. PICK t : t = [NewRequest(task[r].owner, "save") EXCEPT !.phase = "delivered"]
  OBVIOUS
<1>2. task' = [task EXCEPT ![r] = t]
  BY <1>1, OwnerTypes DEF Delivered
<1>3. /\ t \in Saves /\ t.owner = task[r].owner /\ ~t.tracked
      /\ t.phase = "delivered" /\ t.version = 0
  <2>1. task[r].owner \in Managers /\ MaxEdits \in Nat
    BY OwnerTypes DEF Saves
  <2>2. t = [owner |-> task[r].owner, stage |-> "save", phase |-> "delivered",
             tracked |-> FALSE, blank |-> FALSE, cancelled |-> FALSE,
             outcome |-> "none", version |-> 0, torn |-> FALSE]
    BY <1>1 DEF NewRequest
  <2>. QED  BY <2>1, <2>2 DEF Saves, Phases, Stages
<1>. QED  BY <1>2, <1>3, OwnerTypes

(* The callback of a superseded save touches only its own handle. *)
LEMMA CallbackStaleKeeps ==
    ASSUME SaveInv, NEW r \in Requests, CallbackStale(r)
    PROVE  SaveInv'
<1>1. UNCHANGED <<worker, file>> /\ task[r].phase = "settled" /\ Delivered(r)
  BY DEF CallbackStale
<1>2. r # current
  <2>1. r # 0
    BY OwnerTypes
  <2>. QED  BY <2>1 DEF CallbackStale, IsCurrent, SaveInv, Claims
<1>3. /\ task' \in [1..Len(task) -> Saves]
      /\ \A s \in Requests \ {r} : task'[s] = task[s]
      /\ task'[r].owner = task[r].owner /\ ~task'[r].tracked
      /\ task'[r].phase = "delivered" /\ task'[r].version = 0
  BY <1>1, DeliveredFields
<1>4. task' \in Seq(Saves) /\ Len(task') = Len(task) /\ Requests' = Requests
  BY <1>3, OwnerTypes, SavesInARow DEF Requests
<1>5. SavesTyped'
  <2>1. TypeOK'
    BY <1>1, <1>4, OwnerTypes, ElementOfSeq DEF worker, SaveInv, SavesTyped, TypeOK, Saves
  <2>. QED  BY <1>1, <1>4, <2>1 DEF worker, SaveInv, SavesTyped
<1>6. current # 0 => task'[current] = task[current]
  <2>1. current # 0 => current \in Requests
    BY OwnerTypes DEF SaveInv, SavesTyped
  <2>. QED  BY <1>2, <1>3, <2>1
<1>7. Claims' /\ Retrying'
  BY <1>1, <1>6 DEF worker, SaveInv, Claims, Retrying
<1>8. Tracked'
  BY <1>1, <1>3, <1>4 DEF worker, SaveInv, Tracked
<1>9. \A s \in Working' : s \in Working /\ s \in Requests /\ s # r /\ task'[s] = task[s]
  BY <1>3, <1>4 DEF Working
<1>10. OneSave'
  <2>1. /\ content' = content /\ file' = file /\ content \in Nat
        /\ \A s \in Requests : task'[s].version <= content
    BY <1>1, <1>3, OwnerTypes DEF worker, SaveInv, OneSave
  <2>2. \A s \in Requests : task'[s].phase \in {"writing", "replacing"} =>
           task'[s].stage = "save"
    BY <1>3 DEF SaveInv, OneSave
  <2>. QED  BY <1>4, <1>9, <2>1, <2>2 DEF SaveInv, OneSave
<1>11. OnDisk'
  BY <1>1, <1>3, <1>4, <1>9 DEF worker, SaveInv, OnDisk
<1>. QED  BY <1>5, <1>7, <1>8, <1>10, <1>11 DEF SaveInv

(* The registered save is over: its manager lets go of the mask. *)
LEMMA ReleaseKeeps ==
    ASSUME SaveInv, NEW r \in Requests, task[r].phase = "settled", IsCurrent(r),
           Release(r), Delivered(r), UNCHANGED <<content, file, timer, retry, open>>,
           dirty' \in [Managers -> BOOLEAN], announced' \in -1..MaxEdits
    PROVE  SaveInv'
<1>1. /\ r = current /\ r # 0 /\ requestId[task[r].owner] = r
      /\ current' = 0 /\ requestId' = [requestId EXCEPT ![task[r].owner] = 0]
  BY OwnerTypes DEF IsCurrent, Release
<1>2. /\ task' \in [1..Len(task) -> Saves]
      /\ \A s \in Requests \ {r} : task'[s] = task[s]
      /\ task'[r].owner = task[r].owner /\ ~task'[r].tracked
      /\ task'[r].phase = "delivered" /\ task'[r].version = 0
  BY DeliveredFields
<1>3. requestId' \in [Managers -> 0..MaxRequests]
      /\ \A m \in Managers : requestId'[m] = 0
  <2>1. \A m \in Managers : m # task[r].owner => requestId[m] = 0
    BY <1>1 DEF SaveInv, Claims
  <2>2. /\ requestId \in [Managers -> 0..MaxRequests] /\ MaxRequests \in Nat
        /\ task[r].owner \in Managers
    BY OwnerTypes DEF Saves
  <2>. QED  BY <1>1, <2>1, <2>2
<1>4. TypeOK'
  <2>1. /\ current' \in 0..MaxRequests /\ content' \in 0..MaxEdits
        /\ retry' \in [Managers -> [Stages -> 0..MaxRequests]]
        /\ timer' \in [Managers -> BOOLEAN] /\ open' \subseteq Managers
    BY <1>1, OwnerTypes
  <2>2. Len(task) \in Nat /\ task' \in SavesOf(Len(task))
    BY <1>2, OwnerTypes DEF SavesOf
  <2>. QED  BY <1>3, <2>1, <2>2, StaysTyped
<1>5. \A s \in Requests \ {r} : ~task[s].tracked /\ task[s].phase # "pending"
  BY <1>1 DEF SaveInv, Tracked
<1>6. \A m \in Managers, s \in Stages : retry'[m][s] = 0
  BY <1>1 DEF SaveInv, Retrying
<1>7. \A s \in Requests :
         /\ ~task'[s].tracked /\ task'[s].phase # "pending"
         /\ \/ /\ task'[s].stage = task[s].stage /\ task'[s].version = task[s].version
               /\ task'[s].phase = task[s].phase \/ task'[s].phase = "settled"
            \/ task'[s].phase = "delivered" /\ task'[s].version = 0
  BY <1>2, <1>5
<1>. QED  BY <1>1, <1>2, <1>3, <1>4, <1>6, <1>7, ReleasedKeeps

(* The outcome of an encoding: the save itself is offered, or all is over. *)
LEMMA CallbackEncodeKeeps ==
    ASSUME SaveInv, NEW r \in Requests, NEW accepted \in BOOLEAN, CallbackEncode(r, accepted)
    PROVE  SaveInv'
<1>1. /\ task[r].phase = "settled" /\ IsCurrent(r) /\ r = current
      /\ UNCHANGED <<content, file, timer, open, announced>>
  BY DEF CallbackEncode, IsCurrent
<1>2. CASE /\ Offer([task EXCEPT ![r].stage = "save", ![r].phase = "waiting",
                                 ![r].tracked = FALSE],
                    retry, dirty[task[r].owner], r, accepted)
           /\ UNCHANGED <<requestId, current>>
  <2>1. PICK t : t = [task[r] EXCEPT !.stage = "save", !.phase = "waiting",
                                     !.tracked = FALSE]
    OBVIOUS
  <2>2. PICK ts : ts = [task EXCEPT ![r] = t]
    OBVIOUS
  <2>3. ts = [task EXCEPT ![r].stage = "save", ![r].phase = "waiting",
                          ![r].tracked = FALSE]
    BY <2>1, <2>2, OwnerTypes
  <2>4. /\ t \in Saves /\ t.owner = task[r].owner /\ t.version = task[r].version
        /\ t.phase = "waiting"
    BY <2>1, OwnerTypes DEF Saves, Stages, Phases
  <2>5. /\ ts \in [1..Len(task) -> Saves] /\ ts[r] = t
        /\ \A s \in Requests \ {r} : ts[s] = task[s]
    BY <2>2, <2>4, OwnerTypes
  <2>6. Offer(ts, retry, dirty[task[r].owner], r, accepted)
    BY <1>2, <2>3
  <2>7. \A m \in Managers, s \in Stages : retry[m][s] = 0
    BY <1>1 DEF SaveInv, Retrying
  <2>8. dirty[task[r].owner] \in BOOLEAN
    BY OwnerTypes DEF Saves
  <2>9. retry \in [Managers -> [Stages -> 0..MaxRequests]]
    BY OwnerTypes
  <2>. QED  BY <1>1, <1>2, <2>4, <2>5, <2>6, <2>7, <2>8, <2>9, OfferedAgain
<1>3. CASE Release(r) /\ Delivered(r) /\ UNCHANGED <<dirty, retry, budget>>
  BY <1>1, <1>3, OwnerTypes, ReleaseKeeps
<1>. QED  BY <1>2, <1>3 DEF CallbackEncode

(* The outcome of a save, which is announced only when it is on disk. *)
LEMMA CallbackSaveKeeps ==
    ASSUME SaveInv, NEW r \in Requests, CallbackSave(r)
    PROVE  SaveInv' /\ (announced' # announced => file.version = announced')
<1>1. /\ task[r].phase = "settled" /\ IsCurrent(r) /\ task[r].stage = "save"
      /\ Release(r) /\ Delivered(r) /\ UNCHANGED <<content, file, timer, retry, open>>
      /\ dirty' = [dirty EXCEPT ![task[r].owner] = (task[r].outcome = "failed")]
      /\ announced' = IF task[r].outcome = "succeeded" THEN task[r].version ELSE announced
  BY DEF CallbackSave
<1>2. dirty' \in [Managers -> BOOLEAN]
  <2>1. (task[r].outcome = "failed") \in BOOLEAN
    OBVIOUS
  <2>. QED  BY <1>1, <2>1, OwnerTypes
<1>3. announced' \in -1..MaxEdits
  BY <1>1, OwnerTypes DEF Saves
<1>4. SaveInv'
  BY <1>1, <1>2, <1>3, ReleaseKeeps
<1>5. announced' # announced => file.version = announced'
  BY <1>1 DEF IsCurrent, SaveInv, OnDisk
<1>. QED  BY <1>4, <1>5

(* Every step keeps who owns the mask and what its file holds. *)
LEMMA StepKeepsSaveInv ==
    ASSUME SaveInv, [Next]_vars
    PROVE  SaveInv'
<1>1. CASE UNCHANGED vars
  <2>1. TypeOK'
    BY <1>1 DEF vars, SaveInv, SavesTyped, TypeOK, Requests
  <2>. QED  BY <1>1, <2>1, OwnerTypes, BooksKeep DEF vars
<1>2. ASSUME NEW m \in Managers, Edit(m)  PROVE SaveInv'
  <2>1. /\ UNCHANGED <<file, requestId, current, retry, task, open, announced>>
        /\ content' = content + 1 /\ content < MaxEdits
        /\ dirty' \in [Managers -> BOOLEAN] /\ timer' \in [Managers -> BOOLEAN]
    BY <1>2, OwnerTypes DEF Edit
  <2>2. TypeOK'
    BY <2>1, OwnerTypes DEF SaveInv, SavesTyped, TypeOK, Requests
  <2>. QED  BY <2>1, <2>2, OwnerTypes, BooksKeep
<1>3. ASSUME NEW m \in Managers, CancelPendingMask(m)  PROVE SaveInv'
  <2>1. dirty' \in [Managers -> BOOLEAN] /\ timer' \in [Managers -> BOOLEAN]
        /\ open' \subseteq Managers
    BY <1>3, OwnerTypes DEF CancelPendingMask
  <2>. QED  BY <1>3, <2>1, GiveUpKeeps DEF CancelPendingMask
<1>4. ASSUME NEW m \in Managers, Shutdown(m)  PROVE SaveInv'
  <2>1. dirty' \in [Managers -> BOOLEAN] /\ timer' \in [Managers -> BOOLEAN]
        /\ open' \subseteq Managers
    BY <1>4, OwnerTypes DEF Shutdown
  <2>. QED  BY <1>4, <2>1, GiveUpKeeps DEF Shutdown
<1>5. ASSUME NEW m \in Managers, NEW accepted \in BOOLEAN, SaveBlank(m, accepted)
      PROVE  SaveInv'
  <2>1. dirty[m] \in BOOLEAN /\ timer' \in [Managers -> BOOLEAN]
    BY <1>5, OwnerTypes DEF SaveBlank
  <2>2. "encode" \in Stages
    BY DEF Stages
  <2>. QED  BY <1>5, <2>1, <2>2, BeginKeeps DEF SaveBlank
<1>6. ASSUME NEW m \in Managers, NEW accepted \in BOOLEAN, PerformSave(m, accepted)
      PROVE  SaveInv'
  <2>1. timer' \in [Managers -> BOOLEAN] /\ UNCHANGED <<content, file, open, announced>>
    BY <1>6, OwnerTypes DEF PerformSave
  <2>2. CASE Begin(m, "save", FALSE, accepted)
    <3>1. "save" \in Stages
      BY DEF Stages
    <3>. QED  BY <2>1, <2>2, <3>1, BeginKeeps
  <2>3. CASE UNCHANGED <<dirty, requestId, current, retry, task, budget>>
    <3>1. TypeOK'
      BY <2>1, <2>3 DEF SaveInv, SavesTyped, TypeOK, Requests
    <3>. QED  BY <2>1, <2>3, <3>1, OwnerTypes, BooksKeep
  <2>. QED  BY <1>6, <2>2, <2>3 DEF PerformSave
<1>7. ASSUME NEW m \in Managers, DelayOf(m)  PROVE SaveInv'
  BY <1>7, RetryFiresKeeps DEF DelayOf
<1>8. ASSUME NEW r, WorkerOf(r)  PROVE SaveInv'
  BY <1>8, StartKeeps, FinishReadKeeps, FinishEncodeKeeps, CheckCancelledKeeps,
     FileReplacedKeeps, FailKeeps DEF WorkerOf
<1>9. ASSUME NEW r, CallbackOf(r)  PROVE SaveInv'
  BY <1>9, CallbackStaleKeeps, CallbackEncodeKeeps, CallbackSaveKeeps DEF CallbackOf
<1>. QED
  BY <1>1, <1>2, <1>3, <1>4, <1>5, <1>6, <1>7, <1>8, <1>9 DEF Next, Owner, TimerOf

(* However the saves of several views interleave, the registry, the managers *)
(* and the pool agree on one save, and the file on what was announced.     *)
THEOREM SaveInvariant == Spec => []SaveInv
BY InitSaveInv, StepKeepsSaveInv, PTL DEF Spec

(* A view that lost the mask keeps no work alive, and no delayed retry of it. *)
THEOREM FreshnessAgreesAlways == Spec => []FreshnessAgrees
<1>1. SaveInv => FreshnessAgrees
  BY DEF SaveInv, Claims, Tracked, Retrying, FreshnessAgrees
<1>. QED  BY <1>1, SaveInvariant, PTL

(* Contents never give way to older contents on disk. *)
THEOREM FileNeverGoesBackAlways == Spec => FileNeverGoesBack
<1>1. ASSUME SaveInv, [Next]_vars
      PROVE  [file'.version = 0 \/ file'.version >= file.version]_file
  <2>1. CASE \E r \in Requests : Replace(r)
    BY <1>1, <2>1, FileReplacedKeeps
  <2>2. CASE ~\E r \in Requests : Replace(r)
    <3>1. Owner => file' = file
      BY DEF Owner, Edit, CancelPendingMask, Shutdown, SaveBlank
    <3>2. \A m \in Managers : TimerOf(m) \/ DelayOf(m) => file' = file
      BY DEF TimerOf, PerformSave, DelayOf, RetryFires
    <3>3. \A r : WorkerOf(r) => file' = file
      BY <2>2 DEF WorkerOf, worker, Start, FinishRead, FinishEncode, CheckCancelled, Fail
    <3>4. \A r : CallbackOf(r) => file' = file
      BY <2>2 DEF CallbackOf, worker, CallbackStale, CallbackEncode, CallbackSave
    <3>5. file' = file
      BY <1>1, <3>1, <3>2, <3>3, <3>4 DEF Next, vars
    <3>. QED  BY <3>5
  <2>. QED  BY <2>1, <2>2
<1>. QED  BY <1>1, SaveInvariant, PTL DEF Spec, FileNeverGoesBack

(* saveCompleted tells of contents that the file still holds. *)
THEOREM CompletedIsOnDiskAlways == Spec => CompletedIsOnDisk
<1>1. ASSUME SaveInv, [Next]_vars
      PROVE  [file.version = announced']_announced
  <2>1. CASE \E r \in Requests : CallbackSave(r)
    BY <1>1, <2>1, CallbackSaveKeeps
  <2>2. CASE ~\E r \in Requests : CallbackSave(r)
    <3>1. Owner => announced' = announced
      BY DEF Owner, Edit, CancelPendingMask, Shutdown, SaveBlank
    <3>2. \A m \in Managers : TimerOf(m) \/ DelayOf(m) => announced' = announced
      BY DEF TimerOf, PerformSave, DelayOf, RetryFires
    <3>3. \A r : WorkerOf(r) => announced' = announced
      BY <2>2 DEF WorkerOf, worker, Start, FinishRead, FinishEncode, CheckCancelled, Replace, Fail
    <3>4. \A r : CallbackOf(r) => announced' = announced
      BY <2>2 DEF CallbackOf, worker, CallbackStale, CallbackEncode
    <3>5. announced' = announced
      BY <1>1, <3>1, <3>2, <3>3, <3>4 DEF Next, vars
    <3>. QED  BY <3>5
  <2>. QED  BY <2>1, <2>2
<1>. QED  BY <1>1, SaveInvariant, PTL DEF Spec, CompletedIsOnDisk

-----------------------------------------------------------------------------
(* All that lives on the owner thread: the components share no state, so   *)
(* a step of one of them leaves the invariants of the others alone.        *)

OwnerPartsInv == HistoryInv /\ SaveInv /\ TileInv /\ WaitersOK /\ PyramidInv

\* A step of the owner thread is a step of one component, or none, for each.
LEMMA OwnerPartsStep ==
    ASSUME OwnerPartsInv, [OwnerPartsNext]_sideVars
    PROVE  OwnerPartsInv'
<1>1. [HistoryNext]_historyVars
  BY Zenon DEF OwnerPartsNext, sideVars
<1>2. [Next]_vars
  BY Zenon DEF OwnerPartsNext, sideVars
<1>3. [TileNext]_tileVars
  BY Zenon DEF OwnerPartsNext, sideVars
<1>4. [PyramidNext]_pyramidVars
  BY Zenon DEF OwnerPartsNext, sideVars
<1>5. HistoryInv'
  BY <1>1, HistoryStep, HistoryStutters DEF OwnerPartsInv
<1>6. SaveInv'
  BY <1>2, StepKeepsSaveInv DEF OwnerPartsInv
<1>7. TileInv' /\ WaitersOK'
  BY <1>3, StepKeepsTileInv, StepKeepsWaiters DEF OwnerPartsInv
<1>8. PyramidInv'
  BY <1>4, StepKeepsPyramidInv DEF OwnerPartsInv
<1>. QED  BY <1>5, <1>6, <1>7, <1>8 DEF OwnerPartsInv

\* Every variable of the components on the owner thread keeps its type, however
\* many keys, sources, handles, views and commands there are.
THEOREM OwnerPartsTypesStay == OwnerPartsSpec => []OwnerPartsTypeOK
<1>1. OwnerPartsInit => OwnerPartsInv
  BY HistoryStarts, InitSaveInv, InitTileInv, InitWaiters, InitPyramidInv
  DEF OwnerPartsInit, OwnerPartsInv
<1>2. OwnerPartsInv /\ [OwnerPartsNext]_sideVars => OwnerPartsInv'
  BY OwnerPartsStep
<1>3. OwnerPartsInv => OwnerPartsTypeOK
  BY HistoryTypes, TileTypes, PyramidTypes
  DEF OwnerPartsInv, OwnerPartsTypeOK, SaveInv, SavesTyped
<1>. QED  BY <1>1, <1>2, <1>3, PTL DEF OwnerPartsSpec

==============================================================================
