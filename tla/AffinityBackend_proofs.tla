------------------------ MODULE AffinityBackend_proofs ------------------------
(***************************************************************************)
(* Native lanes, for any number of tasks, lanes and keys: places and keys  *)
(* are given back exactly when they should be, and every step is one that  *)
(* AffinityLane allows.                                                    *)
(***************************************************************************)
EXTENDS AffinityBackend, QueueLemmas, FiniteSetTheorems

-----------------------------------------------------------------------------
(* The invariant.                                                          *)

\* The types that AffinityTypeOK leaves out.
AffinitySets ==
    /\ doomed \subseteq Tasks /\ withdrawing \subseteq Tasks /\ removed \subseteq Tasks
    /\ unrelease \subseteq Tasks /\ signalled \subseteq Tasks
    /\ stopTasks \subseteq Tasks /\ stopLanes \subseteq opened
    /\ IsFiniteSet(taskLanes)

\* Tasks that have been put into a lane.
Joined == {t \in Tasks : offer[t] \in {"queued", "bound"}}

\* Entries that shutdown took out of the lanes and has still to cancel.
Swept == IF stop \in {"close", "revoke"} THEN stopTasks ELSE {}

\* An entry waits in its own lane, once, and is pending.
Queues ==
    \A l \in Lanes :
        /\ IsInjective(queue[l])
        /\ \A t \in Range(queue[l]) :
              LaneOf[t] = l /\ t \in Joined /\ outcome[t] = "pending"

\* A worker holds an entry of its own lane that waits nowhere else, and the
\* outcome of that entry follows the worker.
Holding ==
    \A l \in Lanes : job[l] # NoTask =>
        /\ LaneOf[job[l]] = l /\ job[l] \in Joined
        /\ job[l] \notin removed \cup Swept \cup Range(queue[l])
        /\ at[l] = "acquire" => KeyOf[job[l]] # NoKey
        /\ at[l] \in {"acquire", "run"} => outcome[job[l]] = "pending"
        /\ at[l] = "work" => outcome[job[l]] = "running"
        /\ at[l] = "await" => outcome[job[l]] \in {"delivering", "adopting", "settled"}

\* Entries taken out of a lane are pending and wait nowhere.
TakenOut ==
    /\ removed \cap Swept = {}
    /\ \A t \in removed \cup Swept :
        t \in Joined /\ outcome[t] = "pending" /\ t \notin Range(queue[LaneOf[t]])

\* Only entries that have joined a lane get beyond pending, and only a settled
\* one has callbacks to run or a worker to signal.
Ended ==
    /\ \A t \in Tasks \ Joined : outcome[t] = "pending"
    /\ \A t \in unrelease \cup signalled : outcome[t] = "settled"

\* No two workers have taken one key.
KeysApart ==
    \A l, m \in Lanes :
        InTurn(l) /\ InTurn(m) /\ KeyOf[job[l]] = KeyOf[job[m]] /\ KeyOf[job[l]] # NoKey =>
            l = m

\* Places and keys are exact, task by task and key by key.
Places ==
    \A t \in Tasks :
        t \in taskLanes <=> /\ offer[t] \in {"accepted", "turnedAway", "queued", "bound"}
                            /\ outcome[t] = "settled" => t \in unrelease

HeldKeys ==
    \A k \in Keys : k \in activeKeys <=> \E l \in Lanes : InTurn(l) /\ KeyOf[job[l]] = k

LaneInv ==
    /\ AffinityTypeOK /\ AffinitySets
    /\ Queues /\ Holding /\ TakenOut /\ Ended /\ KeysApart
    /\ Places /\ HeldKeys

(* A worker that is not idle holds a task. *)
LEMMA WorkerHolds ==
    ASSUME AffinityTypeOK, NEW l \in Lanes, at[l] \notin {"idle", "exited"}
    PROVE  /\ job[l] \in Tasks /\ job[l] # NoTask
           /\ KeyOf[job[l]] \in Keys \cup {NoKey} /\ LaneOf[job[l]] \in Lanes
<1>1. job[l] # NoTask /\ job[l] \in Tasks \cup {NoTask}
  BY DEF AffinityTypeOK
<1>. QED  BY <1>1, BackendAssumption

(* Exact places and keys are what the invariant says of each. *)
LEMMA ExactPlacesAndKeys ==
    ASSUME LaneInv
    PROVE  PlacesAndKeysAreExact
<1>. USE DEF LaneInv
<1>1. taskLanes \subseteq Tasks /\ activeKeys \subseteq Keys /\ NoKey \notin Keys
  BY BackendAssumption DEF AffinityTypeOK
<1>2. taskLanes = {t \in Tasks : offer[t] \in {"accepted", "turnedAway", "queued", "bound"}
                                /\ (outcome[t] = "settled" => t \in unrelease)}
  <2>. HIDE DEF LaneInv
  <2>1. Places
    BY DEF LaneInv
  <2>. QED  BY <1>1, <2>1 DEF Places
<1>3. ASSUME NEW l \in Lanes, InTurn(l), KeyOf[job[l]] # NoKey
      PROVE  KeyOf[job[l]] \in Keys
  BY <1>3, WorkerHolds DEF InTurn
<1>4. activeKeys = {KeyOf[job[l]] : l \in {m \in Lanes : InTurn(m)}} \ {NoKey}
  <2>. HIDE DEF LaneInv
  <2>1. HeldKeys
    BY DEF LaneInv
  <2>2. ASSUME NEW k \in activeKeys
        PROVE  k \in {KeyOf[job[l]] : l \in {m \in Lanes : InTurn(m)}} \ {NoKey}
    BY <1>1, <2>1, <2>2 DEF HeldKeys
  <2>3. ASSUME NEW l \in {m \in Lanes : InTurn(m)}, KeyOf[job[l]] # NoKey
        PROVE  KeyOf[job[l]] \in activeKeys
    BY <1>3, <2>1, <2>3 DEF HeldKeys
  <2>. QED  BY <2>2, <2>3
<1>. QED  BY <1>2, <1>4 DEF PlacesAndKeysAreExact

-----------------------------------------------------------------------------
(* The initial states, and the steps.                                      *)

(* Nothing has been submitted and no lane exists. *)
LEMMA InitLaneInv ==
    ASSUME AffinityInit
    PROVE  LaneInv
<1>. USE DEF AffinityInit
<1>1. Cardinality(taskLanes) = 0 /\ IsFiniteSet(taskLanes)
  BY FS_EmptySet
<1>2. AffinityTypeOK
  BY <1>1, EmptyQueue, BackendAssumption DEF AffinityTypeOK
<1>3. AffinitySets /\ Joined = {} /\ Swept = {}
  BY <1>1 DEF AffinitySets, Joined, Swept
<1>4. Queues
  BY EmptyQueue DEF Queues
<1>5. Holding /\ TakenOut /\ Ended
  BY <1>3 DEF Holding, TakenOut, Ended
<1>6. \A l \in Lanes : ~InTurn(l)
  BY DEF InTurn
<1>7. KeysApart /\ HeldKeys
  BY <1>6 DEF KeysApart, HeldKeys
<1>8. Places
  BY DEF Places
<1>. QED  BY <1>2, <1>3, <1>4, <1>5, <1>7, <1>8 DEF LaneInv

(* A step that changes nothing keeps the invariant. *)
LEMMA LaneStutter ==
    ASSUME LaneInv, UNCHANGED affinityVars
    PROVE  LaneInv'
BY DEF LaneInv, affinityVars, taskVars, slotVars, queueVars, workerVars, stopVars,
       AffinityTypeOK, AffinitySets, Queues, Holding, TakenOut, Ended, KeysApart,
       Places, HeldKeys, Joined, Swept, InTurn

(* A new handle is tracked. *)
LEMMA RegisterTaskKeeps ==
    ASSUME LaneInv, NEW t \in Tasks, RegisterTask(t)
    PROVE  LaneInv'
<1>. USE DEF LaneInv, RegisterTask, slotVars, queueVars, workerVars, stopVars, Offered
<1>1. AffinityTypeOK'
  BY DEF AffinityTypeOK
<1>2. AffinitySets'
  BY DEF AffinitySets
<1>3. Queues'
  BY DEF Queues, Joined
<1>4. Holding'
  BY DEF Holding, Joined, Swept
<1>5. TakenOut'
  BY DEF TakenOut, Joined, Swept
<1>6. Ended'
  BY DEF Ended, Joined
<1>7. KeysApart'
  BY DEF KeysApart, InTurn
<1>8. Places'
  BY DEF Places
<1>9. HeldKeys'
  BY DEF HeldKeys, InTurn
<1>. QED  BY <1>1, <1>2, <1>3, <1>4, <1>5, <1>6, <1>7, <1>8, <1>9

(* An accepted task takes a place. *)
LEMMA AcceptTaskKeeps ==
    ASSUME LaneInv, NEW t \in Tasks, AcceptTask(t)
    PROVE  LaneInv'
<1>. USE DEF LaneInv, AcceptTask, Offered, workerVars, stopVars
<1>1. /\ offer[t] = "registered" /\ offer'[t] \in {"refused", "accepted"}
      /\ \A u \in Tasks \ {t} : offer'[u] = offer[u]
      /\ offer' \in [Tasks -> {"new", "registered", "accepted", "turnedAway", "queued",
                               "bound", "refused", "broken"}]
  BY DEF AffinityTypeOK
<1>2. Joined' = Joined /\ t \notin Joined /\ t \notin taskLanes /\ outcome[t] = "pending"
  <2>. HIDE DEF LaneInv, AcceptTask
  <2>1. t \notin Joined /\ Joined' = Joined
    BY <1>1 DEF Joined
  <2>2. t \notin taskLanes
    BY <1>1 DEF LaneInv, Places
  <2>. QED  BY <2>1, <2>2 DEF Ended, LaneInv
<1>3. \/ offer'[t] = "refused" /\ UNCHANGED <<taskLanes, opened>>
      \/ /\ offer'[t] = "accepted" /\ opened' = opened \cup {LaneOf[t]}
         /\ taskLanes' = taskLanes \cup {t} /\ ~(Cardinality(taskLanes) >= MaxAccepted)
  BY DEF AffinityTypeOK
<1>4. UNCHANGED <<outcome, doomed, withdrawing, removed, unrelease, signalled, queue,
                  laneClosed, job, at, activeKeys, backendClosed, stop, stopTasks, stopLanes>>
  OBVIOUS
<1>5. IsFiniteSet(taskLanes') /\ Cardinality(taskLanes') <= MaxAccepted
  <2>1. IsFiniteSet(taskLanes) /\ Cardinality(taskLanes) \in Nat
    BY FS_CardinalityType DEF AffinitySets
  <2>2. /\ IsFiniteSet(taskLanes \cup {t})
        /\ Cardinality(taskLanes \cup {t}) = Cardinality(taskLanes) + 1
    BY <1>2, <2>1, FS_AddElement
  <2>3. MaxAccepted \in Nat /\ Cardinality(taskLanes) <= MaxAccepted
    BY BackendAssumption DEF AffinityTypeOK
  <2>. HIDE DEF LaneInv, AcceptTask
  <2>4. CASE taskLanes' = taskLanes
    BY <2>1, <2>3, <2>4
  <2>5. CASE taskLanes' = taskLanes \cup {t} /\ ~(Cardinality(taskLanes) >= MaxAccepted)
    BY <2>1, <2>2, <2>3, <2>5
  <2>. QED  BY <1>3, <2>4, <2>5
<1>. HIDE DEF AcceptTask
<1>6. AffinityTypeOK'
  BY <1>1, <1>3, <1>4, <1>5, BackendAssumption DEF AffinityTypeOK
<1>7. AffinitySets'
  BY <1>3, <1>4, <1>5 DEF AffinitySets
<1>8. Queues'
  BY <1>2, <1>4 DEF Queues
<1>9. Holding'
  BY <1>2, <1>4 DEF Holding, Swept
<1>10. TakenOut'
  BY <1>2, <1>4 DEF TakenOut, Swept
<1>11. Ended'
  BY <1>2, <1>4 DEF Ended
<1>12. KeysApart'
  BY <1>4 DEF KeysApart, InTurn
<1>13. Places'
  <2>. HIDE DEF LaneInv
  <2>1. ASSUME NEW u \in Tasks, u # t
        PROVE  u \in taskLanes' <=> /\ offer'[u] \in {"accepted", "turnedAway", "queued", "bound"}
                                    /\ outcome'[u] = "settled" => u \in unrelease'
    BY <1>1, <1>3, <1>4, <2>1 DEF LaneInv, Places
  <2>2. t \in taskLanes' <=> /\ offer'[t] \in {"accepted", "turnedAway", "queued", "bound"}
                             /\ outcome'[t] = "settled" => t \in unrelease'
    BY <1>1, <1>2, <1>3, <1>4
  <2>. QED  BY <2>1, <2>2 DEF Places
<1>14. HeldKeys'
  BY <1>4 DEF HeldKeys, InTurn
<1>. QED  BY <1>6, <1>7, <1>8, <1>9, <1>10, <1>11, <1>12, <1>13, <1>14

(* An entry joins the end of its lane, or is turned away. *)
LEMMA QueueTaskKeeps ==
    ASSUME LaneInv, NEW t \in Tasks, QueueTask(t)
    PROVE  LaneInv'
<1>. USE DEF LaneInv, QueueTask, Offered, slotVars, workerVars, stopVars
<1>1. /\ offer[t] = "accepted" /\ \A u \in Tasks \ {t} : offer'[u] = offer[u]
      /\ offer' \in [Tasks -> {"new", "registered", "accepted", "turnedAway", "queued",
                               "bound", "refused", "broken"}]
  BY DEF AffinityTypeOK
<1>2. t \notin Joined /\ t \in taskLanes /\ outcome[t] = "pending"
  <2>1. t \notin Joined
    BY <1>1 DEF Joined
  <2>2. outcome[t] = "pending"
    BY <2>1 DEF Ended
  <2>. HIDE DEF LaneInv, QueueTask
  <2>3. t \in taskLanes
    BY <1>1, <2>2 DEF Places, LaneInv
  <2>. QED  BY <2>1, <2>2, <2>3
<1>3. \/ offer'[t] = "turnedAway" /\ queue' = queue
      \/ /\ offer'[t] = "queued"
         /\ queue' = [queue EXCEPT ![LaneOf[t]] = Append(@, t)]
  BY DEF AffinityTypeOK
<1>4. UNCHANGED <<outcome, doomed, withdrawing, removed, taskLanes, unrelease, signalled,
                  opened, laneClosed, job, at, activeKeys, backendClosed, stop, stopTasks,
                  stopLanes>>
  OBVIOUS
<1>. HIDE DEF QueueTask
<1>5. IsFiniteSet(taskLanes') /\ Cardinality(taskLanes') <= MaxAccepted
  BY <1>4 DEF AffinitySets, AffinityTypeOK
<1>6. /\ queue' \in [Lanes -> Seq(Tasks)]
      /\ \A l \in Lanes : IsInjective(queue'[l])
      /\ \A l \in Lanes : \A u \in Range(queue'[l]) :
            u \in Range(queue[l]) \/ (u = t /\ l = LaneOf[t] /\ offer'[t] = "queued")
  <2>1. CASE queue' = queue
    BY <2>1 DEF AffinityTypeOK, Queues
  <2>2. CASE offer'[t] = "queued" /\ queue' = [queue EXCEPT ![LaneOf[t]] = Append(@, t)]
    <3> DEFINE s == queue[LaneOf[t]]
    <3>1. s \in Seq(Tasks) /\ IsInjective(s) /\ t \notin Range(s) /\ LaneOf[t] \in Lanes
      BY <1>2, BackendAssumption DEF AffinityTypeOK, Queues
    <3>2. /\ Append(s, t) \in Seq(Tasks) /\ IsInjective(Append(s, t))
          /\ Range(Append(s, t)) = Range(s) \cup {t}
      BY <3>1, AppendToQueue
    <3>3. \A l \in Lanes : queue'[l] = IF l = LaneOf[t] THEN Append(s, t) ELSE queue[l]
      BY <2>2 DEF AffinityTypeOK
    <3>4. queue' \in [Lanes -> Seq(Tasks)]
      BY <2>2, <3>1, <3>2 DEF AffinityTypeOK
    <3> HIDE DEF s
    <3>5. \A l \in Lanes : IsInjective(queue'[l])
      BY <3>2, <3>3 DEF Queues
    <3>6. \A l \in Lanes : \A u \in Range(queue'[l]) :
            u \in Range(queue[l]) \/ (u = t /\ l = LaneOf[t])
      BY <3>2, <3>3 DEF s
    <3>. QED  BY <2>2, <3>4, <3>5, <3>6
  <2>. QED  BY <1>3, <2>1, <2>2
<1>7. Joined \subseteq Joined' /\ (offer'[t] = "queued" => t \in Joined')
      /\ Joined' \subseteq Joined \cup {t}
  BY <1>1, <1>2 DEF Joined
<1>8. t \notin removed \cup Swept /\ \A l \in Lanes : job[l] # t
  BY <1>2, BackendAssumption DEF TakenOut, Holding
<1>9. AffinityTypeOK'
  BY <1>1, <1>3, <1>4, <1>5, <1>6, BackendAssumption DEF AffinityTypeOK
<1>10. AffinitySets'
  BY <1>3, <1>4, <1>5 DEF AffinitySets
<1>11. Queues'
  BY <1>2, <1>4, <1>6, <1>7 DEF Queues
<1>12. Holding'
  BY <1>4, <1>6, <1>7, <1>8 DEF Holding, Swept
<1>13. TakenOut'
  BY <1>4, <1>6, <1>7, <1>8, BackendAssumption DEF TakenOut, Swept, AffinitySets
<1>14. Ended'
  BY <1>4, <1>7 DEF Ended
<1>15. KeysApart'
  BY <1>4 DEF KeysApart, InTurn
<1>16. Places'
  <2>. HIDE DEF LaneInv
  <2>1. ASSUME NEW u \in Tasks, u # t
        PROVE  u \in taskLanes' <=> /\ offer'[u] \in {"accepted", "turnedAway", "queued", "bound"}
                                    /\ outcome'[u] = "settled" => u \in unrelease'
    BY <1>1, <1>3, <1>4, <2>1 DEF LaneInv, Places
  <2>2. t \in taskLanes' <=> /\ offer'[t] \in {"accepted", "turnedAway", "queued", "bound"}
                             /\ outcome'[t] = "settled" => t \in unrelease'
    BY <1>1, <1>2, <1>3, <1>4
  <2>. QED  BY <2>1, <2>2 DEF Places
<1>17. HeldKeys'
  BY <1>4 DEF HeldKeys, InTurn
<1>. QED  BY <1>9, <1>10, <1>11, <1>12, <1>13, <1>14, <1>15, <1>16, <1>17

(* A task that was turned away gives its place back. *)
LEMMA ReturnPlaceKeeps ==
    ASSUME LaneInv, NEW t \in Tasks, ReturnPlace(t)
    PROVE  LaneInv'
<1>. USE DEF LaneInv, ReturnPlace, Offered, queueVars, workerVars, stopVars
<1>1. /\ offer[t] = "turnedAway" /\ offer'[t] = "broken"
      /\ \A u \in Tasks \ {t} : offer'[u] = offer[u]
      /\ offer' \in [Tasks -> {"new", "registered", "accepted", "turnedAway", "queued",
                               "bound", "refused", "broken"}]
      /\ taskLanes' = taskLanes \ {t}
  BY DEF AffinityTypeOK
<1>2. Joined' = Joined
  BY <1>1 DEF Joined
<1>3. UNCHANGED <<outcome, doomed, withdrawing, removed, unrelease, signalled, queue, opened,
                  laneClosed, job, at, activeKeys, backendClosed, stop, stopTasks, stopLanes>>
  OBVIOUS
<1>. HIDE DEF ReturnPlace
<1>4. IsFiniteSet(taskLanes') /\ Cardinality(taskLanes') <= MaxAccepted
  <2>1. /\ IsFiniteSet(taskLanes) /\ Cardinality(taskLanes) \in Nat
        /\ MaxAccepted \in Nat /\ Cardinality(taskLanes) <= MaxAccepted
    BY FS_CardinalityType, BackendAssumption DEF AffinitySets, AffinityTypeOK
  <2>2. /\ IsFiniteSet(taskLanes \ {t})
        /\ Cardinality(taskLanes \ {t}) <= Cardinality(taskLanes)
        /\ Cardinality(taskLanes \ {t}) \in Nat
    BY <2>1, FS_Subset, FS_CardinalityType
  <2>. HIDE DEF LaneInv
  <2>. QED  BY <1>1, <2>1, <2>2
<1>5. AffinityTypeOK'
  BY <1>1, <1>3, <1>4 DEF AffinityTypeOK
<1>6. AffinitySets'
  BY <1>1, <1>3, <1>4 DEF AffinitySets
<1>7. Queues'
  BY <1>2, <1>3 DEF Queues
<1>8. Holding'
  BY <1>2, <1>3 DEF Holding, Swept
<1>9. TakenOut'
  BY <1>2, <1>3 DEF TakenOut, Swept
<1>10. Ended'
  BY <1>2, <1>3 DEF Ended
<1>11. KeysApart'
  BY <1>3 DEF KeysApart, InTurn
<1>12. Places'
  <2>. HIDE DEF LaneInv
  <2>1. ASSUME NEW u \in Tasks, u # t
        PROVE  u \in taskLanes' <=> /\ offer'[u] \in {"accepted", "turnedAway", "queued", "bound"}
                                    /\ outcome'[u] = "settled" => u \in unrelease'
    BY <1>1, <1>3, <2>1 DEF LaneInv, Places
  <2>2. t \notin taskLanes' /\ offer'[t] = "broken"
    BY <1>1
  <2>. QED  BY <2>1, <2>2 DEF Places
<1>13. HeldKeys'
  BY <1>3 DEF HeldKeys, InTurn
<1>. QED  BY <1>5, <1>6, <1>7, <1>8, <1>9, <1>10, <1>11, <1>12, <1>13

(* The submission is bound to its handle. *)
LEMMA BindTaskKeeps ==
    ASSUME LaneInv, NEW t \in Tasks, BindTask(t)
    PROVE  LaneInv'
<1>. USE DEF LaneInv, BindTask, slotVars, queueVars, workerVars, stopVars, Offered
<1>1. AffinityTypeOK'
  BY DEF AffinityTypeOK
<1>2. AffinitySets'
  BY DEF AffinitySets
<1>3. Queues'
  BY DEF Queues, Joined
<1>4. Holding'
  BY DEF Holding, Joined, Swept
<1>5. TakenOut'
  BY DEF TakenOut, Joined, Swept
<1>6. Ended'
  BY DEF Ended, Joined
<1>7. KeysApart'
  BY DEF KeysApart, InTurn
<1>8. Places'
  BY DEF Places
<1>9. HeldKeys'
  BY DEF HeldKeys, InTurn
<1>. QED  BY <1>1, <1>2, <1>3, <1>4, <1>5, <1>6, <1>7, <1>8, <1>9

(* A cancelled handle settles what it has delivered. *)
LEMMA DoomKeeps ==
    ASSUME LaneInv, NEW t \in Tasks, Doom(t), UNCHANGED <<backendClosed, stop, stopLanes>>,
           Swept' = Swept, stopTasks' \subseteq stopTasks
    PROVE  LaneInv'
<1>. USE DEF LaneInv, Doom, Settled, queueVars, workerVars
<1>1. /\ doomed' = doomed \cup {t} /\ withdrawing' \subseteq withdrawing \cup {t}
  BY DEF AffinityTypeOK
<1>2. /\ outcome' \in [Tasks -> {"pending", "running", "delivering", "adopting", "settled"}]
      /\ \A u \in Tasks \ {t} : outcome'[u] = outcome[u]
      /\ \/ outcome'[t] = outcome[t] /\ unrelease' = unrelease
         \/ /\ outcome[t] = "delivering" /\ outcome'[t] = "settled"
            /\ unrelease' = unrelease \cup {t}
  BY DEF AffinityTypeOK
<1>3. UNCHANGED <<offer, removed, taskLanes, signalled, opened, queue, laneClosed, job, at,
                  activeKeys, backendClosed, stop, stopLanes>>
  OBVIOUS
<1>4. stopTasks' \subseteq stopTasks /\ Swept' = Swept
  OBVIOUS
<1>. HIDE DEF Doom, Settled
<1>5. outcome'[t] # outcome[t] => t \in Joined /\ \A l \in Lanes : t \notin Range(queue[l])
  BY <1>2 DEF Ended, Queues
<1>6. AffinityTypeOK'
  BY <1>2, <1>3 DEF AffinityTypeOK
<1>7. AffinitySets'
  BY <1>1, <1>2, <1>3, <1>4 DEF AffinitySets
<1>8. Queues'
  BY <1>2, <1>3, <1>5 DEF Queues, Joined
<1>9. Holding'
  BY <1>2, <1>3, <1>4, <1>5 DEF Holding, Joined
<1>10. TakenOut'
  BY <1>2, <1>3, <1>4, <1>5 DEF TakenOut, Joined
<1>11. Ended'
  <2>. HIDE DEF LaneInv
  <2>1. /\ Ended /\ Joined' = Joined
        /\ unrelease \subseteq Tasks /\ signalled \subseteq Tasks
    BY <1>3 DEF LaneInv, Joined, AffinitySets
  <2>. QED  BY <1>2, <1>3, <1>5, <2>1 DEF Ended
<1>12. KeysApart'
  BY <1>3 DEF KeysApart, InTurn
<1>13. Places'
  BY <1>2, <1>3 DEF Places
<1>14. HeldKeys'
  BY <1>3 DEF HeldKeys, InTurn
<1>. QED  BY <1>6, <1>7, <1>8, <1>9, <1>10, <1>11, <1>12, <1>13, <1>14

(* A cancellation settles what the owner has not adopted yet. *)
LEMMA CancelTaskKeeps ==
    ASSUME LaneInv, NEW t \in Tasks, CancelTask(t)
    PROVE  LaneInv'
<1>1. Doom(t) /\ UNCHANGED <<backendClosed, stop, stopLanes, stopTasks>>
  BY DEF CancelTask, stopVars
<1>. QED  BY <1>1, DoomKeeps DEF Swept

(* An entry that still waits is taken out of its lane. *)
LEMMA WithdrawTaskKeeps ==
    ASSUME LaneInv, NEW t \in Tasks, WithdrawTask(t)
    PROVE  LaneInv'
<1>. USE DEF LaneInv, WithdrawTask, slotVars, workerVars, stopVars
<1>1. UNCHANGED <<offer, outcome, doomed, taskLanes, unrelease, signalled, opened, laneClosed,
                  job, at, activeKeys, backendClosed, stop, stopTasks, stopLanes>>
  OBVIOUS
<1>2. /\ withdrawing' \subseteq withdrawing
      /\ \/ queue' = queue /\ removed' = removed
         \/ /\ t \in Range(queue[LaneOf[t]]) /\ removed' = removed \cup {t}
            /\ queue' = [queue EXCEPT ![LaneOf[t]] = RemoveFirst(@, t)]
  OBVIOUS
<1>. HIDE DEF WithdrawTask
<1>3. /\ queue' \in [Lanes -> Seq(Tasks)]
      /\ \A l \in Lanes : IsInjective(queue'[l]) /\ Range(queue'[l]) \subseteq Range(queue[l])
      /\ removed' = removed \/ (removed' = removed \cup {t} /\ t \in Range(queue[LaneOf[t]])
                                /\ t \notin Range(queue'[LaneOf[t]]))
  <2>1. CASE queue' = queue /\ removed' = removed
    BY <2>1 DEF AffinityTypeOK, Queues
  <2>2. CASE /\ t \in Range(queue[LaneOf[t]]) /\ removed' = removed \cup {t}
             /\ queue' = [queue EXCEPT ![LaneOf[t]] = RemoveFirst(@, t)]
    <3> DEFINE s == queue[LaneOf[t]]
               r == RemoveFirst(s, t)
    <3>1. s \in Seq(Tasks) /\ IsInjective(s) /\ LaneOf[t] \in Lanes
      BY BackendAssumption DEF AffinityTypeOK, Queues
    <3>2. r \in Seq(Tasks) /\ IsInjective(r) /\ Range(r) = Range(s) \ {t}
      BY <2>2, <3>1, RemoveFromQueue
    <3>3. \A l \in Lanes : queue'[l] = IF l = LaneOf[t] THEN r ELSE queue[l]
      BY <2>2 DEF AffinityTypeOK
    <3>4. queue' \in [Lanes -> Seq(Tasks)]
      BY <2>2, <3>1, <3>2 DEF AffinityTypeOK
    <3> HIDE DEF r
    <3>5. \A l \in Lanes : IsInjective(queue'[l]) /\ Range(queue'[l]) \subseteq Range(queue[l])
      BY <3>2, <3>3 DEF Queues
    <3>6. t \notin Range(queue'[LaneOf[t]])
      BY <3>1, <3>2, <3>3
    <3>. QED  BY <2>2, <3>4, <3>5, <3>6
  <2>. QED  BY <1>2, <2>1, <2>2
<1>4. Joined' = Joined /\ Swept' = Swept
  BY <1>1 DEF Joined, Swept
<1>5. t \in Range(queue[LaneOf[t]]) =>
        t \in Joined /\ outcome[t] = "pending" /\ t \notin Swept /\ \A l \in Lanes : job[l] # t
  BY BackendAssumption DEF Queues, TakenOut, Holding
<1>6. AffinityTypeOK'
  BY <1>1, <1>3 DEF AffinityTypeOK
<1>7. AffinitySets'
  BY <1>1, <1>2 DEF AffinitySets
<1>8. Queues'
  BY <1>1, <1>3, <1>4 DEF Queues
<1>9. Holding'
  BY <1>1, <1>3, <1>4, <1>5 DEF Holding
<1>10. TakenOut'
  BY <1>1, <1>3, <1>4, <1>5, BackendAssumption DEF TakenOut, AffinitySets, Swept
<1>11. Ended'
  BY <1>1 DEF Ended, Joined
<1>12. KeysApart'
  BY <1>1 DEF KeysApart, InTurn
<1>13. Places'
  BY <1>1 DEF Places
<1>14. HeldKeys'
  BY <1>1 DEF HeldKeys, InTurn
<1>. QED  BY <1>6, <1>7, <1>8, <1>9, <1>10, <1>11, <1>12, <1>13, <1>14

(* A removed entry is cancelled. *)
LEMMA RevokeRemovedKeeps ==
    ASSUME LaneInv, NEW t \in Tasks, RevokeRemoved(t)
    PROVE  LaneInv'
<1>. USE DEF LaneInv, RevokeRemoved, Settled, queueVars, workerVars, stopVars
<1>1. /\ t \in Joined /\ outcome[t] = "pending" /\ \A l \in Lanes : t \notin Range(queue[l])
      /\ \A l \in Lanes : job[l] # t
  <2>1. t \in removed \cup Swept
    BY DEF Swept
  <2>. HIDE DEF LaneInv
  <2>2. t \in Joined /\ outcome[t] = "pending" /\ t \notin Range(queue[LaneOf[t]])
    BY <2>1 DEF TakenOut, LaneInv
  <2>3. \A l \in Lanes : t \notin Range(queue[l])
    BY <2>2 DEF Queues, LaneInv
  <2>4. \A l \in Lanes : job[l] # t
    BY <2>1, BackendAssumption DEF Holding, LaneInv
  <2>. QED  BY <2>2, <2>3, <2>4
<1>2. /\ outcome' \in [Tasks -> {"pending", "running", "delivering", "adopting", "settled"}]
      /\ \A u \in Tasks \ {t} : outcome'[u] = outcome[u]
      /\ outcome'[t] = "settled" /\ unrelease' = unrelease \cup {t}
  BY DEF AffinityTypeOK
<1>3. UNCHANGED <<offer, withdrawing, doomed, stopTasks, taskLanes, signalled, opened, queue, laneClosed, job, at,
                  activeKeys, backendClosed, stop, stopLanes>>
  OBVIOUS
<1>4. /\ t \in removed /\ removed' = removed \ {t}
      /\ Swept' = Swept /\ UNCHANGED <<withdrawing, doomed, stopTasks>>
  BY DEF Swept
<1>. HIDE DEF RevokeRemoved, Settled
<1>5. Joined' = Joined /\ Joined \subseteq Tasks
  BY <1>3 DEF Joined
<1>6. AffinityTypeOK'
  BY <1>2, <1>3 DEF AffinityTypeOK
<1>7. AffinitySets'
  BY <1>2, <1>3, <1>4 DEF AffinitySets
<1>8. Queues'
  BY <1>1, <1>2, <1>3, <1>5 DEF Queues
<1>9. Holding'
  BY <1>1, <1>2, <1>3, <1>4, <1>5 DEF Holding
<1>10. TakenOut'
  BY <1>1, <1>2, <1>3, <1>4, <1>5 DEF TakenOut
<1>11. Ended'
  BY <1>1, <1>2, <1>3, <1>5 DEF Ended, AffinitySets
<1>12. KeysApart'
  BY <1>3 DEF KeysApart, InTurn
<1>13. Places'
  BY <1>1, <1>2, <1>3 DEF Places
<1>14. HeldKeys'
  BY <1>3 DEF HeldKeys, InTurn
<1>. QED  BY <1>6, <1>7, <1>8, <1>9, <1>10, <1>11, <1>12, <1>13, <1>14

(* The place of a settled task is given back. *)
LEMMA RunSettledCallbacksKeeps ==
    ASSUME LaneInv, NEW t \in Tasks, RunSettledCallbacks(t)
    PROVE  LaneInv'
<1>. USE DEF LaneInv, RunSettledCallbacks, queueVars, workerVars, stopVars
<1>1. UNCHANGED <<offer, outcome, withdrawing, removed, opened, queue, laneClosed, job, at,
                  activeKeys, backendClosed, stop, stopTasks, stopLanes>>
  OBVIOUS
<1>2. /\ t \in unrelease /\ unrelease' = unrelease \ {t} /\ taskLanes' = taskLanes \ {t}
      /\ doomed' = doomed \ {t} /\ signalled' \subseteq signalled \cup {t}
  OBVIOUS
<1>. HIDE DEF RunSettledCallbacks
<1>3. IsFiniteSet(taskLanes') /\ Cardinality(taskLanes') <= MaxAccepted
  <2>1. IsFiniteSet(taskLanes) /\ Cardinality(taskLanes) <= MaxAccepted /\ MaxAccepted \in Nat
    BY BackendAssumption DEF AffinitySets, AffinityTypeOK
  <2>2. /\ IsFiniteSet(taskLanes') /\ Cardinality(taskLanes') <= Cardinality(taskLanes)
        /\ Cardinality(taskLanes') \in Nat /\ Cardinality(taskLanes) \in Nat
    BY <1>2, <2>1, FS_Subset, FS_CardinalityType
  <2>. QED  BY <2>1, <2>2
<1>4. outcome[t] = "settled"
  BY <1>2 DEF Ended
<1>5. AffinityTypeOK'
  BY <1>1, <1>2, <1>3 DEF AffinityTypeOK
<1>6. AffinitySets'
  BY <1>1, <1>2, <1>3 DEF AffinitySets
<1>7. Queues'
  BY <1>1 DEF Queues, Joined
<1>8. Holding'
  BY <1>1 DEF Holding, Joined, Swept
<1>9. TakenOut'
  BY <1>1 DEF TakenOut, Joined, Swept
<1>10. Ended'
  BY <1>1, <1>2, <1>4 DEF Ended, Joined
<1>11. KeysApart'
  BY <1>1 DEF KeysApart, InTurn
<1>12. Places'
  BY <1>1, <1>2, <1>4 DEF Places
<1>13. HeldKeys'
  BY <1>1 DEF HeldKeys, InTurn
<1>. QED  BY <1>5, <1>6, <1>7, <1>8, <1>9, <1>10, <1>11, <1>12, <1>13

(* A worker takes the first entry of its lane. *)
LEMMA TakeEntryKeeps ==
    ASSUME LaneInv, NEW l \in Lanes, TakeEntry(l)
    PROVE  LaneInv'
<1>. USE DEF LaneInv, TakeEntry, WorkerAt, taskVars, slotVars, stopVars
<1>0. at[l] = "idle"
  OBVIOUS
<1> DEFINE s == queue[l]
<1>1. s \in Seq(Tasks) /\ s # <<>> /\ IsInjective(s) /\ job[l] = NoTask
  BY DEF AffinityTypeOK, Queues
<1>2. PICK t \in Tasks : t = Head(s)
  BY <1>1, TailOfQueue
<1>3. /\ t \in Range(s) /\ Tail(s) \in Seq(Tasks) /\ IsInjective(Tail(s))
      /\ Range(Tail(s)) = Range(s) \ {t}
  BY <1>1, <1>2, TailOfQueue
<1>4. /\ LaneOf[t] = l /\ t \in Joined /\ outcome[t] = "pending" /\ t \notin removed \cup Swept
      /\ t # NoTask
  BY <1>3, BackendAssumption DEF Queues, TakenOut
<1>5. UNCHANGED <<offer, outcome, doomed, withdrawing, removed, taskLanes, unrelease, signalled,
                  opened, laneClosed, activeKeys, backendClosed, stop, stopTasks, stopLanes>>
  OBVIOUS
<1>6. /\ job' \in [Lanes -> Tasks \cup {NoTask}] /\ job'[l] = t
      /\ at' \in [Lanes -> {"idle", "acquire", "run", "work", "await", "exited"}]
      /\ at'[l] = IF KeyOf[t] = NoKey THEN "run" ELSE "acquire"
      /\ \A m \in Lanes \ {l} : job'[m] = job[m] /\ at'[m] = at[m]
  BY <1>2 DEF AffinityTypeOK
<1>7. /\ queue' \in [Lanes -> Seq(Tasks)]
      /\ queue'[l] = Tail(s) /\ \A m \in Lanes \ {l} : queue'[m] = queue[m]
  BY <1>3 DEF AffinityTypeOK
<1>. HIDE DEF TakeEntry, s
<1>8. /\ \A m \in Lanes : IsInjective(queue'[m]) /\ Range(queue'[m]) \subseteq Range(queue[m])
      /\ t \notin Range(queue'[l])
  BY <1>3, <1>7 DEF Queues, s
<1>9. Joined' = Joined /\ Swept' = Swept
  BY <1>5 DEF Joined, Swept
<1>10. ~InTurn(l) /\ (InTurn(l)' => KeyOf[t] = NoKey)
       /\ \A m \in Lanes \ {l} : InTurn(m)' <=> InTurn(m)
  BY <1>6, <1>0 DEF InTurn
<1>11. AffinityTypeOK'
  <2>1. \A m \in Lanes : at'[m] \in {"idle", "exited"} <=> job'[m] = NoTask
    <3>1. at'[l] \notin {"idle", "exited"} /\ job'[l] # NoTask
      BY <1>4, <1>6
    <3>. QED  BY <1>6, <3>1 DEF AffinityTypeOK
  <2>. QED  BY <1>5, <1>6, <1>7, <2>1 DEF AffinityTypeOK
<1>12. AffinitySets'
  BY <1>5 DEF AffinitySets
<1>13. Queues'
  BY <1>5, <1>8, <1>9 DEF Queues
<1>14. Holding'
  BY <1>4, <1>5, <1>6, <1>8, <1>9 DEF Holding
<1>15. TakenOut'
  BY <1>5, <1>8, <1>9, BackendAssumption DEF TakenOut, AffinitySets, Swept
<1>16. Ended'
  BY <1>5 DEF Ended, Joined
<1>17. KeysApart'
  BY <1>6, <1>10 DEF KeysApart
<1>18. Places'
  BY <1>5 DEF Places
<1>19. HeldKeys'
  BY <1>5, <1>6, <1>10, BackendAssumption DEF HeldKeys
<1>. QED  BY <1>11, <1>12, <1>13, <1>14, <1>15, <1>16, <1>17, <1>18, <1>19

(* A worker leaves its closed and empty lane. *)
LEMMA LaneExitKeeps ==
    ASSUME LaneInv, NEW l \in Lanes, LaneExit(l)
    PROVE  LaneInv'
<1>. USE DEF LaneInv, LaneExit, WorkerAt, taskVars, slotVars, queueVars, stopVars
<1>1. AffinityTypeOK'
  BY DEF AffinityTypeOK
<1>2. AffinitySets'
  BY DEF AffinitySets
<1>3. Queues'
  BY DEF Queues, Joined
<1>4. Holding'
  BY DEF Holding, Joined, Swept
<1>5. TakenOut'
  BY DEF TakenOut, Joined, Swept
<1>6. Ended'
  BY DEF Ended, Joined
<1>7. KeysApart'
  BY DEF KeysApart, InTurn
<1>8. Places'
  BY DEF Places
<1>9. HeldKeys'
  BY DEF HeldKeys, InTurn
<1>. QED  BY <1>1, <1>2, <1>3, <1>4, <1>5, <1>6, <1>7, <1>8, <1>9

(* A worker takes a key nobody holds. *)
LEMMA AcquireKeyKeeps ==
    ASSUME LaneInv, NEW l \in Lanes, AcquireKey(l)
    PROVE  LaneInv'
<1>. USE DEF LaneInv, AcquireKey, WorkerAt, taskVars, slotVars, queueVars, stopVars
<1>1. PICK t : t = job[l]
  OBVIOUS
<1>2. /\ at[l] = "acquire" /\ KeyOf[t] \notin activeKeys
      /\ activeKeys' = activeKeys \cup {KeyOf[t]}
  BY <1>1
<1>3. t \in Tasks /\ KeyOf[t] \in Keys /\ job[l] # NoTask
  <2>1. t \in Tasks /\ KeyOf[t] \in Keys \cup {NoKey} /\ job[l] # NoTask
    BY <1>1, <1>2, WorkerHolds
  <2>. QED  BY <1>1, <1>2, <2>1 DEF Holding
<1>4. /\ at' \in [Lanes -> {"idle", "acquire", "run", "work", "await", "exited"}]
      /\ at'[l] = "run" /\ \A m \in Lanes \ {l} : at'[m] = at[m]
  BY DEF AffinityTypeOK
<1>5. UNCHANGED <<offer, outcome, doomed, withdrawing, removed, taskLanes, unrelease, signalled,
                  opened, queue, laneClosed, job, backendClosed, stop, stopTasks, stopLanes>>
  OBVIOUS
<1>. HIDE DEF AcquireKey
<1>6. /\ ~InTurn(l) /\ InTurn(l)' /\ \A m \in Lanes \ {l} : InTurn(m)' <=> InTurn(m)
  BY <1>2, <1>4 DEF InTurn
<1>7. \A m \in Lanes : InTurn(m) => KeyOf[job[m]] # KeyOf[t]
  BY <1>2, <1>3 DEF HeldKeys
<1>8. AffinityTypeOK'
  BY <1>2, <1>3, <1>4, <1>5 DEF AffinityTypeOK
<1>9. AffinitySets'
  BY <1>5 DEF AffinitySets
<1>10. Queues'
  BY <1>5 DEF Queues, Joined
<1>11. Holding'
  BY <1>2, <1>4, <1>5 DEF Holding, Joined, Swept
<1>12. TakenOut'
  BY <1>5 DEF TakenOut, Joined, Swept
<1>13. Ended'
  BY <1>5 DEF Ended, Joined
<1>14. KeysApart'
  BY <1>1, <1>5, <1>6, <1>7 DEF KeysApart
<1>15. Places'
  BY <1>5 DEF Places
<1>16. HeldKeys'
  BY <1>1, <1>2, <1>5, <1>6 DEF HeldKeys
<1>. QED  BY <1>8, <1>9, <1>10, <1>11, <1>12, <1>13, <1>14, <1>15, <1>16

(* A worker starts the work of its entry, or cancels it. *)
LEMMA RunEntryKeeps ==
    ASSUME LaneInv, NEW l \in Lanes, RunEntry(l)
    PROVE  LaneInv'
<1>. USE DEF LaneInv, RunEntry, WorkerAt, Settled, queueVars, stopVars
<1>1. PICK t : t = job[l]
  OBVIOUS
<1>2. t \in Tasks /\ job[l] # NoTask /\ at[l] = "run"
  BY <1>1, WorkerHolds
<1>3. /\ LaneOf[t] = l /\ t \in Joined /\ outcome[t] = "pending"
      /\ t \notin removed \cup Swept /\ \A m \in Lanes : t \notin Range(queue[m])
      /\ \A m \in Lanes : job[m] = t => m = l
  BY <1>1, <1>2, BackendAssumption DEF Holding, Queues
<1>4. /\ at' \in [Lanes -> {"idle", "acquire", "run", "work", "await", "exited"}]
      /\ \A m \in Lanes \ {l} : at'[m] = at[m]
      /\ outcome' \in [Tasks -> {"pending", "running", "delivering", "adopting", "settled"}]
      /\ \A u \in Tasks \ {t} : outcome'[u] = outcome[u]
      /\ \/ /\ at'[l] = "await" /\ outcome'[t] = "settled" /\ unrelease' = unrelease \cup {t}
         \/ at'[l] = "work" /\ outcome'[t] = "running" /\ unrelease' = unrelease
  BY <1>1, <1>2 DEF AffinityTypeOK
<1>5. UNCHANGED <<offer, doomed, withdrawing, removed, taskLanes, signalled, opened, queue,
                  laneClosed, job, activeKeys, backendClosed, stop, stopTasks, stopLanes>>
  OBVIOUS
<1>. HIDE DEF RunEntry, Settled
<1>6. Joined' = Joined /\ Swept' = Swept /\ Joined \subseteq Tasks
  BY <1>5 DEF Joined, Swept
<1>7. \A m \in Lanes : InTurn(m)' <=> InTurn(m)
  BY <1>2, <1>4 DEF InTurn
<1>8. AffinityTypeOK'
  BY <1>2, <1>4, <1>5 DEF AffinityTypeOK
<1>9. AffinitySets'
  BY <1>2, <1>4, <1>5 DEF AffinitySets
<1>10. Queues'
  BY <1>3, <1>4, <1>5, <1>6 DEF Queues
<1>11. Holding'
  BY <1>1, <1>3, <1>4, <1>5, <1>6 DEF Holding, AffinityTypeOK
<1>12. TakenOut'
  BY <1>3, <1>4, <1>5, <1>6 DEF TakenOut
<1>13. Ended'
  BY <1>3, <1>4, <1>5, <1>6 DEF Ended, AffinitySets
<1>14. KeysApart'
  BY <1>5, <1>7 DEF KeysApart
<1>15. Places'
  BY <1>2, <1>3, <1>4, <1>5 DEF Places
<1>16. HeldKeys'
  BY <1>5, <1>7 DEF HeldKeys
<1>. QED  BY <1>8, <1>9, <1>10, <1>11, <1>12, <1>13, <1>14, <1>15, <1>16

(* The work delivers a result, or settles the task. *)
LEMMA WorkEndsKeeps ==
    ASSUME LaneInv, NEW l \in Lanes, WorkEnds(l)
    PROVE  LaneInv'
<1>. USE DEF LaneInv, WorkEnds, WorkerAt, Settled, queueVars, stopVars
<1>1. PICK t : t = job[l]
  OBVIOUS
<1>2. t \in Tasks /\ job[l] # NoTask /\ at[l] = "work"
  BY <1>1, WorkerHolds
<1>3. /\ LaneOf[t] = l /\ t \in Joined /\ outcome[t] = "running"
      /\ t \notin removed \cup Swept /\ \A m \in Lanes : t \notin Range(queue[m])
      /\ \A m \in Lanes : job[m] = t => m = l
  BY <1>1, <1>2, BackendAssumption DEF Holding, Queues
<1>4. /\ at' \in [Lanes -> {"idle", "acquire", "run", "work", "await", "exited"}]
      /\ \A m \in Lanes \ {l} : at'[m] = at[m]
      /\ outcome' \in [Tasks -> {"pending", "running", "delivering", "adopting", "settled"}]
      /\ \A u \in Tasks \ {t} : outcome'[u] = outcome[u]
      /\ at'[l] = "await"
      /\ \/ outcome'[t] = "settled" /\ unrelease' = unrelease \cup {t}
         \/ outcome'[t] = "delivering" /\ unrelease' = unrelease
  BY <1>1, <1>2 DEF AffinityTypeOK
<1>5. UNCHANGED <<offer, doomed, withdrawing, removed, taskLanes, signalled, opened, queue,
                  laneClosed, job, activeKeys, backendClosed, stop, stopTasks, stopLanes>>
  OBVIOUS
<1>. HIDE DEF WorkEnds, Settled
<1>6. Joined' = Joined /\ Swept' = Swept /\ Joined \subseteq Tasks
  BY <1>5 DEF Joined, Swept
<1>7. \A m \in Lanes : InTurn(m)' <=> InTurn(m)
  BY <1>2, <1>4 DEF InTurn
<1>8. AffinityTypeOK'
  BY <1>2, <1>4, <1>5 DEF AffinityTypeOK
<1>9. AffinitySets'
  BY <1>2, <1>4, <1>5 DEF AffinitySets
<1>10. Queues'
  BY <1>3, <1>4, <1>5, <1>6 DEF Queues
<1>11. Holding'
  BY <1>1, <1>3, <1>4, <1>5, <1>6 DEF Holding, AffinityTypeOK
<1>12. TakenOut'
  BY <1>3, <1>4, <1>5, <1>6 DEF TakenOut
<1>13. Ended'
  BY <1>3, <1>4, <1>5, <1>6 DEF Ended, AffinitySets
<1>14. KeysApart'
  BY <1>5, <1>7 DEF KeysApart
<1>15. Places'
  BY <1>2, <1>3, <1>4, <1>5 DEF Places
<1>16. HeldKeys'
  BY <1>5, <1>7 DEF HeldKeys
<1>. QED  BY <1>8, <1>9, <1>10, <1>11, <1>12, <1>13, <1>14, <1>15, <1>16

(* A worker gives its key back. *)
LEMMA ReleaseKeyKeeps ==
    ASSUME LaneInv, NEW l \in Lanes, ReleaseKey(l)
    PROVE  LaneInv'
<1>. USE DEF LaneInv, ReleaseKey, WorkerAt, taskVars, queueVars, stopVars
<1>1. PICK t : t = job[l]
  OBVIOUS
<1>2. /\ at[l] = "await" /\ t \in Tasks /\ job[l] # NoTask
      /\ activeKeys' = activeKeys \ {KeyOf[t]} /\ signalled' = signalled \ {t}
  BY <1>1, WorkerHolds
<1>3. /\ at' \in [Lanes -> {"idle", "acquire", "run", "work", "await", "exited"}]
      /\ job' \in [Lanes -> Tasks \cup {NoTask}]
      /\ at'[l] = "idle" /\ job'[l] = NoTask
      /\ \A m \in Lanes \ {l} : at'[m] = at[m] /\ job'[m] = job[m]
  BY DEF AffinityTypeOK
<1>4. UNCHANGED <<offer, outcome, doomed, withdrawing, removed, taskLanes, unrelease, opened,
                  queue, laneClosed, backendClosed, stop, stopTasks, stopLanes>>
  OBVIOUS
<1>. HIDE DEF ReleaseKey
<1>5. Joined' = Joined /\ Swept' = Swept
  BY <1>4 DEF Joined, Swept
<1>6. InTurn(l) /\ ~InTurn(l)' /\ \A m \in Lanes \ {l} : InTurn(m)' <=> InTurn(m)
  BY <1>2, <1>3 DEF InTurn
<1>7. \A m \in Lanes \ {l} : InTurn(m) /\ KeyOf[job[m]] # NoKey => KeyOf[job[m]] # KeyOf[t]
  BY <1>1, <1>6 DEF KeysApart
<1>8. AffinityTypeOK'
  BY <1>2, <1>3, <1>4 DEF AffinityTypeOK
<1>9. AffinitySets'
  BY <1>2, <1>4 DEF AffinitySets
<1>10. Queues'
  BY <1>4 DEF Queues, Joined
<1>11. Holding'
  BY <1>3, <1>4, <1>5 DEF Holding
<1>12. TakenOut'
  BY <1>4 DEF TakenOut, Joined, Swept
<1>13. Ended'
  BY <1>2, <1>4 DEF Ended, Joined
<1>14. KeysApart'
  BY <1>3, <1>6 DEF KeysApart
<1>15. Places'
  BY <1>4 DEF Places
<1>16. HeldKeys'
  BY <1>1, <1>2, <1>3, <1>6, <1>7, BackendAssumption DEF HeldKeys
<1>. QED  BY <1>8, <1>9, <1>10, <1>11, <1>12, <1>13, <1>14, <1>15, <1>16

(* The owner adopts a delivered result. *)
LEMMA BeginAdoptionKeeps ==
    ASSUME LaneInv, NEW t \in Tasks, BeginAdoption(t)
    PROVE  LaneInv'
<1>. USE DEF LaneInv, BeginAdoption, slotVars, queueVars, workerVars, stopVars
<1>1. AffinityTypeOK'
  BY DEF AffinityTypeOK
<1>2. AffinitySets'
  BY DEF AffinitySets
<1>3. Queues'
  BY DEF Queues, Joined
<1>4. Holding'
  BY DEF Holding, Joined, Swept
<1>5. TakenOut'
  BY DEF TakenOut, Joined, Swept
<1>6. Ended'
  BY DEF Ended, Joined
<1>7. KeysApart'
  BY DEF KeysApart, InTurn
<1>8. Places'
  BY DEF Places
<1>9. HeldKeys'
  BY DEF HeldKeys, InTurn
<1>. QED  BY <1>1, <1>2, <1>3, <1>4, <1>5, <1>6, <1>7, <1>8, <1>9

(* The adoption settles the task. *)
LEMMA EndAdoptionKeeps ==
    ASSUME LaneInv, NEW t \in Tasks, EndAdoption(t)
    PROVE  LaneInv'
<1>. USE DEF LaneInv, EndAdoption, Settled, queueVars, workerVars, stopVars
<1>1. AffinityTypeOK'
  BY DEF AffinityTypeOK
<1>2. AffinitySets'
  BY DEF AffinitySets
<1>3. Queues'
  BY DEF Queues, Joined
<1>4. Holding'
  BY DEF Holding, Joined, Swept
<1>5. TakenOut'
  BY DEF TakenOut, Joined, Swept
<1>6. Ended'
  BY DEF Ended, Joined, AffinitySets, AffinityTypeOK
<1>7. KeysApart'
  BY DEF KeysApart, InTurn
<1>8. Places'
  BY DEF Places
<1>9. HeldKeys'
  BY DEF HeldKeys, InTurn
<1>. QED  BY <1>1, <1>2, <1>3, <1>4, <1>5, <1>6, <1>7, <1>8, <1>9

(* A shutdown collects the handles to cancel. *)
LEMMA ShutDownKeeps ==
    ASSUME LaneInv, ShutDown
    PROVE  LaneInv'
<1>. USE DEF LaneInv, ShutDown, taskVars, slotVars, queueVars, workerVars
<1>1. AffinityTypeOK'
  BY DEF AffinityTypeOK
<1>2. AffinitySets'
  BY DEF AffinitySets
<1>3. Queues'
  BY DEF Queues, Joined
<1>4. Holding'
  BY DEF Holding, Joined, Swept
<1>5. TakenOut'
  BY DEF TakenOut, Joined, Swept
<1>6. Ended'
  BY DEF Ended, Joined
<1>7. KeysApart'
  BY DEF KeysApart, InTurn
<1>8. Places'
  BY DEF Places
<1>9. HeldKeys'
  BY DEF HeldKeys, InTurn
<1>. QED  BY <1>1, <1>2, <1>3, <1>4, <1>5, <1>6, <1>7, <1>8, <1>9

(* A shutdown cancels a handle, unless it is settled already. *)
LEMMA ShutdownCancelsKeeps ==
    ASSUME LaneInv, NEW t \in Tasks, ShutdownCancels(t)
    PROVE  LaneInv'
<1>1. /\ stopTasks' \subseteq stopTasks /\ Swept' = Swept
      /\ UNCHANGED <<backendClosed, stop, stopLanes>>
  BY DEF ShutdownCancels, Swept
<1>2. CASE Doom(t)
  BY <1>1, <1>2, DoomKeeps
<1>3. CASE UNCHANGED <<taskVars, slotVars, queueVars, workerVars>>
  <2>. USE <1>1, <1>3 DEF taskVars, slotVars, queueVars, workerVars, LaneInv
  <2>1. AffinityTypeOK' /\ AffinitySets' /\ KeysApart' /\ Places' /\ HeldKeys'
    BY DEF AffinityTypeOK, AffinitySets, KeysApart, Places, HeldKeys, InTurn
  <2>2. Queues' /\ Holding' /\ TakenOut' /\ Ended'
    BY DEF Queues, Holding, TakenOut, Ended, Joined
  <2>. QED  BY <2>1, <2>2
<1>. QED  BY <1>2, <1>3 DEF ShutdownCancels

(* The backend is closed. *)
LEMMA CloseBackendKeeps ==
    ASSUME LaneInv, CloseBackend
    PROVE  LaneInv'
<1>. USE DEF LaneInv, CloseBackend, taskVars, slotVars, queueVars, workerVars
<1>1. AffinityTypeOK'
  BY DEF AffinityTypeOK
<1>2. AffinitySets'
  BY DEF AffinitySets, AffinityTypeOK
<1>3. Queues'
  BY DEF Queues, Joined
<1>4. Holding'
  BY DEF Holding, Joined, Swept
<1>5. TakenOut'
  BY DEF TakenOut, Joined, Swept
<1>6. Ended'
  BY DEF Ended, Joined
<1>7. KeysApart'
  BY DEF KeysApart, InTurn
<1>8. Places'
  BY DEF Places
<1>9. HeldKeys'
  BY DEF HeldKeys, InTurn
<1>. QED  BY <1>1, <1>2, <1>3, <1>4, <1>5, <1>6, <1>7, <1>8, <1>9

(* A lane is closed and its entries are taken out. *)
LEMMA CloseLaneKeeps ==
    ASSUME LaneInv, NEW l \in Lanes, CloseLane(l)
    PROVE  LaneInv'
<1>. USE DEF LaneInv, CloseLane, taskVars, slotVars, workerVars
<1>1. UNCHANGED <<offer, outcome, doomed, withdrawing, removed, taskLanes, unrelease, signalled,
                  opened, job, at, activeKeys, backendClosed, stop>>
  OBVIOUS
<1>2. /\ stop = "close" /\ l \in stopLanes /\ stopLanes' = stopLanes \ {l}
      /\ laneClosed' = laneClosed \cup {l} /\ stopTasks' = stopTasks \cup Range(queue[l])
  OBVIOUS
<1>3. /\ queue' \in [Lanes -> Seq(Tasks)]
      /\ queue'[l] = <<>> /\ \A m \in Lanes \ {l} : queue'[m] = queue[m]
  BY EmptyQueue DEF AffinityTypeOK
<1>. HIDE DEF CloseLane
<1>4. Joined' = Joined /\ Swept' = Swept \cup Range(queue[l])
  BY <1>1, <1>2 DEF Joined, Swept
<1>5. Range(queue[l]) \subseteq Tasks
  BY RangeOfSeq DEF AffinityTypeOK
<1>6. \A m \in Lanes : IsInjective(queue'[m]) /\ Range(queue'[m]) \subseteq Range(queue[m])
  BY <1>3, EmptyQueue DEF Queues
<1>7. \A t \in Range(queue[l]) :
        /\ t \in Joined /\ outcome[t] = "pending" /\ t \notin removed /\ LaneOf[t] = l
        /\ t \notin Range(queue'[l])
  BY <1>3, EmptyQueue DEF Queues, TakenOut
<1>8. \A m \in Lanes : job[m] # NoTask => job[m] \notin Range(queue[l])
  BY DEF Queues, Holding
<1>9. AffinityTypeOK'
  BY <1>1, <1>2, <1>3 DEF AffinityTypeOK, AffinitySets
<1>10. AffinitySets'
  BY <1>1, <1>2, <1>5 DEF AffinitySets
<1>11. Queues'
  BY <1>1, <1>4, <1>6 DEF Queues
<1>12. Holding'
  BY <1>1, <1>4, <1>6, <1>8 DEF Holding
<1>13. TakenOut'
  BY <1>1, <1>4, <1>6, <1>7, BackendAssumption DEF TakenOut, AffinitySets, Swept
<1>14. Ended'
  BY <1>1 DEF Ended, Joined
<1>15. KeysApart'
  BY <1>1 DEF KeysApart, InTurn
<1>16. Places'
  BY <1>1 DEF Places
<1>17. HeldKeys'
  BY <1>1 DEF HeldKeys, InTurn
<1>. QED  BY <1>9, <1>10, <1>11, <1>12, <1>13, <1>14, <1>15, <1>16, <1>17

(* All lanes are closed. *)
LEMMA LanesClosedKeeps ==
    ASSUME LaneInv, LanesClosed
    PROVE  LaneInv'
<1>. USE DEF LaneInv, LanesClosed, taskVars, slotVars, queueVars, workerVars
<1>1. AffinityTypeOK'
  BY DEF AffinityTypeOK
<1>2. AffinitySets'
  BY DEF AffinitySets
<1>3. Queues'
  BY DEF Queues, Joined
<1>4. Holding'
  BY DEF Holding, Joined, Swept
<1>5. TakenOut'
  BY DEF TakenOut, Joined, Swept
<1>6. Ended'
  BY DEF Ended, Joined
<1>7. KeysApart'
  BY DEF KeysApart, InTurn
<1>8. Places'
  BY DEF Places
<1>9. HeldKeys'
  BY DEF HeldKeys, InTurn
<1>. QED  BY <1>1, <1>2, <1>3, <1>4, <1>5, <1>6, <1>7, <1>8, <1>9

(* A shutdown cancels an entry it took out. *)
LEMMA ShutdownRevokesKeeps ==
    ASSUME LaneInv, NEW t \in Tasks, ShutdownRevokes(t)
    PROVE  LaneInv'
<1>. USE DEF LaneInv, ShutdownRevokes, Settled, queueVars, workerVars
<1>1. /\ t \in Joined /\ outcome[t] = "pending" /\ \A l \in Lanes : t \notin Range(queue[l])
      /\ \A l \in Lanes : job[l] # t
  <2>1. t \in removed \cup Swept
    BY DEF Swept
  <2>. HIDE DEF LaneInv
  <2>2. t \in Joined /\ outcome[t] = "pending" /\ t \notin Range(queue[LaneOf[t]])
    BY <2>1 DEF TakenOut, LaneInv
  <2>3. \A l \in Lanes : t \notin Range(queue[l])
    BY <2>2 DEF Queues, LaneInv
  <2>4. \A l \in Lanes : job[l] # t
    BY <2>1, BackendAssumption DEF Holding, LaneInv
  <2>. QED  BY <2>2, <2>3, <2>4
<1>2. /\ outcome' \in [Tasks -> {"pending", "running", "delivering", "adopting", "settled"}]
      /\ \A u \in Tasks \ {t} : outcome'[u] = outcome[u]
      /\ outcome'[t] = "settled" /\ unrelease' = unrelease \cup {t}
  BY DEF AffinityTypeOK
<1>3. UNCHANGED <<offer, withdrawing, removed, taskLanes, signalled, opened, queue, laneClosed, job, at,
                  activeKeys, backendClosed, stop, stopLanes>>
  OBVIOUS
<1>4. /\ t \in Swept /\ removed' = removed /\ Swept' = Swept \ {t}
      /\ stopTasks' = stopTasks \ {t}
      /\ doomed' = doomed \cup {t}
  BY DEF Swept
<1>. HIDE DEF ShutdownRevokes, Settled
<1>5. Joined' = Joined /\ Joined \subseteq Tasks
  BY <1>3 DEF Joined
<1>6. AffinityTypeOK'
  BY <1>2, <1>3 DEF AffinityTypeOK
<1>7. AffinitySets'
  BY <1>2, <1>3, <1>4 DEF AffinitySets
<1>8. Queues'
  BY <1>1, <1>2, <1>3, <1>5 DEF Queues
<1>9. Holding'
  BY <1>1, <1>2, <1>3, <1>4, <1>5 DEF Holding
<1>10. TakenOut'
  BY <1>1, <1>2, <1>3, <1>4, <1>5 DEF TakenOut
<1>11. Ended'
  BY <1>1, <1>2, <1>3, <1>5 DEF Ended, AffinitySets
<1>12. KeysApart'
  BY <1>3 DEF KeysApart, InTurn
<1>13. Places'
  BY <1>1, <1>2, <1>3 DEF Places
<1>14. HeldKeys'
  BY <1>3 DEF HeldKeys, InTurn
<1>. QED  BY <1>6, <1>7, <1>8, <1>9, <1>10, <1>11, <1>12, <1>13, <1>14

(* All entries are cancelled. *)
LEMMA RevokedKeeps ==
    ASSUME LaneInv, Revoked
    PROVE  LaneInv'
<1>. USE DEF LaneInv, Revoked, taskVars, slotVars, queueVars, workerVars
<1>1. AffinityTypeOK'
  BY DEF AffinityTypeOK
<1>2. AffinitySets'
  BY DEF AffinitySets
<1>3. Queues'
  BY DEF Queues, Joined
<1>4. Holding'
  BY DEF Holding, Joined, Swept
<1>5. TakenOut'
  BY DEF TakenOut, Joined, Swept
<1>6. Ended'
  BY DEF Ended, Joined
<1>7. KeysApart'
  BY DEF KeysApart, InTurn
<1>8. Places'
  BY DEF Places
<1>9. HeldKeys'
  BY DEF HeldKeys, InTurn
<1>. QED  BY <1>1, <1>2, <1>3, <1>4, <1>5, <1>6, <1>7, <1>8, <1>9

(* The lanes have ended. *)
LEMMA LanesJoinedKeeps ==
    ASSUME LaneInv, LanesJoined
    PROVE  LaneInv'
<1>. USE DEF LaneInv, LanesJoined, taskVars, slotVars, queueVars, workerVars
<1>1. AffinityTypeOK'
  BY DEF AffinityTypeOK
<1>2. AffinitySets'
  BY DEF AffinitySets
<1>3. Queues'
  BY DEF Queues, Joined
<1>4. Holding'
  BY DEF Holding, Joined, Swept
<1>5. TakenOut'
  BY DEF TakenOut, Joined, Swept
<1>6. Ended'
  BY DEF Ended, Joined
<1>7. KeysApart'
  BY DEF KeysApart, InTurn
<1>8. Places'
  BY DEF Places
<1>9. HeldKeys'
  BY DEF HeldKeys, InTurn
<1>. QED  BY <1>1, <1>2, <1>3, <1>4, <1>5, <1>6, <1>7, <1>8, <1>9

-----------------------------------------------------------------------------
(* What the steps keep.                                                    *)

(* Every step keeps the invariant. *)
LEMMA LaneInvStep == ASSUME LaneInv, [AffinityNext]_affinityVars PROVE LaneInv'
<1>1. ASSUME NEW t \in Tasks, RegisterTask(t) \/ CancelTask(t)  PROVE LaneInv'
  BY <1>1, RegisterTaskKeeps, CancelTaskKeeps
<1>2. ASSUME NEW t \in Tasks, Submitting(t)  PROVE LaneInv'
  BY <1>2, AcceptTaskKeeps, QueueTaskKeeps, ReturnPlaceKeeps, BindTaskKeeps DEF Submitting
<1>3. ASSUME NEW t \in Tasks, Settling(t)  PROVE LaneInv'
  BY <1>3, WithdrawTaskKeeps, RevokeRemovedKeeps, RunSettledCallbacksKeeps
  DEF Settling
<1>4. ASSUME NEW t \in Tasks, Adopting(t)  PROVE LaneInv'
  BY <1>4, BeginAdoptionKeeps, EndAdoptionKeeps DEF Adopting
<1>5. ASSUME NEW l \in Lanes, Worker(l)  PROVE LaneInv'
  BY <1>5, TakeEntryKeeps, LaneExitKeeps, AcquireKeyKeeps, RunEntryKeeps,
     WorkEndsKeeps, ReleaseKeyKeeps DEF Worker
<1>6. ASSUME Stopping  PROVE LaneInv'
  BY <1>6, ShutdownCancelsKeeps, ShutdownRevokesKeeps, CloseBackendKeeps,
     CloseLaneKeeps, LanesClosedKeeps, RevokedKeeps, LanesJoinedKeeps DEF Stopping
<1>7. CASE ShutDown
  BY <1>7, ShutDownKeeps
<1>8. CASE UNCHANGED affinityVars
  BY <1>8, LaneStutter
<1>. QED  BY <1>1, <1>2, <1>3, <1>4, <1>5, <1>6, <1>7, <1>8 DEF AffinityNext, AffinityThreads

(* The invariant holds throughout. *)
LEMMA LaneInvariant == AffinitySpec => []LaneInv
<1>1. LaneInv /\ [AffinityNext]_affinityVars => LaneInv'
  BY LaneInvStep
<1>. QED  BY <1>1, InitLaneInv, PTL DEF AffinitySpec

(* The native lanes are well typed, and no more tasks than the limit allows  *)
(* count as accepted.                                                       *)
THEOREM AffinityTypes == AffinitySpec => []AffinityTypeOK
<1>1. LaneInv => AffinityTypeOK
  BY DEF LaneInv
<1>. QED  BY <1>1, LaneInvariant, PTL

(* A task keeps its place among the accepted ones exactly until its settled *)
(* callbacks have run, and a key is held exactly while the worker of some   *)
(* lane has taken it, whichever way the tasks end.                          *)
THEOREM PlacesAndKeysStayExact == AffinitySpec => []PlacesAndKeysAreExact
<1>. QED  BY ExactPlacesAndKeys, LaneInvariant, PTL

-----------------------------------------------------------------------------
(* The lanes of AffinityLane, step by step.                                *)

Waiting(l) == (IF at[l] = "acquire" THEN <<job[l]>> ELSE <<>>) \o queue[l]
Turn(l) == IF InTurn(l) THEN job[l] ELSE NoTask
Done == {t \in Tasks : outcome[t] = "settled"}

LaneStep == [Lane!LaneNext]_(Lane!laneVars)

SameWaiting == \A l \in Lanes : Waiting(l)' = Waiting(l)
SameTurns == \A l \in Lanes : Turn(l)' = Turn(l)

(* The sequence operators of AffinityLane are the ones used here. *)
LEMMA SameOperators ==
    ASSUME NEW s, NEW i
    PROVE  Lane!Range(s) = Range(s) /\ Lane!RemoveAt(s, i) = RemoveAt(s, i)
BY Zenon DEF Lane!Range, Range, Lane!RemoveAt, RemoveAt

(* What waits in a lane: its queue, behind the entry whose key is taken. *)
LEMMA WaitingTypes ==
    ASSUME LaneInv, NEW l \in Lanes
    PROVE  /\ Waiting(l) \in Seq(Tasks)
           /\ at[l] # "acquire" => Waiting(l) = queue[l]
           /\ at[l] = "acquire" => Waiting(l) = <<job[l]>> \o queue[l] /\ job[l] \in Tasks
<1>1. queue[l] \in Seq(Tasks)
  BY DEF LaneInv, AffinityTypeOK
<1>2. CASE at[l] = "acquire"
  <2>1. job[l] \in Tasks
    BY <1>2, WorkerHolds DEF LaneInv
  <2>. QED  BY <1>1, <1>2, <2>1, EntryBefore DEF Waiting
<1>3. CASE at[l] # "acquire"
  BY <1>1, <1>3, ConcatEmptySeq DEF Waiting
<1>. QED  BY <1>2, <1>3

(* An entry that waits in a lane is pending, and no step settles it there. *)
LEMMA WaitersArePending ==
    ASSUME LaneInv, NEW l \in Lanes, NEW t \in Range(Waiting(l))
    PROVE  /\ t \in Joined /\ LaneOf[t] = l /\ outcome[t] = "pending"
           /\ t \notin removed \cup Swept /\ Turn(l) # t
<1>. USE DEF LaneInv
<1>1. queue[l] \in Seq(Tasks)
  BY DEF AffinityTypeOK
<1>2. CASE at[l] = "acquire" /\ t = job[l]
  <2>1. job[l] # NoTask /\ ~InTurn(l)
    BY <1>2, WorkerHolds DEF InTurn
  <2>. QED  BY <1>2, <2>1 DEF Holding, Turn
<1>3. CASE t \in Range(queue[l])
  <2>1. t \in Joined /\ LaneOf[t] = l /\ outcome[t] = "pending"
    BY <1>3 DEF Queues
  <2>2. t \notin removed \cup Swept
    BY <1>3, <2>1 DEF TakenOut
  <2>3. t # NoTask
    BY <2>1, BackendAssumption DEF Joined
  <2>4. job[l] # t
    BY <1>3, <2>3 DEF Holding
  <2>. QED  BY <2>1, <2>2, <2>3, <2>4 DEF Turn
<1>4. (at[l] = "acquire" /\ t = job[l]) \/ t \in Range(queue[l])
  <2>. HIDE DEF LaneInv
  <2>1. CASE at[l] = "acquire"
    <3>1. Waiting(l) = <<job[l]>> \o queue[l] /\ job[l] \in Tasks
      BY <2>1, WaitingTypes
    <3>2. Range(<<job[l]>> \o queue[l]) = {job[l]} \cup Range(queue[l])
      BY <1>1, <3>1, EntryBefore
    <3>. QED  BY <2>1, <3>1, <3>2
  <2>2. CASE at[l] # "acquire"
    BY <2>2, WaitingTypes
  <2>. QED  BY <2>1, <2>2
<1>. QED  BY <1>2, <1>3, <1>4

(* What waits changes as a function when it changes in one lane. *)
LEMMA WaitingAsFunction ==
    ASSUME NEW m \in Lanes, NEW q, Waiting(m)' = q,
           \A l \in Lanes \ {m} : Waiting(l)' = Waiting(l)
    PROVE  [l \in Lanes |-> Waiting(l)]' = [[l \in Lanes |-> Waiting(l)] EXCEPT ![m] = q]
OBVIOUS

(* So do the turns. *)
LEMMA TurnsAsFunction ==
    ASSUME NEW m \in Lanes, NEW x, Turn(m)' = x,
           \A l \in Lanes \ {m} : Turn(l)' = Turn(l)
    PROVE  [l \in Lanes |-> Turn(l)]' = [[l \in Lanes |-> Turn(l)] EXCEPT ![m] = x]
OBVIOUS

(* A step that shows nothing is a stuttering step of the lanes. *)
LEMMA Unseen ==
    ASSUME SameWaiting, SameTurns, Done' = Done
    PROVE  LaneStep
BY DEF SameWaiting, SameTurns, LaneStep, Lane!laneVars, Waiting, Turn, Done

(* A task joins its lane. *)
LEMMA Joins ==
    ASSUME NEW t \in Tasks, LaneOf[t] \in Lanes, t \notin Done,
           t \notin Range(Waiting(LaneOf[t])), \A l \in Lanes : Turn(l) # t,
           Waiting(LaneOf[t])' = Append(Waiting(LaneOf[t]), t),
           \A l \in Lanes \ {LaneOf[t]} : Waiting(l)' = Waiting(l),
           SameTurns, Done' = Done
    PROVE  LaneStep
<1>1. t \notin Range([l \in Lanes |-> Turn(l)])
  BY DEF Range
<1>2. [l \in Lanes |-> Waiting(l)]' =
          [[l \in Lanes |-> Waiting(l)] EXCEPT ![LaneOf[t]] = Append(@, t)]
  OBVIOUS
<1>3. [l \in Lanes |-> Turn(l)]' = [l \in Lanes |-> Turn(l)]
  BY DEF SameTurns
<1>4. Lane!Join(t)
  BY <1>1, <1>2, <1>3, SameOperators DEF Lane!Join, Waiting, Turn, Done
<1>. QED  BY <1>4 DEF LaneStep, Lane!LaneNext

(* An outcome is settled. *)
LEMMA Ends ==
    ASSUME NEW t \in Tasks, LaneOf[t] \in Lanes, t \notin Done,
           t \notin Range(Waiting(LaneOf[t])),
           SameWaiting, SameTurns, Done' = Done \cup {t}
    PROVE  LaneStep
<1> DEFINE turns == [m \in Lanes |-> Turn(m)]
           waits == [m \in Lanes |-> Waiting(m)]
<1>1. waits' = waits /\ turns' = turns
  BY DEF SameTurns, SameWaiting
<1>2. t \notin Done \cup Lane!Range(waits[LaneOf[t]])
  BY SameOperators
<1>3. Lane!EndTask(t)
  BY <1>1, <1>2 DEF Lane!EndTask, Waiting, Turn, Done
<1>. QED  BY <1>3 DEF LaneStep, Lane!LaneNext

(* The first that waits in a lane has its turn. *)
LEMMA Begins ==
    ASSUME NEW l \in Lanes, NEW t \in Tasks, Turn(l) = NoTask,
           Waiting(l) # <<>>, Head(Waiting(l)) = t,
           KeyOf[t] = NoKey \/ \A m \in Lanes : Turn(m) # NoTask => KeyOf[Turn(m)] # KeyOf[t],
           Waiting(l)' = Tail(Waiting(l)), \A m \in Lanes \ {l} : Waiting(m)' = Waiting(m),
           Turn(l)' = t, \A m \in Lanes \ {l} : Turn(m)' = Turn(m), Done' = Done
    PROVE  LaneStep
<1> DEFINE turns == [m \in Lanes |-> Turn(m)]
           waits == [m \in Lanes |-> Waiting(m)]
<1>1. KeyOf[t] \notin {KeyOf[u] : u \in Range(turns) \ {NoTask}} \ {NoKey}
  <2>1. ASSUME NEW u \in Range(turns) \ {NoTask}, KeyOf[u] = KeyOf[t], KeyOf[t] # NoKey
        PROVE  FALSE
    <3>1. PICK m \in Lanes : u = Turn(m)
      BY <2>1 DEF Range
    <3>. QED  BY <2>1, <3>1
  <2>. QED  BY <2>1
<1>2. waits' = [waits EXCEPT ![l] = Tail(@)] /\ turns' = [turns EXCEPT ![l] = Head(waits[l])]
  OBVIOUS
<1>3. turns[l] = NoTask /\ waits[l] # <<>> /\ Head(waits[l]) = t
  OBVIOUS
<1>4. Lane!KeyFree(Head(waits[l]))
  BY <1>1, <1>3, SameOperators DEF Lane!KeyFree, Turn
<1>5. Lane!Begin(l)
  BY <1>2, <1>3, <1>4 DEF Lane!Begin, Waiting, Turn, Done
<1>. QED  BY <1>5 DEF LaneStep, Lane!LaneNext

(* A turn is over. *)
LEMMA Frees ==
    ASSUME NEW l \in Lanes, Turn(l) # NoTask, Turn(l) \in AdoptionHeld => Turn(l) \in Done,
           Turn(l)' = NoTask, \A m \in Lanes \ {l} : Turn(m)' = Turn(m),
           SameWaiting, Done' = Done
    PROVE  LaneStep
<1> DEFINE turns == [m \in Lanes |-> Turn(m)]
           waits == [m \in Lanes |-> Waiting(m)]
<1>1. turns' = [turns EXCEPT ![l] = NoTask] /\ turns[l] = Turn(l)
  <2>1. turns' = [turns EXCEPT ![l] = NoTask]
    BY TurnsAsFunction
  <2>. QED  BY <2>1
<1>2. waits' = waits
  BY DEF SameWaiting
<1>3. Lane!FreeLane(l)
  BY <1>1, <1>2 DEF Lane!FreeLane, Waiting, Turn, Done
<1>. QED  BY <1>3 DEF LaneStep, Lane!LaneNext

(* An entry leaves its lane without a turn. *)
LEMMA Leaves ==
    ASSUME NEW l \in Lanes, NEW i \in DOMAIN Waiting(l),
           Waiting(l)' = RemoveAt(Waiting(l), i),
           \A m \in Lanes \ {l} : Waiting(m)' = Waiting(m), SameTurns, Done' = Done
    PROVE  LaneStep
<1> DEFINE turns == [m \in Lanes |-> Turn(m)]
           waits == [m \in Lanes |-> Waiting(m)]
<1>1. waits' = [waits EXCEPT ![l] = RemoveAt(@, i)] /\ turns' = turns /\ waits[l] = Waiting(l)
  BY DEF SameTurns
<1>2. waits' = [waits EXCEPT ![l] = Lane!RemoveAt(@, i)]
  <2>1. Lane!RemoveAt(waits[l], i) = RemoveAt(waits[l], i)
    BY SameOperators
  <2> HIDE DEF waits
  <2>. QED  BY <1>1, <2>1
<1>3. Lane!Leave(l, i) /\ i \in DOMAIN waits[l]
  BY <1>1, <1>2 DEF Lane!Leave, Waiting, Turn, Done
<1>. QED  BY <1>3 DEF LaneStep, Lane!LaneNext, Waiting

(* All that wait from the i-th on leave their lane. *)
LEMMA LetsGo ==
    ASSUME NEW l \in Lanes, NEW i \in DOMAIN Waiting(l),
           Waiting(l)' = SubSeq(Waiting(l), 1, i - 1),
           \A m \in Lanes \ {l} : Waiting(m)' = Waiting(m), SameTurns, Done' = Done
    PROVE  LaneStep
<1> DEFINE turns == [m \in Lanes |-> Turn(m)]
           waits == [m \in Lanes |-> Waiting(m)]
<1>1. /\ waits' = [waits EXCEPT ![l] = SubSeq(@, 1, i - 1)] /\ turns' = turns
      /\ waits[l] = Waiting(l)
  BY DEF SameTurns
<1>2. Lane!LetGo(l, i - 1) /\ i \in DOMAIN waits[l]
  BY <1>1 DEF Lane!LetGo, Waiting, Turn, Done
<1>. QED  BY <1>2 DEF LaneStep, Lane!LaneNext, Waiting

-----------------------------------------------------------------------------
(* Every step is one of the lanes' steps.                                  *)

(* A lane of which no variable changes looks the same. *)
LEMMA LaneLooksSame ==
    ASSUME NEW l, queue'[l] = queue[l], at'[l] = at[l], job'[l] = job[l]
    PROVE  Waiting(l)' = Waiting(l) /\ Turn(l)' = Turn(l)
BY DEF Waiting, Turn, InTurn

(* When the settled outcomes stay. *)
LEMMA SameDone ==
    ASSUME \A t \in Tasks : outcome'[t] = "settled" <=> outcome[t] = "settled"
    PROVE  Done' = Done
BY DEF Done

(* When one more outcome is settled. *)
LEMMA OneMoreDone ==
    ASSUME NEW t \in Tasks, outcome'[t] = "settled",
           \A u \in Tasks \ {t} : outcome'[u] = outcome[u]
    PROVE  Done' = Done \cup {t}
BY DEF Done

(* Steps that touch neither the lanes nor a worker nor an outcome. *)
LEMMA QuietSteps ==
    ASSUME UNCHANGED <<queue, at, job, outcome>>
    PROVE  LaneStep
<1>1. SameWaiting /\ SameTurns /\ Done' = Done
  BY LaneLooksSame DEF SameWaiting, SameTurns, Done
<1>. QED  BY <1>1, Unseen

(* Steps that settle the outcome of a task that waits nowhere. *)
LEMMA SettlingSteps ==
    ASSUME LaneInv, NEW t \in Tasks, UNCHANGED <<queue, job>>, SameWaiting, SameTurns,
           outcome' = [outcome EXCEPT ![t] = "settled"],
           t \notin Range(Waiting(LaneOf[t]))
    PROVE  LaneStep
<1>1. \A u \in Tasks \ {t} : outcome'[u] = outcome[u]
  BY DEF LaneInv, AffinityTypeOK
<1>2. outcome'[t] = "settled" /\ LaneOf[t] \in Lanes
  BY BackendAssumption DEF LaneInv, AffinityTypeOK
<1>3. CASE t \in Done
  <2>1. Done' = Done
    BY <1>1, <1>2, <1>3, OneMoreDone
  <2>. QED  BY <2>1, Unseen
<1>4. CASE t \notin Done
  <2>1. Done' = Done \cup {t}
    BY <1>1, <1>2, OneMoreDone
  <2>. QED  BY <1>2, <1>4, <2>1, Ends
<1>. QED  BY <1>3, <1>4

(* Queueing a task joins it to its lane. *)
LEMMA QueueTaskStep ==
    ASSUME LaneInv, NEW t \in Tasks, QueueTask(t)
    PROVE  LaneStep
<1>1. UNCHANGED <<at, job, outcome>> /\ offer[t] = "accepted"
  BY DEF QueueTask, workerVars
<1>2. CASE queue' = queue
  BY <1>1, <1>2, QuietSteps
<1>3. CASE queue' = [queue EXCEPT ![LaneOf[t]] = Append(@, t)]
  <2>1. PICK m \in Lanes : m = LaneOf[t]
    BY BackendAssumption
  <2>2. queue \in [Lanes -> Seq(Tasks)]
    BY DEF LaneInv, AffinityTypeOK
  <2>3. queue'[m] = Append(queue[m], t) /\ \A l \in Lanes \ {m} : queue'[l] = queue[l]
    BY <1>3, <2>1, <2>2
  <2>4. t \notin Joined /\ outcome[t] = "pending"
    <3>1. t \notin Joined
      BY <1>1 DEF Joined
    <3>. QED  BY <3>1 DEF LaneInv, Ended
  <2>5. t \notin Done /\ t \notin Range(Waiting(m)) /\ \A l \in Lanes : Turn(l) # t
    <3>1. t \notin Done
      BY <2>4 DEF Done
    <3>2. t \notin Range(Waiting(m))
      BY <2>4, WaitersArePending
    <3>3. ASSUME NEW l \in Lanes  PROVE Turn(l) # t
      BY <2>4, BackendAssumption DEF Turn, LaneInv, Holding
    <3>. QED  BY <3>1, <3>2, <3>3
  <2>6. Waiting(m)' = Append(Waiting(m), t)
    <3>1. PICK s \in Seq(Tasks) : s = IF at[m] = "acquire" THEN <<job[m]>> ELSE <<>>
      <4>1. at[m] = "acquire" => <<job[m]>> \in Seq(Tasks)
        <5>1. at[m] = "acquire" => job[m] \in Tasks
          BY WaitingTypes
        <5>. QED  BY <5>1
      <4>. QED  BY <4>1, EmptyQueue
    <3>2. Waiting(m) = s \o queue[m] /\ Waiting(m)' = s \o Append(queue[m], t)
      BY <1>1, <2>3, <3>1 DEF Waiting
    <3>3. s \o Append(queue[m], t) = Append(s \o queue[m], t)
      <4>1. /\ queue[m] \in Seq(Tasks) /\ <<t>> \in Seq(Tasks) /\ s \o queue[m] \in Seq(Tasks)
        BY <2>2, ConcatProperties
      <4>2. Append(queue[m], t) = queue[m] \o <<t>>
        BY <4>1, AppendIsConcat
      <4>3. Append(s \o queue[m], t) = (s \o queue[m]) \o <<t>>
        BY <4>1, AppendIsConcat
      <4>4. (s \o queue[m]) \o <<t>> = s \o (queue[m] \o <<t>>)
        <5>1. PICK q \in Seq(Tasks) : q = queue[m]
          BY <4>1
        <5>2. PICK u \in Seq(Tasks) : u = <<t>>
          BY <4>1
        <5>3. (s \o q) \o u = s \o (q \o u)
          BY ConcatAssociative
        <5>. QED  BY <5>1, <5>2, <5>3
      <4>. QED  BY <4>2, <4>3, <4>4
    <3>. QED  BY <3>2, <3>3
  <2>7. \A l \in Lanes \ {m} : Waiting(l)' = Waiting(l)
    BY <1>1, <2>3, LaneLooksSame
  <2>8. SameTurns /\ Done' = Done
    BY <1>1 DEF SameTurns, Turn, InTurn, Done
  <2>. QED  BY <2>1, <2>5, <2>6, <2>7, <2>8, Joins
<1>. QED  BY <1>2, <1>3 DEF QueueTask

(* Taking an entry out of a lane lets it leave. *)
LEMMA WithdrawTaskStep ==
    ASSUME LaneInv, NEW t \in Tasks, WithdrawTask(t)
    PROVE  LaneStep
<1>1. UNCHANGED <<at, job, outcome>>
  BY DEF WithdrawTask, workerVars
<1>2. CASE queue' = queue
  BY <1>1, <1>2, QuietSteps
<1>3. CASE /\ t \in Range(queue[LaneOf[t]])
           /\ queue' = [queue EXCEPT ![LaneOf[t]] = RemoveFirst(@, t)]
  <2>1. PICK m \in Lanes : m = LaneOf[t]
    BY BackendAssumption
  <2>2. queue \in [Lanes -> Seq(Tasks)] /\ IsInjective(queue[m])
    BY DEF LaneInv, AffinityTypeOK, Queues
  <2>3. PICK i \in 1..Len(queue[m]) : RemoveFirst(queue[m], t) = RemoveAt(queue[m], i)
    BY <1>3, <2>1, <2>2, RemoveFromQueue
  <2>4. queue'[m] = RemoveAt(queue[m], i) /\ \A l \in Lanes \ {m} : queue'[l] = queue[l]
    BY <1>3, <2>1, <2>2, <2>3
  <2>5. \E k \in DOMAIN Waiting(m) : Waiting(m)' = RemoveAt(Waiting(m), k)
    <3>1. RemoveAt(queue[m], i) \in Seq(Tasks)
      BY <2>2, RemoveAtPlace
    <3>2. CASE at[m] = "acquire"
      <4>1. Waiting(m) = <<job[m]>> \o queue[m] /\ job[m] \in Tasks
        BY <3>2, WaitingTypes
      <4>2. Waiting(m)' = <<job[m]>> \o RemoveAt(queue[m], i)
        BY <1>1, <2>4, <3>2 DEF Waiting
      <4>3. /\ i + 1 \in 1..Len(Waiting(m))
            /\ RemoveAt(Waiting(m), i + 1) = <<job[m]>> \o RemoveAt(queue[m], i)
        <5>1. PICK q \in Seq(Tasks), e \in Tasks : q = queue[m] /\ e = job[m]
          BY <2>2, <4>1
        <5>2. /\ i + 1 \in 1..Len(<<e>> \o q)
              /\ RemoveAt(<<e>> \o q, i + 1) = <<e>> \o RemoveAt(q, i)
          BY <5>1, RemoveBehind
        <5>. QED  BY <4>1, <5>1, <5>2
      <4>4. DOMAIN Waiting(m) = 1..Len(Waiting(m))
        BY WaitingTypes, LenProperties
      <4>. QED  BY <4>2, <4>3, <4>4
    <3>3. CASE at[m] # "acquire"
      <4>1. Waiting(m) = queue[m]
        BY <3>3, WaitingTypes
      <4>2. Waiting(m)' = RemoveAt(queue[m], i)
        BY <1>1, <2>4, <3>1, <3>3, ConcatEmptySeq DEF Waiting
      <4>3. i \in DOMAIN queue[m]
        BY <2>2, LenProperties
      <4>. QED  BY <4>1, <4>2, <4>3
    <3>. QED  BY <3>2, <3>3
  <2>6. \A l \in Lanes \ {m} : Waiting(l)' = Waiting(l)
    BY <1>1, <2>4, LaneLooksSame
  <2>7. SameTurns /\ Done' = Done
    BY <1>1 DEF SameTurns, Turn, InTurn, Done
  <2>. QED  BY <2>5, <2>6, <2>7, Leaves
<1>. QED  BY <1>2, <1>3 DEF WithdrawTask

(* Taking an entry that needs no key begins its turn; with a key it still    *)
(* waits.                                                                   *)
LEMMA TakeEntryStep ==
    ASSUME LaneInv, NEW l \in Lanes, TakeEntry(l)
    PROVE  LaneStep
<1>1. queue[l] \in Seq(Tasks) /\ queue[l] # <<>> /\ at[l] = "idle" /\ IsInjective(queue[l])
  BY DEF LaneInv, AffinityTypeOK, Queues, TakeEntry
<1>2. PICK t \in Tasks : t = Head(queue[l])
  BY <1>1, TailOfQueue
<1>3. PICK q \in Seq(Tasks) : q = Tail(queue[l])
  BY <1>1, TailOfQueue
<1>4. /\ queue'[l] = q /\ job'[l] = t /\ Done' = Done
      /\ at'[l] = IF KeyOf[t] = NoKey THEN "run" ELSE "acquire"
      /\ \A m \in Lanes \ {l} : queue'[m] = queue[m] /\ job'[m] = job[m] /\ at'[m] = at[m]
  BY <1>2, <1>3 DEF LaneInv, AffinityTypeOK, TakeEntry, WorkerAt, taskVars, Done
<1>5. Waiting(l) = queue[l] /\ Turn(l) = NoTask
  BY <1>1, WaitingTypes DEF Turn, InTurn
<1>6. \A m \in Lanes \ {l} : Waiting(m)' = Waiting(m) /\ Turn(m)' = Turn(m)
  BY <1>4, LaneLooksSame
<1>7. CASE KeyOf[t] = NoKey
  <2>1. Waiting(l)' = q /\ Turn(l)' = t
    BY <1>4, <1>7, ConcatEmptySeq DEF Waiting, Turn, InTurn
  <2>. QED  BY <1>1, <1>2, <1>3, <1>4, <1>5, <1>6, <1>7, <2>1, Begins
<1>8. CASE KeyOf[t] # NoKey
  <2>1. Waiting(l)' = <<t>> \o q /\ Turn(l)' = NoTask
    BY <1>4, <1>8 DEF Waiting, Turn, InTurn
  <2>2. <<t>> \o q = queue[l]
    <3>1. PICK s \in Seq(Tasks) : s = queue[l] /\ s # <<>> /\ t = Head(s) /\ q = Tail(s)
      BY <1>1, <1>2, <1>3
    <3>2. Len(s) \in Nat \ {0} /\ Len(q) = Len(s) - 1 /\ \A i \in 1..Len(q) : q[i] = s[i + 1]
      BY <3>1, EmptySeq, HeadTailProperties
    <3>3. /\ <<t>> \o q \in Seq(Tasks) /\ Len(<<t>> \o q) = Len(q) + 1 /\ (<<t>> \o q)[1] = t
          /\ \A i \in 1..Len(q) : (<<t>> \o q)[i + 1] = q[i]
      BY EntryBefore
    <3>4. ASSUME NEW j \in 1..Len(s)  PROVE (<<t>> \o q)[j] = s[j]
      <4>1. CASE j = 1
        BY <3>1, <3>3, <4>1
      <4>2. CASE j # 1
        <5>1. j - 1 \in 1..Len(q) /\ (j - 1) + 1 = j
          BY <3>2, <4>2
        <5>2. (<<t>> \o q)[(j - 1) + 1] = s[(j - 1) + 1]
          BY <3>2, <3>3, <5>1
        <5>. QED  BY <5>1, <5>2
      <4>. QED  BY <4>1, <4>2
    <3>5. Len(<<t>> \o q) = Len(s)
      BY <3>2, <3>3
    <3>. QED  BY <3>1, <3>3, <3>4, <3>5, SeqEqual
  <2>3. SameWaiting /\ SameTurns
    BY <1>5, <1>6, <2>1, <2>2 DEF SameWaiting, SameTurns
  <2>. QED  BY <1>4, <2>3, Unseen
<1>. QED  BY <1>7, <1>8

(* Taking the key begins the turn of the task that asked for it. *)
LEMMA AcquireKeyStep ==
    ASSUME LaneInv, NEW l \in Lanes, AcquireKey(l)
    PROVE  LaneStep
<1>1. at[l] = "acquire" /\ KeyOf[job[l]] \notin activeKeys
  BY DEF AcquireKey
<1>2. PICK t \in Tasks : t = job[l] /\ Waiting(l) = <<t>> \o queue[l]
  BY <1>1, WaitingTypes
<1>3. PICK q \in Seq(Tasks) : q = queue[l]
  BY DEF LaneInv, AffinityTypeOK
<1>4. Waiting(l) # <<>> /\ Head(Waiting(l)) = t /\ Tail(Waiting(l)) = q
  BY <1>2, <1>3, EntryBefore
<1>5. /\ at'[l] = "run" /\ queue' = queue /\ job' = job /\ Done' = Done
      /\ \A m \in Lanes \ {l} : at'[m] = at[m]
  BY DEF LaneInv, AffinityTypeOK, AcquireKey, WorkerAt, taskVars, queueVars, Done
<1>6. Waiting(l)' = q /\ Turn(l) = NoTask /\ Turn(l)' = t
  BY <1>1, <1>2, <1>3, <1>5, ConcatEmptySeq DEF Waiting, Turn, InTurn
<1>7. \A m \in Lanes \ {l} : Waiting(m)' = Waiting(m) /\ Turn(m)' = Turn(m)
  BY <1>5, LaneLooksSame
<1>8. ASSUME NEW m \in Lanes, Turn(m) # NoTask, KeyOf[t] # NoKey, KeyOf[Turn(m)] = KeyOf[t]
      PROVE  FALSE
  <2>1. InTurn(m) /\ Turn(m) = job[m]
    BY <1>8 DEF Turn
  <2>2. KeyOf[t] \in Keys
    BY <1>8, BackendAssumption
  <2>. QED  BY <1>1, <1>2, <1>8, <2>1, <2>2 DEF LaneInv, HeldKeys
<1>. QED  BY <1>4, <1>5, <1>6, <1>7, <1>8, Begins

(* Running an entry cancels it or shows nothing. *)
LEMMA RunEntryStep ==
    ASSUME LaneInv, NEW l \in Lanes, RunEntry(l)
    PROVE  LaneStep
<1>1. PICK t \in Tasks : t = job[l]
  BY WorkerHolds DEF LaneInv, RunEntry
<1>2. /\ at[l] = "run" /\ queue' = queue /\ job' = job /\ at'[l] \in {"await", "work"}
      /\ \A m \in Lanes \ {l} : at'[m] = at[m]
  BY DEF LaneInv, AffinityTypeOK, RunEntry, WorkerAt, queueVars
<1>3. SameWaiting /\ SameTurns
  BY <1>2 DEF SameWaiting, SameTurns, Waiting, Turn, InTurn
<1>4. LaneOf[t] = l /\ outcome[t] = "pending" /\ t \notin Range(Waiting(l))
  <2>1. job[l] # NoTask /\ Turn(l) = t
    BY <1>1, <1>2, WorkerHolds DEF LaneInv, Turn, InTurn
  <2>. QED  BY <1>1, <1>2, <2>1, WaitersArePending DEF LaneInv, Holding
<1>5. CASE outcome' = [outcome EXCEPT ![t] = "settled"]
  BY <1>2, <1>3, <1>4, <1>5, SettlingSteps
<1>6. CASE outcome' = [outcome EXCEPT ![t] = "running"]
  <2>1. \A u \in Tasks : outcome'[u] = "settled" <=> outcome[u] = "settled"
    BY <1>4, <1>6 DEF LaneInv, AffinityTypeOK
  <2>. QED  BY <1>3, <2>1, SameDone, Unseen
<1>. QED  BY <1>1, <1>5, <1>6 DEF RunEntry, Settled

(* The end of the work settles the task or shows nothing. *)
LEMMA WorkEndsStep ==
    ASSUME LaneInv, NEW l \in Lanes, WorkEnds(l)
    PROVE  LaneStep
<1>1. PICK t \in Tasks : t = job[l]
  BY WorkerHolds DEF LaneInv, WorkEnds
<1>2. /\ at[l] = "work" /\ queue' = queue /\ job' = job /\ at'[l] = "await"
      /\ \A m \in Lanes \ {l} : at'[m] = at[m]
  BY DEF LaneInv, AffinityTypeOK, WorkEnds, WorkerAt, queueVars
<1>3. SameWaiting /\ SameTurns
  BY <1>2 DEF SameWaiting, SameTurns, Waiting, Turn, InTurn
<1>4. LaneOf[t] = l /\ outcome[t] = "running" /\ t \notin Range(Waiting(l))
  <2>1. job[l] # NoTask /\ Turn(l) = t
    BY <1>1, <1>2, WorkerHolds DEF LaneInv, Turn, InTurn
  <2>. QED  BY <1>1, <1>2, <2>1, WaitersArePending DEF LaneInv, Holding
<1>5. CASE outcome' = [outcome EXCEPT ![t] = "settled"]
  BY <1>2, <1>3, <1>4, <1>5, SettlingSteps
<1>6. CASE outcome' = [outcome EXCEPT ![t] = "delivering"]
  <2>1. \A u \in Tasks : outcome'[u] = "settled" <=> outcome[u] = "settled"
    BY <1>4, <1>6 DEF LaneInv, AffinityTypeOK
  <2>. QED  BY <1>3, <2>1, SameDone, Unseen
<1>. QED  BY <1>1, <1>5, <1>6 DEF WorkEnds, Settled

(* Giving the key back frees the lane; a task held through adoption is       *)
(* settled by then.                                                         *)
LEMMA ReleaseKeyStep ==
    ASSUME LaneInv, NEW l \in Lanes, ReleaseKey(l)
    PROVE  LaneStep
<1>1. /\ at[l] = "await" /\ queue' = queue /\ outcome' = outcome
      /\ at'[l] = "idle" /\ job'[l] = NoTask
      /\ \A m \in Lanes \ {l} : at'[m] = at[m] /\ job'[m] = job[m]
      /\ job[l] \in AdoptionHeld => job[l] \in signalled
  BY DEF LaneInv, AffinityTypeOK, ReleaseKey, WorkerAt, taskVars, queueVars
<1>2. Turn(l) = job[l] /\ Turn(l) # NoTask /\ Turn(l)' = NoTask /\ Waiting(l)' = Waiting(l)
  BY <1>1, WorkerHolds DEF LaneInv, Turn, InTurn, Waiting
<1>3. \A m \in Lanes \ {l} : Waiting(m)' = Waiting(m) /\ Turn(m)' = Turn(m)
  BY <1>1, LaneLooksSame
<1>4. Turn(l) \in AdoptionHeld => Turn(l) \in Done
  BY <1>1, <1>2 DEF LaneInv, Ended, AffinitySets, Done
<1>5. SameWaiting /\ Done' = Done
  BY <1>1, <1>2, <1>3 DEF SameWaiting, Done
<1>. QED  BY <1>2, <1>3, <1>4, <1>5, Frees

(* Closing a lane lets all go that have not been taken. *)
LEMMA CloseLaneStep ==
    ASSUME LaneInv, NEW l \in Lanes, CloseLane(l)
    PROVE  LaneStep
<1>1. /\ UNCHANGED <<at, job, outcome>> /\ queue'[l] = <<>>
      /\ \A m \in Lanes \ {l} : queue'[m] = queue[m]
  BY DEF LaneInv, AffinityTypeOK, CloseLane, taskVars, workerVars
<1>2. PICK q \in Seq(Tasks) : q = queue[l]
  BY DEF LaneInv, AffinityTypeOK
<1>3. SameTurns /\ Done' = Done
  BY <1>1 DEF SameTurns, Turn, InTurn, Done
<1>4. \A m \in Lanes \ {l} : Waiting(m)' = Waiting(m)
  BY <1>1, LaneLooksSame
<1>5. CASE q = <<>>
  <2>1. SameWaiting
    BY <1>1, <1>2, <1>4, <1>5 DEF SameWaiting, Waiting
  <2>. QED  BY <1>3, <2>1, Unseen
<1>6. CASE q # <<>> /\ at[l] = "acquire"
  <2>1. PICK e \in Tasks : Waiting(l) = <<e>> \o q /\ e = job[l]
    BY <1>2, <1>6, WaitingTypes
  <2>2. PICK c \in Seq(Tasks) : c = <<e>> \o q
    BY EntryBefore
  <2>3. Len(q) \in Nat \ {0} /\ Len(c) = Len(q) + 1 /\ c[1] = e /\ DOMAIN c = 1..Len(c)
    BY <1>6, <2>2, EntryBefore, EmptySeq, LenProperties
  <2>4. SubSeq(c, 1, 1) = <<e>>
    <3>1. 1 \in 1..Len(c) /\ 1 \in 1..Len(c) /\ 1 + 1 > 1
      BY <2>3
    <3>2. SubSeq(c, 1, 1) = <<c[1]>> \o SubSeq(c, 1 + 1, 1)
      BY <3>1, SubSeqRecursiveFirst
    <3>3. SubSeq(c, 1 + 1, 1) = <<>>
      BY SubSeqEmpty
    <3>4. <<e>> \in Seq(Tasks)
      OBVIOUS
    <3>5. <<e>> \o <<>> = <<e>>
      BY <3>4, ConcatEmptySeq
    <3>. QED  BY <2>3, <3>2, <3>3, <3>5
  <2>5. Waiting(l)' = <<e>>
    BY <1>1, <1>6, <2>1, ConcatEmptySeq DEF Waiting
  <2>6. 2 \in DOMAIN Waiting(l) /\ Waiting(l)' = SubSeq(Waiting(l), 1, 2 - 1)
    BY <2>1, <2>2, <2>3, <2>4, <2>5
  <2>. QED  BY <1>3, <1>4, <2>6, LetsGo
<1>7. CASE q # <<>> /\ at[l] # "acquire"
  <2>1. Waiting(l) = q
    BY <1>2, <1>7, WaitingTypes
  <2>2. Waiting(l)' = <<>>
    BY <1>1, <1>7, EmptyQueue, ConcatEmptySeq DEF Waiting
  <2>3. 1 \in DOMAIN q /\ SubSeq(q, 1, 1 - 1) = <<>>
    BY <1>7, EmptySeq, LenProperties, SubSeqEmpty
  <2>. QED  BY <1>3, <1>4, <2>1, <2>2, <2>3, LetsGo
<1>. QED  BY <1>5, <1>6, <1>7

(* Cancelling a handle settles a delivered result or shows nothing. *)
LEMMA DoomStep ==
    ASSUME LaneInv, NEW t \in Tasks, Doom(t)
    PROVE  LaneStep
<1>1. UNCHANGED <<queue, at, job>>
  BY DEF Doom, queueVars, workerVars
<1>2. CASE outcome' = outcome
  BY <1>1, <1>2, QuietSteps
<1>3. CASE outcome[t] = "delivering" /\ outcome' = [outcome EXCEPT ![t] = "settled"]
  <2>1. SameWaiting /\ SameTurns
    BY <1>1 DEF SameWaiting, SameTurns, Waiting, Turn, InTurn
  <2>2. t \notin Range(Waiting(LaneOf[t]))
    BY <1>3, BackendAssumption, WaitersArePending
  <2>. QED  BY <1>1, <1>3, <2>1, <2>2, SettlingSteps
<1>. QED  BY <1>2, <1>3 DEF Doom, Settled

(* So do the other steps that settle a task outside its lane. *)
LEMMA SettleStep ==
    ASSUME LaneInv, NEW t \in Tasks,
           RevokeRemoved(t) \/ EndAdoption(t) \/ ShutdownRevokes(t)
    PROVE  LaneStep
<1>1. UNCHANGED <<queue, at, job>> /\ outcome' = [outcome EXCEPT ![t] = "settled"]
  BY DEF RevokeRemoved, EndAdoption, ShutdownRevokes, Settled, queueVars, workerVars
<1>2. t \in removed \cup Swept \/ outcome[t] = "adopting"
  BY DEF RevokeRemoved, EndAdoption, ShutdownRevokes, Swept
<1>3. SameWaiting /\ SameTurns
  BY <1>1 DEF SameWaiting, SameTurns, Waiting, Turn, InTurn
<1>4. t \notin Range(Waiting(LaneOf[t]))
  BY <1>2, BackendAssumption, WaitersArePending
<1>. QED  BY <1>1, <1>3, <1>4, SettlingSteps

(* Starting an adoption shows nothing. *)
LEMMA BeginAdoptionStep ==
    ASSUME LaneInv, NEW t \in Tasks, BeginAdoption(t)
    PROVE  LaneStep
<1>1. UNCHANGED <<queue, at, job>> /\ outcome' = [outcome EXCEPT ![t] = "adopting"]
  BY DEF BeginAdoption, queueVars, workerVars
<1>2. SameWaiting /\ SameTurns
  BY <1>1 DEF SameWaiting, SameTurns, Waiting, Turn, InTurn
<1>3. \A u \in Tasks : outcome'[u] = "settled" <=> outcome[u] = "settled"
  BY <1>1 DEF LaneInv, AffinityTypeOK, BeginAdoption
<1>. QED  BY <1>2, <1>3, SameDone, Unseen

(* A worker that leaves shows nothing. *)
LEMMA LaneExitStep ==
    ASSUME LaneInv, NEW l \in Lanes, LaneExit(l)
    PROVE  LaneStep
<1>1. /\ UNCHANGED <<queue, job, outcome>> /\ at[l] = "idle" /\ at'[l] = "exited"
      /\ \A m \in Lanes \ {l} : at'[m] = at[m]
  BY DEF LaneInv, AffinityTypeOK, LaneExit, WorkerAt, taskVars, queueVars
<1>2. SameWaiting /\ SameTurns /\ Done' = Done
  BY <1>1 DEF SameWaiting, SameTurns, Waiting, Turn, InTurn, Done
<1>. QED  BY <1>2, Unseen

(* Nobody waits at first. *)
LEMMA InitLanes ==
    ASSUME AffinityInit
    PROVE  Lane!LaneInit
<1>1. [l \in Lanes |-> Waiting(l)] = [l \in Lanes |-> <<>>]
  BY EmptyQueue, ConcatEmptySeq DEF AffinityInit, Waiting
<1>2. [l \in Lanes |-> Turn(l)] = [l \in Lanes |-> NoTask] /\ Done = {}
  BY DEF AffinityInit, Turn, InTurn, Done
<1>. QED  BY <1>1, <1>2 DEF Lane!LaneInit, Waiting, Turn, Done

(* The native lanes keep the promise of AffinityLane: one task of a lane at a *)
(* time in the order in which they joined, no two tasks of one exclusive key  *)
(* at a time, and a task held through adoption keeps lane and key until its   *)
(* outcome is settled.                                                       *)
THEOREM LanesKeepTheirPromiseAlways == AffinitySpec => LanesKeepTheirPromise
<1>1. ASSUME LaneInv, [AffinityNext]_affinityVars
      PROVE  LaneStep
  <2>1. ASSUME NEW t \in Tasks, RegisterTask(t) \/ AcceptTask(t) \/ ReturnPlace(t)
                                \/ BindTask(t) \/ RunSettledCallbacks(t)
        PROVE  LaneStep
    <3>1. UNCHANGED <<queue, at, job, outcome>>
      BY <2>1 DEF RegisterTask, AcceptTask, ReturnPlace, BindTask, RunSettledCallbacks,
         queueVars, workerVars
    <3>. QED  BY <3>1, QuietSteps
  <2>2. ASSUME NEW t \in Tasks, CancelTask(t) \/ ShutdownCancels(t)  PROVE LaneStep
    <3>1. CASE Doom(t)
      BY <1>1, <3>1, DoomStep
    <3>2. CASE UNCHANGED <<taskVars, slotVars, queueVars, workerVars>>
      BY <3>2, QuietSteps DEF taskVars, queueVars, workerVars
    <3>. QED  BY <2>2, <3>1, <3>2 DEF CancelTask, ShutdownCancels
  <2>3. ASSUME NEW t \in Tasks, Adopting(t) \/ RevokeRemoved(t) \/ ShutdownRevokes(t)
        PROVE  LaneStep
    BY <1>1, <2>3, SettleStep, BeginAdoptionStep DEF Adopting
  <2>4. ASSUME NEW t \in Tasks, QueueTask(t) \/ WithdrawTask(t)  PROVE LaneStep
    BY <1>1, <2>4, QueueTaskStep, WithdrawTaskStep
  <2>5. ASSUME NEW l \in Lanes, Worker(l)  PROVE LaneStep
    BY <1>1, <2>5, TakeEntryStep, LaneExitStep, AcquireKeyStep, RunEntryStep, WorkEndsStep,
       ReleaseKeyStep DEF Worker
  <2>6. ASSUME NEW l \in Lanes, CloseLane(l)  PROVE LaneStep
    BY <1>1, <2>6, CloseLaneStep
  <2>7. CASE ShutDown \/ CloseBackend \/ LanesClosed \/ Revoked \/ LanesJoined
             \/ UNCHANGED affinityVars
    <3>1. UNCHANGED <<queue, at, job, outcome>>
      BY <2>7 DEF ShutDown, CloseBackend, LanesClosed, Revoked, LanesJoined, affinityVars,
         taskVars, queueVars, workerVars
    <3>. QED  BY <3>1, QuietSteps
  <2>8. ASSUME AffinityThreads  PROVE LaneStep
    BY <2>1, <2>2, <2>3, <2>4, <2>5, <2>6, <2>7, <2>8
    DEF AffinityThreads, Submitting, Settling, Adopting, Stopping
  <2>. QED  BY <1>1, <2>1, <2>2, <2>7, <2>8 DEF AffinityNext
<1>2. LaneInv /\ [AffinityNext]_affinityVars => [Lane!LaneNext]_(Lane!laneVars)
  BY <1>1 DEF LaneStep
<1>. QED
  BY <1>2, InitLanes, LaneInvariant, PTL
  DEF AffinitySpec, LanesKeepTheirPromise, Lane!LaneSpec

================================================================================
