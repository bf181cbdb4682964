---------------------- MODULE DeferredFinalization_proofs ----------------------
(***************************************************************************)
(* Finalizers that wait for a slot, for any number of tasks, workers and   *)
(* clients: each is admitted at most once, and in the order in which they  *)
(* were retained, whichever thread drains them.                            *)
(***************************************************************************)
EXTENDS DeferredFinalization, QueueLemmas

-----------------------------------------------------------------------------
(* The invariant.                                                          *)

\* Places at which a thread works on the task of its cur.
Busy == {"rebind", "offer", "refuse", "defer", "bindDeferred", "bind", "hook", "withdraw",
         "unqueue", "settle", "slot", "pop", "execute", "work", "stuck"}

\* A submission that has not found out whether there is room.
Unplaced == {"rebind", "offer", "refuse", "defer"}

\* An admission that the backend has accepted, up to its last line.
Admitted(th) ==
    \/ pc[th] \in {"bind", "hook"}
    \/ pc[th] \in {"unqueue", "settle", "slot"} /\ after[th] = "hook"

\* The drain has its finalizer accepted, and has still to drop it.
DrainPlaced == {"bind", "hook", "unqueue", "settle", "slot", "pop", "stuck"}
DrainWorks == {"rebind", "offer"} \cup DrainPlaced

\* The backend has, or a worker runs, a job of task t.
AtBackend(t) == t \in queue \cup accepted \/ \E w \in Workers : job[w] = t

\* A thread that works has a task; a cancellation returns to the cancelling; only
\* finalizers are deferred; only the draining thread is in the drain.
Working ==
    \A th \in Threads :
        /\ pc[th] \in Busy => cur[th] \in Tasks
        /\ pc[th] = "withdraw" => after[th] = "cancelling"
        /\ pc[th] = "defer" => cur[th] \in Finalizers
        /\ pc[th] \in {"peek", "pop", "stop"} => drainer = th

\* Nobody has heard of a task that was not submitted, or was refused.
Unknown ==
    \A t \in Tasks : state[t] \in {"absent", "refused"} =>
        /\ submission[t] = "none" /\ ~AtBackend(t) /\ t \notin Range(deferred)
        /\ \A th \in Threads : cur[th] # t

\* Only its submitter works on a task that has found no place.
Submitting ==
    \A th \in Threads : th # drainer /\ pc[th] \in Unplaced =>
        /\ submission[cur[th]] = "none" /\ ~AtBackend(cur[th])
        /\ cur[th] \notin Range(deferred)
        /\ \A o \in Threads \ {th} : cur[o] # cur[th]

\* What a submission placed itself is not what the drain works on.
PlacedDirectly ==
    \A th \in Threads : th # drainer /\ Admitted(th) =>
        /\ cur[th] \notin Range(deferred)
        /\ \A d \in Threads : d = drainer /\ pc[d] \in DrainWorks => cur[d] # cur[th]

\* The drain works on the first retained finalizer or on one that was withdrawn
\* in the meantime; until it is placed no job of it is at the backend, and until
\* the drain has dropped it no other drain starts.
Draining ==
    \A d \in Threads : d = drainer =>
        /\ pc[d] \in DrainWorks \cup {"peek", "stop"}
        /\ pc[d] \in {"unqueue", "settle", "slot"} => after[d] = "hook"
        /\ pc[d] \in {"rebind", "offer"} => ~AtBackend(cur[d])
        /\ pc[d] \in DrainWorks /\ cur[d] \in Range(deferred) => cur[d] = Head(deferred)
        /\ pc[d] \in {"offer", "bind", "hook", "unqueue", "settle", "slot"} =>
               "drain" \notin hooks[cur[d]]

\* A finalizer is retained once, and has no job but the one the drain placed.
Retained ==
    /\ IsInjective(deferred)
    /\ \A t \in Range(deferred) : AtBackend(t) =>
          \E d \in Threads : d = drainer /\ cur[d] = t /\ pc[d] \in DrainPlaced

\* No two workers run one task, and none runs one that is queued.
RunOnce ==
    /\ \A w, v \in Workers : job[w] = job[v] /\ job[w] # NoTask => w = v
    /\ \A w \in Workers : job[w] \notin queue

DrainInv ==
    /\ TypeOK /\ Working /\ Unknown /\ Submitting /\ PlacedDirectly /\ Draining
    /\ Retained /\ RunOnce

-----------------------------------------------------------------------------
(* The initial states, and the steps.                                      *)

(* Nothing has been submitted and nobody drains. *)
LEMMA InitDrainInv ==
    ASSUME Init
    PROVE  DrainInv
<1>. USE DEF Init
<1>1. /\ <<>> \in Seq(Finalizers) /\ Range(deferred) = {} /\ IsInjective(deferred)
  BY EmptyQueue
<1>2. TypeOK
  BY <1>1, DeferralAssumption DEF TypeOK, Threads, Terminal, Places
<1>3. Working /\ PlacedDirectly /\ Submitting
  BY DEF Working, PlacedDirectly, Submitting, Busy, Admitted, Unplaced
<1>4. \A t \in Tasks : ~AtBackend(t)
  BY DeferralAssumption DEF AtBackend
<1>5. Unknown
  BY <1>1, <1>4, DeferralAssumption DEF Unknown
<1>6. Draining /\ Retained /\ RunOnce
  BY <1>1, DeferralAssumption DEF Draining, Retained, RunOnce, Threads
<1>. QED  BY <1>2, <1>3, <1>5, <1>6 DEF DrainInv

(* A step that changes nothing keeps the invariant. *)
LEMMA DrainStutter ==
    ASSUME DrainInv, UNCHANGED vars
    PROVE  DrainInv'
BY DEF DrainInv, vars, handleVars, runtimeVars, backendVars, threadVars, TypeOK,
   Working,
       Unknown, Submitting, PlacedDirectly, Draining, Retained, RunOnce, AtBackend, Admitted

(* The retained finalizers are tasks. *)
LEMMA RetainedAreTasks ==
    ASSUME TypeOK
    PROVE  Range(deferred) \subseteq Tasks
<1>1. \A i \in DOMAIN deferred : deferred[i] \in Finalizers
  BY DEF TypeOK
<1>. QED  BY <1>1, DeferralAssumption DEF Range

(* A task is submitted. *)
LEMMA SubmitKeeps ==
    ASSUME DrainInv, NEW c \in Clients, NEW t \in Tasks, Submit(c, t)
    PROVE  DrainInv'
<1>. USE DEF DrainInv
<1>1. UNCHANGED <<cancelled, submission, jobSettled, hooks, deferred, drainer,
                  runtimeClosed, queue, accepted, job>>
  BY DEF Submit, handleVars, runtimeVars, backendVars, threadVars, Goto, Return,
     SettleAs
<1>2. /\ c \in Threads
      /\ pc' \in [Threads -> Places] /\ cur' \in [Threads -> Tasks \cup {NoTask}]
      /\ after' \in [Threads -> {"cancelling", "hook", "finish"}]
      /\ fate' \in [Threads -> Terminal] /\ todo' \in [Threads -> SUBSET Tasks]
      /\ \A o \in Threads \ {c} :
              pc'[o] = pc[o] /\ cur'[o] = cur[o] /\ after'[o] = after[o]
      /\ pc[c] = "idle" /\ state[t] = "absent"
      /\ \A u \in Tasks \ {t} : state'[u] = state[u]
      /\ \/ state'[t] = "refused" /\ pc'[c] = "idle" /\ cur'[c] = NoTask
         \/ state'[t] = "pending" /\ pc'[c] = "rebind" /\ cur'[c] = t
      /\ state' \in [Tasks -> {"absent", "refused", "pending", "running"} \cup Terminal]
  BY DEF Submit, At, Goto, Return, SettleAs, TypeOK, Threads, Places, Terminal
<1>3. \A x : AtBackend(x)' <=> AtBackend(x)
  BY <1>1 DEF AtBackend
<1>4. /\ \A o \in Threads \ {c} : Admitted(o)' <=> Admitted(o)
      /\ ~Admitted(c)'
  BY <1>2 DEF Admitted
<1>5. /\ submission[t] = "none" /\ ~AtBackend(t) /\ t \notin Range(deferred)
      /\ \A o \in Threads : cur[o] # t
      /\ c # drainer /\ NoTask \notin Tasks
  BY <1>1, <1>2, DeferralAssumption DEF Unknown, Draining, DrainWorks, DrainPlaced
<1>6. TypeOK'
  BY <1>1, <1>2, <1>3, <1>4, <1>5 DEF TypeOK
<1>7. Working'
  BY <1>1, <1>2, <1>3, <1>4, <1>5 DEF Working, Busy
<1>8. Unknown'
  BY <1>1, <1>2, <1>3, <1>4, <1>5 DEF Unknown
<1>9. Submitting'
  BY <1>1, <1>2, <1>3, <1>4, <1>5 DEF Submitting, Unplaced, Working, Busy
<1>10. PlacedDirectly'
  BY <1>1, <1>2, <1>3, <1>4, <1>5 DEF PlacedDirectly, DrainWorks, DrainPlaced
<1>11. Draining'
  BY <1>1, <1>2, <1>3, <1>4, <1>5 DEF Draining, DrainWorks, DrainPlaced, Working, Busy
<1>12. Retained'
  BY <1>1, <1>2, <1>3, <1>4, <1>5 DEF Retained, DrainPlaced
<1>13. RunOnce'
  BY <1>1, <1>2, <1>3, <1>4, <1>5 DEF RunOnce
<1>. QED  BY <1>6, <1>7, <1>8, <1>9, <1>10, <1>11, <1>12, <1>13

(* An admission starts with a fresh job. *)
LEMMA RebindKeeps ==
    ASSUME DrainInv, NEW th \in Threads, Rebind(th)
    PROVE  DrainInv'
<1>. USE DEF DrainInv
<1>1. UNCHANGED <<state, cancelled, submission, deferred, drainer, runtimeClosed,
                  queue, accepted, job, cur, after>>
  BY DEF Rebind, handleVars, runtimeVars, backendVars, threadVars, Goto, Return,
     SettleAs
<1>2. /\ th \in Threads
      /\ pc' \in [Threads -> Places] /\ cur' \in [Threads -> Tasks \cup {NoTask}]
      /\ after' \in [Threads -> {"cancelling", "hook", "finish"}]
      /\ fate' \in [Threads -> Terminal] /\ todo' \in [Threads -> SUBSET Tasks]
      /\ \A o \in Threads \ {th} :
              pc'[o] = pc[o] /\ cur'[o] = cur[o] /\ after'[o] = after[o]
      /\ pc[th] = "rebind" /\ pc'[th] = "offer" /\ cur[th] \in Tasks
      /\ jobSettled' \subseteq jobSettled
      /\ hooks' \in [Tasks -> SUBSET {"slot", "drain"}]
      /\ hooks'[cur[th]] = {} /\ \A u \in Tasks \ {cur[th]} : hooks'[u] = hooks[u]
  BY DEF Rebind, At, Goto, Return, SettleAs, TypeOK, Threads, Places, Terminal,
     Working, Busy
<1>3. \A x : AtBackend(x)' <=> AtBackend(x)
  BY <1>1 DEF AtBackend
<1>4. /\ \A o \in Threads \ {th} : Admitted(o)' <=> Admitted(o)
      /\ ~Admitted(th)'
  BY <1>2 DEF Admitted
<1>6. TypeOK'
  BY <1>1, <1>2, <1>3, <1>4 DEF TypeOK
<1>7. Working'
  BY <1>1, <1>2, <1>3, <1>4 DEF Working, Busy
<1>8. Unknown'
  BY <1>1, <1>2, <1>3, <1>4 DEF Unknown
<1>9. Submitting'
  BY <1>1, <1>2, <1>3, <1>4 DEF Submitting, Unplaced, Working, Busy
<1>10. PlacedDirectly'
  BY <1>1, <1>2, <1>3, <1>4 DEF PlacedDirectly, DrainWorks, DrainPlaced
<1>11. Draining'
  BY <1>1, <1>2, <1>3, <1>4 DEF Draining, DrainWorks, DrainPlaced, Working, Busy
<1>12. Retained'
  BY <1>1, <1>2, <1>3, <1>4 DEF Retained, DrainPlaced
<1>13. RunOnce'
  BY <1>1, <1>2, <1>3, <1>4 DEF RunOnce
<1>. QED  BY <1>6, <1>7, <1>8, <1>9, <1>10, <1>11, <1>12, <1>13

(* The backend has no room. *)
LEMMA OfferRejectedKeeps ==
    ASSUME DrainInv, NEW th \in Threads, OfferRejected(th)
    PROVE  DrainInv'
<1>. USE DEF DrainInv
<1>1. UNCHANGED <<state, cancelled, submission, jobSettled, hooks, deferred,
                  drainer, runtimeClosed, queue, accepted, job, cur, after>>
  BY DEF OfferRejected, handleVars, runtimeVars, backendVars, threadVars, Goto,
     Return, SettleAs
<1>2. /\ th \in Threads
      /\ pc' \in [Threads -> Places] /\ cur' \in [Threads -> Tasks \cup {NoTask}]
      /\ after' \in [Threads -> {"cancelling", "hook", "finish"}]
      /\ fate' \in [Threads -> Terminal] /\ todo' \in [Threads -> SUBSET Tasks]
      /\ \A o \in Threads \ {th} :
              pc'[o] = pc[o] /\ cur'[o] = cur[o] /\ after'[o] = after[o]
      /\ pc[th] = "offer"
      /\ pc'[th] = IF drainer = th THEN "stop"
                   ELSE IF cur[th] \in Finalizers THEN "defer" ELSE "refuse"
  BY DEF OfferRejected, At, Goto, Return, SettleAs, TypeOK, Threads, Places, Terminal
<1>3. \A x : AtBackend(x)' <=> AtBackend(x)
  BY <1>1 DEF AtBackend
<1>4. /\ \A o \in Threads \ {th} : Admitted(o)' <=> Admitted(o)
      /\ ~Admitted(th)'
  BY <1>2 DEF Admitted
<1>6. TypeOK'
  BY <1>1, <1>2, <1>3, <1>4 DEF TypeOK
<1>7. Working'
  BY <1>1, <1>2, <1>3, <1>4 DEF Working, Busy
<1>8. Unknown'
  BY <1>1, <1>2, <1>3, <1>4 DEF Unknown
<1>9. Submitting'
  BY <1>1, <1>2, <1>3, <1>4 DEF Submitting, Unplaced, Working, Busy
<1>10. PlacedDirectly'
  BY <1>1, <1>2, <1>3, <1>4 DEF PlacedDirectly, DrainWorks, DrainPlaced
<1>11. Draining'
  BY <1>1, <1>2, <1>3, <1>4 DEF Draining, DrainWorks, DrainPlaced, Working, Busy
<1>12. Retained'
  BY <1>1, <1>2, <1>3, <1>4 DEF Retained, DrainPlaced
<1>13. RunOnce'
  BY <1>1, <1>2, <1>3, <1>4 DEF RunOnce
<1>. QED  BY <1>6, <1>7, <1>8, <1>9, <1>10, <1>11, <1>12, <1>13

(* The backend has room. *)
LEMMA OfferTakenKeeps ==
    ASSUME DrainInv, NEW th \in Threads, OfferTaken(th)
    PROVE  DrainInv'
<1>. USE DEF DrainInv
<1>1. UNCHANGED <<state, cancelled, submission, jobSettled, deferred, drainer,
                  runtimeClosed, job, cur, after>>
  BY DEF OfferTaken, handleVars, runtimeVars, backendVars, threadVars, Goto, Return,
     SettleAs
<1>2. /\ th \in Threads
      /\ pc' \in [Threads -> Places] /\ cur' \in [Threads -> Tasks \cup {NoTask}]
      /\ after' \in [Threads -> {"cancelling", "hook", "finish"}]
      /\ fate' \in [Threads -> Terminal] /\ todo' \in [Threads -> SUBSET Tasks]
      /\ \A o \in Threads \ {th} :
              pc'[o] = pc[o] /\ cur'[o] = cur[o] /\ after'[o] = after[o]
      /\ pc[th] = "offer" /\ pc'[th] \in {"stuck", "bind"} /\ cur[th] \in Tasks
      /\ queue' = queue \cup {cur[th]} /\ accepted' = accepted \cup {cur[th]}
      /\ hooks' \in [Tasks -> SUBSET {"slot", "drain"}]
      /\ hooks'[cur[th]] \subseteq hooks[cur[th]] \cup {"slot"}
      /\ \A u \in Tasks \ {cur[th]} : hooks'[u] = hooks[u]
  BY DEF OfferTaken, At, Goto, Return, SettleAs, TypeOK, Threads, Places, Terminal,
     Working, Busy
<1>3. \A x : AtBackend(x)' <=> AtBackend(x) \/ x = cur[th]
  BY <1>1, <1>2 DEF AtBackend
<1>4. \A o \in Threads \ {th} : Admitted(o)' <=> Admitted(o)
  BY <1>2 DEF Admitted
<1>5. /\ state[cur[th]] \notin {"absent", "refused"} /\ ~AtBackend(cur[th])
      /\ \A w \in Workers : job[w] # cur[th]
      /\ \A o \in Threads \ {th} : o # drainer /\ pc[o] \in Unplaced => cur[o] # cur[th]
      /\ th # drainer => /\ cur[th] \notin Range(deferred)
                         /\ \A o \in Threads \ {th} : cur[o] # cur[th]
  BY <1>1, <1>2, DeferralAssumption DEF Unknown, Submitting, Draining, AtBackend,
     Unplaced
<1>6. TypeOK'
  BY <1>1, <1>2, <1>3, <1>4, <1>5 DEF TypeOK
<1>7. Working'
  BY <1>1, <1>2, <1>3, <1>4, <1>5 DEF Working, Busy
<1>8. Unknown'
  BY <1>1, <1>2, <1>3, <1>4, <1>5 DEF Unknown
<1>9. Submitting'
  BY <1>1, <1>2, <1>3, <1>4, <1>5 DEF Submitting, Unplaced, Working, Busy
<1>10. PlacedDirectly'
  BY <1>1, <1>2, <1>3, <1>4, <1>5 DEF PlacedDirectly, DrainWorks, DrainPlaced
<1>11. Draining'
  BY <1>1, <1>2, <1>3, <1>4, <1>5 DEF Draining, DrainWorks, DrainPlaced, Working, Busy
<1>12. Retained'
  BY <1>1, <1>2, <1>3, <1>4, <1>5 DEF Retained, DrainPlaced
<1>13. RunOnce'
  BY <1>1, <1>2, <1>3, <1>4, <1>5 DEF RunOnce
<1>. QED  BY <1>6, <1>7, <1>8, <1>9, <1>10, <1>11, <1>12, <1>13

(* A refused task is forgotten. *)
LEMMA RefuseKeeps ==
    ASSUME DrainInv, NEW c \in Clients, Refuse(c)
    PROVE  DrainInv'
<1>. USE DEF DrainInv
<1>1. UNCHANGED <<cancelled, submission, jobSettled, hooks, deferred, drainer,
                  runtimeClosed, queue, accepted, job>>
  BY DEF Refuse, handleVars, runtimeVars, backendVars, threadVars, Goto, Return,
     SettleAs
<1>2. /\ c \in Threads
      /\ pc' \in [Threads -> Places] /\ cur' \in [Threads -> Tasks \cup {NoTask}]
      /\ after' \in [Threads -> {"cancelling", "hook", "finish"}]
      /\ fate' \in [Threads -> Terminal] /\ todo' \in [Threads -> SUBSET Tasks]
      /\ \A o \in Threads \ {c} :
              pc'[o] = pc[o] /\ cur'[o] = cur[o] /\ after'[o] = after[o]
      /\ pc[c] = "refuse" /\ pc'[c] = "idle" /\ cur[c] \in Tasks /\ cur'[c] = NoTask
      /\ state'[cur[c]] = "refused" /\ \A u \in Tasks \ {cur[c]} : state'[u] = state[u]
      /\ state' \in [Tasks -> {"absent", "refused", "pending", "running"} \cup Terminal]
  BY DEF Refuse, At, Goto, Return, SettleAs, TypeOK, Threads, Places, Terminal,
     Working, Busy
<1>3. \A x : AtBackend(x)' <=> AtBackend(x)
  BY <1>1 DEF AtBackend
<1>4. /\ \A o \in Threads \ {c} : Admitted(o)' <=> Admitted(o)
      /\ ~Admitted(c)'
  BY <1>2 DEF Admitted
<1>5. /\ c # drainer /\ NoTask \notin Tasks
      /\ submission[cur[c]] = "none" /\ ~AtBackend(cur[c])
      /\ cur[c] \notin Range(deferred)
      /\ \A o \in Threads \ {c} : cur[o] # cur[c]
  BY <1>1, <1>2, DeferralAssumption DEF Draining, DrainWorks, DrainPlaced, Submitting,
     Unplaced
<1>6. TypeOK'
  BY <1>1, <1>2, <1>3, <1>4, <1>5 DEF TypeOK
<1>7. Working'
  BY <1>1, <1>2, <1>3, <1>4, <1>5 DEF Working, Busy
<1>8. Unknown'
  BY <1>1, <1>2, <1>3, <1>4, <1>5 DEF Unknown
<1>9. Submitting'
  BY <1>1, <1>2, <1>3, <1>4, <1>5 DEF Submitting, Unplaced, Working, Busy
<1>10. PlacedDirectly'
  BY <1>1, <1>2, <1>3, <1>4, <1>5 DEF PlacedDirectly, DrainWorks, DrainPlaced
<1>11. Draining'
  BY <1>1, <1>2, <1>3, <1>4, <1>5 DEF Draining, DrainWorks, DrainPlaced, Working, Busy
<1>12. Retained'
  BY <1>1, <1>2, <1>3, <1>4, <1>5 DEF Retained, DrainPlaced
<1>13. RunOnce'
  BY <1>1, <1>2, <1>3, <1>4, <1>5 DEF RunOnce
<1>. QED  BY <1>6, <1>7, <1>8, <1>9, <1>10, <1>11, <1>12, <1>13

(* A finalizer is retained, unless the runtime is closed. *)
LEMMA DeferKeeps ==
    ASSUME DrainInv, NEW c \in Clients, Defer(c)
    PROVE  DrainInv'
<1>. USE DEF DrainInv
<1>1. UNCHANGED <<state, cancelled, submission, jobSettled, hooks, drainer,
                  runtimeClosed, queue, accepted, job, cur, after>>
  BY DEF Defer, handleVars, runtimeVars, backendVars, threadVars, Goto, Return, SettleAs
<1>2. /\ c \in Threads
      /\ pc' \in [Threads -> Places] /\ cur' \in [Threads -> Tasks \cup {NoTask}]
      /\ after' \in [Threads -> {"cancelling", "hook", "finish"}]
      /\ fate' \in [Threads -> Terminal] /\ todo' \in [Threads -> SUBSET Tasks]
      /\ \A o \in Threads \ {c} :
              pc'[o] = pc[o] /\ cur'[o] = cur[o] /\ after'[o] = after[o]
      /\ pc[c] = "defer" /\ cur[c] \in Tasks /\ cur[c] \in Finalizers
      /\ \/ pc'[c] = "refuse" /\ deferred' = deferred
         \/ pc'[c] = "bindDeferred" /\ deferred' = Append(deferred, cur[c])
  BY DEF Defer, At, Goto, Return, SettleAs, TypeOK, Threads, Places, Terminal,
     Working, Busy
<1>3. \A x : AtBackend(x)' <=> AtBackend(x)
  BY <1>1 DEF AtBackend
<1>4. /\ \A o \in Threads \ {c} : Admitted(o)' <=> Admitted(o)
      /\ ~Admitted(c)'
  BY <1>2 DEF Admitted
<1>5. /\ c # drainer /\ ~AtBackend(cur[c]) /\ cur[c] \notin Range(deferred)
      /\ state[cur[c]] \notin {"absent", "refused"}
      /\ \A o \in Threads \ {c} : cur[o] # cur[c]
  BY <1>1, <1>2 DEF Draining, DrainWorks, DrainPlaced, Submitting, Unplaced, Unknown
<1>a. /\ deferred' \in Seq(Finalizers) /\ IsInjective(deferred')
      /\ Range(deferred') \subseteq Range(deferred) \cup {cur[c]}
      /\ pc'[c] # "bindDeferred" => deferred' = deferred
      /\ \A x \in Range(deferred) : x = Head(deferred) => x = Head(deferred')
  <2>1. deferred \in Seq(Finalizers) /\ IsInjective(deferred)
    BY DEF TypeOK, Retained
  <2>2. CASE deferred' = deferred
    BY <1>2, <2>1, <2>2
  <2>3. CASE pc'[c] = "bindDeferred" /\ deferred' = Append(deferred, cur[c])
    <3>1. PICK q \in Seq(Finalizers) : q = deferred
      BY <2>1
    <3>2. PICK e \in Finalizers : e = cur[c]
      BY <1>2
    <3>3. /\ Append(q, e) \in Seq(Finalizers) /\ IsInjective(Append(q, e))
          /\ Range(Append(q, e)) = Range(q) \cup {e}
      BY <1>5, <2>1, <3>1, <3>2, AppendToQueue
    <3>4. ASSUME NEW x \in Range(q)  PROVE Head(Append(q, e)) = Head(q)
      <4>1. q # <<>>
        BY <3>4, EmptyQueue
      <4>. QED  BY <4>1, HeadOfAppend
    <3>. QED  BY <2>3, <3>1, <3>2, <3>3, <3>4
  <2>. QED  BY <1>2, <2>2, <2>3
<1>6. TypeOK'
  BY <1>1, <1>2, <1>3, <1>4, <1>5, <1>a DEF TypeOK
<1>7. Working'
  BY <1>1, <1>2, <1>3, <1>4, <1>5, <1>a DEF Working, Busy
<1>8. Unknown'
  BY <1>1, <1>2, <1>3, <1>4, <1>5, <1>a DEF Unknown
<1>9. Submitting'
  BY <1>1, <1>2, <1>3, <1>4, <1>5, <1>a DEF Submitting, Unplaced, Working, Busy
<1>10. PlacedDirectly'
  BY <1>1, <1>2, <1>3, <1>4, <1>5, <1>a DEF PlacedDirectly, DrainWorks, DrainPlaced
<1>11. Draining'
  BY <1>1, <1>2, <1>3, <1>4, <1>5, <1>a DEF Draining, DrainWorks, DrainPlaced,
     Working, Busy
<1>12. Retained'
  BY <1>1, <1>2, <1>3, <1>4, <1>5, <1>a DEF Retained, DrainPlaced
<1>13. RunOnce'
  BY <1>1, <1>2, <1>3, <1>4, <1>5, <1>a DEF RunOnce
<1>. QED  BY <1>6, <1>7, <1>8, <1>9, <1>10, <1>11, <1>12, <1>13

(* A retained finalizer is bound to its handle. *)
LEMMA BindDeferredKeeps ==
    ASSUME DrainInv, NEW c \in Clients, BindDeferred(c)
    PROVE  DrainInv'
<1>. USE DEF DrainInv
<1>1. UNCHANGED <<state, cancelled, jobSettled, hooks, deferred, drainer,
                  runtimeClosed, queue, accepted, job>>
  BY DEF BindDeferred, handleVars, runtimeVars, backendVars, threadVars, Goto, Return,
     SettleAs
<1>2. /\ c \in Threads
      /\ pc' \in [Threads -> Places] /\ cur' \in [Threads -> Tasks \cup {NoTask}]
      /\ after' \in [Threads -> {"cancelling", "hook", "finish"}]
      /\ fate' \in [Threads -> Terminal] /\ todo' \in [Threads -> SUBSET Tasks]
      /\ \A o \in Threads \ {c} :
              pc'[o] = pc[o] /\ cur'[o] = cur[o] /\ after'[o] = after[o]
      /\ pc[c] = "bindDeferred" /\ cur[c] \in Tasks
      /\ submission' \in [Tasks -> {"none", "deferred", "backend"}]
      /\ \A u \in Tasks \ {cur[c]} : submission'[u] = submission[u]
      /\ \/ pc'[c] = "withdraw" /\ cur'[c] = cur[c] /\ after'[c] = "cancelling"
         \/ pc'[c] = "idle" /\ cur'[c] = NoTask
  BY DEF BindDeferred, At, Goto, Return, SettleAs, TypeOK, Threads, Places, Terminal,
     Working, Busy
<1>3. \A x : AtBackend(x)' <=> AtBackend(x)
  BY <1>1 DEF AtBackend
<1>4. /\ \A o \in Threads \ {c} : Admitted(o)' <=> Admitted(o)
      /\ ~Admitted(c)'
  BY <1>2 DEF Admitted
<1>5. /\ c # drainer /\ NoTask \notin Tasks
      /\ state[cur[c]] \notin {"absent", "refused"}
      /\ \A o \in Threads \ {c} : o # drainer /\ pc[o] \in Unplaced =>
            cur[o] # cur[c] /\ cur[o] \in Tasks
  BY <1>1, <1>2, DeferralAssumption DEF Draining, DrainWorks, DrainPlaced, Submitting,
     Unplaced, Unknown, Working, Busy
<1>6. TypeOK'
  BY <1>1, <1>2, <1>3, <1>4, <1>5 DEF TypeOK
<1>7. Working'
  BY <1>1, <1>2, <1>3, <1>4, <1>5 DEF Working, Busy
<1>8. Unknown'
  BY <1>1, <1>2, <1>3, <1>4, <1>5 DEF Unknown
<1>9. Submitting'
  BY <1>1, <1>2, <1>3, <1>4, <1>5 DEF Submitting, Unplaced, Working, Busy
<1>10. PlacedDirectly'
  BY <1>1, <1>2, <1>3, <1>4, <1>5 DEF PlacedDirectly, DrainWorks, DrainPlaced
<1>11. Draining'
  BY <1>1, <1>2, <1>3, <1>4, <1>5 DEF Draining, DrainWorks, DrainPlaced, Working, Busy
<1>12. Retained'
  BY <1>1, <1>2, <1>3, <1>4, <1>5 DEF Retained, DrainPlaced
<1>13. RunOnce'
  BY <1>1, <1>2, <1>3, <1>4, <1>5 DEF RunOnce
<1>. QED  BY <1>6, <1>7, <1>8, <1>9, <1>10, <1>11, <1>12, <1>13

(* An accepted job is bound to its handle. *)
LEMMA BindKeeps ==
    ASSUME DrainInv, NEW th \in Threads, Bind(th)
    PROVE  DrainInv'
<1>. USE DEF DrainInv
<1>1. UNCHANGED <<state, cancelled, jobSettled, hooks, deferred, drainer,
                  runtimeClosed, queue, accepted, job, cur>>
  BY DEF Bind, handleVars, runtimeVars, backendVars, threadVars, Goto, Return, SettleAs
<1>2. /\ th \in Threads
      /\ pc' \in [Threads -> Places] /\ cur' \in [Threads -> Tasks \cup {NoTask}]
      /\ after' \in [Threads -> {"cancelling", "hook", "finish"}]
      /\ fate' \in [Threads -> Terminal] /\ todo' \in [Threads -> SUBSET Tasks]
      /\ \A o \in Threads \ {th} :
              pc'[o] = pc[o] /\ cur'[o] = cur[o] /\ after'[o] = after[o]
      /\ pc[th] = "bind" /\ cur[th] \in Tasks /\ pc'[th] \in {"unqueue", "hook"}
      /\ after'[th] = "hook"
      /\ submission' \in [Tasks -> {"none", "deferred", "backend"}]
      /\ \A u \in Tasks \ {cur[th]} : submission'[u] = submission[u]
  BY DEF Bind, At, Goto, Return, SettleAs, TypeOK, Threads, Places, Terminal, Working,
     Busy
<1>3. \A x : AtBackend(x)' <=> AtBackend(x)
  BY <1>1 DEF AtBackend
<1>4. \A o \in Threads : Admitted(o)' <=> Admitted(o)
  BY <1>2 DEF Admitted
<1>5. /\ state[cur[th]] \notin {"absent", "refused"}
      /\ \A o \in Threads \ {th} : o # drainer /\ pc[o] \in Unplaced =>
            cur[o] # cur[th] /\ cur[o] \in Tasks
  BY <1>1, <1>2, DeferralAssumption DEF Submitting, Unplaced, Unknown, Working, Busy
<1>6. TypeOK'
  BY <1>1, <1>2, <1>3, <1>4, <1>5 DEF TypeOK
<1>7. Working'
  BY <1>1, <1>2, <1>3, <1>4, <1>5 DEF Working, Busy
<1>8. Unknown'
  BY <1>1, <1>2, <1>3, <1>4, <1>5 DEF Unknown
<1>9. Submitting'
  BY <1>1, <1>2, <1>3, <1>4, <1>5 DEF Submitting, Unplaced, Working, Busy
<1>10. PlacedDirectly'
  BY <1>1, <1>2, <1>3, <1>4, <1>5 DEF PlacedDirectly, DrainWorks, DrainPlaced
<1>11. Draining'
  BY <1>1, <1>2, <1>3, <1>4, <1>5 DEF Draining, DrainWorks, DrainPlaced, Working, Busy
<1>12. Retained'
  BY <1>1, <1>2, <1>3, <1>4, <1>5 DEF Retained, DrainPlaced
<1>13. RunOnce'
  BY <1>1, <1>2, <1>3, <1>4, <1>5 DEF RunOnce
<1>. QED  BY <1>6, <1>7, <1>8, <1>9, <1>10, <1>11, <1>12, <1>13

(* The last line of an admission. *)
LEMMA HookKeeps ==
    ASSUME DrainInv, NEW th \in Threads, Hook(th)
    PROVE  DrainInv'
<1>. USE DEF DrainInv
<1>1. UNCHANGED <<state, cancelled, submission, jobSettled, deferred, drainer,
                  runtimeClosed, queue, accepted, job>>
  BY DEF Hook, handleVars, runtimeVars, backendVars, threadVars, Goto, Return, SettleAs
<1>2. /\ th \in Threads
      /\ pc' \in [Threads -> Places] /\ cur' \in [Threads -> Tasks \cup {NoTask}]
      /\ after' \in [Threads -> {"cancelling", "hook", "finish"}]
      /\ fate' \in [Threads -> Terminal] /\ todo' \in [Threads -> SUBSET Tasks]
      /\ \A o \in Threads \ {th} :
              pc'[o] = pc[o] /\ cur'[o] = cur[o] /\ after'[o] = after[o]
      /\ pc[th] = "hook" /\ cur[th] \in Tasks
      /\ hooks' \in [Tasks -> SUBSET {"slot", "drain"}]
      /\ \A u \in Tasks \ {cur[th]} : hooks'[u] = hooks[u]
      /\ \/ drainer = th /\ pc'[th] = "pop" /\ cur'[th] = cur[th]
         \/ drainer # th /\ pc'[th] = "drain" /\ cur'[th] = cur[th]
         \/ drainer # th /\ pc'[th] = "idle" /\ cur'[th] = NoTask
  BY DEF Hook, At, Goto, Return, SettleAs, TypeOK, Threads, Places, Terminal, Working,
     Busy
<1>3. \A x : AtBackend(x)' <=> AtBackend(x)
  BY <1>1 DEF AtBackend
<1>4. /\ \A o \in Threads \ {th} : Admitted(o)' <=> Admitted(o)
      /\ ~Admitted(th)'
  BY <1>2 DEF Admitted
<1>5. /\ NoTask \notin Tasks
      /\ \A d \in Threads : d = drainer /\ pc[d] \in DrainWorks => cur[d] \in Tasks
      /\ th # drainer => \A d \in Threads :
            d = drainer /\ pc[d] \in DrainWorks => cur[d] # cur[th]
  BY <1>1, <1>2, DeferralAssumption DEF PlacedDirectly, Admitted, Working, Busy,
     DrainWorks, DrainPlaced
<1>6. TypeOK'
  BY <1>1, <1>2, <1>3, <1>4, <1>5 DEF TypeOK
<1>7. Working'
  BY <1>1, <1>2, <1>3, <1>4, <1>5 DEF Working, Busy
<1>8. Unknown'
  BY <1>1, <1>2, <1>3, <1>4, <1>5 DEF Unknown
<1>9. Submitting'
  BY <1>1, <1>2, <1>3, <1>4, <1>5 DEF Submitting, Unplaced, Working, Busy
<1>10. PlacedDirectly'
  BY <1>1, <1>2, <1>3, <1>4, <1>5 DEF PlacedDirectly, DrainWorks, DrainPlaced
<1>11. Draining'
  BY <1>1, <1>2, <1>3, <1>4, <1>5 DEF Draining, DrainWorks, DrainPlaced, Working, Busy
<1>12. Retained'
  BY <1>1, <1>2, <1>3, <1>4, <1>5 DEF Retained, DrainPlaced
<1>13. RunOnce'
  BY <1>1, <1>2, <1>3, <1>4, <1>5 DEF RunOnce
<1>. QED  BY <1>6, <1>7, <1>8, <1>9, <1>10, <1>11, <1>12, <1>13

(* One drain at a time starts. *)
LEMMA DrainKeeps ==
    ASSUME DrainInv, NEW th \in Threads, Drain(th)
    PROVE  DrainInv'
<1>. USE DEF DrainInv
<1>1. UNCHANGED <<state, cancelled, submission, jobSettled, hooks, deferred,
                  runtimeClosed, queue, accepted, job>>
  BY DEF Drain, handleVars, runtimeVars, backendVars, threadVars, Goto, Return, SettleAs
<1>2. /\ th \in Threads
      /\ pc' \in [Threads -> Places] /\ cur' \in [Threads -> Tasks \cup {NoTask}]
      /\ after' \in [Threads -> {"cancelling", "hook", "finish"}]
      /\ fate' \in [Threads -> Terminal] /\ todo' \in [Threads -> SUBSET Tasks]
      /\ \A o \in Threads \ {th} :
              pc'[o] = pc[o] /\ cur'[o] = cur[o] /\ after'[o] = after[o]
      /\ pc[th] = "drain"
      /\ \/ drainer' = drainer /\ pc'[th] \in {"finish", "cancelling"} /\ cur'[th] = NoTask
         \/ drainer = NoThread /\ drainer' = th /\ pc'[th] = "peek" /\ cur'[th] = cur[th]
      /\ drainer' \in Threads \cup {NoThread}
  <2>1. th \in Threads /\ pc[th] = "drain" /\ drainer \in Threads \cup {NoThread}
    BY DEF Drain, At, TypeOK
  <2>2. CASE runtimeClosed \/ drainer # NoThread
    <3>1. Outer(th) \in {"finish", "cancelling"}
      BY DEF Outer
    <3>2. Return(th, Outer(th)) /\ drainer' = drainer
      BY <2>2 DEF Drain
    <3>. QED  BY <2>1, <3>1, <3>2 DEF Return, TypeOK, Places, Terminal
  <2>3. CASE ~(runtimeClosed \/ drainer # NoThread)
    BY <2>1, <2>3 DEF Drain, Goto, TypeOK, Threads, Places, Terminal
  <2>. QED  BY <2>2, <2>3
<1>3. \A x : AtBackend(x)' <=> AtBackend(x)
  BY <1>1 DEF AtBackend
<1>4. /\ \A o \in Threads \ {th} : Admitted(o)' <=> Admitted(o)
      /\ ~Admitted(th)'
  BY <1>2 DEF Admitted
<1>5. /\ NoTask \notin Tasks /\ NoThread \notin Threads /\ th # drainer
  BY <1>1, <1>2, DeferralAssumption DEF Draining, DrainWorks, DrainPlaced, Threads
<1>6. TypeOK'
  BY <1>1, <1>2, <1>3, <1>4, <1>5 DEF TypeOK
<1>7. Working'
  BY <1>1, <1>2, <1>3, <1>4, <1>5 DEF Working, Busy
<1>8. Unknown'
  BY <1>1, <1>2, <1>3, <1>4, <1>5 DEF Unknown
<1>9. Submitting'
  BY <1>1, <1>2, <1>3, <1>4, <1>5 DEF Submitting, Unplaced, Working, Busy
<1>10. PlacedDirectly'
  BY <1>1, <1>2, <1>3, <1>4, <1>5 DEF PlacedDirectly, DrainWorks, DrainPlaced
<1>11. Draining'
  BY <1>1, <1>2, <1>3, <1>4, <1>5 DEF Draining, DrainWorks, DrainPlaced, Working, Busy
<1>12. Retained'
  BY <1>1, <1>2, <1>3, <1>4, <1>5 DEF Retained, DrainPlaced
<1>13. RunOnce'
  BY <1>1, <1>2, <1>3, <1>4, <1>5 DEF RunOnce
<1>. QED  BY <1>6, <1>7, <1>8, <1>9, <1>10, <1>11, <1>12, <1>13

(* The drain looks at the first retained finalizer. *)
LEMMA PeekKeeps ==
    ASSUME DrainInv, NEW th \in Threads, Peek(th)
    PROVE  DrainInv'
<1>. USE DEF DrainInv
<1>1. UNCHANGED <<state, cancelled, submission, jobSettled, hooks, deferred,
                  drainer, runtimeClosed, queue, accepted, job, after>>
  BY DEF Peek, handleVars, runtimeVars, backendVars, threadVars, Goto, Return, SettleAs
<1>2. /\ th \in Threads
      /\ pc' \in [Threads -> Places] /\ cur' \in [Threads -> Tasks \cup {NoTask}]
      /\ after' \in [Threads -> {"cancelling", "hook", "finish"}]
      /\ fate' \in [Threads -> Terminal] /\ todo' \in [Threads -> SUBSET Tasks]
      /\ \A o \in Threads \ {th} :
              pc'[o] = pc[o] /\ cur'[o] = cur[o] /\ after'[o] = after[o]
      /\ pc[th] = "peek" /\ drainer = th
      /\ \/ pc'[th] = "stop" /\ cur'[th] = cur[th]
         \/ /\ pc'[th] = "rebind" /\ cur'[th] \in Tasks
            /\ cur'[th] = Head(deferred) /\ cur'[th] \in Range(deferred)
      /\ Range(deferred) \subseteq Tasks
  <2>1. deferred # <<>> => Head(deferred) \in Range(deferred)
    <3>1. PICK q \in Seq(Finalizers) : q = deferred
      BY DEF TypeOK
    <3>2. q # <<>> => Head(q) \in Range(q) /\ Range(q) \subseteq Finalizers
      BY <3>1, TailOfQueue DEF Retained
    <3>. QED  BY <3>1, <3>2
  <2>2. Range(deferred) \subseteq Tasks
    BY RetainedAreTasks
  <2>. QED  BY <2>1, <2>2 DEF Peek, At, Goto, TypeOK, Threads, Places, Working
<1>3. \A x : AtBackend(x)' <=> AtBackend(x)
  BY <1>1 DEF AtBackend
<1>4. /\ \A o \in Threads \ {th} : Admitted(o)' <=> Admitted(o)
      /\ ~Admitted(th)'
  BY <1>2 DEF Admitted
<1>5. \A t \in Range(deferred) :
         ~AtBackend(t) /\ t \in Tasks /\ state[t] \notin {"absent", "refused"}
  BY <1>1, <1>2, DeferralAssumption DEF Retained, DrainPlaced, Unknown
<1>6. TypeOK'
  BY <1>1, <1>2, <1>3, <1>4, <1>5 DEF TypeOK
<1>7. Working'
  BY <1>1, <1>2, <1>3, <1>4, <1>5 DEF Working, Busy
<1>8. Unknown'
  BY <1>1, <1>2, <1>3, <1>4, <1>5 DEF Unknown
<1>9. Submitting'
  BY <1>1, <1>2, <1>3, <1>4, <1>5 DEF Submitting, Unplaced, Working, Busy
<1>10. PlacedDirectly'
  BY <1>1, <1>2, <1>3, <1>4, <1>5 DEF PlacedDirectly, DrainWorks, DrainPlaced
<1>11. Draining'
  BY <1>1, <1>2, <1>3, <1>4, <1>5 DEF Draining, DrainWorks, DrainPlaced, Working, Busy
<1>12. Retained'
  BY <1>1, <1>2, <1>3, <1>4, <1>5 DEF Retained, DrainPlaced
<1>13. RunOnce'
  BY <1>1, <1>2, <1>3, <1>4, <1>5 DEF RunOnce
<1>. QED  BY <1>6, <1>7, <1>8, <1>9, <1>10, <1>11, <1>12, <1>13

(* The drain drops the finalizer it has placed. *)
LEMMA PopKeeps ==
    ASSUME DrainInv, NEW th \in Threads, Pop(th)
    PROVE  DrainInv'
<1>. USE DEF DrainInv
<1>1. UNCHANGED <<state, cancelled, submission, jobSettled, hooks, drainer,
                  runtimeClosed, queue, accepted, job, cur, after>>
  BY DEF Pop, handleVars, runtimeVars, backendVars, threadVars, Goto, Return, SettleAs
<1>2. /\ th \in Threads
      /\ pc' \in [Threads -> Places] /\ cur' \in [Threads -> Tasks \cup {NoTask}]
      /\ after' \in [Threads -> {"cancelling", "hook", "finish"}]
      /\ fate' \in [Threads -> Terminal] /\ todo' \in [Threads -> SUBSET Tasks]
      /\ \A o \in Threads \ {th} :
              pc'[o] = pc[o] /\ cur'[o] = cur[o] /\ after'[o] = after[o]
      /\ pc[th] = "pop" /\ pc'[th] = "peek" /\ drainer = th
      /\ deferred' = RemoveFirst(deferred, cur[th])
  BY DEF Pop, At, Goto, Return, SettleAs, TypeOK, Threads, Places, Terminal, Working
<1>3. \A x : AtBackend(x)' <=> AtBackend(x)
  BY <1>1 DEF AtBackend
<1>4. /\ \A o \in Threads \ {th} : Admitted(o)' <=> Admitted(o)
      /\ ~Admitted(th)'
  BY <1>2 DEF Admitted
<1>5. /\ deferred' \in Seq(Finalizers) /\ IsInjective(deferred')
      /\ Range(deferred') = Range(deferred) \ {cur[th]}
  <2>1. PICK q \in Seq(Finalizers) : q = deferred
    BY DEF TypeOK
  <2>2. PICK e : e = cur[th]
    OBVIOUS
  <2>3. IsInjective(q)
    BY <2>1 DEF Retained
  <2>4. /\ RemoveFirst(q, e) \in Seq(Finalizers) /\ IsInjective(RemoveFirst(q, e))
        /\ Range(RemoveFirst(q, e)) = Range(q) \ {e}
    BY <2>3, DropFromQueue
  <2>. QED  BY <1>2, <2>1, <2>2, <2>4
<1>6. TypeOK'
  BY <1>1, <1>2, <1>3, <1>4, <1>5 DEF TypeOK
<1>7. Working'
  BY <1>1, <1>2, <1>3, <1>4, <1>5 DEF Working, Busy
<1>8. Unknown'
  BY <1>1, <1>2, <1>3, <1>4, <1>5 DEF Unknown
<1>9. Submitting'
  BY <1>1, <1>2, <1>3, <1>4, <1>5 DEF Submitting, Unplaced, Working, Busy
<1>10. PlacedDirectly'
  BY <1>1, <1>2, <1>3, <1>4, <1>5 DEF PlacedDirectly, DrainWorks, DrainPlaced
<1>11. Draining'
  BY <1>1, <1>2, <1>3, <1>4, <1>5 DEF Draining, DrainWorks, DrainPlaced, Working, Busy
<1>12. Retained'
  BY <1>1, <1>2, <1>3, <1>4, <1>5 DEF Retained, DrainPlaced
<1>13. RunOnce'
  BY <1>1, <1>2, <1>3, <1>4, <1>5 DEF RunOnce
<1>. QED  BY <1>6, <1>7, <1>8, <1>9, <1>10, <1>11, <1>12, <1>13

(* The drain ends. *)
LEMMA StopKeeps ==
    ASSUME DrainInv, NEW th \in Threads, Stop(th)
    PROVE  DrainInv'
<1>. USE DEF DrainInv
<1>1. UNCHANGED <<state, cancelled, submission, jobSettled, hooks, deferred,
                  runtimeClosed, queue, accepted, job>>
  BY DEF Stop, handleVars, runtimeVars, backendVars, threadVars, Goto, Return, SettleAs
<1>2. /\ th \in Threads
      /\ pc' \in [Threads -> Places] /\ cur' \in [Threads -> Tasks \cup {NoTask}]
      /\ after' \in [Threads -> {"cancelling", "hook", "finish"}]
      /\ fate' \in [Threads -> Terminal] /\ todo' \in [Threads -> SUBSET Tasks]
      /\ \A o \in Threads \ {th} :
              pc'[o] = pc[o] /\ cur'[o] = cur[o] /\ after'[o] = after[o]
      /\ pc[th] = "stop" /\ drainer = th /\ drainer' = NoThread
      /\ pc'[th] \in {"finish", "cancelling"} /\ cur'[th] = NoTask
  BY DEF Stop, At, Goto, Return, SettleAs, TypeOK, Threads, Places, Terminal, Outer,
     Working
<1>3. \A x : AtBackend(x)' <=> AtBackend(x)
  BY <1>1 DEF AtBackend
<1>4. /\ \A o \in Threads \ {th} : Admitted(o)' <=> Admitted(o)
      /\ ~Admitted(th)'
  BY <1>2 DEF Admitted
<1>5. /\ NoTask \notin Tasks /\ NoThread \notin Threads
      /\ \A t \in Range(deferred) : ~AtBackend(t)
  BY <1>1, <1>2, DeferralAssumption DEF Threads, Retained, DrainPlaced
<1>6. TypeOK'
  BY <1>1, <1>2, <1>3, <1>4, <1>5 DEF TypeOK
<1>7. Working'
  BY <1>1, <1>2, <1>3, <1>4, <1>5 DEF Working, Busy
<1>8. Unknown'
  BY <1>1, <1>2, <1>3, <1>4, <1>5 DEF Unknown
<1>9. Submitting'
  BY <1>1, <1>2, <1>3, <1>4, <1>5 DEF Submitting, Unplaced, Working, Busy
<1>10. PlacedDirectly'
  BY <1>1, <1>2, <1>3, <1>4, <1>5 DEF PlacedDirectly, DrainWorks, DrainPlaced
<1>11. Draining'
  BY <1>1, <1>2, <1>3, <1>4, <1>5 DEF Draining, DrainWorks, DrainPlaced, Working, Busy
<1>12. Retained'
  BY <1>1, <1>2, <1>3, <1>4, <1>5 DEF Retained, DrainPlaced
<1>13. RunOnce'
  BY <1>1, <1>2, <1>3, <1>4, <1>5 DEF RunOnce
<1>. QED  BY <1>6, <1>7, <1>8, <1>9, <1>10, <1>11, <1>12, <1>13

(* A client cancels a handle. *)
LEMMA CancelKeeps ==
    ASSUME DrainInv, NEW c \in Clients, NEW t \in Tasks, Cancel(c, t)
    PROVE  DrainInv'
<1>. USE DEF DrainInv
<1>1. UNCHANGED <<state, cancelled, submission, jobSettled, hooks, deferred,
                  drainer, runtimeClosed, queue, accepted, job, cur, after>>
  BY DEF Cancel, handleVars, runtimeVars, backendVars, threadVars, Goto, Return,
     SettleAs
<1>2. /\ c \in Threads
      /\ pc' \in [Threads -> Places] /\ cur' \in [Threads -> Tasks \cup {NoTask}]
      /\ after' \in [Threads -> {"cancelling", "hook", "finish"}]
      /\ fate' \in [Threads -> Terminal] /\ todo' \in [Threads -> SUBSET Tasks]
      /\ \A o \in Threads \ {c} :
              pc'[o] = pc[o] /\ cur'[o] = cur[o] /\ after'[o] = after[o]
      /\ pc[c] = "idle" /\ pc'[c] = "cancelling"
  BY DEF Cancel, At, Goto, Return, SettleAs, TypeOK, Threads, Places, Terminal
<1>3. \A x : AtBackend(x)' <=> AtBackend(x)
  BY <1>1 DEF AtBackend
<1>4. /\ \A o \in Threads \ {c} : Admitted(o)' <=> Admitted(o)
      /\ ~Admitted(c)'
  BY <1>2 DEF Admitted
<1>5. c # drainer
  BY <1>1, <1>2, DeferralAssumption DEF Draining, DrainWorks, DrainPlaced
<1>6. TypeOK'
  BY <1>1, <1>2, <1>3, <1>4, <1>5 DEF TypeOK
<1>7. Working'
  BY <1>1, <1>2, <1>3, <1>4, <1>5 DEF Working, Busy
<1>8. Unknown'
  BY <1>1, <1>2, <1>3, <1>4, <1>5 DEF Unknown
<1>9. Submitting'
  BY <1>1, <1>2, <1>3, <1>4, <1>5 DEF Submitting, Unplaced, Working, Busy
<1>10. PlacedDirectly'
  BY <1>1, <1>2, <1>3, <1>4, <1>5 DEF PlacedDirectly, DrainWorks, DrainPlaced
<1>11. Draining'
  BY <1>1, <1>2, <1>3, <1>4, <1>5 DEF Draining, DrainWorks, DrainPlaced, Working, Busy
<1>12. Retained'
  BY <1>1, <1>2, <1>3, <1>4, <1>5 DEF Retained, DrainPlaced
<1>13. RunOnce'
  BY <1>1, <1>2, <1>3, <1>4, <1>5 DEF RunOnce
<1>. QED  BY <1>6, <1>7, <1>8, <1>9, <1>10, <1>11, <1>12, <1>13

(* A client shuts the runtime down. *)
LEMMA ShutdownKeeps ==
    ASSUME DrainInv, NEW c \in Clients, Shutdown(c)
    PROVE  DrainInv'
<1>. USE DEF DrainInv
<1>1. UNCHANGED <<state, cancelled, submission, jobSettled, hooks, deferred,
                  drainer, queue, accepted, job, cur, after>>
  BY DEF Shutdown, handleVars, runtimeVars, backendVars, threadVars, Goto, Return,
     SettleAs
<1>2. /\ c \in Threads
      /\ pc' \in [Threads -> Places] /\ cur' \in [Threads -> Tasks \cup {NoTask}]
      /\ after' \in [Threads -> {"cancelling", "hook", "finish"}]
      /\ fate' \in [Threads -> Terminal] /\ todo' \in [Threads -> SUBSET Tasks]
      /\ \A o \in Threads \ {c} :
              pc'[o] = pc[o] /\ cur'[o] = cur[o] /\ after'[o] = after[o]
      /\ pc[c] = "idle" /\ pc'[c] = "cancelling" /\ runtimeClosed' \in BOOLEAN
  BY DEF Shutdown, At, Goto, Return, SettleAs, TypeOK, Threads, Places, Terminal
<1>3. \A x : AtBackend(x)' <=> AtBackend(x)
  BY <1>1 DEF AtBackend
<1>4. /\ \A o \in Threads \ {c} : Admitted(o)' <=> Admitted(o)
      /\ ~Admitted(c)'
  BY <1>2 DEF Admitted
<1>5. c # drainer
  BY <1>1, <1>2, DeferralAssumption DEF Draining, DrainWorks, DrainPlaced
<1>6. TypeOK'
  BY <1>1, <1>2, <1>3, <1>4, <1>5 DEF TypeOK
<1>7. Working'
  BY <1>1, <1>2, <1>3, <1>4, <1>5 DEF Working, Busy
<1>8. Unknown'
  BY <1>1, <1>2, <1>3, <1>4, <1>5 DEF Unknown
<1>9. Submitting'
  BY <1>1, <1>2, <1>3, <1>4, <1>5 DEF Submitting, Unplaced, Working, Busy
<1>10. PlacedDirectly'
  BY <1>1, <1>2, <1>3, <1>4, <1>5 DEF PlacedDirectly, DrainWorks, DrainPlaced
<1>11. Draining'
  BY <1>1, <1>2, <1>3, <1>4, <1>5 DEF Draining, DrainWorks, DrainPlaced, Working, Busy
<1>12. Retained'
  BY <1>1, <1>2, <1>3, <1>4, <1>5 DEF Retained, DrainPlaced
<1>13. RunOnce'
  BY <1>1, <1>2, <1>3, <1>4, <1>5 DEF RunOnce
<1>. QED  BY <1>6, <1>7, <1>8, <1>9, <1>10, <1>11, <1>12, <1>13

(* One handle is cancelled. *)
LEMMA CancelOneKeeps ==
    ASSUME DrainInv, NEW c \in Clients, NEW t \in Tasks, CancelOne(c, t)
    PROVE  DrainInv'
<1>. USE DEF DrainInv
<1>1. UNCHANGED <<state, submission, jobSettled, hooks, deferred, drainer,
                  runtimeClosed, queue, accepted, job>>
  BY DEF CancelOne, handleVars, runtimeVars, backendVars, threadVars, Goto, Return,
     SettleAs
<1>2. /\ c \in Threads
      /\ pc' \in [Threads -> Places] /\ cur' \in [Threads -> Tasks \cup {NoTask}]
      /\ after' \in [Threads -> {"cancelling", "hook", "finish"}]
      /\ fate' \in [Threads -> Terminal] /\ todo' \in [Threads -> SUBSET Tasks]
      /\ \A o \in Threads \ {c} :
              pc'[o] = pc[o] /\ cur'[o] = cur[o] /\ after'[o] = after[o]
      /\ pc[c] = "cancelling" /\ cancelled' \subseteq Tasks
      /\ \/ pc'[c] = pc[c] /\ cur'[c] = cur[c]
         \/ /\ pc'[c] \in {"withdraw", "unqueue"} /\ submission[t] # "none"
            /\ cur'[c] = t /\ after'[c] = "cancelling"
  <2>1. c \in Threads /\ pc[c] = "cancelling" /\ todo' \in [Threads -> SUBSET Tasks]
    BY DEF CancelOne, At, TypeOK, Threads
  <2>2. CASE state[t] \in Terminal
    BY <2>1, <2>2 DEF CancelOne, TypeOK
  <2>3. CASE state[t] \notin Terminal /\ submission[t] = "none"
    BY <2>1, <2>3 DEF CancelOne, TypeOK
  <2>4. CASE state[t] \notin Terminal /\ submission[t] # "none"
    BY <2>1, <2>4 DEF CancelOne, TypeOK, Places, Terminal
  <2>. QED  BY <2>2, <2>3, <2>4
<1>3. \A x : AtBackend(x)' <=> AtBackend(x)
  BY <1>1 DEF AtBackend
<1>4. /\ \A o \in Threads \ {c} : Admitted(o)' <=> Admitted(o)
      /\ ~Admitted(c)'
  BY <1>2 DEF Admitted
<1>5. /\ c # drainer
      /\ submission[t] # "none" => /\ state[t] \notin {"absent", "refused"}
                                   /\ \A o \in Threads :
                                         o # drainer /\ pc[o] \in Unplaced => cur[o] # t
  BY <1>1, <1>2, DeferralAssumption DEF Draining, DrainWorks, DrainPlaced, Unknown,
     Submitting, Unplaced
<1>6. TypeOK'
  BY <1>1, <1>2, <1>3, <1>4, <1>5 DEF TypeOK
<1>7. Working'
  BY <1>1, <1>2, <1>3, <1>4, <1>5 DEF Working, Busy
<1>8. Unknown'
  BY <1>1, <1>2, <1>3, <1>4, <1>5 DEF Unknown
<1>9. Submitting'
  BY <1>1, <1>2, <1>3, <1>4, <1>5 DEF Submitting, Unplaced, Working, Busy
<1>10. PlacedDirectly'
  BY <1>1, <1>2, <1>3, <1>4, <1>5 DEF PlacedDirectly, DrainWorks, DrainPlaced
<1>11. Draining'
  BY <1>1, <1>2, <1>3, <1>4, <1>5 DEF Draining, DrainWorks, DrainPlaced, Working, Busy
<1>12. Retained'
  BY <1>1, <1>2, <1>3, <1>4, <1>5 DEF Retained, DrainPlaced
<1>13. RunOnce'
  BY <1>1, <1>2, <1>3, <1>4, <1>5 DEF RunOnce
<1>. QED  BY <1>6, <1>7, <1>8, <1>9, <1>10, <1>11, <1>12, <1>13

(* A cancellation is complete. *)
LEMMA CancelDoneKeeps ==
    ASSUME DrainInv, NEW c \in Clients, CancelDone(c)
    PROVE  DrainInv'
<1>. USE DEF DrainInv
<1>1. UNCHANGED <<state, cancelled, submission, jobSettled, hooks, deferred,
                  drainer, runtimeClosed, queue, accepted, job>>
  BY DEF CancelDone, handleVars, runtimeVars, backendVars, threadVars, Goto, Return,
     SettleAs
<1>2. /\ c \in Threads
      /\ pc' \in [Threads -> Places] /\ cur' \in [Threads -> Tasks \cup {NoTask}]
      /\ after' \in [Threads -> {"cancelling", "hook", "finish"}]
      /\ fate' \in [Threads -> Terminal] /\ todo' \in [Threads -> SUBSET Tasks]
      /\ \A o \in Threads \ {c} :
              pc'[o] = pc[o] /\ cur'[o] = cur[o] /\ after'[o] = after[o]
      /\ pc[c] = "cancelling" /\ pc'[c] = "idle" /\ cur'[c] = NoTask
  BY DEF CancelDone, At, Goto, Return, SettleAs, TypeOK, Threads, Places, Terminal
<1>3. \A x : AtBackend(x)' <=> AtBackend(x)
  BY <1>1 DEF AtBackend
<1>4. /\ \A o \in Threads \ {c} : Admitted(o)' <=> Admitted(o)
      /\ ~Admitted(c)'
  BY <1>2 DEF Admitted
<1>5. c # drainer /\ NoTask \notin Tasks
  BY <1>1, <1>2, DeferralAssumption DEF Draining, DrainWorks, DrainPlaced
<1>6. TypeOK'
  BY <1>1, <1>2, <1>3, <1>4, <1>5 DEF TypeOK
<1>7. Working'
  BY <1>1, <1>2, <1>3, <1>4, <1>5 DEF Working, Busy
<1>8. Unknown'
  BY <1>1, <1>2, <1>3, <1>4, <1>5 DEF Unknown
<1>9. Submitting'
  BY <1>1, <1>2, <1>3, <1>4, <1>5 DEF Submitting, Unplaced, Working, Busy
<1>10. PlacedDirectly'
  BY <1>1, <1>2, <1>3, <1>4, <1>5 DEF PlacedDirectly, DrainWorks, DrainPlaced
<1>11. Draining'
  BY <1>1, <1>2, <1>3, <1>4, <1>5 DEF Draining, DrainWorks, DrainPlaced, Working, Busy
<1>12. Retained'
  BY <1>1, <1>2, <1>3, <1>4, <1>5 DEF Retained, DrainPlaced
<1>13. RunOnce'
  BY <1>1, <1>2, <1>3, <1>4, <1>5 DEF RunOnce
<1>. QED  BY <1>6, <1>7, <1>8, <1>9, <1>10, <1>11, <1>12, <1>13

(* A retained finalizer is withdrawn. *)
LEMMA WithdrawKeeps ==
    ASSUME DrainInv, NEW th \in Threads, Withdraw(th)
    PROVE  DrainInv'
<1>. USE DEF DrainInv
<1>1. UNCHANGED <<state, submission, jobSettled, hooks, drainer, runtimeClosed,
                  queue, accepted, job>>
  BY DEF Withdraw, handleVars, runtimeVars, backendVars, threadVars, Goto, Return,
     SettleAs
<1>2. /\ th \in Threads
      /\ pc' \in [Threads -> Places] /\ cur' \in [Threads -> Tasks \cup {NoTask}]
      /\ after' \in [Threads -> {"cancelling", "hook", "finish"}]
      /\ fate' \in [Threads -> Terminal] /\ todo' \in [Threads -> SUBSET Tasks]
      /\ \A o \in Threads \ {th} :
              pc'[o] = pc[o] /\ cur'[o] = cur[o] /\ after'[o] = after[o]
      /\ pc[th] = "withdraw" /\ cur[th] \in Tasks /\ cancelled' \subseteq Tasks
      /\ deferred' \in {deferred, RemoveFirst(deferred, cur[th])}
      /\ \/ pc'[th] = "settle" /\ cur'[th] = cur[th] /\ after'[th] = "cancelling"
         \/ pc'[th] = "cancelling" /\ cur'[th] = NoTask
  <2>1. cur[th] \in Tasks /\ after[th] = "cancelling"
    BY DEF Withdraw, At, Working, Busy
  <2>. QED  BY <2>1 DEF Withdraw, At, Return, SettleAs, TypeOK, Threads, Places,
     Terminal
<1>3. \A x : AtBackend(x)' <=> AtBackend(x)
  BY <1>1 DEF AtBackend
<1>4. /\ \A o \in Threads \ {th} : Admitted(o)' <=> Admitted(o)
      /\ ~Admitted(th)'
  BY <1>2 DEF Admitted
<1>5. th # drainer /\ NoTask \notin Tasks
  BY <1>2, DeferralAssumption DEF Draining, DrainWorks, DrainPlaced
<1>a. /\ deferred' \in Seq(Finalizers) /\ IsInjective(deferred')
      /\ Range(deferred') \subseteq Range(deferred)
      /\ \A x \in Range(deferred') : x = Head(deferred) => x = Head(deferred')
  <2>1. PICK q \in Seq(Finalizers) : q = deferred
    BY DEF TypeOK
  <2>2. PICK e : e = cur[th]
    OBVIOUS
  <2>3. IsInjective(q)
    BY <2>1 DEF Retained
  <2>4. /\ RemoveFirst(q, e) \in Seq(Finalizers) /\ IsInjective(RemoveFirst(q, e))
        /\ Range(RemoveFirst(q, e)) = Range(q) \ {e}
        /\ Head(q) \in Range(q) \ {e} => Head(RemoveFirst(q, e)) = Head(q)
    BY <2>3, DropFromQueue
  <2>5. deferred' = q \/ deferred' = RemoveFirst(q, e)
    BY <1>2, <2>1, <2>2
  <2>. QED  BY <2>1, <2>3, <2>4, <2>5
<1>6. TypeOK'
  BY <1>1, <1>2, <1>3, <1>4, <1>5, <1>a DEF TypeOK
<1>7. Working'
  BY <1>1, <1>2, <1>3, <1>4, <1>5, <1>a DEF Working, Busy
<1>8. Unknown'
  BY <1>1, <1>2, <1>3, <1>4, <1>5, <1>a DEF Unknown
<1>9. Submitting'
  BY <1>1, <1>2, <1>3, <1>4, <1>5, <1>a DEF Submitting, Unplaced, Working, Busy
<1>10. PlacedDirectly'
  BY <1>1, <1>2, <1>3, <1>4, <1>5, <1>a DEF PlacedDirectly, DrainWorks, DrainPlaced
<1>11. Draining'
  BY <1>1, <1>2, <1>3, <1>4, <1>5, <1>a DEF Draining, DrainWorks, DrainPlaced,
     Working, Busy
<1>12. Retained'
  BY <1>1, <1>2, <1>3, <1>4, <1>5, <1>a DEF Retained, DrainPlaced
<1>13. RunOnce'
  BY <1>1, <1>2, <1>3, <1>4, <1>5, <1>a DEF RunOnce
<1>. QED  BY <1>6, <1>7, <1>8, <1>9, <1>10, <1>11, <1>12, <1>13

(* A queued job is taken back. *)
LEMMA UnqueueKeeps ==
    ASSUME DrainInv, NEW th \in Threads, Unqueue(th)
    PROVE  DrainInv'
<1>. USE DEF DrainInv
<1>1. UNCHANGED <<state, cancelled, submission, jobSettled, hooks, deferred,
                  drainer, runtimeClosed, accepted, job>>
  BY DEF Unqueue, handleVars, runtimeVars, backendVars, threadVars, Goto, Return,
     SettleAs
<1>2. /\ th \in Threads
      /\ pc' \in [Threads -> Places] /\ cur' \in [Threads -> Tasks \cup {NoTask}]
      /\ after' \in [Threads -> {"cancelling", "hook", "finish"}]
      /\ fate' \in [Threads -> Terminal] /\ todo' \in [Threads -> SUBSET Tasks]
      /\ \A o \in Threads \ {th} :
              pc'[o] = pc[o] /\ cur'[o] = cur[o] /\ after'[o] = after[o]
      /\ pc[th] = "unqueue" /\ cur[th] \in Tasks /\ queue' \subseteq queue
      /\ \/ pc'[th] = "settle" /\ cur'[th] = cur[th]
         \/ pc'[th] = "hook" /\ after[th] = "hook" /\ cur'[th] = cur[th]
         \/ pc'[th] \in {"cancelling", "finish"} /\ after[th] # "hook" /\ cur'[th] = NoTask
      /\ pc'[th] \notin {"cancelling", "finish"} => after'[th] = after[th]
  BY DEF Unqueue, At, Goto, Return, SettleAs, TypeOK, Threads, Places, Terminal,
     Working, Busy
<1>3. \A x : AtBackend(x)' => AtBackend(x)
  BY <1>1, <1>2 DEF AtBackend
<1>4. \A o \in Threads : Admitted(o)' => Admitted(o) /\ cur'[o] = cur[o]
  BY <1>2 DEF Admitted
<1>5. NoTask \notin Tasks /\ (th = drainer => after[th] = "hook")
  BY <1>1, <1>2, DeferralAssumption DEF Draining
<1>6. TypeOK'
  BY <1>1, <1>2, <1>3, <1>4, <1>5 DEF TypeOK
<1>7. Working'
  BY <1>1, <1>2, <1>3, <1>4, <1>5 DEF Working, Busy
<1>8. Unknown'
  BY <1>1, <1>2, <1>3, <1>4, <1>5 DEF Unknown
<1>9. Submitting'
  BY <1>1, <1>2, <1>3, <1>4, <1>5 DEF Submitting, Unplaced, Working, Busy
<1>10. PlacedDirectly'
  BY <1>1, <1>2, <1>3, <1>4, <1>5 DEF PlacedDirectly, DrainWorks, DrainPlaced
<1>11. Draining'
  BY <1>1, <1>2, <1>3, <1>4, <1>5 DEF Draining, DrainWorks, DrainPlaced, Working, Busy
<1>12. Retained'
  BY <1>1, <1>2, <1>3, <1>4, <1>5 DEF Retained, DrainPlaced
<1>13. RunOnce'
  BY <1>1, <1>2, <1>3, <1>4, <1>5 DEF RunOnce
<1>. QED  BY <1>6, <1>7, <1>8, <1>9, <1>10, <1>11, <1>12, <1>13

(* An outcome is settled. *)
LEMMA SettleKeeps ==
    ASSUME DrainInv, NEW th \in Threads, Settle(th)
    PROVE  DrainInv'
<1>. USE DEF DrainInv
<1>1. UNCHANGED <<cancelled, submission, hooks, deferred, drainer, runtimeClosed,
                  queue, accepted, job>>
  BY DEF Settle, handleVars, runtimeVars, backendVars, threadVars, Goto, Return,
     SettleAs
<1>2. /\ th \in Threads
      /\ pc' \in [Threads -> Places] /\ cur' \in [Threads -> Tasks \cup {NoTask}]
      /\ after' \in [Threads -> {"cancelling", "hook", "finish"}]
      /\ fate' \in [Threads -> Terminal] /\ todo' \in [Threads -> SUBSET Tasks]
      /\ \A o \in Threads \ {th} :
              pc'[o] = pc[o] /\ cur'[o] = cur[o] /\ after'[o] = after[o]
      /\ pc[th] = "settle" /\ cur[th] \in Tasks /\ jobSettled' \subseteq Tasks
      /\ state' \in [Tasks -> {"absent", "refused", "pending", "running"} \cup Terminal]
      /\ \A u \in Tasks : state'[u] = state[u] \/ state'[u] \in Terminal
      /\ \/ pc'[th] = "slot" /\ cur'[th] = cur[th]
         \/ pc'[th] = "hook" /\ after[th] = "hook" /\ cur'[th] = cur[th]
         \/ pc'[th] \in {"cancelling", "finish"} /\ after[th] # "hook" /\ cur'[th] = NoTask
      /\ pc'[th] \notin {"cancelling", "finish"} => after'[th] = after[th]
  <2>1. th \in Threads /\ pc[th] = "settle" /\ cur[th] \in Tasks /\ after \in
            [Threads -> {"cancelling", "hook", "finish"}]
    BY DEF Settle, At, TypeOK, Working, Busy
  <2>2. /\ state' \in [Tasks -> {"absent", "refused", "pending", "running"} \cup Terminal]
        /\ \A u \in Tasks : state'[u] = state[u] \/ state'[u] \in Terminal
        /\ jobSettled' \subseteq Tasks
    BY <2>1 DEF Settle, TypeOK
  <2>3. \/ Goto(th, "slot")
        \/ after[th] = "hook" /\ Goto(th, "hook")
        \/ after[th] # "hook" /\ Return(th, after[th])
    BY DEF Settle
  <2>4. CASE Goto(th, "slot")
    BY <2>1, <2>2, <2>4 DEF Goto, TypeOK, Places
  <2>5. CASE after[th] = "hook" /\ Goto(th, "hook")
    BY <2>1, <2>2, <2>5 DEF Goto, TypeOK, Places
  <2>6. CASE after[th] # "hook" /\ Return(th, after[th])
    BY <2>1, <2>2, <2>6 DEF Return, TypeOK, Places, Terminal
  <2>. QED  BY <2>3, <2>4, <2>5, <2>6
<1>3. \A x : AtBackend(x)' <=> AtBackend(x)
  BY <1>1 DEF AtBackend
<1>4. \A o \in Threads : Admitted(o)' => Admitted(o) /\ cur'[o] = cur[o]
  BY <1>2 DEF Admitted
<1>5. /\ NoTask \notin Tasks /\ (th = drainer => after[th] = "hook")
      /\ \A u \in Tasks : state'[u] \in {"absent", "refused"} => state'[u] = state[u]
  BY <1>1, <1>2, DeferralAssumption DEF Draining, Terminal
<1>6. TypeOK'
  BY <1>1, <1>2, <1>3, <1>4, <1>5 DEF TypeOK
<1>7. Working'
  BY <1>1, <1>2, <1>3, <1>4, <1>5 DEF Working, Busy
<1>8. Unknown'
  BY <1>1, <1>2, <1>3, <1>4, <1>5 DEF Unknown
<1>9. Submitting'
  BY <1>1, <1>2, <1>3, <1>4, <1>5 DEF Submitting, Unplaced, Working, Busy
<1>10. PlacedDirectly'
  BY <1>1, <1>2, <1>3, <1>4, <1>5 DEF PlacedDirectly, DrainWorks, DrainPlaced
<1>11. Draining'
  BY <1>1, <1>2, <1>3, <1>4, <1>5 DEF Draining, DrainWorks, DrainPlaced, Working, Busy
<1>12. Retained'
  BY <1>1, <1>2, <1>3, <1>4, <1>5 DEF Retained, DrainPlaced
<1>13. RunOnce'
  BY <1>1, <1>2, <1>3, <1>4, <1>5 DEF RunOnce
<1>. QED  BY <1>6, <1>7, <1>8, <1>9, <1>10, <1>11, <1>12, <1>13

(* A settled task gives its slot back. *)
LEMMA FreeSlotKeeps ==
    ASSUME DrainInv, NEW th \in Threads, FreeSlot(th)
    PROVE  DrainInv'
<1>. USE DEF DrainInv
<1>1. UNCHANGED <<state, cancelled, submission, jobSettled, hooks, deferred,
                  drainer, runtimeClosed, queue, job>>
  BY DEF FreeSlot, handleVars, runtimeVars, backendVars, threadVars, Goto, Return,
     SettleAs
<1>2. /\ th \in Threads
      /\ pc' \in [Threads -> Places] /\ cur' \in [Threads -> Tasks \cup {NoTask}]
      /\ after' \in [Threads -> {"cancelling", "hook", "finish"}]
      /\ fate' \in [Threads -> Terminal] /\ todo' \in [Threads -> SUBSET Tasks]
      /\ \A o \in Threads \ {th} :
              pc'[o] = pc[o] /\ cur'[o] = cur[o] /\ after'[o] = after[o]
      /\ pc[th] = "slot" /\ cur[th] \in Tasks /\ accepted' \subseteq accepted
      /\ \/ pc'[th] = "drain" /\ "drain" \in hooks[cur[th]] /\ cur'[th] = cur[th]
         \/ pc'[th] = "hook" /\ after[th] = "hook" /\ cur'[th] = cur[th]
         \/ pc'[th] \in {"cancelling", "finish"} /\ after[th] # "hook" /\ cur'[th] = NoTask
      /\ pc'[th] \notin {"cancelling", "finish"} => after'[th] = after[th]
  <2>1. /\ th \in Threads /\ pc[th] = "slot" /\ cur[th] \in Tasks
        /\ accepted' \subseteq accepted
    BY DEF FreeSlot, At, TypeOK, Working, Busy
  <2>2. CASE "drain" \in hooks[cur[th]]
    BY <2>1, <2>2 DEF FreeSlot, Goto, TypeOK, Places
  <2>3. CASE "drain" \notin hooks[cur[th]] /\ after[th] = "hook"
    BY <2>1, <2>3 DEF FreeSlot, Goto, TypeOK, Places
  <2>4. CASE "drain" \notin hooks[cur[th]] /\ after[th] # "hook"
    BY <2>1, <2>4 DEF FreeSlot, Return, TypeOK, Places, Terminal
  <2>. QED  BY <2>2, <2>3, <2>4
<1>3. \A x : AtBackend(x)' => AtBackend(x)
  BY <1>1, <1>2 DEF AtBackend
<1>4. \A o \in Threads : Admitted(o)' => Admitted(o) /\ cur'[o] = cur[o]
  BY <1>2 DEF Admitted
<1>5. /\ NoTask \notin Tasks /\ (th = drainer => after[th] = "hook")
      /\ th = drainer => "drain" \notin hooks[cur[th]]
  BY <1>1, <1>2, DeferralAssumption DEF Draining
<1>6. TypeOK'
  BY <1>1, <1>2, <1>3, <1>4, <1>5 DEF TypeOK
<1>7. Working'
  BY <1>1, <1>2, <1>3, <1>4, <1>5 DEF Working, Busy
<1>8. Unknown'
  BY <1>1, <1>2, <1>3, <1>4, <1>5 DEF Unknown
<1>9. Submitting'
  BY <1>1, <1>2, <1>3, <1>4, <1>5 DEF Submitting, Unplaced, Working, Busy
<1>10. PlacedDirectly'
  BY <1>1, <1>2, <1>3, <1>4, <1>5 DEF PlacedDirectly, DrainWorks, DrainPlaced
<1>11. Draining'
  BY <1>1, <1>2, <1>3, <1>4, <1>5 DEF Draining, DrainWorks, DrainPlaced, Working, Busy
<1>12. Retained'
  BY <1>1, <1>2, <1>3, <1>4, <1>5 DEF Retained, DrainPlaced
<1>13. RunOnce'
  BY <1>1, <1>2, <1>3, <1>4, <1>5 DEF RunOnce
<1>. QED  BY <1>6, <1>7, <1>8, <1>9, <1>10, <1>11, <1>12, <1>13

(* A worker takes a queued job. *)
LEMMA TakeKeeps ==
    ASSUME DrainInv, NEW w \in Workers, NEW t \in Tasks, Take(w, t)
    PROVE  DrainInv'
<1>. USE DEF DrainInv
<1>1. UNCHANGED <<state, cancelled, submission, jobSettled, hooks, deferred,
                  drainer, runtimeClosed, accepted, after>>
  BY DEF Take, handleVars, runtimeVars, backendVars, threadVars, Goto, Return, SettleAs
<1>2. /\ w \in Threads
      /\ pc' \in [Threads -> Places] /\ cur' \in [Threads -> Tasks \cup {NoTask}]
      /\ after' \in [Threads -> {"cancelling", "hook", "finish"}]
      /\ fate' \in [Threads -> Terminal] /\ todo' \in [Threads -> SUBSET Tasks]
      /\ \A o \in Threads \ {w} :
              pc'[o] = pc[o] /\ cur'[o] = cur[o] /\ after'[o] = after[o]
      /\ pc[w] = "take" /\ pc'[w] = "execute" /\ cur'[w] = t /\ t \in queue
      /\ queue' = queue \ {t} /\ job' \in [Workers -> Tasks \cup {NoTask}]
      /\ job'[w] = t /\ \A v \in Workers \ {w} : job'[v] = job[v]
  BY DEF Take, At, Goto, Return, SettleAs, TypeOK, Threads, Places, Terminal
<1>3. \A x : AtBackend(x)' => AtBackend(x)
  BY <1>1, <1>2 DEF AtBackend
<1>4. /\ \A o \in Threads \ {w} : Admitted(o)' <=> Admitted(o)
      /\ ~Admitted(w)'
  BY <1>2 DEF Admitted
<1>5. /\ w # drainer /\ AtBackend(t) /\ state[t] \notin {"absent", "refused"}
      /\ \A o \in Threads : o # drainer /\ pc[o] \in Unplaced => cur[o] # t
      /\ \A v \in Workers : job[v] # t
  BY <1>1, <1>2, DeferralAssumption DEF Draining, DrainWorks, DrainPlaced, Unknown,
     Submitting, AtBackend, RunOnce
<1>6. TypeOK'
  BY <1>1, <1>2, <1>3, <1>4, <1>5 DEF TypeOK
<1>7. Working'
  BY <1>1, <1>2, <1>3, <1>4, <1>5 DEF Working, Busy
<1>8. Unknown'
  BY <1>1, <1>2, <1>3, <1>4, <1>5 DEF Unknown
<1>9. Submitting'
  BY <1>1, <1>2, <1>3, <1>4, <1>5 DEF Submitting, Unplaced, Working, Busy
<1>10. PlacedDirectly'
  BY <1>1, <1>2, <1>3, <1>4, <1>5 DEF PlacedDirectly, DrainWorks, DrainPlaced
<1>11. Draining'
  BY <1>1, <1>2, <1>3, <1>4, <1>5 DEF Draining, DrainWorks, DrainPlaced, Working, Busy
<1>12. Retained'
  BY <1>1, <1>2, <1>3, <1>4, <1>5 DEF Retained, DrainPlaced
<1>13. RunOnce'
  BY <1>1, <1>2, <1>3, <1>4, <1>5 DEF RunOnce
<1>. QED  BY <1>6, <1>7, <1>8, <1>9, <1>10, <1>11, <1>12, <1>13

(* A worker starts the work, or finds it cancelled. *)
LEMMA ExecuteKeeps ==
    ASSUME DrainInv, NEW w \in Workers, Execute(w)
    PROVE  DrainInv'
<1>. USE DEF DrainInv
<1>1. UNCHANGED <<cancelled, submission, jobSettled, hooks, deferred, drainer,
                  runtimeClosed, queue, accepted, job>>
  BY DEF Execute, handleVars, runtimeVars, backendVars, threadVars, Goto, Return,
     SettleAs
<1>2. /\ w \in Threads
      /\ pc' \in [Threads -> Places] /\ cur' \in [Threads -> Tasks \cup {NoTask}]
      /\ after' \in [Threads -> {"cancelling", "hook", "finish"}]
      /\ fate' \in [Threads -> Terminal] /\ todo' \in [Threads -> SUBSET Tasks]
      /\ \A o \in Threads \ {w} :
              pc'[o] = pc[o] /\ cur'[o] = cur[o] /\ after'[o] = after[o]
      /\ pc[w] = "execute" /\ cur[w] \in Tasks
      /\ state' \in [Tasks -> {"absent", "refused", "pending", "running"} \cup Terminal]
      /\ \A u \in Tasks : state'[u] \in {"absent", "refused"} => state'[u] = state[u]
      /\ \/ pc'[w] = "finish" /\ cur'[w] = NoTask
         \/ pc'[w] = "settle" /\ cur'[w] = cur[w] /\ after'[w] = "finish"
         \/ pc'[w] = "work" /\ cur'[w] = cur[w]
  <2>1. w \in Threads /\ pc[w] = "execute" /\ cur[w] \in Tasks
    BY DEF Execute, At, Threads, Working, Busy
  <2>2. \/ Return(w, "finish") /\ state' = state
        \/ SettleAs(w, "cancelled", "finish") /\ state' = state
        \/ state' = [state EXCEPT ![cur[w]] = "running"] /\ Goto(w, "work")
    BY DEF Execute
  <2>3. CASE Return(w, "finish") /\ state' = state
    BY <2>1, <2>3 DEF Return, TypeOK, Places, Terminal
  <2>4. CASE SettleAs(w, "cancelled", "finish") /\ state' = state
    BY <2>1, <2>4 DEF SettleAs, TypeOK, Places, Terminal
  <2>5. CASE state' = [state EXCEPT ![cur[w]] = "running"] /\ Goto(w, "work")
    BY <2>1, <2>5 DEF Goto, TypeOK, Places
  <2>. QED  BY <2>2, <2>3, <2>4, <2>5
<1>3. \A x : AtBackend(x)' <=> AtBackend(x)
  BY <1>1 DEF AtBackend
<1>4. /\ \A o \in Threads \ {w} : Admitted(o)' <=> Admitted(o)
      /\ ~Admitted(w)'
  BY <1>2 DEF Admitted
<1>5. w # drainer /\ NoTask \notin Tasks
  BY <1>1, <1>2, DeferralAssumption DEF Draining, DrainWorks, DrainPlaced
<1>6. TypeOK'
  BY <1>1, <1>2, <1>3, <1>4, <1>5 DEF TypeOK
<1>7. Working'
  BY <1>1, <1>2, <1>3, <1>4, <1>5 DEF Working, Busy
<1>8. Unknown'
  BY <1>1, <1>2, <1>3, <1>4, <1>5 DEF Unknown
<1>9. Submitting'
  BY <1>1, <1>2, <1>3, <1>4, <1>5 DEF Submitting, Unplaced, Working, Busy
<1>10. PlacedDirectly'
  BY <1>1, <1>2, <1>3, <1>4, <1>5 DEF PlacedDirectly, DrainWorks, DrainPlaced
<1>11. Draining'
  BY <1>1, <1>2, <1>3, <1>4, <1>5 DEF Draining, DrainWorks, DrainPlaced, Working, Busy
<1>12. Retained'
  BY <1>1, <1>2, <1>3, <1>4, <1>5 DEF Retained, DrainPlaced
<1>13. RunOnce'
  BY <1>1, <1>2, <1>3, <1>4, <1>5 DEF RunOnce
<1>. QED  BY <1>6, <1>7, <1>8, <1>9, <1>10, <1>11, <1>12, <1>13

(* The work returns or raises. *)
LEMMA WorkKeeps ==
    ASSUME DrainInv, NEW w \in Workers, Work(w)
    PROVE  DrainInv'
<1>. USE DEF DrainInv
<1>1. UNCHANGED <<state, cancelled, submission, jobSettled, hooks, deferred,
                  drainer, runtimeClosed, queue, accepted, job>>
  BY DEF Work, handleVars, runtimeVars, backendVars, threadVars, Goto, Return, SettleAs
<1>2. /\ w \in Threads
      /\ pc' \in [Threads -> Places] /\ cur' \in [Threads -> Tasks \cup {NoTask}]
      /\ after' \in [Threads -> {"cancelling", "hook", "finish"}]
      /\ fate' \in [Threads -> Terminal] /\ todo' \in [Threads -> SUBSET Tasks]
      /\ \A o \in Threads \ {w} :
              pc'[o] = pc[o] /\ cur'[o] = cur[o] /\ after'[o] = after[o]
      /\ pc[w] = "work" /\ cur[w] \in Tasks /\ pc'[w] = "settle" /\ cur'[w] = cur[w]
      /\ after'[w] = "finish"
  BY DEF Work, At, Goto, Return, SettleAs, TypeOK, Threads, Places, Terminal, Working,
     Busy
<1>3. \A x : AtBackend(x)' <=> AtBackend(x)
  BY <1>1 DEF AtBackend
<1>4. /\ \A o \in Threads \ {w} : Admitted(o)' <=> Admitted(o)
      /\ ~Admitted(w)'
  BY <1>2 DEF Admitted
<1>5. w # drainer
  BY <1>1, <1>2, DeferralAssumption DEF Draining, DrainWorks, DrainPlaced
<1>6. TypeOK'
  BY <1>1, <1>2, <1>3, <1>4, <1>5 DEF TypeOK
<1>7. Working'
  BY <1>1, <1>2, <1>3, <1>4, <1>5 DEF Working, Busy
<1>8. Unknown'
  BY <1>1, <1>2, <1>3, <1>4, <1>5 DEF Unknown
<1>9. Submitting'
  BY <1>1, <1>2, <1>3, <1>4, <1>5 DEF Submitting, Unplaced, Working, Busy
<1>10. PlacedDirectly'
  BY <1>1, <1>2, <1>3, <1>4, <1>5 DEF PlacedDirectly, DrainWorks, DrainPlaced
<1>11. Draining'
  BY <1>1, <1>2, <1>3, <1>4, <1>5 DEF Draining, DrainWorks, DrainPlaced, Working, Busy
<1>12. Retained'
  BY <1>1, <1>2, <1>3, <1>4, <1>5 DEF Retained, DrainPlaced
<1>13. RunOnce'
  BY <1>1, <1>2, <1>3, <1>4, <1>5 DEF RunOnce
<1>. QED  BY <1>6, <1>7, <1>8, <1>9, <1>10, <1>11, <1>12, <1>13

(* A worker gives up its job. *)
LEMMA FinishKeeps ==
    ASSUME DrainInv, NEW w \in Workers, Finish(w)
    PROVE  DrainInv'
<1>. USE DEF DrainInv
<1>1. UNCHANGED <<state, cancelled, submission, jobSettled, hooks, deferred,
                  drainer, runtimeClosed, queue, accepted>>
  BY DEF Finish, handleVars, runtimeVars, backendVars, threadVars, Goto, Return,
     SettleAs
<1>2. /\ w \in Threads
      /\ pc' \in [Threads -> Places] /\ cur' \in [Threads -> Tasks \cup {NoTask}]
      /\ after' \in [Threads -> {"cancelling", "hook", "finish"}]
      /\ fate' \in [Threads -> Terminal] /\ todo' \in [Threads -> SUBSET Tasks]
      /\ \A o \in Threads \ {w} :
              pc'[o] = pc[o] /\ cur'[o] = cur[o] /\ after'[o] = after[o]
      /\ pc[w] = "finish" /\ pc'[w] = "take" /\ cur'[w] = NoTask
      /\ job' \in [Workers -> Tasks \cup {NoTask}]
      /\ job'[w] = NoTask /\ \A v \in Workers \ {w} : job'[v] = job[v]
  BY DEF Finish, At, Goto, Return, SettleAs, TypeOK, Threads, Places, Terminal
<1>3. \A x \in Tasks : AtBackend(x)' => AtBackend(x)
  BY <1>1, <1>2, DeferralAssumption DEF AtBackend
<1>4. /\ \A o \in Threads \ {w} : Admitted(o)' <=> Admitted(o)
      /\ ~Admitted(w)'
  BY <1>2 DEF Admitted
<1>5. /\ w # drainer /\ NoTask \notin Tasks /\ NoTask \notin queue
      /\ Range(deferred) \subseteq Tasks
  BY <1>1, <1>2, DeferralAssumption, RetainedAreTasks DEF Draining, DrainWorks,
     DrainPlaced, TypeOK
<1>6. TypeOK'
  BY <1>1, <1>2, <1>3, <1>4, <1>5 DEF TypeOK
<1>7. Working'
  BY <1>1, <1>2, <1>3, <1>4, <1>5 DEF Working, Busy
<1>8. Unknown'
  BY <1>1, <1>2, <1>3, <1>4, <1>5 DEF Unknown
<1>9. Submitting'
  BY <1>1, <1>2, <1>3, <1>4, <1>5 DEF Submitting, Unplaced, Working, Busy
<1>10. PlacedDirectly'
  BY <1>1, <1>2, <1>3, <1>4, <1>5 DEF PlacedDirectly, DrainWorks, DrainPlaced
<1>11. Draining'
  BY <1>1, <1>2, <1>3, <1>4, <1>5 DEF Draining, DrainWorks, DrainPlaced, Working, Busy
<1>12. Retained'
  BY <1>1, <1>2, <1>3, <1>4, <1>5 DEF Retained, DrainPlaced
<1>13. RunOnce'
  BY <1>1, <1>2, <1>3, <1>4, <1>5 DEF RunOnce
<1>. QED  BY <1>6, <1>7, <1>8, <1>9, <1>10, <1>11, <1>12, <1>13

(* Every step keeps the invariant. *)
LEMMA StepKeepsDrainInv ==
    ASSUME DrainInv, [Next]_vars
    PROVE  DrainInv'
<1>1. ASSUME NEW c \in Clients, BeginClient(c)  PROVE DrainInv'
  BY <1>1, SubmitKeeps, CancelKeeps, ShutdownKeeps DEF BeginClient
<1>2. ASSUME NEW c \in Clients, ContinueClient(c)  PROVE DrainInv'
  BY <1>2, RefuseKeeps, DeferKeeps, BindDeferredKeeps, CancelOneKeeps, CancelDoneKeeps
     DEF ContinueClient
<1>3. ASSUME NEW th \in Threads, ThreadStep(th)  PROVE DrainInv'
  BY <1>3, RebindKeeps, OfferTakenKeeps, OfferRejectedKeeps, BindKeeps, HookKeeps,
     DrainKeeps,
     PeekKeeps, PopKeeps, StopKeeps, WithdrawKeeps, UnqueueKeeps, SettleKeeps, FreeSlotKeeps
     DEF ThreadStep
<1>4. ASSUME NEW w \in Workers, WorkerStep(w)  PROVE DrainInv'
  BY <1>4, TakeKeeps, ExecuteKeeps, WorkKeeps, FinishKeeps DEF WorkerStep
<1>5. UNCHANGED vars => DrainInv'
  BY DrainStutter
<1>. QED  BY <1>1, <1>2, <1>3, <1>4, <1>5 DEF Next, Rest

(* The invariant holds in every reachable state. *)
THEOREM DrainInvariant == Spec => []DrainInv
<1>1. Init => DrainInv
  BY InitDrainInv
<1>2. DrainInv /\ [Next]_vars => DrainInv'
  BY StepKeepsDrainInv
<1>. QED  BY <1>1, <1>2, PTL DEF Spec

-----------------------------------------------------------------------------
(* What follows.                                                           *)

(* Handles, hooks, retained finalizers, jobs and threads stay what the code  *)
(* takes them for.                                                         *)
THEOREM TypesStay == Spec => []TypeOK
<1>1. DrainInv => TypeOK
  BY DEF DrainInv
<1>. QED  BY <1>1, DrainInvariant, PTL

(* However drains, settlements, submissions and cancellations interleave, no *)
(* task is run by two workers or queued while it runs, and the backend is    *)
(* never offered a task it holds.                                          *)
THEOREM AdmittedOnceAlways == Spec => []AdmittedOnce
<1>1. ASSUME DrainInv  PROVE AdmittedOnce
  <2>1. ASSUME NEW th \in Threads, pc[th] = "offer"  PROVE ~AtBackend(cur[th])
    <3>1. CASE th = drainer
      BY <1>1, <2>1, <3>1 DEF DrainInv, Draining
    <3>2. CASE th # drainer
      BY <1>1, <2>1, <3>2 DEF DrainInv, Submitting, Unplaced
    <3>. QED  BY <3>1, <3>2
  <2>. QED  BY <1>1, <2>1 DEF DrainInv, AdmittedOnce, RunOnce, AtBackend, At
<1>. QED  BY <1>1, DrainInvariant, PTL

(* Only an offer of the drain, which is of the first retained finalizer, or   *)
(* one of a submission, whose task is not retained, adds an accepted task.  *)
LEMMA OfferKeepsOrder ==
    ASSUME DrainInv, NEW th \in Threads, OfferTaken(th), NEW i \in DOMAIN deferred,
           deferred[i] \in accepted', deferred[i] \notin accepted
    PROVE  i = 1
<1>1. pc[th] = "offer" /\ deferred[i] = cur[th]
  BY DEF OfferTaken, At
<1>2. cur[th] \in Range(deferred)
  BY <1>1 DEF Range
<1>3. th = drainer
  BY <1>1, <1>2 DEF DrainInv, Submitting, Unplaced
<1>4. cur[th] = Head(deferred)
  BY <1>1, <1>2, <1>3 DEF DrainInv, Draining, DrainWorks
<1>5. deferred \in Seq(Finalizers) /\ IsInjective(deferred)
  BY DEF DrainInv, TypeOK, Retained
<1>6. 1 \in DOMAIN deferred /\ Head(deferred) = deferred[1]
  BY <1>5
<1>. QED  BY <1>1, <1>4, <1>5, <1>6 DEF IsInjective

(* Retained finalizers are admitted in the order in which they were retained. *)
THEOREM AdmittedInOrderAlways == Spec => AdmittedInOrder
<1>1. ASSUME DrainInv, [Next]_vars
      PROVE  [\A i \in DOMAIN deferred :
                 deferred[i] \in accepted' /\ deferred[i] \notin accepted => i = 1]_vars
  <2>1. (\E th \in Threads : OfferTaken(th)) \/ accepted' \subseteq accepted
    BY <1>1 DEF Next, BeginClient, ContinueClient, ThreadStep, WorkerStep, Rest, vars,
       backendVars, Submit, Cancel, Shutdown, Refuse, Defer, BindDeferred, CancelOne,
       CancelDone, Rebind, OfferRejected, Bind, Hook, Drain, Peek, Pop, Stop, Withdraw,
       Unqueue, Settle, FreeSlot, Take, Execute, Work, Finish
  <2>. QED  BY <1>1, <2>1, OfferKeepsOrder
<1>. QED  BY <1>1, DrainInvariant, PTL DEF Spec, AdmittedInOrder

================================================================================
