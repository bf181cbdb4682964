------------------------ MODULE OwnerDelivery_proofs ------------------------
(***************************************************************************)
(* What the clients of OwnerDelivery rely on: an outcome in the owner's    *)
(* queue is the only one of a handle that has ended, whatever is cancelled *)
(* and however late its adoption is dropped.                               *)
(***************************************************************************)
EXTENDS OwnerDelivery, FiniteSetTheorems, TLAPS

Places == {"free", "working", "doomed", "delivering", "ended"}
Entries == [handle : Pool, kind : {"adopt", "outcome"}]

IsOutcome(i) == queue[i].kind = "outcome"

DeliveryInv ==
    /\ work \in [Pool -> Places]
    /\ queue \in Seq(Entries)
    /\ \A i \in 1..Len(queue) : IsOutcome(i) => work[queue[i].handle] = "ended"
    /\ \A i, j \in 1..Len(queue) :
          IsOutcome(i) /\ IsOutcome(j) /\ queue[i].handle = queue[j].handle => i = j

\* Initially no handle is in use and nothing is posted.
LEMMA DeliveryBegins == DeliveryInit => DeliveryInv
  BY DEF DeliveryInit, DeliveryInv, Places, Entries, IsOutcome

\* An event is an entry of the queue.
LEMMA EventsAreEntries ==
    ASSUME NEW h \in Pool, NEW kind \in {"adopt", "outcome"}
    PROVE  Event(h, kind) \in Entries /\ Event(h, kind).handle = h /\ Event(h, kind).kind = kind
  BY DEF Event, Entries

\* What the queue holds are entries.
LEMMA QueueHoldsEntries ==
    ASSUME DeliveryInv
    PROVE  /\ Len(queue) \in Nat
           /\ \A i \in 1..Len(queue) : queue[i] \in Entries /\ queue[i].handle \in Pool
<1>1. queue \in Seq(Entries)
  BY DEF DeliveryInv
<1>2. Len(queue) \in Nat /\ \A i \in 1..Len(queue) : queue[i] \in Entries
  BY <1>1
<1>3. \A e \in Entries : e.handle \in Pool
  BY DEF Entries
<1> QED
  BY <1>2, <1>3

\* A free handle has no outcome in the queue and may be used again.
LEMMA SubmittedKeeps ==
    ASSUME DeliveryInv, NEW h \in Pool, Submitted(h)
    PROVE  DeliveryInv'
<1>1. work[h] = "free" /\ work' = [work EXCEPT ![h] = "working"] /\ queue' = queue
  BY DEF Submitted, Free
<1>2. \A i \in 1..Len(queue) : IsOutcome(i) => queue[i].handle # h
  BY <1>1 DEF DeliveryInv
<1>3. \A i \in 1..Len(queue) : queue[i].handle \in Pool
  BY QueueHoldsEntries
<1> QED
  BY <1>1, <1>2, <1>3 DEF DeliveryInv, Places, IsOutcome

\* One entry more.  An outcome is posted when its handle ends, and only then.
LEMMA PostingKeeps ==
    ASSUME DeliveryInv, NEW h \in Pool, NEW kind \in {"adopt", "outcome"}, NEW place \in Places,
           work[h] # "ended", kind = "outcome" => place = "ended",
           work' = [work EXCEPT ![h] = place],
           queue' = Append(queue, Event(h, kind))
    PROVE  DeliveryInv'
<1>1. /\ Event(h, kind) \in Entries
      /\ Event(h, kind).handle = h /\ Event(h, kind).kind = kind
  BY EventsAreEntries
<1>2. queue' \in Seq(Entries) /\ work' \in [Pool -> Places]
  BY <1>1 DEF DeliveryInv
<1>3. /\ Len(queue') = Len(queue) + 1 /\ Len(queue) \in Nat
      /\ \A i \in 1..Len(queue) : queue'[i] = queue[i]
      /\ queue'[Len(queue) + 1] = Event(h, kind)
  BY <1>1 DEF DeliveryInv
<1>4. \A i \in 1..Len(queue) : queue[i].handle \in Pool /\ (IsOutcome(i) => queue[i].handle # h)
  BY QueueHoldsEntries DEF DeliveryInv
<1>5. \A i \in 1..Len(queue') : IsOutcome(i)' => work'[queue'[i].handle] = "ended"
  BY <1>1, <1>3, <1>4 DEF DeliveryInv, IsOutcome
<1>6. \A i, j \in 1..Len(queue') :
        IsOutcome(i)' /\ IsOutcome(j)' /\ queue'[i].handle = queue'[j].handle => i = j
  BY <1>1, <1>3, <1>4 DEF DeliveryInv, IsOutcome
<1> QED
  BY <1>2, <1>5, <1>6 DEF DeliveryInv

\* A result is posted as an adoption, which says nothing of an end.
LEMMA ReturnsKeeps ==
    ASSUME DeliveryInv, NEW h \in Pool, Returns(h) PROVE DeliveryInv'
  BY PostingKeeps DEF Returns, Places

\* Work that ends posts its one outcome.
LEMMA EndsKeeps ==
    ASSUME DeliveryInv, NEW h \in Pool, Ends(h) PROVE DeliveryInv'
  BY PostingKeeps DEF Ends, Places

\* The head of the queue is delivered; its handle may be forgotten with it.
LEMMA DeliveringKeeps ==
    ASSUME DeliveryInv, queue # <<>>, NEW place \in Places,
           \/ work' = work
           \/ /\ work' = [work EXCEPT ![Head(queue).handle] = place]
              /\ Head(queue).kind = "outcome" \/ work[Head(queue).handle] # "ended",
           queue' = Tail(queue)
    PROVE  DeliveryInv'
<1>1. /\ Len(queue) \in Nat \ {0} /\ Head(queue) = queue[1] /\ queue[1] \in Entries
      /\ queue' \in Seq(Entries) /\ Len(queue') = Len(queue) - 1
      /\ \A i \in 1..Len(queue') : queue'[i] = queue[i + 1]
  BY DEF DeliveryInv
<1>2. work' \in [Pool -> Places]
  BY DEF DeliveryInv
<1>3. \A i \in 1..Len(queue') : IsOutcome(i)' <=> IsOutcome(i + 1)
  BY <1>1 DEF IsOutcome
<1>4. \A i \in 1..Len(queue') : i + 1 \in 1..Len(queue) /\ i + 1 # 1
  BY <1>1
<1>5. ASSUME NEW i \in 1..Len(queue'), IsOutcome(i)' PROVE work'[queue'[i].handle] = "ended"
  <2>1. IsOutcome(i + 1) /\ i + 1 \in 1..Len(queue) /\ i + 1 # 1 /\ queue'[i] = queue[i + 1]
    BY <1>1, <1>3, <1>4, <1>5
  <2>2. work[queue[i + 1].handle] = "ended"
    BY <2>1 DEF DeliveryInv
  <2>3. CASE work' = work
    BY <2>1, <2>2, <2>3
  <2>4. CASE /\ work' = [work EXCEPT ![Head(queue).handle] = place]
             /\ Head(queue).kind = "outcome" \/ work[Head(queue).handle] # "ended"
    <3>1. queue[i + 1].handle # queue[1].handle
      <4> SUFFICES ASSUME queue[i + 1].handle = queue[1].handle PROVE FALSE
        OBVIOUS
      <4>1. IsOutcome(1) /\ 1 \in 1..Len(queue)
        BY <1>1, <2>2, <2>4 DEF IsOutcome
      <4>2. i + 1 = 1
        BY <2>1, <4>1 DEF DeliveryInv
      <4> QED
        BY <2>1, <4>2
    <3> QED
      BY <1>1, <2>1, <2>2, <2>4, <3>1 DEF DeliveryInv
  <2> QED
    BY <2>3, <2>4
<1>6. \A i, j \in 1..Len(queue') :
        IsOutcome(i)' /\ IsOutcome(j)' /\ queue'[i].handle = queue'[j].handle => i = j
  <2> SUFFICES ASSUME NEW i \in 1..Len(queue'), NEW j \in 1..Len(queue'),
                      IsOutcome(i)', IsOutcome(j)', queue'[i].handle = queue'[j].handle
               PROVE  i = j
    OBVIOUS
  <2>1. i + 1 = j + 1
    BY <1>1, <1>3, <1>4 DEF DeliveryInv
  <2> QED
    BY <2>1
<1> QED
  BY <1>1, <1>2, <1>5, <1>6 DEF DeliveryInv

\* An adoption forgets the handle with the event.
LEMMA AdoptingKeeps ==
    ASSUME DeliveryInv, NEW h \in Pool, Adopting(h) PROVE DeliveryInv'
  BY DeliveringKeeps, EventsAreEntries DEF Adopting, Places

\* A result that is dropped leaves the outcome for later.
LEMMA DroppingKeeps ==
    ASSUME DeliveryInv, NEW h \in Pool, Dropping(h) PROVE DeliveryInv'
  BY DeliveringKeeps DEF Dropping, Places

\* The outcome was of a handle that had ended, and was the only one.
LEMMA HearingKeeps ==
    ASSUME DeliveryInv, NEW h \in Pool, Hearing(h) PROVE DeliveryInv' /\ work[h] = "ended"
<1>1. Head(queue) = queue[1] /\ 1 \in 1..Len(queue) /\ queue # <<>>
  BY DEF DeliveryInv, Hearing
<1>2. Head(queue).handle = h /\ Head(queue).kind = "outcome"
  BY EventsAreEntries DEF Hearing
<1>3. work[h] = "ended"
  BY <1>1, <1>2 DEF DeliveryInv, IsOutcome
<1>4. DeliveryInv'
  BY <1>1, <1>2, DeliveringKeeps DEF Hearing, Places
<1> QED
  BY <1>3, <1>4

\* Cancelling settles handles that have not ended, and posts one outcome each.
LEMMA CancelledKeeps ==
    ASSUME IsFiniteSet(Pool), DeliveryInv, NEW handles \in SUBSET Pool, Cancelled(handles)
    PROVE  DeliveryInv'
<1>1. PICK begun \in SUBSET {h \in handles : work[h] = "working"} :
        LET settled == {h \in handles : work[h] \in {"working", "delivering"}} \ begun
        IN  /\ work' = [h \in Pool |->
                   IF h \in begun THEN "doomed"
                   ELSE IF h \in settled THEN "ended" ELSE work[h]]
            /\ \E order \in SetToSeqs(settled) :
                   queue' = queue \o [i \in DOMAIN order |-> Event(order[i], "outcome")]
  BY DEF Cancelled
<1> DEFINE settled == {h \in handles : work[h] \in {"working", "delivering"}} \ begun
<1>2. PICK order \in SetToSeqs(settled) :
        queue' = queue \o [i \in DOMAIN order |-> Event(order[i], "outcome")]
  BY <1>1
<1>3. work' = [h \in Pool |-> IF h \in begun THEN "doomed"
                               ELSE IF h \in settled THEN "ended" ELSE work[h]]
  BY <1>1
<1>4. /\ settled \subseteq Pool
      /\ \A h \in settled : work[h] # "ended" /\ h \notin begun
      /\ \A h \in begun : work[h] # "ended"
  OBVIOUS
<1> HIDE DEF settled
<1>5. PICK n \in Nat :
        /\ order \in [1..n -> settled]
        /\ \A i, j \in 1..n : i # j => order[i] # order[j]
  <2>1. Cardinality(settled) \in Nat
    BY <1>4, FS_Subset, FS_CardinalityType
  <2> QED
    BY <1>2, <2>1 DEF SetToSeqs
<1> DEFINE posted == [i \in DOMAIN order |-> Event(order[i], "outcome")]
<1>6. /\ posted \in Seq(Entries) /\ Len(posted) = n
      /\ \A i \in 1..n : posted[i].handle = order[i] /\ posted[i].kind = "outcome"
  <2>1. DOMAIN order = 1..n
    BY <1>5
  <2>2. \A i \in 1..n : order[i] \in Pool
    BY <1>4, <1>5
  <2>3. \A i \in 1..n : /\ Event(order[i], "outcome") \in Entries
                        /\ Event(order[i], "outcome").handle = order[i]
                        /\ Event(order[i], "outcome").kind = "outcome"
    BY <2>2, EventsAreEntries
  <2>4. posted = [i \in 1..n |-> Event(order[i], "outcome")]
    BY <2>1
  <2>5. posted \in [1..n -> Entries]
    BY <2>3, <2>4
  <2>6. posted \in Seq(Entries) /\ Len(posted) = n
    BY <2>5
  <2> QED
    BY <2>3, <2>4, <2>6
<1>7. queue' = queue \o posted
  BY <1>2
<1> HIDE DEF posted
<1> DEFINE m == Len(queue)
<1>8. /\ m \in Nat /\ queue \in Seq(Entries)
      /\ queue' \in Seq(Entries) /\ Len(queue') = m + n
      /\ \A i \in 1..m : queue'[i] = queue[i]
      /\ \A i \in (m + 1)..(m + n) : queue'[i] = posted[i - m]
  <2>1. m \in Nat /\ queue \in Seq(Entries)
    BY QueueHoldsEntries DEF DeliveryInv
  <2>2. queue' \in Seq(Entries) /\ Len(queue') = m + n
    <3>1. queue \o posted \in Seq(Entries) /\ Len(queue \o posted) = Len(queue) + Len(posted)
      BY <1>6, <2>1
    <3> QED
      BY <1>6, <1>7, <3>1
  <2>3. \A i \in 1..m : queue'[i] = queue[i]
    BY <1>5, <1>6, <1>7, <2>1, <2>2 DEF m
  <2>4. \A i \in (m + 1)..(m + n) : queue'[i] = posted[i - m]
    BY <1>5, <1>6, <1>7, <2>1, <2>2 DEF m
  <2> QED
    BY <2>1, <2>2, <2>3, <2>4
<1> HIDE DEF m
<1>9. \A i \in 1..(m + n) : i \notin 1..m => i \in (m + 1)..(m + n) /\ i - m \in 1..n
  BY <1>8
<1>10. /\ \A i \in 1..m : IsOutcome(i)' <=> IsOutcome(i)
       /\ \A i \in 1..m : queue[i] \in Entries /\ queue[i].handle \in Pool
       /\ \A i \in 1..m : IsOutcome(i) => work[queue[i].handle] = "ended"
       /\ \A i, j \in 1..m :
             IsOutcome(i) /\ IsOutcome(j) /\ queue[i].handle = queue[j].handle => i = j
  BY <1>8, QueueHoldsEntries DEF DeliveryInv, IsOutcome, m
<1>11. \A h \in Pool : work[h] = "ended" \/ h \in settled => work'[h] = "ended"
  BY <1>3, <1>4
<1>12. work' \in [Pool -> Places]
  BY <1>3 DEF DeliveryInv, Places
<1>13. \A i \in 1..(m + n) : IsOutcome(i)' => work'[queue'[i].handle] = "ended"
  <2> SUFFICES ASSUME NEW i \in 1..(m + n), IsOutcome(i)' PROVE work'[queue'[i].handle] = "ended"
    OBVIOUS
  <2>1. CASE i \in 1..m
    BY <2>1, <1>8, <1>10, <1>11
  <2>2. CASE i \notin 1..m
    <3>1. queue'[i].handle = order[i - m] /\ order[i - m] \in settled
      BY <2>2, <1>5, <1>6, <1>8, <1>9
    <3> QED
      BY <3>1, <1>4, <1>11
  <2> QED
    BY <2>1, <2>2
<1>14. ASSUME NEW i \in 1..(m + n), NEW j \in 1..(m + n), IsOutcome(i)', IsOutcome(j)',
              queue'[i].handle = queue'[j].handle
       PROVE  i = j
  <2>1. CASE i \in 1..m /\ j \in 1..m
    BY <2>1, <1>8, <1>10, <1>14
  <2>2. CASE i \notin 1..m /\ j \notin 1..m
    <3>1. order[i - m] = order[j - m] /\ i - m \in 1..n /\ j - m \in 1..n
      BY <2>2, <1>6, <1>8, <1>9, <1>14
    <3>2. i - m = j - m
      BY <3>1, <1>5
    <3> QED
      BY <3>2, <1>8
  <2>3. \A k \in 1..m : IsOutcome(k) => queue[k].handle \notin settled
    BY <1>4, <1>10
  <2>4. \A k \in 1..(m + n) : k \notin 1..m => queue'[k].handle \in settled
    <3> SUFFICES ASSUME NEW k \in 1..(m + n), k \notin 1..m PROVE queue'[k].handle \in settled
      OBVIOUS
    <3>1. queue'[k].handle = order[k - m] /\ order[k - m] \in settled
      BY <1>5, <1>6, <1>8, <1>9
    <3> QED
      BY <3>1
  <2>5. \A k \in 1..m : IsOutcome(k)' => queue'[k].handle \notin settled
    BY <2>3, <1>8, <1>10
  <2> QED
    BY <2>1, <2>2, <2>4, <2>5, <1>14
<1> QED
  BY <1>8, <1>12, <1>13, <1>14 DEF DeliveryInv

=============================================================================
