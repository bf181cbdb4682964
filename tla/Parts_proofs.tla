------------------------------ MODULE Parts_proofs ------------------------------
(***************************************************************************)
(* The smaller components, each for every value of its constants: the      *)
(* choice of the next pending job, the progress channels, the scope tree,  *)
(* assisted selection, the diagnostics hub and the shared cache budget;    *)
(* and, with the native lanes, the types of all of them together.          *)
(***************************************************************************)
EXTENDS PartsMC, AffinityBackend_proofs, WellFoundedInduction

-----------------------------------------------------------------------------
(* SchedulerAging: how briefly a pending job is overtaken, for every       *)
(* number of jobs, every ranking and every aging interval.                 *)

\* Whole intervals of a wait measure it from below and, with one more, from above.
LEMMA WholeIntervals ==
    ASSUME NEW x \in Nat, NEW n \in Nat \ {0}
    PROVE  /\ x \div n \in Nat
           /\ (x \div n) * n <= x
           /\ x < (x \div n) * n + n
    OBVIOUS

\* A product grows with its first factor.
LEMMA ProductGrows ==
    ASSUME NEW i \in Int, NEW j \in Int, NEW n \in Nat \ {0}, i <= j
    PROVE  i * n <= j * n
    OBVIOUS

\* The difference of two products with one factor.
LEMMA ProductOfDifference ==
    ASSUME NEW i \in Int, NEW j \in Int, NEW n \in Int
    PROVE  (i - j + 1) * n = i * n - j * n + n
    OBVIOUS

\* Before any job.
LEMMA AgingStarts == AgingInit => AgingTypeOK
<1> SUFFICES ASSUME AgingInit PROVE AgingTypeOK
  OBVIOUS
<1>1. (CHOOSE r \in Ranks : TRUE) \in Ranks
  BY AgingAssumption DEF AgingAssumption
<1> DEFINE least == CHOOSE r \in Ranks : TRUE
<1>2. /\ now = 0 /\ sequence = 0 /\ pendingJobs = {} /\ eligible = {}
      /\ queuedAt = [j \in Jobs |-> 0] /\ rank = [j \in Jobs |-> least]
  BY DEF AgingInit
<1>3. least \in Ranks /\ MaxTime \in Nat /\ MaxJobs \in Nat
  BY <1>1, AgingAssumption DEF AgingAssumption
<1> HIDE DEF least
<1>4. 0 \in 0..MaxTime /\ 0 \in 0..MaxJobs /\ 1..sequence = {}
  BY <1>2, <1>3
<1> QED
  BY <1>2, <1>3, <1>4 DEF AgingTypeOK

\* Every step keeps the order of the queue.
LEMMA AgingStep == AgingTypeOK /\ [AgingNext]_agingVars => AgingTypeOK'
<1> SUFFICES ASSUME AgingTypeOK, [AgingNext]_agingVars PROVE AgingTypeOK'
  OBVIOUS
<1> USE AgingAssumption DEF AgingAssumption, AgingTypeOK, Jobs
<1>1. CASE Tick
  BY <1>1 DEF Tick
<1>2. CASE Queue
  <2>1. /\ sequence' = sequence + 1 /\ sequence' \in 1..MaxJobs
        /\ now' = now /\ queuedAt' = [queuedAt EXCEPT ![sequence'] = now]
    BY <1>2 DEF Queue
  <2>2. PICK r \in Ranks : rank' = [rank EXCEPT ![sequence'] = r]
    BY <1>2 DEF Queue
  <2>3. pendingJobs' \subseteq 1..sequence' /\ eligible' \subseteq pendingJobs'
    BY <1>2, <2>1 DEF Queue
  <2>4. /\ queuedAt' \in [Jobs -> 0..MaxTime]
        /\ \A i \in 1..sequence' : queuedAt'[i] <= now'
    BY <2>1
  <2>5. \A i, j \in 1..sequence' : i <= j => queuedAt'[i] <= queuedAt'[j]
    <3> TAKE i, j \in 1..sequence'
    <3>1. CASE j = sequence'
      BY <3>1, <2>1, <2>4
    <3>2. CASE j # sequence'
      BY <3>2, <2>1
    <3> QED
      BY <3>1, <3>2
  <2> QED
    BY <2>1, <2>2, <2>3, <2>4, <2>5
<1>3. CASE LimitsChange
  BY <1>3 DEF LimitsChange
<1>4. ASSUME NEW j \in pendingJobs, Withdraw(j) PROVE AgingTypeOK'
  BY <1>4 DEF Withdraw
<1>5. CASE TakeNext
  BY <1>5 DEF TakeNext
<1>6. CASE UNCHANGED agingVars
  BY <1>6 DEF agingVars
<1> QED
  BY <1>1, <1>2, <1>3, <1>4, <1>5, <1>6 DEF AgingNext

\* Every variable has its type; jobs are queued in the order of their numbers
\* and never in the future.
THEOREM AgingTypeCorrect == AgingSpec => []AgingTypeOK
  BY AgingStarts, AgingStep, PTL DEF AgingSpec

\* Of two eligible jobs the later one is taken only while the earlier one is
\* behind by more ranks than it is ahead in whole intervals.
LEMMA OvertakingIsBrief ==
    ASSUME AgingTypeOK, NEW i \in pendingJobs, NEW j \in pendingJobs,
           i < j, Before(j, i)
    PROVE  queuedAt[j] - queuedAt[i] < (rank[i] - rank[j]) * Interval
<1> DEFINE waited(k) == now - queuedAt[k]
           age(k) == waited(k) \div Interval
<1>1. /\ i \in Nat /\ j \in Nat /\ rank[i] \in Nat /\ rank[j] \in Nat
      /\ waited(i) \in Nat /\ waited(j) \in Nat /\ now \in Nat
      /\ queuedAt[i] \in Nat /\ queuedAt[j] \in Nat
  <2>1. i \in 1..sequence /\ j \in 1..sequence /\ sequence \in 0..MaxJobs /\ MaxJobs \in Nat
    BY AgingAssumption DEF AgingAssumption, AgingTypeOK
  <2>2. i \in Jobs /\ j \in Jobs
    BY <2>1 DEF Jobs
  <2>3. /\ queuedAt[i] \in 0..MaxTime /\ queuedAt[j] \in 0..MaxTime /\ now \in 0..MaxTime
        /\ rank[i] \in Ranks /\ rank[j] \in Ranks
        /\ queuedAt[i] <= now /\ queuedAt[j] <= now
    <3>1. i \in 1..sequence => queuedAt[i] <= now
      BY DEF AgingTypeOK
    <3>2. j \in 1..sequence => queuedAt[j] <= now
      BY DEF AgingTypeOK
    <3>3. /\ now \in 0..MaxTime /\ queuedAt \in [Jobs -> 0..MaxTime] /\ rank \in [Jobs -> Ranks]
      BY DEF AgingTypeOK
    <3> QED
      BY <2>1, <2>2, <3>1, <3>2, <3>3
  <2>4. rank[i] \in Nat /\ rank[j] \in Nat
    BY <2>3, AgingAssumption DEF AgingAssumption
  <2>5. i \in Nat /\ j \in Nat
    BY <2>1
  <2>6. MaxTime \in Nat
    BY AgingAssumption DEF AgingAssumption
  <2>7. now \in Nat /\ queuedAt[i] \in Nat /\ queuedAt[j] \in Nat
    BY <2>3, <2>6
  <2>8. now - queuedAt[i] \in Nat /\ now - queuedAt[j] \in Nat
    BY <2>3, <2>7
  <2> QED
    BY <2>4, <2>5, <2>7, <2>8
<1>2. Interval \in Nat \ {0}
  BY AgingAssumption DEF AgingAssumption
<1>3. /\ age(i) \in Nat /\ waited(i) < age(i) * Interval + Interval
      /\ age(j) \in Nat /\ age(j) * Interval <= waited(j)
  BY <1>1, <1>2, WholeIntervals
<1>4. rank[j] - age(j) < rank[i] - age(i)
  <2> HIDE DEF age
  <2>1. Score(i) = rank[i] - age(i) /\ Score(j) = rank[j] - age(j)
    BY DEF Score, age
  <2> QED
    BY <2>1, <1>1, <1>3 DEF Before
<1> HIDE DEF age
<1>5. age(i) - age(j) + 1 <= rank[i] - rank[j]
  BY <1>1, <1>3, <1>4
<1>6. age(i) * Interval - age(j) * Interval + Interval <= (rank[i] - rank[j]) * Interval
  <2>1. (age(i) - age(j) + 1) * Interval <= (rank[i] - rank[j]) * Interval
    BY <1>1, <1>2, <1>3, <1>5, ProductGrows
  <2> QED
    BY <2>1, <1>2, <1>3, ProductOfDifference
<1> DEFINE late == age(i) * Interval
           early == age(j) * Interval
           behind == (rank[i] - rank[j]) * Interval
<1>7. late \in Int /\ early \in Int /\ behind \in Int
  BY <1>1, <1>2, <1>3
<1>8. waited(i) < late + Interval /\ early <= waited(j) /\ late - early + Interval <= behind
  BY <1>3, <1>6
<1> HIDE DEF late, early, behind
<1>9. queuedAt[j] - queuedAt[i] < behind
  BY <1>1, <1>2, <1>7, <1>8
<1> QED
  BY <1>9 DEF behind

\* A job that may start is overtaken by a later one only while it is more
\* ranks behind than whole intervals older (_take_next_locked).
THEOREM OvertakenBrieflyAlways == AgingSpec => OvertakenBriefly
<1> DEFINE Brief ==
      TakeNext =>
        \A j \in pendingJobs \ pendingJobs', i \in eligible' :
            i < j => queuedAt[j] - queuedAt[i] < (rank[i] - rank[j]) * Interval
<1>1. AgingTypeOK /\ [AgingNext]_agingVars => [Brief]_agingVars
  <2> SUFFICES ASSUME AgingTypeOK, TakeNext,
                      NEW j \in pendingJobs \ pendingJobs', NEW i \in eligible', i < j
               PROVE  queuedAt[j] - queuedAt[i] < (rank[i] - rank[j]) * Interval
    OBVIOUS
  <2>1. PICK t \in eligible : /\ \A e \in eligible : Before(t, e)
                              /\ pendingJobs' = pendingJobs \ {t}
                              /\ eligible' = eligible \ {t}
    BY DEF TakeNext
  <2>2. j = t /\ i \in eligible /\ eligible \subseteq pendingJobs
    BY <2>1 DEF AgingTypeOK
  <2> QED
    BY <2>1, <2>2, OvertakingIsBrief
<1> QED
  BY <1>1, AgingTypeCorrect, PTL DEF AgingSpec, OvertakenBriefly

-----------------------------------------------------------------------------
(* ProgressChannel: one delivery at a time.                                *)

IsDelivering(a) == step[a] \in Delivering

\* The delivery that is queued, being posted, posted or made is the only one.
Alone ==
    /\ \A a, b \in Threads : IsDelivering(a) /\ IsDelivering(b) => a = b
    /\ posted > 0 => \A a \in Threads : ~IsDelivering(a)
    /\ (posted > 0 \/ \E a \in Threads : IsDelivering(a)) => queued

ProgressInv == ProgressTypeOK /\ Alone

\* The parts of ProgressTypeOK.
NumbersOK ==
    /\ reported \in 0..MaxReports /\ latest \in 0..reported /\ seen \in 0..reported
    /\ taken \in [Threads -> 0..reported]
    /\ posted \in 0..1
FlagsOK ==
    /\ inline \in BOOLEAN /\ queued \in BOOLEAN /\ channelClosed \in BOOLEAN
    /\ observed \in BOOLEAN /\ receiverGone \in BOOLEAN
StepsOK == step \in [Threads -> {"idle"} \cup Delivering]

\* The parts are the whole.
LEMMA TypeParts == ProgressTypeOK <=> NumbersOK /\ FlagsOK /\ StepsOK
  BY DEF ProgressTypeOK, NumbersOK, FlagsOK, StepsOK

\* Initially nobody delivers and nothing is posted.
LEMMA InitProgressInv == ProgressInit => ProgressInv
<1> SUFFICES ASSUME ProgressInit PROVE ProgressInv
  OBVIOUS
<1>1. NumbersOK
  BY ProgressAssumption DEF ProgressAssumption, ProgressInit, NumbersOK
<1>2. FlagsOK
  BY DEF ProgressInit, FlagsOK
<1>3. StepsOK /\ Alone
  BY DEF ProgressInit, StepsOK, Alone, IsDelivering, Delivering
<1> QED
  BY <1>1, <1>2, <1>3, TypeParts DEF ProgressInv

\* Every action keeps the numbers, the flags and the threads' places in their
\* ranges, and at most one delivery under way.
LEMMA StepKeepsProgressInv == ProgressInv /\ [ProgressNext]_progressVars => ProgressInv'
<1> SUFFICES ASSUME ProgressInv, [ProgressNext]_progressVars PROVE ProgressInv'
  OBVIOUS
<1>t. NumbersOK /\ FlagsOK /\ StepsOK /\ Alone
  BY TypeParts DEF ProgressInv
<1> SUFFICES NumbersOK' /\ FlagsOK' /\ StepsOK' /\ Alone'
  BY TypeParts DEF ProgressInv, ProgressTypeOK, NumbersOK, FlagsOK, StepsOK
<1> USE <1>t DEF Goes, Closed
<1>n. MaxReports \in Nat
  BY ProgressAssumption DEF ProgressAssumption
<1>1. ASSUME NEW a \in Reporters, Report(a) PROVE NumbersOK' /\ FlagsOK' /\ StepsOK' /\ Alone'
  <2> a \in Threads
    BY DEF Threads
  <2>1. NumbersOK'
    BY <1>1, <1>n DEF Report, NumbersOK
  <2>2. FlagsOK'
    BY <1>1 DEF Report, FlagsOK
  <2>3. StepsOK'
    BY <1>1 DEF Report, StepsOK, Delivering
  <2>4. Alone'
    BY <1>1 DEF Report, Alone, StepsOK, NumbersOK, IsDelivering, Delivering
  <2> QED
    BY <2>1, <2>2, <2>3, <2>4
<1>2. ASSUME NEW a \in Threads, QueueDelivery(a) PROVE NumbersOK' /\ FlagsOK' /\ StepsOK' /\ Alone'
  <2>0. posted = 0 /\ queued
    BY <1>2 DEF QueueDelivery, Alone, IsDelivering, Delivering, NumbersOK
  <2>1. NumbersOK'
    BY <1>2, <1>n, <2>0 DEF QueueDelivery, NumbersOK
  <2>2. FlagsOK'
    BY <1>2 DEF QueueDelivery, FlagsOK
  <2>3. StepsOK'
    BY <1>2 DEF QueueDelivery, StepsOK, Delivering
  <2>4. Alone'
    BY <1>2, <2>0 DEF QueueDelivery, Alone, StepsOK, NumbersOK, IsDelivering, Delivering
  <2> QED
    BY <2>1, <2>2, <2>3, <2>4
<1>3. ASSUME NEW a \in Threads, Deliver(a) PROVE NumbersOK' /\ FlagsOK' /\ StepsOK' /\ Alone'
  <2>1. NumbersOK'
    BY <1>3, <1>n DEF Deliver, NumbersOK
  <2>2. FlagsOK'
    BY <1>3 DEF Deliver, FlagsOK
  <2>3. StepsOK'
    BY <1>3 DEF Deliver, StepsOK, Delivering
  <2>4. Alone'
    BY <1>3 DEF Deliver, Alone, StepsOK, NumbersOK, IsDelivering, Delivering
  <2> QED
    BY <2>1, <2>2, <2>3, <2>4
<1>4. ASSUME NEW a \in Threads, CallObserver(a) PROVE NumbersOK' /\ FlagsOK' /\ StepsOK' /\ Alone'
  <2>1. NumbersOK'
    BY <1>4, <1>n DEF CallObserver, NumbersOK
  <2>2. FlagsOK'
    BY <1>4 DEF CallObserver, FlagsOK
  <2>3. StepsOK'
    BY <1>4 DEF CallObserver, StepsOK, Delivering
  <2>4. Alone'
    BY <1>4 DEF CallObserver, Alone, StepsOK, NumbersOK, IsDelivering, Delivering
  <2> QED
    BY <2>1, <2>2, <2>3, <2>4
<1>5. ASSUME NEW a \in Threads, AfterCall(a) PROVE NumbersOK' /\ FlagsOK' /\ StepsOK' /\ Alone'
  <2>1. NumbersOK'
    BY <1>5, <1>n DEF AfterCall, NumbersOK
  <2>2. FlagsOK'
    BY <1>5 DEF AfterCall, FlagsOK
  <2>3. StepsOK'
    BY <1>5 DEF AfterCall, StepsOK, Delivering
  <2>4. Alone'
    BY <1>5 DEF AfterCall, Alone, StepsOK, NumbersOK, IsDelivering, Delivering
  <2> QED
    BY <2>1, <2>2, <2>3, <2>4
<1>6. CASE EventLoop
  <2> Owner \in Threads
    BY DEF Threads
  <2>0. posted = 1 /\ posted' = 0 /\ queued
    BY <1>6 DEF EventLoop, Alone, NumbersOK
  <2>1. NumbersOK'
    BY <1>6, <1>n, <2>0 DEF EventLoop, NumbersOK
  <2>2. FlagsOK'
    BY <1>6 DEF EventLoop, FlagsOK
  <2>3. StepsOK'
    BY <1>6 DEF EventLoop, StepsOK, Delivering
  <2>4. Alone'
    BY <1>6, <2>0 DEF EventLoop, Alone, StepsOK, NumbersOK, IsDelivering, Delivering
  <2> QED
    BY <2>1, <2>2, <2>3, <2>4
<1>7. CASE CloseChannel
  <2>1. NumbersOK'
    BY <1>7, <1>n DEF CloseChannel, NumbersOK
  <2>2. FlagsOK'
    BY <1>7 DEF CloseChannel, FlagsOK
  <2>3. StepsOK'
    BY <1>7 DEF CloseChannel, StepsOK, Delivering
  <2>4. Alone'
    BY <1>7 DEF CloseChannel, Alone, StepsOK, NumbersOK, IsDelivering, Delivering
  <2> QED
    BY <2>1, <2>2, <2>3, <2>4
<1>8. CASE CloseReceiver
  <2>1. NumbersOK'
    BY <1>8, <1>n DEF CloseReceiver, NumbersOK
  <2>2. FlagsOK'
    BY <1>8 DEF CloseReceiver, FlagsOK
  <2>3. StepsOK'
    BY <1>8 DEF CloseReceiver, StepsOK, Delivering
  <2>4. Alone'
    BY <1>8 DEF CloseReceiver, Alone, StepsOK, NumbersOK, IsDelivering, Delivering
  <2> QED
    BY <2>1, <2>2, <2>3, <2>4
<1>9. CASE UNCHANGED progressVars
  <2>1. NumbersOK'
    BY <1>9, <1>n DEF progressVars, NumbersOK
  <2>2. FlagsOK'
    BY <1>9 DEF progressVars, FlagsOK
  <2>3. StepsOK'
    BY <1>9 DEF progressVars, StepsOK, Delivering
  <2>4. Alone'
    BY <1>9 DEF progressVars, Alone, StepsOK, NumbersOK, IsDelivering, Delivering
  <2> QED
    BY <2>1, <2>2, <2>3, <2>4
<1> QED
  BY <1>1, <1>2, <1>3, <1>4, <1>5, <1>6, <1>7, <1>8, <1>9 DEF ProgressNext, DeliveryStep

\* ProgressInv always holds.
LEMMA AlwaysProgressInv == ProgressSpec => []ProgressInv
  BY InitProgressInv, StepKeepsProgressInv, PTL DEF ProgressSpec

\* Every variable has its type.
THEOREM ProgressTypeCorrect == ProgressSpec => []ProgressTypeOK
<1>1. ProgressInv => ProgressTypeOK
  BY DEF ProgressInv
<1> QED
  BY <1>1, AlwaysProgressInv, PTL

\* At most one delivery is on its way or being made (_queue_delivery, _deliver).
THEOREM OneDeliveryAlways == ProgressSpec => []OneDelivery
<1>1. ProgressInv => OneDelivery
  <2> SUFFICES ASSUME ProgressInv PROVE OneDelivery
    OBVIOUS
  <2> DEFINE busy == {a \in Threads : step[a] \in Delivering}
  <2>1. posted \in 0..1
    BY DEF ProgressInv, ProgressTypeOK
  <2>2. CASE busy = {}
    <3>1. Cardinality(busy) = 0
      BY <2>2, FS_EmptySet
    <3> HIDE DEF busy
    <3>2. Cardinality(busy) + posted <= 1
      BY <2>1, <3>1
    <3> QED
      BY <3>2 DEF busy, OneDelivery, ProgressInv, Alone, IsDelivering
  <2>3. CASE busy # {}
    <3>1. PICK a : busy = {a}
      BY <2>3 DEF ProgressInv, Alone, IsDelivering
    <3>2. Cardinality(busy) = 1
      BY <3>1, FS_Singleton
    <3>3. posted = 0
      BY <2>1, <2>3 DEF ProgressInv, Alone, IsDelivering
    <3> HIDE DEF busy
    <3>4. Cardinality(busy) + posted <= 1
      BY <3>2, <3>3
    <3> QED
      BY <3>4 DEF busy, OneDelivery, ProgressInv, Alone, IsDelivering
  <2> QED
    BY <2>2, <2>3
<1> QED
  BY <1>1, AlwaysProgressInv, PTL

-----------------------------------------------------------------------------
(* ProgressChannel: what the observer is called with.                      *)

\* What is pending is newer than what a thread has taken, and that is newer than
\* what the observer has seen.
ReportsFit ==
    /\ latest \in {0, reported} /\ (latest # 0 => seen < latest)
    /\ \A a \in Threads : step[a] = "call" =>
          taken[a] > seen /\ (latest # 0 => taken[a] < latest)
    /\ Suppressed => latest = 0
ReportsInv == ProgressInv /\ ReportsFit
InboxMoves == [Inbox!LatestNext]_(Inbox!latestVars)

\* The value that the only calling thread has taken.
LEMMA OnlyCaller ==
    ASSUME NEW st, NEW v, NEW a \in Threads, st[a] = "call",
           \A b \in Threads : st[b] = "call" => b = a
    PROVE  LET callers == {b \in Threads : st[b] = "call"}
           IN  (IF callers = {} THEN 0 ELSE v[CHOOSE b \in callers : TRUE]) = v[a]
<1>1. PICK callers : callers = {b \in Threads : st[b] = "call"}
  OBVIOUS
<1>2. callers = {a}
  BY <1>1
<1>3. (CHOOSE b \in callers : TRUE) = a
  BY <1>2
<1>. QED  BY <1>1, <1>2, <1>3

\* What is in hand, now and next.
LEMMA InHandNow ==
    ASSUME ProgressInv, ProgressInv'
    PROVE  /\ \A a \in Threads : step[a] = "call" => InHand = taken[a]
           /\ \A a \in Threads : step'[a] = "call" => InHand' = taken'[a]
           /\ (\A a \in Threads : step[a] # "call") => InHand = 0
           /\ (\A a \in Threads : step'[a] # "call") => InHand' = 0
<1>1. ASSUME NEW a \in Threads, step[a] = "call" PROVE InHand = taken[a]
  <2>1. \A b \in Threads : step[b] = "call" => b = a
    BY <1>1 DEF ProgressInv, Alone, IsDelivering, Delivering
  <2>. QED  BY <1>1, <2>1, OnlyCaller DEF InHand
<1>2. ASSUME NEW a \in Threads, step'[a] = "call" PROVE InHand' = taken'[a]
  <2>1. \A b \in Threads : step'[b] = "call" => b = a
    BY <1>2 DEF ProgressInv, Alone, IsDelivering, Delivering
  <2>. QED  BY <1>2, <2>1, OnlyCaller DEF InHand
<1>3. (\A a \in Threads : step[a] # "call") => InHand = 0
  BY DEF InHand
<1>4. (\A a \in Threads : step'[a] # "call") => InHand' = 0
  BY DEF InHand
<1>. QED  BY <1>1, <1>2, <1>3, <1>4

\* Nobody begins or ends a call.
LEMMA SameInHand ==
    ASSUME ProgressInv, ProgressInv', UNCHANGED taken,
           \A a \in Threads : step'[a] = "call" <=> step[a] = "call"
    PROVE  InHand' = InHand
  BY InHandNow

\* One action at a time: the numbers of the reports, and the abstract inbox.
ReportsKept == ReportsFit' /\ InboxMoves

\* A report is an offer.
LEMMA ReportKeeps ==
    ASSUME ReportsInv, ProgressInv', NEW a \in Reporters, Report(a) PROVE ReportsKept
<1>. USE DEF ReportsInv, Goes
<1>0. reported \in Nat /\ latest \in 0..reported /\ seen \in 0..reported /\ a \in Threads
      /\ taken \in [Threads -> 0..reported] /\ step \in [Threads -> {"idle"} \cup Delivering]
  BY DEF ProgressInv, ProgressTypeOK, Threads
<1>1. ReportsFit'
  <2>1. ASSUME NEW b \in Threads, step'[b] = "call" PROVE taken[b] > seen /\ taken[b] < reported + 1
    BY <1>0, <2>1 DEF Report, ReportsFit
  <2>. QED  BY <1>0, <2>1 DEF Report, ReportsFit, Suppressed
<1>2. Inbox!Offer
  <2>1. InHand' = InHand
    BY <1>0, SameInHand DEF Report
  <2>2. (latest' # 0) = TRUE /\ reported' = reported + 1 /\ Suppressed' = Suppressed /\ seen' = seen
    BY <1>0 DEF Report, Suppressed
  <2>. QED  BY <2>1, <2>2 DEF Inbox!Offer
<1>. QED  BY <1>1, <1>2 DEF ReportsKept, InboxMoves, Inbox!LatestNext

\* Nothing is pending, and the channel is closed, or all is as it was.
LEMMA ClosingMoves ==
    ASSUME UNCHANGED <<reported, seen>>, InHand' = InHand,
           \/ Suppressed' /\ latest' \in {0, latest}
           \/ UNCHANGED <<latest, channelClosed, observed>>
    PROVE  InboxMoves
<1>1. CASE UNCHANGED <<latest, channelClosed, observed>>
  <2>1. UNCHANGED (Inbox!latestVars)
    BY <1>1 DEF Inbox!latestVars, Suppressed
  <2>. QED  BY <2>1 DEF InboxMoves
<1>2. CASE Suppressed' /\ latest' \in {0, latest}
  <2>1. (latest' # 0) \in {latest # 0, FALSE}
    BY <1>2
  <2>2. Inbox!Shut
    BY <1>2, <2>1 DEF Inbox!Shut
  <2>. QED  BY <2>2 DEF InboxMoves, Inbox!LatestNext
<1>. QED  BY <1>1, <1>2

\* A close shuts the inbox, or had been; what only moves a delivery is not seen.
LEMMA CloseKeeps ==
    ASSUME ReportsInv, ProgressInv', CloseChannel \/ CloseReceiver \/ EventLoop \/ UNCHANGED progressVars
               \/ \E a \in Threads : QueueDelivery(a) \/ AfterCall(a)
    PROVE  ReportsKept
<1>. USE DEF ReportsInv, Goes, Closed
<1>0. /\ step \in [Threads -> {"idle"} \cup Delivering]
  BY DEF ProgressInv, ProgressTypeOK
<1>1. /\ UNCHANGED <<reported, seen, taken>>
      /\ \/ Suppressed' /\ latest' = 0
         \/ UNCHANGED <<latest, channelClosed, observed>>
  BY DEF CloseChannel, CloseReceiver, EventLoop, QueueDelivery, AfterCall, progressVars, Suppressed
<1>2. \A a \in Threads : step'[a] = "call" <=> step[a] = "call"
  BY <1>0 DEF CloseChannel, CloseReceiver, EventLoop, QueueDelivery, AfterCall, progressVars
<1>3. InHand' = InHand
  BY <1>1, <1>2, SameInHand
<1>4. InboxMoves
  BY <1>1, <1>3, ClosingMoves
<1>5. ReportsFit'
  BY <1>1, <1>2 DEF ReportsFit, Suppressed
<1>. QED  BY <1>4, <1>5 DEF ReportsKept

\* A delivery takes the newest report, unless there is none or it is suppressed.
LEMMA DeliverKeeps ==
    ASSUME ReportsInv, ProgressInv', NEW a \in Threads, Deliver(a) PROVE ReportsKept
<1>. USE DEF ReportsInv, Goes
<1>0. reported \in Nat /\ latest \in 0..reported /\ seen \in 0..reported
      /\ taken \in [Threads -> 0..reported] /\ step \in [Threads -> {"idle"} \cup Delivering]
  BY DEF ProgressInv, ProgressTypeOK
<1>1. \A b \in Threads : b # a => step[b] # "call" /\ step'[b] # "call"
  BY <1>0 DEF ProgressInv, Alone, IsDelivering, Delivering, Deliver
<1>2. InHand = 0
  BY <1>1, InHandNow DEF Deliver
<1>3. CASE Suppressed \/ latest = 0
  <2>1. step'[a] # "call" /\ latest' = 0 /\ latest = 0
    BY <1>0, <1>3 DEF Deliver, ReportsFit
  <2>2. InHand' = 0
    BY <1>1, <2>1, InHandNow
  <2>3. InboxMoves
    BY <1>2, <2>1, <2>2, ClosingMoves DEF Deliver
  <2>. QED  BY <1>1, <2>1, <2>3 DEF Deliver, ReportsFit, ReportsKept, Suppressed
<1>4. CASE ~Suppressed /\ latest # 0
  <2>1. step'[a] = "call" /\ latest' = 0 /\ latest = reported /\ taken'[a] = reported /\ seen < reported
        /\ Suppressed' = Suppressed /\ UNCHANGED <<reported, seen>>
    BY <1>0, <1>4 DEF Deliver, ReportsFit, Suppressed
  <2>2. InHand' = reported
    BY <2>1, InHandNow
  <2>3. (latest # 0) = TRUE /\ (latest' # 0) = FALSE
    BY <1>4, <2>1
  <2>4. Inbox!Take
    BY <1>2, <1>4, <2>1, <2>2, <2>3 DEF Inbox!Take
  <2>5. ReportsFit'
    BY <1>1, <1>4, <2>1 DEF ReportsFit
  <2>. QED  BY <2>4, <2>5 DEF ReportsKept, InboxMoves, Inbox!LatestNext
<1>. QED  BY <1>3, <1>4

\* The observer is called with what is in hand; when it raises the inbox is shut.
LEMMA CallObserverKeeps ==
    ASSUME ReportsInv, ProgressInv', NEW a \in Threads, CallObserver(a) PROVE ReportsKept
<1>. USE DEF ReportsInv, Goes
<1>0. reported \in Nat /\ latest \in 0..reported /\ seen \in 0..reported
      /\ taken \in [Threads -> 0..reported] /\ step \in [Threads -> {"idle"} \cup Delivering]
  BY DEF ProgressInv, ProgressTypeOK
<1>1. \A b \in Threads : step'[b] # "call"
  BY <1>0 DEF ProgressInv, Alone, IsDelivering, Delivering, CallObserver
<1>2. InHand = taken[a] /\ InHand' = 0 /\ taken[a] > seen
  BY <1>1, InHandNow DEF CallObserver, ReportsFit
<1>3. ReportsFit'
  BY <1>0, <1>1, <1>2 DEF CallObserver, ReportsFit, Suppressed
<1>4. Inbox!Call
  <2>1. seen' = taken[a] /\ taken[a] # 0 /\ UNCHANGED reported
    BY <1>0, <1>2 DEF CallObserver
  <2>2. CASE UNCHANGED <<observed, latest>>
    <3>1. Suppressed' = Suppressed /\ (latest' # 0) = (latest # 0)
      BY <2>2 DEF CallObserver, Suppressed
    <3>. QED  BY <1>2, <2>1, <3>1 DEF Inbox!Call
  <2>3. CASE observed' = FALSE /\ latest' = 0
    <3>1. Suppressed' = TRUE /\ (latest' # 0) = FALSE
      BY <2>3 DEF Suppressed
    <3>. QED  BY <1>2, <2>1, <3>1 DEF Inbox!Call
  <2>. QED  BY <2>2, <2>3 DEF CallObserver
<1>. QED  BY <1>3, <1>4 DEF ReportsKept, InboxMoves, Inbox!LatestNext

\* Every step of the channel is a step of the inbox or none.
LEMMA ReportsStep ==
    ASSUME ReportsInv, [ProgressNext]_progressVars PROVE ReportsInv' /\ InboxMoves
<1>1. ProgressInv'
  BY StepKeepsProgressInv DEF ReportsInv
<1>2. ASSUME NEW a \in Reporters, Report(a) PROVE ReportsKept
  BY <1>1, <1>2, ReportKeeps
<1>3. ASSUME NEW a \in Threads, Deliver(a) PROVE ReportsKept
  BY <1>1, <1>3, DeliverKeeps
<1>4. ASSUME NEW a \in Threads, CallObserver(a) PROVE ReportsKept
  BY <1>1, <1>4, CallObserverKeeps
<1>5. ASSUME CloseChannel \/ CloseReceiver \/ EventLoop \/ UNCHANGED progressVars
               \/ \E a \in Threads : QueueDelivery(a) \/ AfterCall(a)
      PROVE  ReportsKept
  <2>. HIDE DEF ReportsInv
  <2>. QED  BY <1>1, <1>5, CloseKeeps
<1>6. ASSUME NEW a \in Threads, DeliveryStep(a) PROVE ReportsKept
  <2>. HIDE DEF ReportsKept
  <2>1. CASE QueueDelivery(a) \/ AfterCall(a)
    BY <1>5, <2>1
  <2>. QED  BY <1>3, <1>4, <1>6, <2>1 DEF DeliveryStep
<1>7. ReportsKept
  <2>. HIDE DEF ReportsKept
  <2>1. CASE ProgressNext
    BY <1>2, <1>5, <1>6, <2>1 DEF ProgressNext
  <2>2. CASE UNCHANGED progressVars
    BY <1>5, <2>2
  <2>. QED  BY <2>1, <2>2
<1>. QED  BY <1>1, <1>7 DEF ReportsInv, ReportsKept

\* A new channel has an empty inbox.
LEMMA ReportsStart == ProgressInit => ReportsInv /\ Inbox!LatestInit
<1>. SUFFICES ASSUME ProgressInit PROVE ReportsInv /\ Inbox!LatestInit
  OBVIOUS
<1>1. ReportsFit
  BY DEF ProgressInit, ReportsFit
<1>2. InHand = 0
  BY DEF ProgressInit, InHand
<1>3. Inbox!LatestInit
  BY <1>2 DEF ProgressInit, Inbox!LatestInit, Suppressed
<1>. QED  BY <1>1, <1>3, InitProgressInv DEF ReportsInv

\* The channel implements LatestValue (report, close, _queue_delivery, _deliver):
\* whatever threads report and close it, the observer is called with newer and
\* newer reports, the newest when a delivery takes one, and no report is taken
\* once the channel is closed or the observer dropped.
THEOREM ProgressCoalescesAlways == ProgressSpec => ProgressCoalesces
<1>1. ReportsInv /\ [ProgressNext]_progressVars => ReportsInv' /\ InboxMoves
  BY ReportsStep
<1>. QED  BY <1>1, ReportsStart, PTL DEF ProgressSpec, ProgressCoalesces, Inbox!LatestSpec, InboxMoves

-----------------------------------------------------------------------------
(* ScopeTree: nothing escapes a close.                                     *)

\* A close runs only in a closed scope, and waits for a child that is closed.
FramesInv ==
    \A n \in Nodes :
        /\ life[n] # "closed" => frame[n] = "none" /\ toClose[n] = {} /\ calling[n] = Nobody
        /\ calling[n] # Nobody => life[calling[n]] = "closed"
        /\ frame[n] = "returned" => toCancel[n] = {}

\* A scope is a child of its parent only, and an open one is with its parent
\* or with the close of its parent.
ChildrenInv ==
    /\ \A s \in Scopes : life[s] = "open" =>
        parent[s] \in Nodes /\ s \in children[parent[s]] \cup toClose[parent[s]]
    /\ \A n \in Nodes : \A s \in children[n] : parent[s] = n /\ life[s] # "unopened"
    /\ \A s \in Scopes : frame[s] = "returned" => \A n \in Nodes : s \notin children[n]

\* Only a scope that was opened has a parent.
OpenedInv == \A s \in Scopes : parent[s] # Nobody => life[s] # "unopened"

ScopeInv == TreeTypeOK /\ FramesInv /\ ChildrenInv /\ OpenedInv /\ NothingEscapesClose

\* No scope is the root, and none is the mark of a scope without a parent.
LEMMA NodesAreDistinct ==
    /\ Scopes \subseteq Nodes /\ Runtime \in Nodes /\ Runtime \notin Scopes
    /\ Nobody \notin Nodes
  BY TreeAssumption DEF TreeAssumption, Nodes

\* Initially there is only the root, which is open.
LEMMA InitScopeInv == TreeInit => ScopeInv
  BY NodesAreDistinct
  DEF TreeInit, ScopeInv, TreeTypeOK, FramesInv, ChildrenInv, OpenedInv, NothingEscapesClose

-----------------------------------------------------------------------------
\* A new scope joins an open one.
LEMMA OpenedKeepsScopeInv ==
    ASSUME ScopeInv, NEW p \in Nodes, NEW s \in Scopes,
           ~Exhausted, Unopened(s), life[p] = "open", Opened(p, s)
    PROVE  ScopeInv'
<1>0. life[s] = "unopened" /\ s # p /\ s \in Nodes
  BY NodesAreDistinct DEF Exhausted, Unopened
<1> USE NodesAreDistinct DEF Opened
<1>1. TreeTypeOK'
  BY <1>0 DEF ScopeInv, TreeTypeOK
<1>2. FramesInv'
  BY <1>0 DEF ScopeInv, TreeTypeOK, FramesInv
<1>3. ChildrenInv'
  BY <1>0 DEF ScopeInv, TreeTypeOK, FramesInv, ChildrenInv
<1>4. NothingEscapesClose'
  BY <1>0 DEF ScopeInv, TreeTypeOK, FramesInv, NothingEscapesClose
<1>5. OpenedInv'
  BY <1>0 DEF ScopeInv, TreeTypeOK, OpenedInv
<1> QED
  BY <1>1, <1>2, <1>3, <1>4, <1>5 DEF ScopeInv

\* The children a closing scope collects stay with its close, be it called by
\* the owner or by the close of the parent.
LEMMA CollectKeepsParts ==
    ASSUME ScopeInv, NEW n \in Nodes, Collect(n),
           UNCHANGED <<parent, tracked, relieved>>
    PROVE  /\ life' \in [Nodes -> {"unopened", "open", "closed"}]
           /\ children' \in [Nodes -> SUBSET Scopes]
           /\ frame' \in [Nodes -> {"none", "children", "handles", "returned"}]
           /\ toClose' \in [Nodes -> SUBSET Scopes]
           /\ toCancel' \in [Nodes -> SUBSET Handles]
           /\ ChildrenInv' /\ OpenedInv' /\ NothingEscapesClose'
<1> USE NodesAreDistinct DEF Collect
<1>0. toClose[n] = {} /\ frame[n] = "none"
  BY DEF ScopeInv, FramesInv
<1>1. /\ life' \in [Nodes -> {"unopened", "open", "closed"}]
      /\ children' \in [Nodes -> SUBSET Scopes]
      /\ frame' \in [Nodes -> {"none", "children", "handles", "returned"}]
      /\ toClose' \in [Nodes -> SUBSET Scopes]
      /\ toCancel' \in [Nodes -> SUBSET Handles]
  BY DEF ScopeInv, TreeTypeOK
<1>2. ChildrenInv'
  BY <1>0 DEF ScopeInv, TreeTypeOK, ChildrenInv
<1>3. NothingEscapesClose'
  <2> SUFFICES ASSUME NEW m \in Nodes, life'[m] = "closed"
               PROVE  /\ \A s \in Scopes : parent'[s] = m =>
                          life'[s] = "closed" \/ (frame'[m] = "children" /\ s \in toClose'[m])
                      /\ \A h \in tracked'[m] :
                          h \in relieved' \/ (frame'[m] \in {"children", "handles"}
                                             /\ h \in toCancel'[m])
    BY DEF NothingEscapesClose
  <2>1. CASE m = n
    <3>1. \A s \in Scopes : parent[s] = n => life'[s] \in {"unopened", "closed"} \/ s \in children[n]
      BY <1>0, <1>1 DEF ScopeInv, TreeTypeOK, ChildrenInv
    <3>2. \A s \in Scopes : parent[s] = n => life[s] # "unopened"
      BY DEF ScopeInv, OpenedInv
    <3> QED
      BY <2>1, <3>1, <3>2 DEF ScopeInv, TreeTypeOK
  <2>2. CASE m # n
    BY <2>2 DEF ScopeInv, TreeTypeOK, NothingEscapesClose
  <2> QED
    BY <2>1, <2>2
<1>4. OpenedInv'
  BY DEF ScopeInv, TreeTypeOK, OpenedInv
<1> QED
  BY <1>1, <1>2, <1>3, <1>4

-----------------------------------------------------------------------------
\* Every step of a close or an open keeps what is open within reach.
LEMMA StepKeepsScopeInv == ScopeInv /\ [TreeNext]_treeVars => ScopeInv'
<1> SUFFICES ASSUME ScopeInv, [TreeNext]_treeVars PROVE ScopeInv'
  OBVIOUS
<1> USE NodesAreDistinct
<1>1. ASSUME NEW p \in Nodes, NEW s \in Scopes, OpenChild(p, s) PROVE ScopeInv'
  BY <1>1, OpenedKeepsScopeInv DEF OpenChild
<1>2. ASSUME NEW p \in Scopes, NEW s \in Scopes, OpenFinalizationScope(p, s) PROVE ScopeInv'
  BY <1>2, OpenedKeepsScopeInv DEF OpenFinalizationScope
<1>3. ASSUME NEW s \in Scopes, NEW h \in Handles, RegisterHandle(s, h) PROVE ScopeInv'
  BY <1>3 DEF RegisterHandle, ScopeInv, TreeTypeOK, FramesInv, ChildrenInv, OpenedInv, NothingEscapesClose
<1>4. ASSUME NEW s \in Scopes, NEW h \in Handles, ReleaseHandle(s, h) PROVE ScopeInv'
  BY <1>4 DEF ReleaseHandle, ScopeInv, TreeTypeOK, FramesInv, ChildrenInv, OpenedInv, NothingEscapesClose
<1>5. ASSUME NEW s \in Scopes, NEW h \in Handles, CancelHandle(s, h) PROVE ScopeInv'
  BY <1>5 DEF CancelHandle, ScopeInv, TreeTypeOK, FramesInv, ChildrenInv, OpenedInv, NothingEscapesClose
<1>6. ASSUME NEW n \in Nodes, CloseNode(n) PROVE ScopeInv'
  <2>1. TreeTypeOK' /\ ChildrenInv' /\ OpenedInv' /\ NothingEscapesClose'
    BY <1>6, CollectKeepsParts DEF CloseNode, ScopeInv, TreeTypeOK
  <2>2. FramesInv'
    BY <1>6 DEF CloseNode, Collect, ScopeInv, TreeTypeOK, FramesInv
  <2> QED
    BY <2>1, <2>2 DEF ScopeInv
<1>7. ASSUME NEW n \in Nodes, CloseNextChild(n) PROVE ScopeInv'
  <2>1. PICK c \in toClose[n] :
        \/ /\ Collect(c)
           /\ calling' = [calling EXCEPT ![n] = c]
           /\ UNCHANGED <<parent, tracked, relieved>>
        \/ /\ life[c] = "closed"
           /\ toClose' = [toClose EXCEPT ![n] = @ \ {c}]
           /\ UNCHANGED <<life, parent, children, tracked, frame, calling, toCancel, relieved>>
    BY <1>7 DEF CloseNextChild
  <2>2. c \in Scopes /\ c \in Nodes
    BY DEF ScopeInv, TreeTypeOK
  <2>3. CASE /\ Collect(c)
             /\ calling' = [calling EXCEPT ![n] = c]
             /\ UNCHANGED <<parent, tracked, relieved>>
    <3>1. TreeTypeOK' /\ ChildrenInv' /\ OpenedInv' /\ NothingEscapesClose'
      BY <2>2, <2>3, CollectKeepsParts DEF ScopeInv, TreeTypeOK
    <3>2. life[n] = "closed" /\ n # c
      BY <1>7, <2>3 DEF CloseNextChild, Collect, ScopeInv, FramesInv
    <3>3. FramesInv'
      BY <2>2, <2>3, <3>2 DEF Collect, ScopeInv, TreeTypeOK, FramesInv
    <3> QED
      BY <3>1, <3>3 DEF ScopeInv
  <2>4. CASE /\ life[c] = "closed"
             /\ toClose' = [toClose EXCEPT ![n] = @ \ {c}]
             /\ UNCHANGED <<life, parent, children, tracked, frame, calling, toCancel, relieved>>
    BY <2>2, <2>4 DEF ScopeInv, TreeTypeOK, FramesInv, ChildrenInv, OpenedInv, NothingEscapesClose
  <2> QED
    BY <2>1, <2>3, <2>4
<1>8. ASSUME NEW n \in Nodes, ChildReturned(n) PROVE ScopeInv'
  <2>1. life[calling[n]] = "closed"
    BY <1>8 DEF ChildReturned, ScopeInv, FramesInv
  <2> QED
    BY <1>8, <2>1
    DEF ChildReturned, ScopeInv, TreeTypeOK, FramesInv, ChildrenInv, OpenedInv, NothingEscapesClose
<1>9. ASSUME NEW n \in Nodes, ChildrenDone(n) PROVE ScopeInv'
  BY <1>9 DEF ChildrenDone, ScopeInv, TreeTypeOK, FramesInv, ChildrenInv, OpenedInv, NothingEscapesClose
<1>10. ASSUME NEW n \in Nodes, CancelNextHandle(n) PROVE ScopeInv'
  BY <1>10 DEF CancelNextHandle, ScopeInv, TreeTypeOK, FramesInv, ChildrenInv, OpenedInv, NothingEscapesClose
<1>11. ASSUME NEW n \in Nodes, Unlink(n) PROVE ScopeInv'
  <2>0. life[n] = "closed"
    BY <1>11 DEF Unlink, ScopeInv, FramesInv
  <2>1. TreeTypeOK'
    BY <1>11 DEF Unlink, ScopeInv, TreeTypeOK
  <2>2. FramesInv'
    BY <1>11, <2>0 DEF Unlink, ScopeInv, TreeTypeOK, FramesInv
  <2>3. ChildrenInv'
    BY <1>11, <2>0 DEF Unlink, ScopeInv, TreeTypeOK, ChildrenInv
  <2>4. NothingEscapesClose' /\ OpenedInv'
    BY <1>11, <2>0 DEF Unlink, ScopeInv, TreeTypeOK, NothingEscapesClose, OpenedInv
  <2> QED
    BY <2>1, <2>2, <2>3, <2>4 DEF ScopeInv
<1>12. CASE UNCHANGED treeVars
  BY <1>12 DEF treeVars, ScopeInv, TreeTypeOK, FramesInv, ChildrenInv, OpenedInv, NothingEscapesClose
<1> QED
  BY <1>1, <1>2, <1>3, <1>4, <1>5, <1>6, <1>7, <1>8, <1>9, <1>10, <1>11, <1>12
  DEF TreeNext, Closing

\* ScopeInv always holds.
LEMMA AlwaysScopeInv == TreeSpec => []ScopeInv
  BY InitScopeInv, StepKeepsScopeInv, PTL DEF TreeSpec

-----------------------------------------------------------------------------
\* A child or a handle of a closed scope is closed or cancelled, or a close
\* that is still running will get to it.
THEOREM NothingEscapesCloseAlways == TreeSpec => []NothingEscapesClose
<1>1. ScopeInv => NothingEscapesClose
  BY DEF ScopeInv
<1> QED
  BY <1>1, AlwaysScopeInv, PTL

\* Nobody retains a scope whose close has returned, and an open scope is with
\* its parent or with the close of its parent.
THEOREM ScopesRetainedWhileOpenAlways == TreeSpec => []ScopesRetainedWhileOpen
<1>1. ScopeInv => ScopesRetainedWhileOpen
  BY DEF ScopeInv, ChildrenInv, ScopesRetainedWhileOpen
<1> QED
  BY <1>1, AlwaysScopeInv, PTL


-----------------------------------------------------------------------------
(* SamSession: what the manager believes about predictors.                 *)

\* A task has an argument of its kind.
Fits(t) ==
    /\ t.op \in {"prepare", "box", "remove"} => t.arg \in Images
    /\ t.op = "limit" => t.arg \in Limits

Fitting == \A t \in nativeLane : Fits(t)

\* Tasks are numbered apart, in the order of their acceptance.
Numbered ==
    /\ IsFiniteSet(nativeLane)
    /\ \A t \in nativeLane : t.id <= accepted
    /\ \A t, u \in nativeLane : t.id = u.id => t = u
    /\ \A e \in Range(ownerEvents) : e.task.id <= accepted

\* The cleanup comes with the shutdown of the manager, and has a number left.
CleanupLast ==
    /\ ~closing => cleanup = "none" /\ \A t \in nativeLane : t.op # "cleanup"
    /\ cleanup \in {"none", "deferred"} => accepted <= MaxNative

\* Only a head that runs can be doomed, and every other preparation of the lane
\* is the one the manager waits for.
Awaited ==
    /\ doomedHead => phase \in {"working", "worked"}
    /\ \A i \in retrying : preparing[i] = 0
    /\ \A t \in nativeLane : t.op = "prepare" =>
          preparing[t.arg] = t.id \/ (doomedHead /\ t = LaneHead)

\* An outcome in the owner's queue is of a task that has left the lane, and a
\* product that can still be adopted shows the session as it is.
EventsFit ==
    \A e \in Range(ownerEvents) :
        /\ e.kind # "adopt" => \A t \in nativeLane : t.id # e.task.id
        /\ e.kind = "adopt" /\ e.task \in nativeLane =>
              /\ e.task = LaneHead /\ phase = "delivering"
              /\ e.snapshot = Range(predictors)

\* Until a head that may change the set of predictors has done its work, the
\* manager knows that set.
Believed ==
    ~unseen /\ ~closing /\ (phase \in {"queued", "working"} \/ LaneHead.op = "box") =>
        references = Range(predictors)

SamInv ==
    /\ SamTypeOK /\ Fitting /\ Numbered /\ CleanupLast /\ Awaited /\ EventsFit /\ Believed

-----------------------------------------------------------------------------
(* Sets of numbered tasks and queues of callbacks.                         *)

\* A set of accepted tasks, each with its own number.
LaneOfTasks(L, n) ==
    /\ L \subseteq Native /\ IsFiniteSet(L)
    /\ \A t \in L : t.id <= n
    /\ \A t, u \in L : t.id = u.id => t = u

\* The task of a lane that was accepted first.
FirstOf(L) == CHOOSE t \in L : \A u \in L : t.id <= u.id

\* A lane that is not empty has a first task.
LEMMA LaneHasFirst ==
    ASSUME NEW L, NEW n, LaneOfTasks(L, n), L # {}, MaxNative \in Nat
    PROVE  FirstOf(L) \in L /\ \A u \in L : FirstOf(L).id <= u.id
<1> DEFINE numbers == {t.id : t \in L}
<1>1. numbers \subseteq Nat /\ numbers # {}
  BY DEF LaneOfTasks, Native, Ids
<1>2. PICK R : R = OpToRel(<, Nat)
  OBVIOUS
<1>3. IsWellFoundedOn(R, Nat) /\ R = {p \in Nat \X Nat : p[1] < p[2]}
  BY <1>2, NatLessThanWellFounded DEF OpToRel
<1>4. PICK k \in numbers : \A m \in numbers : ~(<<m, k>> \in R)
  <2> HIDE DEF numbers
  <2>. QED  BY <1>1, <1>3, WFMin, Zenon
<1>5. \A m \in numbers : k <= m
  <2> HIDE DEF numbers
  <2> TAKE m \in numbers
  <2>1. m \in Nat /\ k \in Nat
    BY <1>1, <1>4
  <2>2. m < k => <<m, k>> \in R
    BY <1>3, <2>1
  <2>. QED  BY <1>4, <2>1, <2>2
<1>6. PICK t \in L : t.id = k
  OBVIOUS
<1>7. \A u \in L : t.id <= u.id
  BY <1>5, <1>6
<1>. QED  BY <1>7, Zenon DEF FirstOf

\* There is only one.
LEMMA FirstIsOnly ==
    ASSUME NEW L, NEW n, LaneOfTasks(L, n), NEW t \in L, \A u \in L : t.id <= u.id,
           MaxNative \in Nat
    PROVE  FirstOf(L) = t
<1>1. FirstOf(L) \in L /\ \A u \in L : FirstOf(L).id <= u.id
  BY LaneHasFirst
<1>2. FirstOf(L).id \in Int /\ t.id \in Int
  BY <1>1 DEF LaneOfTasks, Native, Ids
<1>3. FirstOf(L).id = t.id
  BY <1>1, <1>2
<1>. QED  BY <1>1, <1>3 DEF LaneOfTasks

\* The first of a lane stays the first when others leave and later ones come.
LEMMA FirstStays ==
    ASSUME NEW L, NEW n, LaneOfTasks(L, n), NEW K, NEW m, LaneOfTasks(K, m), MaxNative \in Nat,
           n \in Nat, L # {}, FirstOf(L) \in K, \A t \in K : t \in L \/ t.id > n
    PROVE  FirstOf(K) = FirstOf(L)
<1>1. FirstOf(L) \in L /\ \A u \in L : FirstOf(L).id <= u.id
  BY LaneHasFirst
<1>2. FirstOf(L).id <= n /\ FirstOf(L).id \in Int /\ \A u \in K : u.id \in Int
  BY <1>1 DEF LaneOfTasks, Native, Ids
<1>3. \A u \in K : FirstOf(L).id <= u.id
  BY <1>1, <1>2
<1>. QED  BY <1>3, FirstIsOnly

\* What a queue holds when others join it, and when its head is taken.
LEMMA RangeOfQueues ==
    ASSUME NEW S, NEW s \in Seq(S)
    PROVE  /\ Range(s) \subseteq S
           /\ \A r \in Seq(S) : s \o r \in Seq(S) /\ Range(s \o r) = Range(s) \cup Range(r)
           /\ \A e \in S : Append(s, e) \in Seq(S) /\ Range(Append(s, e)) = Range(s) \cup {e}
           /\ s # <<>> => /\ Head(s) \in Range(s) /\ Tail(s) \in Seq(S)
                          /\ Range(Tail(s)) \subseteq Range(s)
<1>1. Len(s) \in Nat /\ DOMAIN s = 1..Len(s) /\ \A i \in 1..Len(s) : s[i] \in S
  BY LenProperties, ElementOfSeq
<1>2. ASSUME NEW r \in Seq(S)
      PROVE  s \o r \in Seq(S) /\ Range(s \o r) = Range(s) \cup Range(r)
  <2>1. Len(r) \in Nat /\ DOMAIN r = 1..Len(r)
    BY LenProperties
  <2>2. PICK c : c = s \o r
    OBVIOUS
  <2>3. /\ c \in Seq(S) /\ Len(c) = Len(s) + Len(r)
        /\ \A i \in 1..(Len(s) + Len(r)) :
              c[i] = IF i <= Len(s) THEN s[i] ELSE r[i - Len(s)]
    BY <2>2, ConcatProperties
  <2>4. DOMAIN c = 1..(Len(s) + Len(r))
    BY <2>3, LenProperties
  <2>5. ASSUME NEW x \in Range(c)  PROVE x \in Range(s) \cup Range(r)
    <3>1. PICK i \in 1..(Len(s) + Len(r)) : x = c[i]
      BY <2>4, <2>5 DEF Range
    <3>2. CASE i <= Len(s)
      BY <1>1, <2>3, <3>1, <3>2 DEF Range
    <3>3. CASE ~(i <= Len(s))
      <4>1. i - Len(s) \in 1..Len(r)
        BY <1>1, <2>1, <3>3
      <4>. QED  BY <2>1, <2>3, <3>1, <3>3, <4>1 DEF Range
    <3>. QED  BY <3>2, <3>3
  <2>6. ASSUME NEW x \in Range(s)  PROVE x \in Range(c)
    <3>1. PICK i \in 1..Len(s) : x = s[i]
      BY <1>1, <2>6 DEF Range
    <3>2. i \in 1..(Len(s) + Len(r)) /\ c[i] = x
      BY <1>1, <2>1, <2>3, <3>1
    <3>. QED  BY <2>4, <3>2 DEF Range
  <2>7. ASSUME NEW x \in Range(r)  PROVE x \in Range(c)
    <3>1. PICK i \in 1..Len(r) : x = r[i]
      BY <2>1, <2>7 DEF Range
    <3>2. i + Len(s) \in 1..(Len(s) + Len(r)) /\ ~(i + Len(s) <= Len(s))
          /\ (i + Len(s)) - Len(s) = i
      BY <1>1, <2>1
    <3>3. c[i + Len(s)] = x
      BY <2>3, <3>1, <3>2
    <3>. QED  BY <2>4, <3>2, <3>3 DEF Range
  <2>. QED  BY <2>2, <2>3, <2>5, <2>6, <2>7
<1>3. ASSUME NEW e \in S
      PROVE  Append(s, e) \in Seq(S) /\ Range(Append(s, e)) = Range(s) \cup {e}
  <2>1. <<e>> \in Seq(S) /\ Range(<<e>>) = {e} /\ Append(s, e) = s \o <<e>>
    BY DEF Range
  <2>. QED  BY <1>2, <2>1
<1>4. ASSUME s # <<>>
      PROVE  /\ Head(s) \in Range(s) /\ Tail(s) \in Seq(S)
             /\ Range(Tail(s)) \subseteq Range(s)
  <2>1. Len(s) # 0 /\ Head(s) = s[1] /\ 1 \in 1..Len(s)
    BY <1>1, <1>4, EmptySeq
  <2>2. /\ Tail(s) \in Seq(S) /\ DOMAIN Tail(s) = 1..(Len(s) - 1)
        /\ \A i \in 1..(Len(s) - 1) : Tail(s)[i] = s[i + 1]
    BY <1>4, HeadTailProperties, LenProperties
  <2>3. ASSUME NEW x \in Range(Tail(s))  PROVE x \in Range(s)
    <3>1. PICK i \in 1..(Len(s) - 1) : x = s[i + 1]
      BY <2>2, <2>3 DEF Range
    <3>2. i + 1 \in 1..Len(s)
      BY <1>1, <3>1
    <3>. QED  BY <1>1, <3>1, <3>2 DEF Range
  <2>. QED  BY <1>1, <2>1, <2>2, <2>3 DEF Range
<1>5. Range(s) \subseteq S
  BY <1>1 DEF Range
<1>. QED  BY <1>2, <1>3, <1>4, <1>5

\* Settlements tell of the cancelled tasks and of nothing else.
LEMMA SettlementsFit ==
    ASSUME NEW ts \in SUBSET Native, IsFiniteSet(ts)
    PROVE  /\ Settlements(ts) \in Seq(Callbacks)
           /\ \A e \in Range(Settlements(ts)) : e.kind = "cancelled" /\ e.task \in ts
<1> DEFINE asked == {u \in ts : u.op \in {"prepare", "box"}}
           told == {Told("cancelled", t, {}) : t \in asked}
           tell == [t \in asked |-> Told("cancelled", t, {})]
<1>1. told \subseteq Callbacks /\ \A e \in told : e.kind = "cancelled" /\ e.task \in ts
  BY DEF Told, Callbacks
<1>2. IsFiniteSet(told)
  <2>1. IsFiniteSet(asked)
    BY FS_Subset
  <2>2. tell \in Surjection(asked, told)
    BY DEF Surjection
  <2>. QED  BY <2>1, <2>2, FS_Surjection
<1>3. Settlements(ts) = SetToSeq(told)
  BY DEF Settlements
<1> HIDE DEF told
<1>4. PICK n \in Nat : n = Cardinality(told)
  BY <1>2, FS_CardinalityType
<1>5. \E f \in [1..n -> told] : IsInjective(f)
  BY <1>2, <1>4, FS_CardinalityType DEF ExistsBijection, Bijection, Injection
<1>6. SetToSeq(told) \in [1..n -> told]
  BY <1>4, <1>5, Zenon DEF SetToSeq
<1>7. /\ SetToSeq(told) \in Seq(told)
      /\ \A e \in Range(SetToSeq(told)) : e \in told
  BY <1>6 DEF Range
<1>. QED  BY <1>1, <1>3, <1>7

-----------------------------------------------------------------------------
(* Cancelling some tasks and accepting another.                            *)

\* At most one task is accepted in a call, with the next number.
OneMore(added) ==
    \/ added = {}
    \/ \E x \in Native : added = {x} /\ x.id = accepted + 1 /\ Fits(x)

\* A submission adds nothing or its task, while there is room.
LEMMA SubmissionsFit ==
    ASSUME SamInv, NEW op \in {"prepare", "box", "remove", "clear", "limit"},
           NEW arg \in Images \cup Limits \cup {NoImage},
           op \in {"prepare", "box", "remove"} => arg \in Images,
           op = "limit" => arg \in Limits,
           NEW added \in Submissions(op, arg)
    PROVE  /\ OneMore(added)
           /\ \A t \in added : t.op = op /\ t.arg = arg /\ t.id = accepted + 1
           /\ cleanup \in {"none", "deferred"} =>
                  added = {} \/ accepted + 1 <= MaxNative
<1>1. accepted \in 0..(MaxNative + 1) /\ MaxNative \in Nat
  BY SamAssumption DEF SamInv, SamTypeOK, SamAssumption
<1>2. CASE added = {}
  BY <1>2 DEF OneMore
<1>3. CASE added # {}
  <2>1. Room /\ added = Accepted(op, arg)
    BY <1>3 DEF Submissions
  <2>2. accepted + 1 <= MaxNative \/ (cleanup = "accepted" /\ accepted + 1 = MaxNative + 1)
    BY <1>1, <2>1 DEF Room
  <2>3. PICK x : x = [id |-> accepted + 1, op |-> op, arg |-> arg]
    OBVIOUS
  <2>4. x \in Native /\ x.id = accepted + 1 /\ x.op = op /\ x.arg = arg
    BY <1>1, <2>2, <2>3 DEF Native, Ids
  <2>5. added = {x}
    BY <2>1, <2>3 DEF Accepted
  <2>. QED  BY <2>2, <2>4, <2>5 DEF OneMore, Fits
<1>. QED  BY <1>2, <1>3

\* What is left of a lane some of whose tasks are cancelled: the head stays the
\* head unless it is withdrawn, what was in the owner's queue is still about
\* the same tasks, and the manager's knowledge is as good as before.
LEMMA CancelKeeps ==
    ASSUME SamInv, NEW ids, NEW added, OneMore(added), CancelThen(ids, added),
           references' = references, predictors' = predictors, closing => closing'
    PROVE  /\ accepted' \in 0..(MaxNative + 1)
           /\ accepted' = IF added = {} THEN accepted ELSE accepted + 1
           /\ nativeLane' \subseteq Native /\ ownerEvents' \in Seq(Callbacks)
           /\ phase' \in {"queued", "working", "worked", "delivering"}
           /\ nativeLane' = {} => phase' = "queued" /\ ~doomedHead'
           /\ Fitting' /\ Numbered' /\ EventsFit' /\ Believed'
           /\ doomedHead' => phase' \in {"working", "worked"}
           /\ \A t \in nativeLane' :
                 \/ t \in added
                 \/ /\ t \in nativeLane
                    /\ t.id \in ids \/ (doomedHead /\ t = LaneHead) =>
                           doomedHead' /\ t = LaneHead'
<1>1. /\ MaxNative \in Nat /\ accepted \in 0..(MaxNative + 1)
      /\ phase \in {"queued", "working", "worked", "delivering"}
      /\ ownerEvents \in Seq(Callbacks) /\ LaneOfTasks(nativeLane, accepted)
      /\ nativeLane = {} => phase = "queued" /\ ~doomedHead
      /\ doomedHead => phase \in {"working", "worked"}
  BY SamAssumption
     DEF SamInv, SamTypeOK, SamAssumption, Numbered, LaneOfTasks, Awaited
<1>2. PICK kept : kept = {t \in nativeLane : t.id \in ids => Running(t)}
  OBVIOUS
<1>3. PICK dropped : dropped = nativeLane \ kept
  OBVIOUS
<1>4. /\ nativeLane' = kept \cup added
      /\ accepted' = accepted + Cardinality(added)
      /\ phase' = IF dropped # {} /\ LaneHead \in dropped THEN "queued" ELSE phase
      /\ doomedHead' = (doomedHead \/ \E t \in kept : t.id \in ids)
      /\ unseen' = (unseen \/ ((dropped # {} /\ LaneHead \in dropped)
                               /\ phase = "delivering" /\ LaneHead.op # "box"))
      /\ ownerEvents' = ownerEvents \o Settlements(dropped)
  BY <1>2, <1>3, Zenon DEF CancelThen
<1>5. /\ accepted' \in 0..(MaxNative + 1)
      /\ accepted' = IF added = {} THEN accepted ELSE accepted + 1
      /\ added \subseteq Native /\ IsFiniteSet(added)
      /\ \A t \in added : t.id = accepted + 1 /\ Fits(t)
      /\ \A t, u \in added : t = u
  <2>1. CASE added = {}
    BY <1>1, <1>4, <2>1, FS_EmptySet
  <2>2. CASE added # {}
    <3>1. PICK x \in Native : added = {x} /\ x.id = accepted + 1 /\ Fits(x)
      BY <2>2 DEF OneMore
    <3>2. Cardinality(added) = 1 /\ IsFiniteSet(added)
      BY <3>1, FS_Singleton
    <3>3. accepted + 1 \in 0..(MaxNative + 1)
      BY <1>1, <3>1 DEF Native, Ids
    <3>. QED  BY <1>4, <2>2, <3>1, <3>2, <3>3
  <2>. QED  BY <2>1, <2>2
<1>6. kept \subseteq nativeLane /\ dropped \subseteq nativeLane /\ kept \cap dropped = {}
  BY <1>2, <1>3
<1>7. LaneOfTasks(nativeLane', accepted')
  <2>1. IsFiniteSet(kept)
    BY <1>1, <1>6, FS_Subset DEF LaneOfTasks
  <2>2. IsFiniteSet(nativeLane')
    BY <1>4, <1>5, <2>1, FS_Union
  <2>3. nativeLane' \subseteq Native
    BY <1>1, <1>4, <1>5, <1>6 DEF LaneOfTasks
  <2>4. \A t \in kept : t.id <= accepted /\ t.id \in Int
    BY <1>1, <1>6 DEF LaneOfTasks, Native, Ids
  <2>5. \A t \in nativeLane' : t.id <= accepted'
    BY <1>1, <1>4, <1>5, <2>4
  <2>6. \A t, u \in nativeLane' : t.id = u.id => t = u
    <3>1. \A t \in kept, u \in added : t.id # u.id
      BY <1>1, <1>5, <2>4
    <3>. QED  BY <1>1, <1>4, <1>5, <1>6, <3>1 DEF LaneOfTasks
  <2>. QED  BY <2>2, <2>3, <2>5, <2>6 DEF LaneOfTasks
<1>8. nativeLane # {} => LaneHead \in nativeLane
  <2>1. LaneHead = FirstOf(nativeLane)
    BY Zenon DEF LaneHead, FirstOf
  <2>. QED  BY <1>1, <2>1, LaneHasFirst
<1>9. ASSUME LaneHead \in kept  PROVE LaneHead' = LaneHead /\ phase' = phase
  <2>1. LaneHead = FirstOf(nativeLane) /\ LaneHead' = FirstOf(nativeLane')
    BY Zenon DEF LaneHead, FirstOf
  <2>2. \A t \in nativeLane' : t \in nativeLane \/ t.id > accepted
    BY <1>1, <1>4, <1>5, <1>6
  <2>3. accepted \in Nat /\ nativeLane # {} /\ FirstOf(nativeLane) \in nativeLane'
    BY <1>1, <1>4, <1>6, <1>9, <2>1
  <2>4. FirstOf(nativeLane') = FirstOf(nativeLane)
    BY <1>1, <1>7, <2>2, <2>3, FirstStays
  <2>. QED  BY <1>4, <1>6, <1>9, <2>1, <2>4
<1>10. \A t \in kept : t.id \in ids => t = LaneHead /\ phase \in {"working", "worked"}
  BY <1>2 DEF Running
<1>11. LaneHead \in dropped => phase \in {"queued", "delivering"}
  BY <1>1, <1>2, <1>3, <1>6 DEF Running
<1>12. doomedHead => LaneHead \in kept
  BY <1>1, <1>3, <1>8, <1>11
<1>13. doomedHead' <=> (doomedHead \/ \E t \in kept : t.id \in ids)
  BY <1>4, Zenon
<1>14. doomedHead' => LaneHead \in kept /\ phase \in {"working", "worked"}
  BY <1>1, <1>10, <1>12, <1>13
<1>15. doomedHead' => phase' \in {"working", "worked"}
  BY <1>9, <1>14
<1>16. nativeLane' = {} => phase' = "queued" /\ ~doomedHead'
  <2> SUFFICES ASSUME nativeLane' = {}  PROVE phase' = "queued" /\ ~doomedHead'
    OBVIOUS
  <2>1. kept = {} /\ dropped = nativeLane
    BY <1>3, <1>4
  <2>. QED  BY <1>1, <1>4, <1>8, <1>14, <2>1
<1>17. \A t \in nativeLane' :
          \/ t \in added
          \/ /\ t \in nativeLane
             /\ t.id \in ids \/ (doomedHead /\ t = LaneHead) => doomedHead' /\ t = LaneHead'
  <2> SUFFICES ASSUME NEW t \in kept, t.id \in ids \/ (doomedHead /\ t = LaneHead)
               PROVE  doomedHead' /\ t = LaneHead'
    BY <1>4, <1>6
  <2>1. t = LaneHead /\ doomedHead'
    BY <1>10, <1>13
  <2>. QED  BY <1>9, <2>1
<1>18. Fitting'
  BY <1>4, <1>5, <1>6 DEF SamInv, Fitting, Fits
<1>19. IsFiniteSet(dropped) /\ dropped \subseteq Native
  BY <1>1, <1>6, FS_Subset DEF LaneOfTasks
<1>20. /\ ownerEvents' \in Seq(Callbacks)
       /\ \A e \in Range(ownerEvents') : 
             e \in Range(ownerEvents) \/ (e.kind = "cancelled" /\ e.task \in dropped)
  <2>1. /\ Settlements(dropped) \in Seq(Callbacks)
        /\ \A e \in Range(Settlements(dropped)) : e.kind = "cancelled" /\ e.task \in dropped
    BY <1>19, SettlementsFit
  <2>2. ownerEvents' \in Seq(Callbacks)
        /\ Range(ownerEvents') = Range(ownerEvents) \cup Range(Settlements(dropped))
    BY <1>1, <1>4, <2>1, RangeOfQueues
  <2>. QED  BY <2>1, <2>2
<1>21. \A e \in Range(ownerEvents') : e.task.id <= accepted /\ e.task.id \in Int
  <2>1. \A e \in Range(ownerEvents') : e \in Callbacks
    BY <1>20, RangeOfQueues
  <2>2. \A e \in Range(ownerEvents') : e.task.id \in Int
    BY <2>1 DEF Callbacks, Native, Ids
  <2>. QED  BY <1>1, <1>6, <1>20, <2>2 DEF SamInv, Numbered
<1>22. Numbered'
  <2>1. \A e \in Range(ownerEvents') : e.task.id <= accepted'
    BY <1>1, <1>5, <1>21
  <2>. QED  BY <1>7, <2>1 DEF Numbered, LaneOfTasks
<1>23. EventsFit'
  <2> SUFFICES ASSUME NEW e \in Range(ownerEvents')
               PROVE  /\ e.kind # "adopt" => \A t \in nativeLane' : t.id # e.task.id
                      /\ e.kind = "adopt" /\ e.task \in nativeLane' =>
                            /\ e.task = LaneHead' /\ phase' = "delivering"
                            /\ e.snapshot = Range(predictors)
    BY Zenon DEF EventsFit
  <2>1. \A t \in added : t.id # e.task.id /\ t # e.task
    BY <1>1, <1>5, <1>21
  <2>2. CASE e \in Range(ownerEvents)
    <3>1. e.kind # "adopt" => \A t \in kept : t.id # e.task.id
      BY <1>6, <2>2 DEF SamInv, EventsFit
    <3>2. ASSUME e.kind = "adopt", e.task \in kept
          PROVE  e.task = LaneHead /\ phase = "delivering" /\ e.snapshot = Range(predictors)
      BY <1>6, <2>2, <3>2 DEF SamInv, EventsFit
    <3>. QED  BY <1>4, <1>9, <2>1, <3>1, <3>2
  <2>3. CASE e.kind = "cancelled" /\ e.task \in dropped
    <3>1. \A t \in kept : t.id # e.task.id
      BY <1>1, <1>6, <2>3 DEF LaneOfTasks
    <3>. QED  BY <1>4, <2>1, <2>3, <3>1
  <2>. QED  BY <1>20, <2>2, <2>3
<1>24. Believed'
  <2> SUFFICES ASSUME ~unseen', ~closing',
                      phase' \in {"queued", "working"} \/ LaneHead'.op = "box"
               PROVE  references = Range(predictors)
    BY Zenon DEF Believed
  <2>1. ~unseen /\ ~closing
    BY <1>4
  <2>2. CASE LaneHead \in kept
    BY <1>9, <2>1, <2>2 DEF SamInv, Believed
  <2>3. CASE LaneHead \in dropped
    <3>1. phase = "queued" \/ LaneHead.op = "box"
      BY <1>4, <1>11, <2>3
    <3>. QED  BY <2>1, <3>1 DEF SamInv, Believed
  <2>4. CASE nativeLane = {}
    BY <1>1, <2>1, <2>4 DEF SamInv, Believed
  <2>. QED  BY <1>3, <1>8, <2>2, <2>3, <2>4
<1>. QED
  BY <1>1, <1>4, <1>5, <1>7, <1>15, <1>16, <1>17, <1>18, <1>20, <1>22, <1>23, <1>24 DEF LaneOfTasks

-----------------------------------------------------------------------------
(* The calls of the manager.                                               *)

\* The manager waits for accepted tasks only.
WaitsFor == preparing \in [Images -> 0..accepted]

\* A call that cancels what it stops waiting for, and waits for the preparation
\* it has accepted, keeps the invariant.
LEMMA CallKeeps ==
    ASSUME SamInv, NEW ids, NEW added, OneMore(added), CancelThen(ids, added),
           references' = references, UNCHANGED sessionVars, closing => closing',
           retrying' \subseteq Images, WaitsFor', boxes' \subseteq Ids,
           managerLimit' \in Limits,
           cleanup' \in {"none", "deferred", "accepted", "rejected", "done"},
           ~closing' => cleanup' = "none" /\ \A t \in added : t.op # "cleanup",
           cleanup' \in {"none", "deferred"} =>
               (IF added = {} THEN accepted ELSE accepted + 1) <= MaxNative,
           \A i \in retrying' : preparing'[i] = 0,
           \A t \in added : t.op = "prepare" => preparing'[t.arg] = t.id,
           \A i \in Images : \/ preparing'[i] = preparing[i] \/ preparing[i] = 0
                             \/ preparing[i] \in ids
    PROVE  SamInv'
<1>1. predictors' = predictors /\ sessionLimit' = sessionLimit
  BY DEF sessionVars
<1>2. /\ accepted' \in 0..(MaxNative + 1)
      /\ accepted' = IF added = {} THEN accepted ELSE accepted + 1
      /\ nativeLane' \subseteq Native /\ ownerEvents' \in Seq(Callbacks)
      /\ phase' \in {"queued", "working", "worked", "delivering"}
      /\ nativeLane' = {} => phase' = "queued" /\ ~doomedHead'
      /\ Fitting' /\ Numbered' /\ EventsFit' /\ Believed'
      /\ doomedHead' => phase' \in {"working", "worked"}
      /\ \A t \in nativeLane' :
            \/ t \in added
            \/ /\ t \in nativeLane
               /\ t.id \in ids \/ (doomedHead /\ t = LaneHead) => doomedHead' /\ t = LaneHead'
  BY <1>1, CancelKeeps
<1>3. SamTypeOK'
  BY <1>1, <1>2 DEF SamInv, SamTypeOK, WaitsFor
<1>4. CleanupLast'
  BY <1>2 DEF SamInv, CleanupLast
<1>5. ASSUME NEW t \in nativeLane', t.op = "prepare"
      PROVE  preparing'[t.arg] = t.id \/ (doomedHead' /\ t = LaneHead')
  <2>1. CASE t \in added
    BY <1>5, <2>1
  <2>2. CASE t \in nativeLane /\ ~(t.id \in ids \/ (doomedHead /\ t = LaneHead))
    <3>1. preparing[t.arg] = t.id
      BY <1>5, <2>2 DEF SamInv, Awaited
    <3>2. t.arg \in Images /\ t.id # 0
      BY <1>5, <2>2 DEF SamInv, Fitting, Fits, SamTypeOK, Native, Ids
    <3>. QED  BY <2>2, <3>1, <3>2
  <2>. QED  BY <1>2, <2>1, <2>2
<1>6. Awaited'
  BY <1>2, <1>5 DEF Awaited
<1>. QED  BY <1>2, <1>3, <1>4, <1>6 DEF SamInv

\* A preparation is requested, or a refused one tried again.
LEMMA AttemptKeeps ==
    ASSUME SamInv, NEW i \in Images, preparing[i] = 0,
           NEW added \in Submissions("prepare", i), Attempt(i, added),
           CancelThen({}, added),
           UNCHANGED <<references, boxes, managerLimit, closing, cleanup, sessionVars>>
    PROVE  SamInv'
<1>1. /\ OneMore(added)
      /\ \A t \in added : t.op = "prepare" /\ t.arg = i /\ t.id = accepted + 1
      /\ cleanup \in {"none", "deferred"} => added = {} \/ accepted + 1 <= MaxNative
  BY SubmissionsFit
<1>2. /\ retrying \subseteq Images /\ preparing \in [Images -> 0..accepted]
      /\ boxes \subseteq Ids /\ managerLimit \in Limits /\ accepted \in Nat
      /\ cleanup \in {"none", "deferred", "accepted", "rejected", "done"}
      /\ ~closing => cleanup = "none"
      /\ cleanup \in {"none", "deferred"} => accepted <= MaxNative
      /\ \A j \in retrying : preparing[j] = 0
  BY DEF SamInv, SamTypeOK, CleanupLast, Awaited
<1>3. accepted' = IF added = {} THEN accepted ELSE accepted + 1
  BY <1>1, CancelKeeps DEF sessionVars
<1>4. /\ preparing' = [preparing EXCEPT ![i] = IF added = {} THEN 0 ELSE accepted + 1]
      /\ retrying' = IF added = {} THEN retrying \cup {i} ELSE retrying \ {i}
  BY DEF Attempt
<1>5. WaitsFor'
  BY <1>2, <1>3, <1>4 DEF WaitsFor
<1>6. \A j \in retrying' : preparing'[j] = 0
  BY <1>2, <1>4
<1>7. \A t \in added : t.op = "prepare" => preparing'[t.arg] = t.id
  BY <1>1, <1>2, <1>4
<1>8. \A j \in Images : preparing'[j] = preparing[j] \/ preparing[j] = 0 \/ preparing[j] \in {}
  BY <1>2, <1>4
<1>9. retrying' \subseteq Images
  BY <1>2, <1>4
<1>. QED  BY <1>1, <1>2, <1>5, <1>6, <1>7, <1>8, <1>9, CallKeeps

LEMMA RequestPredictorKeeps ==
    ASSUME SamInv, NEW i \in Images, RequestPredictor(i)
    PROVE  SamInv'
<1>1. PICK added \in Submissions("prepare", i) : Attempt(i, added) /\ CancelThen({}, added)
  BY DEF RequestPredictor
<1>. QED  BY <1>1, AttemptKeeps DEF RequestPredictor

LEMMA RetryFiresKeeps ==
    ASSUME SamInv, NEW i \in Images, RetryFires(i)
    PROVE  SamInv'
<1>1. PICK added \in Submissions("prepare", i) : Attempt(i, added) /\ CancelThen({}, added)
  BY DEF RetryFires
<1>2. preparing[i] = 0
  BY DEF RetryFires, SamInv, Awaited
<1>. QED  BY <1>1, <1>2, AttemptKeeps DEF RetryFires

\* The manager forgets preparations and cancels them, and another kind of work
\* may be accepted.
LEMMA ForgetKeeps ==
    ASSUME SamInv, NEW images \in SUBSET Images, NEW ids,
           PreparingIds(images) \subseteq ids, NEW added, OneMore(added),
           Forget(images), CancelThen(ids, added),
           references' = references, UNCHANGED sessionVars, closing => closing',
           boxes' \subseteq Ids, managerLimit' \in Limits,
           cleanup' \in {"none", "deferred", "accepted", "rejected", "done"},
           ~closing' => cleanup' = "none" /\ \A t \in added : t.op # "cleanup",
           cleanup' \in {"none", "deferred"} =>
               (IF added = {} THEN accepted ELSE accepted + 1) <= MaxNative,
           \A t \in added : t.op # "prepare"
    PROVE  SamInv'
<1>1. /\ retrying \subseteq Images /\ preparing \in [Images -> 0..accepted]
      /\ accepted \in Nat /\ \A j \in retrying : preparing[j] = 0
  BY DEF SamInv, SamTypeOK, Awaited
<1>2. accepted' = IF added = {} THEN accepted ELSE accepted + 1
  BY CancelKeeps DEF sessionVars
<1>3. /\ preparing' = [j \in Images |-> IF j \in images THEN 0 ELSE preparing[j]]
      /\ retrying' = retrying \ images
  BY DEF Forget
<1>4. WaitsFor'
  BY <1>1, <1>2, <1>3 DEF WaitsFor
<1>5. \A j \in retrying' : preparing'[j] = 0
  BY <1>1, <1>3
<1>6. \A j \in Images : preparing'[j] = preparing[j] \/ preparing[j] = 0 \/ preparing[j] \in ids
  BY <1>1, <1>3 DEF PreparingIds
<1>7. retrying' \subseteq Images
  BY <1>1, <1>3
<1>. QED  BY <1>4, <1>5, <1>6, <1>7, CallKeeps

LEMMA CancelPendingPredictorKeeps ==
    ASSUME SamInv, NEW i \in Images, CancelPendingPredictor(i)
    PROVE  SamInv'
<1>1. /\ boxes \subseteq Ids /\ managerLimit \in Limits
      /\ cleanup \in {"none", "deferred", "accepted", "rejected", "done"}
      /\ ~closing => cleanup = "none"
      /\ cleanup \in {"none", "deferred"} => accepted <= MaxNative
  BY DEF SamInv, SamTypeOK, CleanupLast
<1>2. OneMore({})
  BY DEF OneMore
<1>. QED  BY <1>1, <1>2, ForgetKeeps DEF CancelPendingPredictor

LEMMA RemoveFromCacheKeeps ==
    ASSUME SamInv, NEW i \in Images, RemoveFromCache(i)
    PROVE  SamInv'
<1>1. /\ boxes \subseteq Ids /\ managerLimit \in Limits
      /\ cleanup \in {"none", "deferred", "accepted", "rejected", "done"}
      /\ ~closing => cleanup = "none"
      /\ cleanup \in {"none", "deferred"} => accepted <= MaxNative
  BY DEF SamInv, SamTypeOK, CleanupLast
<1>2. PICK added \in IF i \in references THEN Submissions("remove", i) ELSE {{}} :
        CancelThen(PreparingIds({i}), added)
  BY DEF RemoveFromCache
<1>3. /\ OneMore(added) /\ \A t \in added : t.op = "remove"
      /\ cleanup \in {"none", "deferred"} => added = {} \/ accepted + 1 <= MaxNative
  <2>1. CASE added \in Submissions("remove", i)
    BY <2>1, SubmissionsFit
  <2>2. CASE added = {}
    BY <2>2 DEF OneMore
  <2>. QED  BY <1>2, <2>1, <2>2
<1>4. /\ Forget({i})
      /\ UNCHANGED <<references, boxes, managerLimit, mayOwn, closing, cleanup, sessionVars>>
  BY DEF RemoveFromCache
<1>. QED  BY <1>1, <1>2, <1>3, <1>4, ForgetKeeps

LEMMA ClearCacheKeeps ==
    ASSUME SamInv, ClearCache
    PROVE  SamInv'
<1>1. /\ boxes \subseteq Ids /\ managerLimit \in Limits
      /\ cleanup \in {"none", "deferred", "accepted", "rejected", "done"}
      /\ ~closing => cleanup = "none"
      /\ cleanup \in {"none", "deferred"} => accepted <= MaxNative
  BY DEF SamInv, SamTypeOK, CleanupLast
<1>2. PICK added \in Submissions("clear", NoImage) :
        CancelThen(PreparingIds(Images), added)
  BY DEF ClearCache
<1>3. /\ OneMore(added) /\ \A t \in added : t.op = "clear"
      /\ cleanup \in {"none", "deferred"} => added = {} \/ accepted + 1 <= MaxNative
  BY <1>2, SubmissionsFit
<1>4. /\ Forget(Images)
      /\ UNCHANGED <<references, boxes, managerLimit, mayOwn, closing, cleanup, sessionVars>>
  BY DEF ClearCache
<1>. QED  BY <1>1, <1>2, <1>3, <1>4, ForgetKeeps

\* A call that accepts other work and cancels nothing.
LEMMA OtherWorkKeeps ==
    ASSUME SamInv, NEW added, OneMore(added), CancelThen({}, added),
           \A t \in added : t.op \notin {"prepare", "cleanup"},
           cleanup \in {"none", "deferred"} => added = {} \/ accepted + 1 <= MaxNative,
           UNCHANGED <<references, preparing, retrying, closing, cleanup, sessionVars>>,
           boxes' \subseteq Ids, managerLimit' \in Limits
    PROVE  SamInv'
<1>1. /\ retrying \subseteq Images /\ preparing \in [Images -> 0..accepted]
      /\ accepted \in Nat /\ \A j \in retrying : preparing[j] = 0
      /\ cleanup \in {"none", "deferred", "accepted", "rejected", "done"}
      /\ ~closing => cleanup = "none"
      /\ cleanup \in {"none", "deferred"} => accepted <= MaxNative
  BY DEF SamInv, SamTypeOK, Awaited, CleanupLast
<1>2. accepted' = IF added = {} THEN accepted ELSE accepted + 1
  BY CancelKeeps DEF sessionVars
<1>3. WaitsFor'
  BY <1>1, <1>2 DEF WaitsFor
<1>. QED  BY <1>1, <1>3, CallKeeps

LEMMA SetCacheLimitKeeps ==
    ASSUME SamInv, NEW n \in Limits, SetCacheLimit(n)
    PROVE  SamInv'
<1>1. PICK added \in Submissions("limit", n) : CancelThen({}, added)
  BY DEF SetCacheLimit
<1>2. /\ OneMore(added) /\ \A t \in added : t.op = "limit"
      /\ cleanup \in {"none", "deferred"} => added = {} \/ accepted + 1 <= MaxNative
  BY <1>1, SubmissionsFit
<1>3. boxes \subseteq Ids
  BY DEF SamInv, SamTypeOK
<1>. QED  BY <1>1, <1>2, <1>3, OtherWorkKeeps DEF SetCacheLimit

LEMMA GenerateMaskFromBoxKeeps ==
    ASSUME SamInv, NEW i \in Images, GenerateMaskFromBox(i)
    PROVE  SamInv'
<1>1. PICK added \in Submissions("box", i) :
        added # {} /\ boxes' = boxes \cup {accepted + 1} /\ CancelThen({}, added)
  BY DEF GenerateMaskFromBox
<1>2. /\ OneMore(added) /\ \A t \in added : t.op = "box"
      /\ cleanup \in {"none", "deferred"} => added = {} \/ accepted + 1 <= MaxNative
  BY <1>1, SubmissionsFit
<1>3. boxes \subseteq Ids /\ managerLimit \in Limits
  BY DEF SamInv, SamTypeOK
<1>4. accepted + 1 \in Ids
  BY <1>1, <1>2 DEF OneMore, Native
<1>5. boxes' \subseteq Ids
  BY <1>1, <1>3, <1>4
<1>. QED  BY <1>1, <1>2, <1>3, <1>5, OtherWorkKeeps DEF GenerateMaskFromBox

\* There is always a number left for the cleanup.
LEMMA CleanupFits ==
    ASSUME SamInv, cleanup \in {"none", "deferred"}
    PROVE  OneMore(CleanupTask) /\ CleanupTask # {} /\ \A t \in CleanupTask : t.op = "cleanup"
<1>1. accepted \in Nat /\ accepted <= MaxNative /\ MaxNative \in Nat
  BY SamAssumption DEF SamInv, SamTypeOK, CleanupLast, SamAssumption
<1>2. PICK x : x = [id |-> accepted + 1, op |-> "cleanup", arg |-> NoImage]
  OBVIOUS
<1>3. x \in Native /\ x.id = accepted + 1 /\ x.op = "cleanup"
  BY <1>1, <1>2 DEF Native, Ids
<1>4. CleanupTask = {x}
  BY <1>2 DEF CleanupTask, Accepted
<1>. QED  BY <1>3, <1>4 DEF OneMore, Fits

LEMMA ShutdownKeeps ==
    ASSUME SamInv, Shutdown
    PROVE  SamInv'
<1>1. ~closing /\ closing' = TRUE /\ Forget(Images) /\ boxes' = {}
  BY DEF Shutdown
<1>2. cleanup = "none" /\ accepted <= MaxNative /\ managerLimit \in Limits
  BY <1>1 DEF SamInv, SamTypeOK, CleanupLast
<1>3. PICK added : added = IF cleanup' = "accepted" THEN CleanupTask ELSE {}
  OBVIOUS
<1>4. /\ cleanup' \in {"deferred", "accepted", "rejected", "done"}
      /\ CancelThen(Ids, added)
      /\ references' = references /\ UNCHANGED sessionVars /\ managerLimit' = managerLimit
  BY <1>3, Zenon DEF Shutdown
<1>5. OneMore(added) /\ \A t \in added : t.op = "cleanup"
  BY <1>2, <1>3, CleanupFits DEF OneMore
<1>6. PreparingIds(Images) \subseteq Ids
  BY SamAssumption DEF SamInv, SamTypeOK, PreparingIds, Ids, SamAssumption
<1>7. cleanup' \in {"none", "deferred"} =>
          (IF added = {} THEN accepted ELSE accepted + 1) <= MaxNative
  BY <1>2, <1>3, <1>4
<1>. QED  BY <1>1, <1>2, <1>4, <1>5, <1>6, <1>7, ForgetKeeps

LEMMA CleanupAdmittedKeeps ==
    ASSUME SamInv, CleanupAdmitted
    PROVE  SamInv'
<1>1. cleanup = "deferred" /\ cleanup' \in {"accepted", "rejected"}
  BY DEF CleanupAdmitted
<1>2. /\ UNCHANGED <<references, preparing, retrying, boxes, managerLimit, closing>>
      /\ UNCHANGED sessionVars
  BY DEF CleanupAdmitted, managerVars
<1>3. PICK ids, added : /\ CancelThen(ids, added) /\ OneMore(added)
                        /\ \A t \in added : t.op = "cleanup"
  <2>1. CASE cleanup' = "accepted"
    <3>1. CancelThen({}, CleanupTask)
      BY <2>1 DEF CleanupAdmitted
    <3>. QED  BY <1>1, <3>1, CleanupFits
  <2>2. CASE cleanup' # "accepted"
    <3>1. CancelThen(Ids, {})
      BY <2>2 DEF CleanupAdmitted
    <3>. QED  BY <3>1 DEF OneMore
  <2>. QED  BY <2>1, <2>2
<1>4. /\ retrying \subseteq Images /\ preparing \in [Images -> 0..accepted]
      /\ boxes \subseteq Ids /\ managerLimit \in Limits /\ accepted \in Nat
      /\ \A j \in retrying : preparing[j] = 0
  BY <1>1 DEF SamInv, SamTypeOK, Awaited, CleanupLast
<1>5. accepted' = IF added = {} THEN accepted ELSE accepted + 1
  BY <1>2, <1>3, CancelKeeps DEF sessionVars
<1>6. WaitsFor'
  BY <1>2, <1>4, <1>5 DEF WaitsFor
<1>7. closing
  BY <1>1 DEF SamInv, CleanupLast
<1>. QED  BY <1>1, <1>2, <1>3, <1>4, <1>6, <1>7, CallKeeps

-----------------------------------------------------------------------------
(* The lane and the callbacks.                                             *)

\* A lane that is not idle has a head, and it is one of its tasks.
LEMMA HeadInLane ==
    ASSUME SamInv, nativeLane # {}
    PROVE  LaneHead \in nativeLane /\ LaneHead \in Native
<1>1. LaneOfTasks(nativeLane, accepted) /\ MaxNative \in Nat
  BY SamAssumption DEF SamInv, SamTypeOK, SamAssumption, Numbered, LaneOfTasks
<1>2. LaneHead = FirstOf(nativeLane)
  BY Zenon DEF LaneHead, FirstOf
<1>. QED  BY <1>1, <1>2, LaneHasFirst DEF LaneOfTasks

\* What the session may make of its predictors besides adding and removing some.
Reordered ==
    /\ predictors' \in Seq(Images) /\ IsInjective(predictors')
    /\ Len(predictors') <= sessionLimit /\ Range(predictors') = Range(predictors)
    /\ sessionLimit' = sessionLimit

\* The head leaves the lane and the manager may stop waiting for it.
LEMMA HeadLeaves ==
    ASSUME SamInv, nativeLane # {}, nativeLane' = nativeLane \ {LaneHead},
           phase' = "queued", doomedHead' = FALSE, ownerEvents' \in Seq(Callbacks),
           \A e \in Range(ownerEvents') :
               e \in Range(ownerEvents) \/ (e.kind # "adopt" /\ e.task = LaneHead),
           UNCHANGED <<retrying, managerLimit, closing, cleanup, accepted>>, Reordered,
           boxes' \subseteq Ids, references' \subseteq Images, WaitsFor',
           \A i \in Images : \/ preparing'[i] = preparing[i]
                             \/ preparing'[i] = 0 /\ preparing[i] = LaneHead.id,
           ~unseen' /\ ~closing => references' = Range(predictors)
    PROVE  SamInv'
<1>1. LaneHead \in nativeLane
  BY HeadInLane
<1>2. /\ predictors' \in Seq(Images) /\ IsInjective(predictors')
      /\ Len(predictors') <= sessionLimit' /\ Range(predictors') = Range(predictors)
      /\ sessionLimit' = sessionLimit
      /\ retrying' = retrying /\ managerLimit' = managerLimit /\ closing' = closing
      /\ cleanup' = cleanup /\ accepted' = accepted
  BY DEF Reordered
<1>3. SamTypeOK'
  BY <1>2 DEF SamInv, SamTypeOK, WaitsFor
<1>4. Fitting' /\ CleanupLast'
  BY <1>2 DEF SamInv, Fitting, Fits, CleanupLast
<1>5. \A e \in Range(ownerEvents') : e.task.id <= accepted
  BY <1>1 DEF SamInv, Numbered
<1>6. IsFiniteSet(nativeLane')
  BY FS_Subset DEF SamInv, Numbered
<1>7. Numbered'
  BY <1>2, <1>5, <1>6 DEF SamInv, Numbered
<1>8. \A t \in nativeLane' : t.id # LaneHead.id
  BY <1>1 DEF SamInv, Numbered
<1>9. ASSUME NEW t \in nativeLane', t.op = "prepare"  PROVE preparing'[t.arg] = t.id
  <2>1. preparing[t.arg] = t.id
    BY <1>9 DEF SamInv, Awaited
  <2>2. t.arg \in Images
    BY <1>9 DEF SamInv, Fitting, Fits
  <2>. QED  BY <1>8, <2>1, <2>2
<1>10. \A i \in retrying : preparing'[i] = 0
  BY DEF SamInv, SamTypeOK, Awaited
<1>11. Awaited'
  BY <1>2, <1>9, <1>10 DEF Awaited
<1>12. EventsFit'
  <2> SUFFICES ASSUME NEW e \in Range(ownerEvents')
               PROVE  /\ e.kind # "adopt" => \A t \in nativeLane' : t.id # e.task.id
                      /\ ~(e.kind = "adopt" /\ e.task \in nativeLane')
    BY Zenon DEF EventsFit
  <2>1. CASE e \in Range(ownerEvents)
    BY <2>1 DEF SamInv, EventsFit
  <2>2. CASE e.kind # "adopt" /\ e.task = LaneHead
    BY <1>8, <2>2
  <2>. QED  BY <2>1, <2>2
<1>13. Believed'
  BY <1>2 DEF Believed
<1>. QED  BY <1>3, <1>4, <1>7, <1>11, <1>12, <1>13 DEF SamInv

LEMMA TaskStartsKeeps ==
    ASSUME SamInv, TaskStarts
    PROVE  SamInv'
<1>1. /\ nativeLane # {} /\ phase = "queued" /\ phase' = "working"
      /\ UNCHANGED <<references, preparing, retrying, boxes, managerLimit, closing>>
      /\ UNCHANGED <<cleanup, accepted, nativeLane, doomedHead, ownerEvents, predictors,
                     sessionLimit, unseen>>
  BY DEF TaskStarts, managerVars, sessionVars
<1>2. LaneHead' = LaneHead
  BY <1>1, Zenon DEF LaneHead
<1>3. SamTypeOK' /\ Fitting' /\ Numbered' /\ CleanupLast'
  BY <1>1 DEF SamInv, SamTypeOK, Fitting, Fits, Numbered, CleanupLast
<1>4. Awaited' /\ EventsFit' /\ Believed'
  BY <1>1, <1>2 DEF SamInv, Awaited, EventsFit, Believed
<1>. QED  BY <1>3, <1>4 DEF SamInv

\* What is told of one task that leaves the lane.
LEMMA ToldOfOne ==
    ASSUME SamInv, NEW t \in Native
    PROVE  /\ ownerEvents \in Seq(Callbacks)
           /\ \A told \in {Settlements({t}), <<Told("failed", t, {})>>} :
                 /\ ownerEvents \o told \in Seq(Callbacks)
                 /\ \A e \in Range(ownerEvents \o told) :
                       e \in Range(ownerEvents) \/ (e.kind # "adopt" /\ e.task = t)
<1>1. ownerEvents \in Seq(Callbacks)
  BY DEF SamInv, SamTypeOK
<1>2. /\ Settlements({t}) \in Seq(Callbacks)
      /\ \A e \in Range(Settlements({t})) : e.kind # "adopt" /\ e.task = t
  <2>1. {t} \in SUBSET Native /\ IsFiniteSet({t})
    BY FS_Singleton
  <2>2. /\ Settlements({t}) \in Seq(Callbacks)
        /\ \A e \in Range(Settlements({t})) : e.kind = "cancelled" /\ e.task \in {t}
    BY <2>1, SettlementsFit
  <2>. QED  BY <2>2
<1>3. PICK f : f = Told("failed", t, {})
  OBVIOUS
<1>4. f \in Callbacks /\ f.kind # "adopt" /\ f.task = t
  BY <1>3 DEF Told, Callbacks
<1>5. <<f>> \in Seq(Callbacks) /\ \A e \in Range(<<f>>) : e.kind # "adopt" /\ e.task = t
  BY <1>4 DEF Range
<1>6. ASSUME NEW told \in {Settlements({t}), <<f>>}
      PROVE  /\ ownerEvents \o told \in Seq(Callbacks)
             /\ \A e \in Range(ownerEvents \o told) :
                   e \in Range(ownerEvents) \/ (e.kind # "adopt" /\ e.task = t)
  <2>1. /\ told \in Seq(Callbacks)
        /\ \A e \in Range(told) : e.kind # "adopt" /\ e.task = t
    BY <1>2, <1>5, <1>6
  <2>2. /\ ownerEvents \o told \in Seq(Callbacks)
        /\ Range(ownerEvents \o told) = Range(ownerEvents) \cup Range(told)
    BY <1>1, <2>1, RangeOfQueues
  <2>. QED  BY <2>1, <2>2
<1>. QED  BY <1>1, <1>3, <1>6

\* The newest predictors of a cache that may be over its limit.
LEMMA EnforcedFits ==
    ASSUME NEW ps \in Seq(Images), IsInjective(ps), NEW n \in Nat
    PROVE  /\ Enforced(ps, n) \in Seq(Images) /\ IsInjective(Enforced(ps, n))
           /\ Len(Enforced(ps, n)) <= n
<1>1. Len(ps) \in Nat /\ DOMAIN ps = 1..Len(ps) /\ \A i \in 1..Len(ps) : ps[i] \in Images
  BY LenProperties, ElementOfSeq
<1>2. CASE Len(ps) <= n
  BY <1>1, <1>2 DEF Enforced
<1>3. CASE ~(Len(ps) <= n)
  <2>1. PICK r : r = Enforced(ps, n)
    OBVIOUS
  <2>2. r = SubSeq(ps, Len(ps) - n + 1, Len(ps))
    BY <1>1, <1>3, <2>1 DEF Enforced
  <2>3. PICK a \in Nat : a = Len(ps) - n
    <3>1. Len(ps) - n \in Nat
      BY <1>1, <1>3
    <3>. QED  BY <3>1
  <2>4. /\ r \in Seq(Images) /\ Len(r) = n
        /\ \A i \in 1..n : r[i] = ps[i + a]
    <3>1. \A i \in (a + 1)..Len(ps) : ps[i] \in Images
      BY <1>1, <2>3
    <3>2. /\ SubSeq(ps, a + 1, Len(ps)) \in Seq(Images)
          /\ Len(SubSeq(ps, a + 1, Len(ps))) =
                IF a + 1 <= Len(ps) THEN Len(ps) - (a + 1) + 1 ELSE 0
          /\ \A i \in 1..(Len(ps) - (a + 1) + 1) :
                SubSeq(ps, a + 1, Len(ps))[i] = ps[a + 1 + i - 1]
      BY <1>1, <2>3, <3>1, SubSeqProperties
    <3>3. r = SubSeq(ps, a + 1, Len(ps))
      BY <2>2, <2>3
    <3>4. Len(r) = n
      BY <1>1, <2>3, <3>2, <3>3
    <3>5. ASSUME NEW i \in 1..n  PROVE r[i] = ps[i + a]
      <4>1. i \in 1..(Len(ps) - (a + 1) + 1) /\ a + 1 + i - 1 = i + a
        BY <1>1, <2>3
      <4>. QED  BY <3>2, <3>3, <4>1
    <3>. QED  BY <3>2, <3>3, <3>4, <3>5
  <2>5. \A i, j \in 1..n : r[i] = r[j] => i = j
    <3> SUFFICES ASSUME NEW i \in 1..n, NEW j \in 1..n, r[i] = r[j]  PROVE i = j
      OBVIOUS
    <3>1. i + a \in DOMAIN ps /\ j + a \in DOMAIN ps /\ ps[i + a] = ps[j + a]
      BY <1>1, <2>3, <2>4
    <3>2. i + a = j + a
      BY <3>1 DEF IsInjective
    <3>. QED  BY <2>3, <3>2
  <2>6. DOMAIN r = 1..n
    BY <2>4, LenProperties
  <2>. QED  BY <2>1, <2>4, <2>5, <2>6 DEF IsInjective
<1>. QED  BY <1>1, <1>2, <1>3

\* The session holds each predictor once and stays within its limit, and a box
\* changes only their order.
LEMMA SessionFits ==
    ASSUME SamInv, NEW t \in Native, Fits(t)
    PROVE  /\ PredictorsAfter(t) \in Seq(Images) /\ IsInjective(PredictorsAfter(t))
           /\ Len(PredictorsAfter(t)) <= IF t.op = "limit" THEN t.arg ELSE sessionLimit
           /\ t.op = "box" => Range(PredictorsAfter(t)) = Range(predictors)
<1>1. /\ predictors \in Seq(Images) /\ IsInjective(predictors)
      /\ Len(predictors) <= sessionLimit /\ sessionLimit \in Nat
      /\ t.op = "limit" => t.arg \in Nat
  BY SamAssumption DEF SamInv, SamTypeOK, SamAssumption, Fits
<1>2. PICK rest : rest = RemoveFirst(predictors, t.arg)
  OBVIOUS
<1>3. /\ rest \in Seq(Images) /\ IsInjective(rest)
      /\ Range(rest) = Range(predictors) \ {t.arg}
  BY <1>1, <1>2, DropFromQueue
<1>4. t.arg \in Images =>
        /\ Append(rest, t.arg) \in Seq(Images) /\ IsInjective(Append(rest, t.arg))
        /\ Range(Append(rest, t.arg)) = Range(rest) \cup {t.arg}
        /\ Len(Append(rest, t.arg)) = Len(rest) + 1
  BY <1>3, AppendToQueue, AppendProperties
<1>5. Len(rest) \in Nat /\ Len(predictors) \in Nat
  BY <1>1, <1>3, LenProperties
<1>6. Len(rest) <= Len(predictors)
      /\ (t.arg \in Range(predictors) => Len(rest) + 1 = Len(predictors))
  <2>1. CASE t.arg \in Range(predictors)
    <3>1. PICK k \in 1..Len(predictors) : rest = RemoveAt(predictors, k)
      BY <1>1, <1>2, <2>1, RemoveFromQueue
    <3>2. Len(rest) = Len(predictors) - 1
      BY <1>1, <3>1, RemoveAtPlace
    <3>. QED  BY <1>5, <3>2
  <2>2. CASE t.arg \notin Range(predictors)
    <3>1. \A k \in 1..Len(predictors) : predictors[k] # t.arg
      BY <1>1, <2>2, LenProperties DEF Range
    <3>2. rest = predictors
      BY <1>2, <3>1 DEF RemoveFirst
    <3>. QED  BY <1>5, <2>2, <3>2
  <2>. QED  BY <2>1, <2>2
<1>7. t.op \in {"prepare", "box", "remove", "clear", "limit", "cleanup"}
  BY DEF Native
<1>8. CASE t.op = "prepare"
  <2>1. PredictorsAfter(t) = Enforced(Append(rest, t.arg), sessionLimit)
    BY <1>2, <1>8 DEF PredictorsAfter
  <2>. QED  BY <1>1, <1>4, <1>8, <2>1, EnforcedFits DEF Fits
<1>9. CASE t.op = "box"
  <2>1. PredictorsAfter(t) = IF t.arg \in Range(predictors) THEN Append(rest, t.arg)
                             ELSE predictors
    BY <1>2, <1>9 DEF PredictorsAfter
  <2>. QED  BY <1>1, <1>3, <1>4, <1>5, <1>6, <1>9, <2>1 DEF Fits
<1>10. CASE t.op = "remove"
  <2>1. PredictorsAfter(t) = rest
    BY <1>2, <1>10 DEF PredictorsAfter
  <2>. QED  BY <1>1, <1>3, <1>5, <1>6, <1>10, <2>1
<1>11. CASE t.op = "limit"
  <2>1. PredictorsAfter(t) = Enforced(predictors, t.arg)
    BY <1>11 DEF PredictorsAfter
  <2>. QED  BY <1>1, <1>11, <2>1, EnforcedFits
<1>12. CASE t.op \in {"clear", "cleanup"}
  <2>1. PredictorsAfter(t) = <<>>
    BY <1>12 DEF PredictorsAfter
  <2>2. <<>> \in Seq(Images) /\ IsInjective(<<>>) /\ Len(<<>>) = 0
    BY DEF IsInjective
  <2>. QED  BY <1>1, <1>12, <2>1, <2>2
<1>. QED  BY <1>7, <1>8, <1>9, <1>10, <1>11, <1>12

LEMMA WorkStopsKeeps ==
    ASSUME SamInv, WorkStops
    PROVE  SamInv'
<1>1. /\ phase = "working" /\ nativeLane # {}
      /\ UNCHANGED <<references, preparing, retrying, boxes, managerLimit, closing, cleanup,
                     sessionLimit, unseen>>
  BY DEF WorkStops, managerVars, SamInv, SamTypeOK
<1>2. PICK told \in {Settlements({LaneHead}), <<Told("failed", LaneHead, {})>>} :
        HeadSettles(told)
  BY DEF WorkStops
<1>3. /\ nativeLane' = nativeLane \ {LaneHead} /\ phase' = "queued" /\ doomedHead' = FALSE
      /\ ownerEvents' = ownerEvents \o told /\ accepted' = accepted
  BY <1>2 DEF HeadSettles
<1>4. /\ ownerEvents' \in Seq(Callbacks)
      /\ \A e \in Range(ownerEvents') :
            e \in Range(ownerEvents) \/ (e.kind # "adopt" /\ e.task = LaneHead)
  BY <1>1, <1>2, <1>3, HeadInLane, ToldOfOne
<1>5. /\ boxes' \subseteq Ids /\ references' \subseteq Images
      /\ preparing \in [Images -> 0..accepted]
  BY <1>1 DEF SamInv, SamTypeOK
<1>6. WaitsFor'
  BY <1>1, <1>3, <1>5 DEF WaitsFor
<1>7. ~unseen' /\ ~closing => references' = Range(predictors)
  BY <1>1 DEF SamInv, Believed
<1>8. Reordered
  <2>1. predictors' = predictors \/ (LaneHead.op = "box" /\ predictors' = PredictorsAfter(LaneHead))
    BY DEF WorkStops
  <2>2. LaneHead \in Native /\ Fits(LaneHead)
    BY <1>1, HeadInLane DEF SamInv, Fitting
  <2>. QED  BY <1>1, <2>1, <2>2, SessionFits DEF SamInv, SamTypeOK, Reordered
<1>. QED  BY <1>1, <1>3, <1>4, <1>5, <1>6, <1>7, <1>8, HeadLeaves

LEMMA WorkDoneKeeps ==
    ASSUME SamInv, WorkDone
    PROVE  SamInv'
<1>1. /\ phase = "working" /\ phase' = "worked" /\ nativeLane # {}
      /\ predictors' = PredictorsAfter(LaneHead)
      /\ sessionLimit' = IF LaneHead.op = "limit" THEN LaneHead.arg ELSE sessionLimit
      /\ UNCHANGED <<references, preparing, retrying, boxes, managerLimit, closing>>
      /\ UNCHANGED <<cleanup, accepted, nativeLane, doomedHead, ownerEvents, unseen>>
  BY DEF WorkDone, managerVars, SamInv, SamTypeOK
<1>2. LaneHead' = LaneHead
  BY <1>1, Zenon DEF LaneHead
<1>3. LaneHead \in Native /\ Fits(LaneHead)
  BY <1>1, HeadInLane DEF SamInv, Fitting
<1>4. /\ PredictorsAfter(LaneHead) \in Seq(Images) /\ IsInjective(PredictorsAfter(LaneHead))
      /\ Len(PredictorsAfter(LaneHead)) <=
             IF LaneHead.op = "limit" THEN LaneHead.arg ELSE sessionLimit
      /\ LaneHead.op = "box" => Range(PredictorsAfter(LaneHead)) = Range(predictors)
  BY <1>3, SessionFits
<1>5. SamTypeOK'
  BY <1>1, <1>3, <1>4 DEF SamInv, SamTypeOK, Fits
<1>6. Fitting' /\ Numbered' /\ CleanupLast'
  BY <1>1 DEF SamInv, Fitting, Fits, Numbered, CleanupLast
<1>7. Awaited'
  BY <1>1, <1>2 DEF SamInv, Awaited
<1>8. EventsFit'
  BY <1>1 DEF SamInv, EventsFit
<1>9. Believed'
  BY <1>1, <1>2, <1>4 DEF SamInv, Believed
<1>. QED  BY <1>5, <1>6, <1>7, <1>8, <1>9 DEF SamInv

LEMMA ResultTakenKeeps ==
    ASSUME SamInv, ResultTaken
    PROVE  SamInv'
<1>1. /\ phase = "worked" /\ nativeLane # {}
      /\ UNCHANGED <<references, preparing, retrying, boxes, managerLimit, closing>>
      /\ predictors' = predictors /\ sessionLimit' = sessionLimit
  BY DEF ResultTaken, managerVars, sessionVars, SamInv, SamTypeOK
<1>2. LaneHead \in nativeLane /\ LaneHead \in Native
  BY <1>1, HeadInLane
<1>3. /\ references \subseteq Images /\ retrying \subseteq Images /\ boxes \subseteq Ids
      /\ preparing \in [Images -> 0..accepted] /\ ownerEvents \in Seq(Callbacks)
  BY DEF SamInv, SamTypeOK
<1>4. CASE LaneHead.op = "cleanup"
  <2>1. /\ cleanup' = "done" /\ nativeLane' = {} /\ phase' = "queued" /\ doomedHead' = FALSE
        /\ ownerEvents' = ownerEvents \o Settlements(nativeLane \ {LaneHead})
        /\ accepted' = accepted /\ unseen' = unseen
    BY <1>4 DEF ResultTaken
  <2>2. closing
    BY <1>2, <1>4 DEF SamInv, CleanupLast
  <2>3. PICK others : others = nativeLane \ {LaneHead}
    OBVIOUS
  <2>4. others \in SUBSET Native /\ IsFiniteSet(others) /\ others \subseteq nativeLane
    BY <2>3, FS_Subset DEF SamInv, SamTypeOK, Numbered
  <2>5. /\ Settlements(others) \in Seq(Callbacks)
        /\ \A e \in Range(Settlements(others)) : e.kind = "cancelled" /\ e.task \in others
    BY <2>4, SettlementsFit
  <2>6. /\ ownerEvents' \in Seq(Callbacks)
        /\ Range(ownerEvents') = Range(ownerEvents) \cup Range(Settlements(others))
    <3>1. ownerEvents' = ownerEvents \o Settlements(others)
      BY <2>1, <2>3
    <3>. QED  BY <1>3, <2>5, <3>1, RangeOfQueues
  <2>7. SamTypeOK'
    BY <1>1, <2>1, <2>6 DEF SamInv, SamTypeOK
  <2>8. Fitting' /\ CleanupLast'
    BY <1>1, <2>1, <2>2 DEF Fitting, CleanupLast
  <2>9. \A e \in Range(ownerEvents') : e.task.id <= accepted
    BY <2>4, <2>5, <2>6 DEF SamInv, Numbered
  <2>10. Numbered'
    BY <2>1, <2>9, FS_EmptySet DEF Numbered
  <2>11. Awaited' /\ EventsFit'
    BY <1>1, <2>1 DEF SamInv, Awaited, EventsFit
  <2>12. Believed'
    BY <1>1, <2>2 DEF Believed
  <2>. QED  BY <2>7, <2>8, <2>10, <2>11, <2>12 DEF SamInv
<1>5. CASE LaneHead.op # "cleanup" /\ doomedHead
  <2>1. /\ HeadSettles(Settlements({LaneHead})) /\ cleanup' = cleanup
        /\ unseen' = (unseen \/ LaneHead.op # "box")
    BY <1>5 DEF ResultTaken
  <2>2. /\ nativeLane' = nativeLane \ {LaneHead} /\ phase' = "queued" /\ doomedHead' = FALSE
        /\ ownerEvents' = ownerEvents \o Settlements({LaneHead}) /\ accepted' = accepted
    BY <2>1 DEF HeadSettles
  <2>3. /\ ownerEvents' \in Seq(Callbacks)
        /\ \A e \in Range(ownerEvents') :
              e \in Range(ownerEvents) \/ (e.kind # "adopt" /\ e.task = LaneHead)
    BY <1>2, <2>2, ToldOfOne
  <2>4. WaitsFor'
    BY <1>1, <1>3, <2>2 DEF WaitsFor
  <2>5. ~unseen' /\ ~closing => references' = Range(predictors)
    BY <1>1, <2>1 DEF SamInv, Believed
  <2>6. UNCHANGED <<retrying, managerLimit, closing, cleanup, accepted>> /\ Reordered
    BY <1>1, <2>1, <2>2 DEF Reordered, SamInv, SamTypeOK
  <2>7. boxes' \subseteq Ids /\ references' \subseteq Images
    BY <1>1, <1>3
  <2>. QED  BY <1>1, <2>2, <2>3, <2>4, <2>5, <2>6, <2>7, HeadLeaves
<1>6. CASE LaneHead.op # "cleanup" /\ ~doomedHead
  <2>1. /\ phase' = "delivering"
        /\ ownerEvents' = Append(ownerEvents, Told("adopt", LaneHead, Range(predictors)))
        /\ UNCHANGED <<accepted, nativeLane, doomedHead, cleanup, unseen>>
    BY <1>6 DEF ResultTaken
  <2>2. LaneHead' = LaneHead
    BY <2>1, Zenon DEF LaneHead
  <2>3. PICK f : f = Told("adopt", LaneHead, Range(predictors))
    OBVIOUS
  <2>4. Range(predictors) \subseteq Images
    BY RangeOfQueues DEF SamInv, SamTypeOK
  <2>5. /\ f \in Callbacks /\ f.kind = "adopt" /\ f.task = LaneHead
        /\ f.snapshot = Range(predictors)
    BY <1>2, <2>3, <2>4 DEF Told, Callbacks
  <2>6. ownerEvents' \in Seq(Callbacks) /\ Range(ownerEvents') = Range(ownerEvents) \cup {f}
    <3>1. ownerEvents' = Append(ownerEvents, f)
      BY <2>1, <2>3
    <3>. QED  BY <1>3, <2>5, <3>1, RangeOfQueues
  <2>7. SamTypeOK'
    BY <1>1, <2>1, <2>6 DEF SamInv, SamTypeOK
  <2>8. Fitting' /\ CleanupLast'
    BY <1>1, <2>1 DEF SamInv, Fitting, Fits, CleanupLast
  <2>9. Numbered'
    BY <1>2, <2>1, <2>5, <2>6 DEF SamInv, Numbered
  <2>10. Awaited'
    BY <1>1, <1>6, <2>1, <2>2 DEF SamInv, Awaited
  <2>11. EventsFit'
    <3> SUFFICES ASSUME NEW e \in Range(ownerEvents')
                 PROVE  /\ e.kind # "adopt" => \A t \in nativeLane : t.id # e.task.id
                        /\ e.kind = "adopt" /\ e.task \in nativeLane =>
                              e.task = LaneHead /\ e.snapshot = Range(predictors)
      BY <1>1, <2>1, <2>2, Zenon DEF EventsFit
    <3>. QED  BY <2>5, <2>6 DEF SamInv, EventsFit
  <2>12. Believed'
    BY <1>1, <2>1, <2>2 DEF SamInv, Believed
  <2>. QED  BY <2>7, <2>8, <2>9, <2>10, <2>11, <2>12 DEF SamInv
<1>. QED  BY <1>4, <1>5, <1>6

\* A callback that leaves the lane alone: the manager may stop waiting for a task
\* that has left the lane.
LEMMA EventTaken ==
    ASSUME SamInv, ownerEvents # <<>>, ownerEvents' = Tail(ownerEvents),
           UNCHANGED <<references, retrying, managerLimit, closing, cleanup, accepted, unseen>>,
           UNCHANGED laneVars, UNCHANGED sessionVars, boxes' \subseteq Ids, WaitsFor',
           \A i \in Images : \/ preparing'[i] = preparing[i]
                             \/ /\ preparing'[i] = 0
                                /\ \A t \in nativeLane : preparing[i] # t.id
    PROVE  SamInv'
<1>1. /\ UNCHANGED <<references, retrying, managerLimit, closing, cleanup, accepted, unseen>>
      /\ UNCHANGED <<nativeLane, phase, doomedHead, predictors, sessionLimit>>
  BY DEF laneVars, sessionVars
<1>2. LaneHead' = LaneHead
  BY <1>1, Zenon DEF LaneHead
<1>3. /\ ownerEvents' \in Seq(Callbacks)
      /\ \A e \in Range(ownerEvents') : e \in Range(ownerEvents)
  BY RangeOfQueues DEF SamInv, SamTypeOK
<1>4. SamTypeOK'
  BY <1>1, <1>3 DEF SamInv, SamTypeOK, WaitsFor
<1>5. Fitting' /\ Numbered' /\ CleanupLast'
  BY <1>1, <1>3 DEF SamInv, Fitting, Fits, Numbered, CleanupLast
<1>6. ASSUME NEW t \in nativeLane, t.op = "prepare"
      PROVE  preparing'[t.arg] = t.id \/ (doomedHead /\ t = LaneHead)
  <2>1. t.arg \in Images /\ (preparing[t.arg] = t.id \/ (doomedHead /\ t = LaneHead))
    BY <1>6 DEF SamInv, Fitting, Fits, Awaited
  <2>. QED  BY <2>1
<1>7. \A i \in retrying : preparing'[i] = 0
  BY DEF SamInv, SamTypeOK, Awaited
<1>8. doomedHead => phase \in {"working", "worked"}
  BY DEF SamInv, Awaited
<1>9. Awaited'
  BY <1>1, <1>2, <1>6, <1>7, <1>8 DEF Awaited
<1>10. EventsFit'
  BY <1>1, <1>2, <1>3 DEF SamInv, EventsFit
<1>11. Believed'
  BY <1>1, <1>2 DEF SamInv, Believed
<1>. QED  BY <1>4, <1>5, <1>9, <1>10, <1>11 DEF SamInv

\* What the manager no longer waits for after a settlement.
LEMMA SettledRequest ==
    ASSUME SamInv, NEW t \in Native, accepted' = accepted,
           preparing' = [i \in Images |-> IF preparing[i] = t.id THEN 0 ELSE preparing[i]]
    PROVE  /\ WaitsFor'
           /\ \A i \in Images : \/ preparing'[i] = preparing[i]
                                \/ preparing'[i] = 0 /\ preparing[i] = t.id
<1>1. preparing \in [Images -> 0..accepted] /\ accepted \in Nat
  BY DEF SamInv, SamTypeOK
<1>. QED  BY <1>1 DEF WaitsFor

LEMMA HandleSettledKeeps ==
    ASSUME SamInv, HandleSettled
    PROVE  SamInv'
<1>1. PICK e : e = Head(ownerEvents)
  OBVIOUS
<1>2. /\ ownerEvents # <<>> /\ e.kind # "adopt" /\ ownerEvents' = Tail(ownerEvents)
      /\ preparing' = [i \in Images |-> IF preparing[i] = e.task.id THEN 0 ELSE preparing[i]]
      /\ boxes' = boxes \ {e.task.id}
      /\ UNCHANGED <<references, retrying, managerLimit, closing, cleanup, accepted, unseen>>
      /\ UNCHANGED laneVars /\ UNCHANGED sessionVars
  BY <1>1 DEF HandleSettled, SettleRequest
<1>3. e \in Range(ownerEvents) /\ e \in Callbacks
  BY <1>1, <1>2, RangeOfQueues DEF SamInv, SamTypeOK
<1>4. \A t \in nativeLane : t.id # e.task.id
  BY <1>2, <1>3 DEF SamInv, EventsFit
<1>5. e.task \in Native
  BY <1>3 DEF Callbacks
<1>6. /\ WaitsFor'
      /\ \A i \in Images : \/ preparing'[i] = preparing[i]
                           \/ preparing'[i] = 0 /\ preparing[i] = e.task.id
  BY <1>2, <1>5, SettledRequest
<1>7. boxes' \subseteq Ids
  BY <1>2 DEF SamInv, SamTypeOK
<1>. QED  BY <1>2, <1>4, <1>6, <1>7, EventTaken

LEMMA HandleAdoptionKeeps ==
    ASSUME SamInv, HandleAdoption
    PROVE  SamInv'
<1>1. PICK e : e = Head(ownerEvents)
  OBVIOUS
<1>2. /\ ownerEvents # <<>> /\ e.kind = "adopt" /\ ownerEvents' = Tail(ownerEvents)
      /\ UNCHANGED <<retrying, managerLimit, closing, cleanup, accepted>>
      /\ UNCHANGED sessionVars
  BY <1>1 DEF HandleAdoption
<1>3. e \in Range(ownerEvents) /\ e \in Callbacks
  BY <1>1, <1>2, RangeOfQueues DEF SamInv, SamTypeOK
<1>4. e.task \in Native /\ e.snapshot \subseteq Images
  BY <1>3 DEF Callbacks
<1>5. /\ boxes \subseteq Ids /\ references \subseteq Images
      /\ preparing \in [Images -> 0..accepted]
  BY DEF SamInv, SamTypeOK
<1>6. CASE nativeLane # {} /\ LaneHead = e.task /\ phase = "delivering"
  <2>1. /\ nativeLane' = nativeLane \ {LaneHead} /\ phase' = "queued" /\ doomedHead' = FALSE
        /\ preparing' = [i \in Images |-> IF preparing[i] = e.task.id THEN 0
                                          ELSE preparing[i]]
        /\ boxes' = boxes \ {e.task.id}
        /\ IF e.task.op # "box" /\ Adopts(e.task)
           THEN references' = e.snapshot /\ unseen' = FALSE
           ELSE UNCHANGED <<references, unseen>>
    BY <1>1, <1>6 DEF HandleAdoption
  <2>2. LaneHead \in nativeLane
    BY <1>6, HeadInLane
  <2>3. e.snapshot = Range(predictors)
    BY <1>2, <1>3, <1>6, <2>2 DEF SamInv, EventsFit
  <2>4. Adopts(e.task)
    BY <1>6, <2>2 DEF Adopts, SamInv, Awaited
  <2>5. ~unseen' /\ ~closing => references' = Range(predictors)
    <3>1. CASE e.task.op = "box"
      BY <1>6, <2>1, <3>1 DEF SamInv, Believed
    <3>2. CASE e.task.op # "box"
      BY <2>1, <2>3, <2>4, <3>2
    <3>. QED  BY <3>1, <3>2
  <2>6. /\ WaitsFor'
        /\ \A i \in Images : \/ preparing'[i] = preparing[i]
                             \/ preparing'[i] = 0 /\ preparing[i] = LaneHead.id
    BY <1>2, <1>4, <1>6, <2>1, SettledRequest
  <2>7. boxes' \subseteq Ids /\ references' \subseteq Images
    BY <1>4, <1>5, <2>1
  <2>8. /\ ownerEvents' \in Seq(Callbacks)
        /\ \A f \in Range(ownerEvents') : f \in Range(ownerEvents)
    BY <1>2, RangeOfQueues DEF SamInv, SamTypeOK
  <2>9. Reordered
    BY <1>2 DEF Reordered, sessionVars, SamInv, SamTypeOK
  <2>. QED  BY <1>2, <1>6, <2>1, <2>5, <2>6, <2>7, <2>8, <2>9, HeadLeaves
<1>7. CASE ~(nativeLane # {} /\ LaneHead = e.task /\ phase = "delivering")
  <2>1. /\ UNCHANGED laneVars /\ UNCHANGED <<preparing, boxes, references, unseen>>
    BY <1>1, <1>7 DEF HandleAdoption
  <2>2. WaitsFor' /\ boxes' \subseteq Ids
    BY <1>2, <1>5, <2>1 DEF WaitsFor
  <2>. QED  BY <1>2, <2>1, <2>2, EventTaken
<1>. QED  BY <1>6, <1>7

-----------------------------------------------------------------------------
\* Nothing was prepared before the first call.
LEMMA SamStarts == SamInit => SamInv
<1> SUFFICES ASSUME SamInit  PROVE SamInv
  OBVIOUS
<1>1. <<>> \in Seq(Images) /\ IsInjective(<<>>) /\ Range(<<>>) = {} /\ Len(<<>>) = 0
      /\ <<>> \in Seq(Callbacks)
  BY EmptyQueue
<1>2. MaxNative \in Nat /\ Limits \subseteq Nat
  BY SamAssumption DEF SamAssumption
<1>3. SamTypeOK
  BY <1>1, <1>2 DEF SamInit, SamTypeOK, Ids
<1>4. Fitting /\ CleanupLast /\ Awaited
  BY <1>2 DEF SamInit, Fitting, CleanupLast, Awaited
<1>5. Numbered /\ EventsFit
  BY <1>1, FS_EmptySet DEF SamInit, Numbered, EventsFit
<1>6. Believed
  BY <1>1 DEF SamInit, Believed
<1>. QED  BY <1>3, <1>4, <1>5, <1>6 DEF SamInv

LEMMA SamStutters ==
    ASSUME SamInv, UNCHANGED samVars
    PROVE  SamInv'
<1>1. /\ UNCHANGED <<references, preparing, retrying, boxes, managerLimit, closing, cleanup>>
      /\ UNCHANGED <<accepted, nativeLane, phase, doomedHead, ownerEvents>>
      /\ UNCHANGED <<predictors, sessionLimit, unseen>>
  BY DEF samVars, managerVars, laneVars, sessionVars
<1>2. LaneHead' = LaneHead
  BY <1>1, Zenon DEF LaneHead
<1>3. SamTypeOK' /\ Fitting' /\ Numbered' /\ CleanupLast'
  BY <1>1 DEF SamInv, SamTypeOK, Fitting, Fits, Numbered, CleanupLast
<1>4. Awaited' /\ EventsFit' /\ Believed'
  BY <1>1, <1>2 DEF SamInv, Awaited, EventsFit, Believed
<1>. QED  BY <1>3, <1>4 DEF SamInv

\* Every step of the manager, the session, the lane and the owner keeps the invariant.
LEMMA SamStep == SamInv /\ [SamNext]_samVars => SamInv'
<1> SUFFICES ASSUME SamInv, [SamNext]_samVars PROVE SamInv'
  OBVIOUS
<1>1. ASSUME NEW i \in Images, \/ RequestPredictor(i) \/ RetryFires(i)
                               \/ CancelPendingPredictor(i) \/ RemoveFromCache(i)
                               \/ GenerateMaskFromBox(i)
      PROVE  SamInv'
  BY <1>1, RequestPredictorKeeps, RetryFiresKeeps, CancelPendingPredictorKeeps,
     RemoveFromCacheKeeps, GenerateMaskFromBoxKeeps
<1>2. CASE ClearCache
  BY <1>2, ClearCacheKeeps
<1>3. ASSUME NEW n \in Limits, SetCacheLimit(n)  PROVE SamInv'
  BY <1>3, SetCacheLimitKeeps
<1>4. CASE Shutdown \/ CleanupAdmitted
  BY <1>4, ShutdownKeeps, CleanupAdmittedKeeps
<1>5. CASE NativeLane
  BY <1>5, TaskStartsKeeps, WorkStopsKeeps, WorkDoneKeeps, ResultTakenKeeps DEF NativeLane
<1>6. CASE HandleSettled \/ HandleAdoption
  BY <1>6, HandleSettledKeeps, HandleAdoptionKeeps
<1>7. CASE UNCHANGED samVars
  BY <1>7, SamStutters
<1>. QED  BY <1>1, <1>2, <1>3, <1>4, <1>5, <1>6, <1>7 DEF SamNext

\* Whatever the manager, the lane and the owner's event loop do in whatever
\* order, the manager waits only for what can still be settled and knows the
\* predictors that the session holds.
THEOREM SamInvariant == SamSpec => []SamInv
  BY SamStarts, SamStep, PTL DEF SamSpec

\* The manager's and the session's state keep their types: no predictor is held
\* twice and the session stays within its limit.
THEOREM SamTypesStay == SamSpec => []SamTypeOK
<1>1. SamInv => SamTypeOK
  BY DEF SamInv
<1>. QED  BY <1>1, SamInvariant, PTL

\* What the manager says is prepared is what the session holds, but for finished
\* work that is still to be adopted and for work that was cancelled after it had
\* changed the session.
THEOREM ReferencesAreTruthfulAlways == SamSpec => []ReferencesAreTruthful
<1>1. SamInv => ReferencesAreTruthful
  BY DEF SamInv, Believed, ReferencesAreTruthful
<1>. QED  BY <1>1, SamInvariant, PTL

-----------------------------------------------------------------------------
(* DiagnosticsHub: what each observer is called with.                      *)

\* What is pending is newer than what is in the thread's hands, and that is newer
\* than what the observers it has still to call have seen.
SnapshotsFit ==
    /\ pending \in {0, published}
    /\ hubWorker # "calling" => batch = Empty
    /\ \A o \in Observers :
          /\ pending # 0 => got[o] < pending
          /\ o \in batch.left => got[o] < batch.snapshot
    /\ pending # 0 => batch.snapshot < pending
    /\ subscribed \cap retired = {} /\ (hubClosed => subscribed = {})
HubInv == HubTypeOK /\ SnapshotsFit

\* A new hub has published nothing, and every inbox is empty.
LEMMA HubStarts == HubInit => HubInv /\ \A o \in Observers : InboxOf(o)!LatestInit
<1>. SUFFICES ASSUME HubInit PROVE HubInv /\ \A o \in Observers : InboxOf(o)!LatestInit
  OBVIOUS
<1>0. MaxSnapshots \in Nat /\ 0 \in 0..0
  BY HubAssumption DEF HubAssumption
<1>1. HubTypeOK
  <2>1. got \in [Observers -> 0..published] /\ pending \in 0..published /\ published \in 0..MaxSnapshots
    BY <1>0 DEF HubInit
  <2>2. batch \in [snapshot : 0..published, left : SUBSET Observers]
    BY <1>0 DEF HubInit, Empty
  <2>. QED  BY <2>1, <2>2 DEF HubInit, HubTypeOK
<1>2. SnapshotsFit
  BY DEF HubInit, SnapshotsFit, Empty
<1>3. ASSUME NEW o \in Observers PROVE InboxOf(o)!LatestInit
  BY DEF HubInit, InboxOf!LatestInit, Access, Empty
<1>. QED  BY <1>1, <1>2, <1>3 DEF HubInv

\* One action at a time: the types, the snapshots, and the inbox of each observer.
HubKept == HubInv' /\ \A o \in Observers : InboxStep(o)

\* Publishing offers a snapshot to every observer.
LEMMA PublishKeeps ==
    ASSUME HubInv, Publish
    PROVE  HubKept
<1>. USE DEF HubInv
<1>1. HubTypeOK'
  BY HubAssumption DEF Publish, HubTypeOK, Empty
<1>2. SnapshotsFit'
  BY DEF Publish, SnapshotsFit, HubTypeOK, Empty
<1>3. ASSUME NEW o \in Observers PROVE InboxStep(o)
  <2>1. published' = published + 1 /\ (pending' # 0) = TRUE
    BY DEF Publish, HubTypeOK
  <2>2. UNCHANGED <<got, batch, subscribed, hubClosed, retired>>
    BY DEF Publish
  <2>3. InboxOf(o)!Offer
    BY <2>1, <2>2 DEF InboxOf!Offer, Access
  <2>. QED  BY <2>3 DEF InboxStep, InboxOf!LatestNext
<1>. QED  BY <1>1, <1>2, <1>3 DEF HubKept

\* Who subscribes opens its inbox.
LEMMA SubscribeKeeps ==
    ASSUME HubInv, NEW o1 \in Observers, Subscribe(o1)
    PROVE  HubKept
<1>. USE DEF HubInv
<1>1. HubTypeOK'
  BY HubAssumption DEF Subscribe, HubTypeOK, Empty
<1>2. SnapshotsFit'
  BY DEF Subscribe, SnapshotsFit, HubTypeOK, Empty
<1>3. ASSUME NEW o \in Observers PROVE InboxStep(o)
  BY DEF Subscribe, SnapshotsFit, HubTypeOK, Empty, InboxStep, Access, InboxOf!LatestNext,
         InboxOf!latestVars, InboxOf!Observe
<1>. QED  BY <1>1, <1>2, <1>3 DEF HubKept

\* Who unsubscribes shuts it.
LEMMA UnsubscribeKeeps ==
    ASSUME HubInv, NEW o1 \in Observers, Unsubscribe(o1)
    PROVE  HubKept
<1>. USE DEF HubInv
<1>1. HubTypeOK'
  BY HubAssumption DEF Unsubscribe, HubTypeOK, Empty
<1>2. SnapshotsFit'
  BY DEF Unsubscribe, SnapshotsFit, HubTypeOK, Empty
<1>3. ASSUME NEW o \in Observers PROVE InboxStep(o)
  BY DEF Unsubscribe, SnapshotsFit, HubTypeOK, Empty, InboxStep, Access, InboxOf!LatestNext,
         InboxOf!latestVars, InboxOf!Shut
<1>. QED  BY <1>1, <1>2, <1>3 DEF HubKept

\* Closing the hub shuts those that are open.
LEMMA CloseHubKeeps ==
    ASSUME HubInv, NEW wait \in BOOLEAN, CloseHub(wait)
    PROVE  HubKept
<1>. USE DEF HubInv
<1>1. HubTypeOK'
  BY HubAssumption DEF CloseHub, HubTypeOK, Empty
<1>2. SnapshotsFit'
  BY DEF CloseHub, SnapshotsFit, HubTypeOK, Empty
<1>3. ASSUME NEW o \in Observers PROVE InboxStep(o)
  BY DEF CloseHub, SnapshotsFit, HubTypeOK, Empty, InboxStep, Access, InboxOf!LatestNext,
         InboxOf!latestVars, InboxOf!Shut
<1>. QED  BY <1>1, <1>2, <1>3 DEF HubKept

\* Waiting for the thread changes no inbox.
LEMMA JoinHubKeeps ==
    ASSUME HubInv, JoinHub
    PROVE  HubKept
<1>. USE DEF HubInv
<1>1. HubTypeOK'
  BY HubAssumption DEF JoinHub, HubTypeOK, Empty
<1>2. SnapshotsFit'
  BY DEF JoinHub, SnapshotsFit, HubTypeOK, Empty
<1>3. ASSUME NEW o \in Observers PROVE InboxStep(o)
  BY DEF JoinHub, HubTypeOK, Empty, InboxStep, Access, InboxOf!latestVars
<1>. QED  BY <1>1, <1>2, <1>3 DEF HubKept

\* The thread takes the newest snapshot, for those that are subscribed.
LEMMA TakeSnapshotKeeps ==
    ASSUME HubInv, TakeSnapshot
    PROVE  HubKept
<1>. USE DEF HubInv
<1>1. HubTypeOK'
  BY HubAssumption DEF TakeSnapshot, HubTypeOK, Empty
<1>2. SnapshotsFit'
  BY DEF TakeSnapshot, SnapshotsFit, HubTypeOK, Empty
<1>3. ASSUME NEW o \in Observers PROVE InboxStep(o)
  <2>1. /\ pending # 0 /\ pending = published /\ pending' = 0 /\ got[o] < published
        /\ batch.left = {} /\ batch'.left = subscribed /\ batch'.snapshot = published
        /\ UNCHANGED <<published, got, subscribed, hubClosed, retired>>
    BY DEF TakeSnapshot, SnapshotsFit, HubTypeOK, Empty
  <2>2. (pending # 0) = TRUE /\ (pending' # 0) = FALSE
    BY <2>1
  <2>3. CASE o \in subscribed
    <3>1. InboxOf(o)!Take
      BY <2>1, <2>2, <2>3 DEF InboxOf!Take, Access
    <3>. QED  BY <3>1 DEF InboxStep, InboxOf!LatestNext
  <2>4. CASE o \notin subscribed
    <3>1. InboxOf(o)!Miss
      BY <2>1, <2>2, <2>4 DEF InboxOf!Miss, Access
    <3>. QED  BY <3>1 DEF InboxStep, InboxOf!LatestNext
  <2>. QED  BY <2>3, <2>4
<1>. QED  BY <1>1, <1>2, <1>3 DEF HubKept

\* It calls one of them.
LEMMA CallNextKeeps ==
    ASSUME HubInv, NEW o1 \in Observers, CallNext(o1)
    PROVE  HubKept
<1>. USE DEF HubInv
<1>1. HubTypeOK'
  BY HubAssumption DEF CallNext, HubTypeOK, Empty
<1>2. SnapshotsFit'
  BY DEF CallNext, SnapshotsFit, HubTypeOK, Empty
<1>3. ASSUME NEW o \in Observers PROVE InboxStep(o)
  BY DEF CallNext, SnapshotsFit, HubTypeOK, Empty, InboxStep, Access, InboxOf!LatestNext,
         InboxOf!latestVars, InboxOf!Call
<1>. QED  BY <1>1, <1>2, <1>3 DEF HubKept

\* When all are called, nothing is in hand.
LEMMA BatchDoneKeeps ==
    ASSUME HubInv, BatchDone
    PROVE  HubKept
<1>. USE DEF HubInv
<1>1. HubTypeOK'
  BY HubAssumption DEF BatchDone, HubTypeOK, Empty
<1>2. SnapshotsFit'
  BY DEF BatchDone, SnapshotsFit, HubTypeOK, Empty
<1>3. ASSUME NEW o \in Observers PROVE InboxStep(o)
  BY DEF BatchDone, HubTypeOK, Empty, InboxStep, Access, InboxOf!latestVars
<1>. QED  BY <1>1, <1>2, <1>3 DEF HubKept

\* The thread ends with nothing in hand.
LEMMA HubWorkerExitKeeps ==
    ASSUME HubInv, HubWorkerExit
    PROVE  HubKept
<1>. USE DEF HubInv
<1>1. HubTypeOK'
  BY HubAssumption DEF HubWorkerExit, HubTypeOK, Empty
<1>2. SnapshotsFit'
  BY DEF HubWorkerExit, SnapshotsFit, HubTypeOK, Empty
<1>3. ASSUME NEW o \in Observers PROVE InboxStep(o)
  BY DEF HubWorkerExit, HubTypeOK, Empty, InboxStep, Access, InboxOf!latestVars
<1>. QED  BY <1>1, <1>2, <1>3 DEF HubKept

\* Nothing happens.
LEMMA HubStutters ==
    ASSUME HubInv, UNCHANGED hubVars
    PROVE  HubKept
<1>. USE DEF HubInv
<1>1. HubTypeOK'
  BY HubAssumption DEF hubVars, HubTypeOK, Empty
<1>2. SnapshotsFit'
  BY DEF hubVars, SnapshotsFit, HubTypeOK, Empty
<1>3. ASSUME NEW o \in Observers PROVE InboxStep(o)
  BY DEF hubVars, HubTypeOK, Empty, InboxStep, Access, InboxOf!latestVars
<1>. QED  BY <1>1, <1>2, <1>3 DEF HubKept

\* Every step of the hub is, for each observer, a step of its inbox or none.
LEMMA HubStep ==
    ASSUME HubInv, [HubNext]_hubVars
    PROVE  HubKept
<1>1. CASE HubThread
  BY <1>1, TakeSnapshotKeeps, CallNextKeeps, BatchDoneKeeps, HubWorkerExitKeeps DEF HubThread
<1>. QED
  BY <1>1, PublishKeeps, SubscribeKeeps, UnsubscribeKeeps, CloseHubKeeps, JoinHubKeeps,
     HubStutters DEF HubNext

\* A snapshot that is pending is newer than what the thread has in hand, and that is
\* newer than what the observers it has still to call have seen (publish, _run).
THEOREM HubInvariant == HubSpec => []HubInv
<1>1. HubInv /\ [HubNext]_hubVars => HubInv'
  BY HubStep DEF HubKept
<1>. QED  BY HubStarts, <1>1, PTL DEF HubSpec

\* The hub's variables keep their types.
THEOREM HubTypesStay == HubSpec => []HubTypeOK
<1>1. HubInv => HubTypeOK
  BY DEF HubInv
<1>. QED  BY <1>1, HubInvariant, PTL

\* To each of its observers the hub is a LatestValue (publish, subscribe, close and
\* _run): whoever publishes, subscribes, unsubscribes or closes while the thread
\* calls others, an observer is called with newer and newer snapshots, each the
\* newest when the thread took it, and nothing is taken for one that is gone.
THEOREM SnapshotsCoalesceAlways == HubSpec => SnapshotsCoalesce
<1>. DEFINE Inboxes == \A o \in Observers : InboxStep(o)
<1>1. HubInit => \A o \in Observers : InboxOf(o)!LatestInit
  BY HubStarts
<1>2. HubInv /\ [HubNext]_hubVars => [Inboxes]_hubVars
  BY HubStep DEF HubKept
<1>3. HubSpec => [][Inboxes]_hubVars
  BY <1>2, HubInvariant, PTL DEF HubSpec
<1>4. HubSpec => HubInit
  BY PTL DEF HubSpec
<1>. QED  BY <1>1, <1>3, <1>4 DEF SnapshotsCoalesce

-----------------------------------------------------------------------------
(* CacheBudget: the total weight of the caches in use.                     *)

\* Among sets of caches one is the smallest.
LEMMA SmallestAmongCaches ==
    ASSUME NEW Family \in SUBSET (SUBSET Caches), Family # {}
    PROVE  \E T \in Family : \A U \in SUBSET T : U \in Family => U = T
<1>1. IsFiniteSet(Caches)
  BY CacheAssumption, FS_Interval DEF Caches
<1>2. IsWellFoundedOn(StrictSubsetOrdering(Caches), SUBSET Caches)
  BY <1>1, FS_FiniteSubsetsOfFinite, FS_StrictSubsetOrderingWellFounded
<1>3. PICK T \in Family : \A U \in Family : <<U, T>> \notin StrictSubsetOrdering(Caches)
  BY <1>2, WFMin
<1>4. ASSUME NEW U \in SUBSET T, U \in Family PROVE U = T
  BY <1>3, <1>4 DEF StrictSubsetOrdering
<1>. QED  BY <1>4

OneOf(S) == CHOOSE c \in S : TRUE

\* sums adds up f over every subset of S, one cache at a time.
AddsUp(sums, f, S) ==
    sums = [U \in SUBSET S |-> IF U = {} THEN 0 ELSE f[OneOf(U)] + sums[U \ {OneOf(U)}]]
Sums(f, S) == CHOOSE sums : AddsUp(sums, f, S)
SumOver(f, S) == Sums(f, S)[S]

\* The total usage of the model is one of these sums.
LEMMA TotalIsSum == \A usage : Total(usage) = SumOver(usage, Caches)
  BY Zenon DEF Total, MapThenSumSet, MapThenFoldSet, SumOver, Sums, AddsUp, OneOf

\* A set that is not empty holds the one chosen from it.
LEMMA OneOfMember == ASSUME NEW S, S # {} PROVE OneOf(S) \in S
  BY DEF OneOf

\* What AddsUp says of one subset.
LEMMA AddsUpAt ==
    ASSUME NEW f, NEW S, NEW sums, AddsUp(sums, f, S), NEW U \in SUBSET S
    PROVE  sums[U] = IF U = {} THEN 0 ELSE f[OneOf(U)] + sums[U \ {OneOf(U)}]
<1>. DEFINE Body(V) == IF V = {} THEN 0 ELSE f[OneOf(V)] + sums[V \ {OneOf(V)}]
<1>1. sums = [V \in SUBSET S |-> Body(V)]
  BY Zenon DEF AddsUp
<1>. HIDE DEF Body
<1>2. sums[U] = Body(U)
  BY <1>1
<1>. QED  BY <1>2 DEF Body

\* Sums over two sets agree on the subsets of both.
LEMMA SumsAgree ==
    ASSUME NEW f, NEW S \in SUBSET Caches, NEW R \in SUBSET Caches, NEW i, NEW j,
           AddsUp(i, f, S), AddsUp(j, f, R)
    PROVE  \A U \in SUBSET (S \cap R) : i[U] = j[U]
<1>. DEFINE Bad == {U \in SUBSET (S \cap R) : i[U] # j[U]}
<1>1. SUFFICES ASSUME Bad # {} PROVE FALSE
  OBVIOUS
<1>2. PICK T \in Bad : \A U \in SUBSET T : U \in Bad => U = T
  <2>1. Bad \in SUBSET (SUBSET Caches)
    OBVIOUS
  <2>. HIDE DEF Bad
  <2>. QED  BY <1>1, <2>1, SmallestAmongCaches
<1>3. i[T] # j[T] /\ T \in SUBSET S /\ T \in SUBSET R
  OBVIOUS
<1>4. CASE T = {}
  BY <1>3, <1>4, AddsUpAt
<1>5. CASE T # {}
  <2>1. OneOf(T) \in T
    BY <1>5, OneOfMember
  <2>2. i[T \ {OneOf(T)}] = j[T \ {OneOf(T)}]
    BY <1>2, <1>3, <2>1
  <2>3. /\ i[T] = f[OneOf(T)] + i[T \ {OneOf(T)}]
        /\ j[T] = f[OneOf(T)] + j[T \ {OneOf(T)}]
    BY <1>3, <1>5, AddsUpAt
  <2>. QED  BY <1>3, <2>2, <2>3
<1>. QED  BY <1>4, <1>5

\* Every set of caches has its sums.
LEMMA SumsExist == ASSUME NEW f PROVE \A S \in SUBSET Caches : AddsUp(Sums(f, S), f, S)
<1>. DEFINE Bad == {S \in SUBSET Caches : ~ AddsUp(Sums(f, S), f, S)}
<1>1. SUFFICES ASSUME Bad # {} PROVE FALSE
  OBVIOUS
<1>2. PICK T \in Bad : \A U \in SUBSET T : U \in Bad => U = T
  <2>1. Bad \in SUBSET (SUBSET Caches)
    OBVIOUS
  <2>. HIDE DEF Bad
  <2>. QED  BY <1>1, <2>1, SmallestAmongCaches
<1>3. \A U \in SUBSET T : U # T => AddsUp(Sums(f, U), f, U)
  BY <1>2
<1>. DEFINE Others(U) == U \ {OneOf(U)}
            Step(U) == IF U = {} THEN 0 ELSE f[OneOf(U)] + Sums(f, Others(U))[Others(U)]
            whole == [U \in SUBSET T |-> Step(U)]
<1>4. \A U \in SUBSET T : U # {} => Others(U) \in SUBSET T /\ Others(U) # T
  BY OneOfMember
<1>5. ASSUME NEW V \in SUBSET T, V # T PROVE whole[V] = Sums(f, V)[V]
  <2>1. AddsUp(Sums(f, V), f, V)
    BY <1>3, <1>5
  <2>2. CASE V = {}
    BY <2>1, <2>2, AddsUpAt
  <2>3. CASE V # {}
    <3>1. Sums(f, V)[V] = f[OneOf(V)] + Sums(f, V)[Others(V)]
      BY <2>1, <2>3, AddsUpAt
    <3>2. Others(V) \in SUBSET V /\ AddsUp(Sums(f, Others(V)), f, Others(V))
      BY <1>3, <1>4, <2>3
    <3>3. Sums(f, V)[Others(V)] = Sums(f, Others(V))[Others(V)]
      <4>1. V \in SUBSET Caches /\ Others(V) \in SUBSET Caches
        BY <1>2, <3>2
      <4>2. Others(V) \in SUBSET (V \cap Others(V))
        BY <3>2
      <4>. HIDE DEF Others
      <4>. QED  BY <2>1, <3>2, <4>1, <4>2, SumsAgree
    <3>. HIDE DEF Others
    <3>. QED  BY <2>3, <3>1, <3>3
  <2>. QED  BY <2>2, <2>3
<1>6. AddsUp(whole, f, T)
  <2>1. \A U \in SUBSET T : U # {} => whole[Others(U)] = Sums(f, Others(U))[Others(U)]
    BY <1>4, <1>5
  <2>2. whole = [U \in SUBSET T |-> IF U = {} THEN 0 ELSE f[OneOf(U)] + whole[U \ {OneOf(U)}]]
    <3>. DEFINE Next2(U) == IF U = {} THEN 0 ELSE f[OneOf(U)] + whole[Others(U)]
    <3>1. \A U \in SUBSET T : Step(U) = Next2(U)
      <4>. HIDE DEF whole, Others
      <4>. QED  BY <2>1
    <3>2. [U \in SUBSET T |-> Step(U)] = [U \in SUBSET T |-> Next2(U)]
      <4>. HIDE DEF Step, Next2
      <4>. QED  BY <3>1
    <3>. QED  BY <3>2
  <2>. QED  BY <2>2 DEF AddsUp
<1>7. AddsUp(Sums(f, T), f, T)
  <2>. HIDE DEF whole
  <2>. QED  BY <1>6 DEF Sums
<1>. QED  BY <1>2, <1>7

\* A sum is one of its summands and the sum of the others.
LEMMA SumUnfolds ==
    ASSUME NEW f, NEW S \in SUBSET Caches
    PROVE  SumOver(f, S) = IF S = {} THEN 0 ELSE f[OneOf(S)] + SumOver(f, S \ {OneOf(S)})
<1>1. Sums(f, S)[S] = IF S = {} THEN 0 ELSE f[OneOf(S)] + Sums(f, S)[S \ {OneOf(S)}]
  BY SumsExist, AddsUpAt
<1>2. Sums(f, S)[S \ {OneOf(S)}] = Sums(f, S \ {OneOf(S)})[S \ {OneOf(S)}]
  <2>. DEFINE R == S \ {OneOf(S)}
  <2>1. R \in SUBSET Caches /\ R \in SUBSET (S \cap R)
    OBVIOUS
  <2>2. AddsUp(Sums(f, S), f, S) /\ AddsUp(Sums(f, R), f, R)
    BY <2>1, SumsExist
  <2>. HIDE DEF R
  <2>3. Sums(f, S)[R] = Sums(f, R)[R]
    BY <2>1, <2>2, SumsAgree
  <2>. QED  BY <2>3 DEF R
<1>. QED  BY <1>1, <1>2 DEF SumOver

\* A sum of natural numbers is one, and positive when a summand is.
LEMMA SumIsNatural ==
    ASSUME NEW f \in [Caches -> Nat]
    PROVE  \A S \in SUBSET Caches :
              SumOver(f, S) \in Nat /\ ((\E c \in S : f[c] > 0) => SumOver(f, S) > 0)
<1>. DEFINE Adds(S) == SumOver(f, S) \in Nat /\ ((\E c \in S : f[c] > 0) => SumOver(f, S) > 0)
            Bad == {S \in SUBSET Caches : ~Adds(S)}
<1>1. SUFFICES ASSUME Bad # {} PROVE FALSE
  OBVIOUS
<1>2. PICK T \in Bad : \A U \in SUBSET T : U \in Bad => U = T
  <2>1. Bad \in SUBSET (SUBSET Caches)
    OBVIOUS
  <2>. HIDE DEF Bad
  <2>. QED  BY <1>1, <2>1, SmallestAmongCaches
<1>3. SumOver(f, T) = IF T = {} THEN 0 ELSE f[OneOf(T)] + SumOver(f, T \ {OneOf(T)})
  BY <1>2, SumUnfolds
<1>4. T # {}
  BY <1>2, <1>3
<1>5. OneOf(T) \in T
  BY <1>4, OneOfMember
<1>6. Adds(T \ {OneOf(T)})
  BY <1>2, <1>5
<1>7. Adds(T)
  BY <1>2, <1>3, <1>4, <1>5, <1>6
<1>. QED  BY <1>2, <1>7

\* Whichever cache leaves a set, its summand leaves the sum.
LEMMA SumWithout ==
    ASSUME NEW f \in [Caches -> Nat]
    PROVE  \A S \in SUBSET Caches : \A c \in S : SumOver(f, S) = SumOver(f, S \ {c}) + f[c]
<1>. DEFINE Bad == {S \in SUBSET Caches : \E c \in S : SumOver(f, S) # SumOver(f, S \ {c}) + f[c]}
<1>1. SUFFICES ASSUME Bad # {} PROVE FALSE
  OBVIOUS
<1>2. PICK T \in Bad : \A U \in SUBSET T : U \in Bad => U = T
  <2>1. Bad \in SUBSET (SUBSET Caches)
    OBVIOUS
  <2>. HIDE DEF Bad
  <2>. QED  BY <1>1, <2>1, SmallestAmongCaches
<1>3. PICK c \in T : SumOver(f, T) # SumOver(f, T \ {c}) + f[c]
  BY <1>2
<1>. DEFINE d == OneOf(T)
<1>4. d \in T /\ T \in SUBSET Caches
  BY <1>3, OneOfMember
<1>5. SumOver(f, T) = f[d] + SumOver(f, T \ {d})
  BY <1>3, <1>4, SumUnfolds
<1>. HIDE DEF d
<1>6. c # d
  <2>1. SumOver(f, T \ {d}) \in Nat /\ f[d] \in Nat
    BY <1>4, SumIsNatural
  <2>. QED  BY <1>3, <1>5, <2>1
<1>7. ASSUME NEW U \in SUBSET T, U # T, NEW v \in U
      PROVE  SumOver(f, U) = SumOver(f, U \ {v}) + f[v]
  BY <1>2, <1>7
<1>8. SumOver(f, T \ {d}) = SumOver(f, (T \ {d}) \ {c}) + f[c]
  <2>1. T \ {d} \in SUBSET T /\ T \ {d} # T /\ c \in T \ {d}
    BY <1>3, <1>4, <1>6
  <2>. QED  BY <1>7, <2>1
<1>9. SumOver(f, T \ {c}) = SumOver(f, (T \ {c}) \ {d}) + f[d]
  <2>1. T \ {c} \in SUBSET T /\ T \ {c} # T /\ d \in T \ {c}
    BY <1>3, <1>4, <1>6
  <2>. QED  BY <1>7, <2>1
<1>10. (T \ {d}) \ {c} = (T \ {c}) \ {d}
  OBVIOUS
<1>11. f[d] \in Nat /\ f[c] \in Nat /\ SumOver(f, (T \ {c}) \ {d}) \in Nat
  <2>1. (T \ {c}) \ {d} \in SUBSET Caches
    BY <1>4
  <2>. QED  BY <1>3, <1>4, <2>1, SumIsNatural
<1>12. SumOver(f, (T \ {d}) \ {c}) = SumOver(f, (T \ {c}) \ {d})
  BY <1>10
<1>. HIDE DEF Bad
<1>. QED  BY <1>3, <1>5, <1>8, <1>9, <1>11, <1>12

\* Summands that are 0 may be left out.
LEMMA SumWithoutZeros ==
    ASSUME NEW f \in [Caches -> Nat], NEW R \in SUBSET Caches, \A c \in Caches \ R : f[c] = 0
    PROVE  \A S \in SUBSET Caches : R \subseteq S => SumOver(f, S) = SumOver(f, R)
<1>. DEFINE Bad == {S \in SUBSET Caches : R \subseteq S /\ SumOver(f, S) # SumOver(f, R)}
<1>1. SUFFICES ASSUME Bad # {} PROVE FALSE
  OBVIOUS
<1>2. PICK T \in Bad : \A U \in SUBSET T : U \in Bad => U = T
  <2>1. Bad \in SUBSET (SUBSET Caches)
    OBVIOUS
  <2>. HIDE DEF Bad
  <2>. QED  BY <1>1, <2>1, SmallestAmongCaches
<1>3. T \in SUBSET Caches /\ R \subseteq T /\ SumOver(f, T) # SumOver(f, R)
  BY <1>2
<1>4. PICK c \in T : c \notin R
  BY <1>3
<1>5. SumOver(f, T \ {c}) = SumOver(f, R)
  BY <1>2, <1>4
<1>. HIDE DEF Bad
<1>6. SumOver(f, T) = SumOver(f, T \ {c}) + f[c] /\ SumOver(f, T \ {c}) \in Nat /\ f[c] = 0
  BY <1>3, <1>4, SumWithout, SumIsNatural
<1>. QED  BY <1>3, <1>5, <1>6

\* Multiplication distributes over a sum of two.
LEMMA Distributes ==
    ASSUME NEW i \in Nat, NEW j \in Nat, NEW n \in Nat PROVE (i + j) * n = i * n + j * n
  OBVIOUS

\* Summands that are in proportion have sums that are.
LEMMA SumsInProportion ==
    ASSUME NEW f \in [Caches -> Nat], NEW g \in [Caches -> Nat], NEW m \in Nat, NEW n \in Nat,
           \A c \in Caches : f[c] * m <= g[c] * n
    PROVE  \A S \in SUBSET Caches : SumOver(f, S) * m <= SumOver(g, S) * n
<1>. DEFINE Bad == {S \in SUBSET Caches : ~(SumOver(f, S) * m <= SumOver(g, S) * n)}
<1>1. SUFFICES ASSUME Bad # {} PROVE FALSE
  OBVIOUS
<1>2. PICK T \in Bad : \A U \in SUBSET T : U \in Bad => U = T
  <2>1. Bad \in SUBSET (SUBSET Caches)
    OBVIOUS
  <2>. HIDE DEF Bad
  <2>. QED  BY <1>1, <2>1, SmallestAmongCaches
<1>3. T \in SUBSET Caches /\ ~(SumOver(f, T) * m <= SumOver(g, T) * n)
  BY <1>2
<1>4. T # {}
  <2>1. T = {} => SumOver(f, T) = 0 /\ SumOver(g, T) = 0
    BY <1>3, SumUnfolds
  <2>. QED  BY <1>3, <2>1
<1>5. PICK c \in T : TRUE
  BY <1>4
<1>. DEFINE R == T \ {c}
<1>6. SumOver(f, R) * m <= SumOver(g, R) * n
  BY <1>2, <1>5
<1>. HIDE DEF Bad
<1>7. /\ SumOver(f, T) = SumOver(f, R) + f[c] /\ SumOver(g, T) = SumOver(g, R) + g[c]
      /\ SumOver(f, R) \in Nat /\ SumOver(g, R) \in Nat /\ f[c] \in Nat /\ g[c] \in Nat
  BY <1>3, <1>5, SumWithout, SumIsNatural
<1>. HIDE DEF R
<1>8. /\ SumOver(f, T) * m = SumOver(f, R) * m + f[c] * m
      /\ SumOver(g, T) * n = SumOver(g, R) * n + g[c] * n
  BY <1>7, Distributes
<1>9. f[c] * m <= g[c] * n
  BY <1>3, <1>5
<1>10. SumOver(f, R) * m \in Nat /\ f[c] * m \in Nat /\ SumOver(g, R) * n \in Nat /\ g[c] * n \in Nat
  BY <1>7
<1>. QED  BY <1>3, <1>6, <1>8, <1>9, <1>10

\* The weights among the caches in use, as a function.
Weights(used) == [c \in Caches |-> WeightAmong(used, c)]
AddsWeights(sums, used, S) ==
    sums = [U \in SUBSET S |->
               IF U = {} THEN 0 ELSE WeightAmong(used, OneOf(U)) + sums[U \ {OneOf(U)}]]
WeightSums(used, S) == CHOOSE sums : AddsWeights(sums, used, S)

\* The total weight of the model is their sum.
LEMMA TotalWeightIsSum ==
    ASSUME NEW used \in SUBSET Caches PROVE TotalWeight(used) = SumOver(Weights(used), used)
<1>1. TotalWeight(used) = WeightSums(used, used)[used]
  BY Zenon DEF TotalWeight, MapThenSumSet, MapThenFoldSet, WeightSums, AddsWeights, OneOf
<1>2. ASSUME NEW sums PROVE AddsWeights(sums, used, used) <=> AddsUp(sums, Weights(used), used)
  <2>. DEFINE In(U) == IF U = {} THEN 0 ELSE WeightAmong(used, OneOf(U)) + sums[U \ {OneOf(U)}]
              By(U) == IF U = {} THEN 0 ELSE Weights(used)[OneOf(U)] + sums[U \ {OneOf(U)}]
  <2>1. \A U \in SUBSET used : U # {} => OneOf(U) \in Caches
    BY OneOfMember
  <2>2. \A U \in SUBSET used : In(U) = By(U)
    BY <2>1 DEF Weights
  <2>3. [U \in SUBSET used |-> In(U)] = [U \in SUBSET used |-> By(U)]
    <3>. HIDE DEF In, By
    <3>. QED  BY <2>2
  <2>. QED  BY <2>3 DEF AddsWeights, AddsUp
<1>3. AddsWeights(WeightSums(used, used), used, used)
  <2>1. AddsWeights(Sums(Weights(used), used), used, used)
    BY <1>2, SumsExist
  <2>. QED  BY <2>1 DEF WeightSums
<1>4. AddsUp(WeightSums(used, used), Weights(used), used)
  BY <1>2, <1>3
<1>5. WeightSums(used, used)[used] = Sums(Weights(used), used)[used]
  <2>1. used \in SUBSET (used \cap used)
    OBVIOUS
  <2>. QED  BY <1>4, <2>1, SumsExist, SumsAgree
<1>. QED  BY <1>1, <1>5 DEF SumOver

\* The weights of the caches in use add up to a natural number, which is positive
\* when any is in use: an equal share needs no weight.
LEMMA WeightsAddUp ==
    ASSUME NEW used \in SUBSET Caches
    PROVE  /\ Weights(used) \in [Caches -> Nat] /\ \A c : WeightAmong(used, c) \in Nat
           /\ TotalWeight(used) \in Nat
           /\ used # {} => TotalWeight(used) > 0
           /\ TotalWeight(used) = SumOver(Weights(used), Caches)
<1>1. \A c : WeightAmong(used, c) \in Nat
  BY CacheAssumption DEF WeightAmong
<1>2. Weights(used) \in [Caches -> Nat]
  BY <1>1 DEF Weights
<1>3. used # {} => \E c \in used : Weights(used)[c] > 0
  BY CacheAssumption DEF WeightAmong, Weights
<1>4. SumOver(Weights(used), Caches) = SumOver(Weights(used), used)
  <2>1. \A c \in Caches \ used : Weights(used)[c] = 0
    BY DEF Weights, WeightAmong
  <2>. QED  BY <1>2, <2>1, SumWithoutZeros
<1>. QED  BY <1>1, <1>2, <1>3, <1>4, SumIsNatural, TotalWeightIsSum

\* Entitlements never promise more than the budget: when all caches together
\* exceed it, one of them is above its own.
LEMMA SomebodyOwes ==
    ASSUME cacheBytes \in [Caches -> Bytes], budget \in Nat, NEW used \in SUBSET Caches,
           \A c \in Caches \ used : cacheBytes[c] = 0, OverBudget
    PROVE  \E c \in Caches : Overage(used, c) > 0
<1>1. cacheBytes \in [Caches -> Nat]
  BY CacheAssumption DEF Bytes
<1>. DEFINE total == TotalWeight(used)
            kept == Total(cacheBytes)
<1>2. total \in Nat /\ total = SumOver(Weights(used), Caches) /\ Weights(used) \in [Caches -> Nat]
  BY WeightsAddUp
<1>3. kept \in Nat /\ kept = SumOver(cacheBytes, Caches) /\ kept > budget
  BY <1>1, TotalIsSum, SumIsNatural DEF OverBudget
<1>4. total > 0
  <2>1. used # {}
    <3>1. SUFFICES ASSUME used = {} PROVE FALSE
      OBVIOUS
    <3>2. SumOver(cacheBytes, Caches) = SumOver(cacheBytes, {}) /\ SumOver(cacheBytes, {}) = 0
      BY <1>1, <3>1, SumWithoutZeros, SumUnfolds
    <3>. QED  BY <1>3, <3>2
  <2>. QED  BY <2>1, WeightsAddUp
<1>. HIDE DEF total, kept
<1>5. SUFFICES ASSUME \A c \in Caches : ~(Overage(used, c) > 0) PROVE FALSE
  OBVIOUS
<1>6. ASSUME NEW c \in Caches PROVE cacheBytes[c] * total <= Weights(used)[c] * budget
  <2>1. cacheBytes[c] * total \in Nat /\ Weights(used)[c] * budget \in Nat
    BY <1>1, <1>2
  <2>2. Overage(used, c) = cacheBytes[c] * total - Weights(used)[c] * budget
    BY DEF Overage, Weights, total
  <2>. QED  BY <1>5, <2>1, <2>2
<1>7. kept * total <= total * budget
  BY <1>1, <1>2, <1>3, <1>6, SumsInProportion
<1>8. (budget + 1) * total <= kept * total
  BY <1>2, <1>3
<1>9. (budget + 1) * total = budget * total + total /\ total * budget = budget * total
  BY <1>2
<1>. QED  BY <1>2, <1>3, <1>4, <1>7, <1>8, <1>9

-----------------------------------------------------------------------------
(* CacheBudget: what a trim knows while enforcement and reclamation report *)
(* to each other.                                                          *)

SettingsFit ==
    /\ budget \in Budgets /\ calls \in 0..MaxCalls
    /\ preferredBytes \in [Caches -> Hints] /\ overrideBytes \in [Caches -> Hints]
CeilingsFit == cacheLimit \in [Batched -> Nat] /\ capacity \in [Caches -> Nat]
RoundFits ==
    /\ stage \in {"idle", "overrides", "global", "restore"} /\ again \in BOOLEAN
    /\ todo \subseteq Caches /\ active \subseteq Caches /\ overage \in [Caches -> Int]
    /\ stage = "idle" => ~again
Reclaims == [on : BOOLEAN, asked : Nat, left : Nat, todo : SUBSET Caches, trim : Trims,
             before : [Caches -> Bytes]]

\* The trim of the enforcement knows the bytes of its cache, that of the
\* reclamation no fewer; an enforcement that still trims aims at an override or a
\* share.
TrimFits ==
    /\ trim \in Trims /\ (stage = "idle" => trim = NoTrim)
    /\ trim = NoTrim \/ trim.seen = cacheBytes[trim.cache]
    /\ ~Finished(trim) =>
        \/ /\ stage = "overrides" /\ overrideBytes[trim.cache] # NoBytes
           /\ trim.target = overrideBytes[trim.cache]
        \/ stage = "global" /\ trim.target = Share(active, trim.cache)
ReclaimFits ==
    /\ reclaim \in Reclaims
    /\ \/ reclaim.trim = NoTrim
       \/ reclaim.on /\ cacheBytes[reclaim.trim.cache] <= reclaim.trim.seen
CacheInv ==
    /\ cacheBytes \in [Caches -> Bytes]
    /\ SettingsFit /\ CeilingsFit /\ RoundFits /\ TrimFits /\ ReclaimFits

\* No trim and no reclamation fit, and there is nothing to do for no trim.
LEMMA NoTrimFits ==
    /\ NoTrim \in Trims /\ NoReclaim \in Reclaims /\ NoReclaim.trim = NoTrim
    /\ (trim = NoTrim => Finished(trim)) /\ (trim' = NoTrim => Finished(trim)')
<1>1. NoTrim \in Trims
  BY CacheAssumption DEF NoTrim, Trims, Caches, Bytes
<1>2. NoReclaim \in Reclaims /\ NoReclaim.trim = NoTrim
  BY <1>1, CacheAssumption DEF NoReclaim, Reclaims, Bytes
<1>3. NoTrim.cache \in Caches /\ NoTrim.seen = 0 /\ NoTrim.target = 0 /\ NoTrim.tries = MaxAttempts
  BY CacheAssumption DEF NoTrim, Caches
<1>. QED  BY <1>1, <1>2, <1>3 DEF Finished

\* A configured ceiling is a number of bytes.
LEMMA TargetsFit ==
    /\ SettingsFit => \A c \in Caches : Target(c) \in Nat
    /\ SettingsFit' => \A c \in Caches : Target(c)' \in Nat
  BY CacheAssumption DEF SettingsFit, Target, Hints, NoBytes

\* Applying the configured ceilings leaves ceilings.
LEMMA CeilingsApplied ==
    ASSUME CeilingsFit, SettingsFit', NEW set, ApplyCeilings(set) PROVE CeilingsFit'
  BY TargetsFit, CacheAssumption DEF CeilingsFit, ApplyCeilings

\* So does lowering one.
LEMMA CeilingLowered ==
    ASSUME CeilingsFit, NEW c \in Caches, NEW target \in Nat, LowerCeiling(c, target)
    PROVE  CeilingsFit'
  BY DEF CeilingsFit, LowerCeiling

\* A round begins.
LEMMA RoundBegins ==
    ASSUME RoundFits, NEW usage, BeginRound(usage) PROVE RoundFits' /\ stage' = "overrides"
  BY DEF RoundFits, BeginRound

\* Usage is reported in a round, or begins one.
LEMMA ReportFits ==
    ASSUME RoundFits, NEW usage, UsageReported(usage)
    PROVE  /\ RoundFits' /\ cacheBytes' = usage
           /\ IF stage = "idle" THEN stage' = "overrides" ELSE UNCHANGED <<stage, active>>
<1>1. CASE stage = "idle"
  BY <1>1, RoundBegins DEF UsageReported
<1>2. CASE stage # "idle"
  BY <1>2 DEF UsageReported, RoundFits
<1>. QED  BY <1>1, <1>2

\* A trim begins with what its cache keeps.
LEMMA TrimBegins ==
    ASSUME cacheBytes \in [Caches -> Bytes], NEW c \in Caches, NEW target \in Nat
    PROVE  /\ TrimOf(c, target) \in Trims /\ TrimOf(c, target).cache = c
           /\ TrimOf(c, target).seen = cacheBytes[c] /\ TrimOf(c, target).target = target
  BY CacheAssumption DEF TrimOf, Trims

\* A batch takes something or nothing, and the trim knows how much.
LEMMA BatchEvicts ==
    ASSUME cacheBytes \in [Caches -> Bytes], NEW t \in Trims, ~Finished(t),
           cacheBytes[t.cache] <= t.seen, NEW n \in LeftAfterBatch(t.cache)
    PROVE  /\ n \in Bytes /\ n <= cacheBytes[t.cache] /\ t.cache \in Caches
           /\ Evicted(t, n) \in Trims
           /\ Evicted(t, n).cache = t.cache /\ Evicted(t, n).target = t.target
           /\ Evicted(t, n).seen = t.seen - (cacheBytes[t.cache] - n)
<1>1. /\ t.cache \in Caches /\ t.seen \in 0..MaxBytes /\ t.tries \in 0..MaxAttempts
      /\ t.target \in Nat /\ t.before \in Bytes /\ cacheBytes[t.cache] \in 0..MaxBytes
  BY DEF Trims, Bytes
<1>2. n \in 0..MaxBytes /\ n <= cacheBytes[t.cache]
  BY <1>1, CacheAssumption DEF LeftAfterBatch
<1>3. t.cache \in Batched => t.tries + 1 \in 0..MaxAttempts
  BY <1>1, CacheAssumption DEF Finished
<1>4. t.seen - (cacheBytes[t.cache] - n) \in 0..MaxBytes
  BY <1>1, <1>2, CacheAssumption
<1>. QED  BY <1>1, <1>2, <1>3, <1>4 DEF Evicted, Trims, Bytes

\* A cache reports what a batch left.
LEMMA BatchReported ==
    ASSUME RoundFits, cacheBytes \in [Caches -> Bytes], NEW c \in Caches, NEW n \in Bytes,
           ReportIfChanged(c, n)
    PROVE  /\ RoundFits' /\ cacheBytes' = [cacheBytes EXCEPT ![c] = n]
           /\ IF stage = "idle" THEN stage' \in {"idle", "overrides"}
              ELSE UNCHANGED <<stage, active>>
<1>1. CASE n = cacheBytes[c]
  BY <1>1 DEF ReportIfChanged, RoundFits
<1>2. CASE n # cacheBytes[c]
  BY <1>2, ReportFits DEF ReportIfChanged
<1>. QED  BY <1>1, <1>2

\* Nothing that a trim knows changes.
LEMMA TrimKept ==
    ASSUME TrimFits, UNCHANGED <<trim, cacheBytes, overrideBytes, stage, active, budget>>
    PROVE  TrimFits'
  BY DEF TrimFits, Finished, Share

\* A finished trim stays finished in a round that goes on.
LEMMA TrimStaysFinished ==
    ASSUME TrimFits, Finished(trim), UNCHANGED <<trim, cacheBytes>>, stage' # "idle"
    PROVE  TrimFits'
<1>1. Finished(trim)'
  BY DEF Finished
<1>. QED  BY <1>1 DEF TrimFits

\* No trim fits anywhere.
LEMMA WithoutTrim == ASSUME trim' = NoTrim PROVE TrimFits'
  BY NoTrimFits DEF TrimFits

\* A reclamation goes on while caches only lose bytes.
LEMMA ReclaimKept ==
    ASSUME cacheBytes \in [Caches -> Bytes], cacheBytes' \in [Caches -> Bytes],
           ReclaimFits, UNCHANGED reclaim,
           reclaim.on => \A c \in Caches : cacheBytes'[c] <= cacheBytes[c]
    PROVE  ReclaimFits'
<1>1. CASE reclaim.trim = NoTrim
  BY <1>1 DEF ReclaimFits
<1>2. CASE reclaim.trim # NoTrim
  <2>1. reclaim.trim.cache \in Caches /\ reclaim.trim.seen \in 0..MaxBytes
    BY DEF ReclaimFits, Reclaims, Trims, Bytes
  <2>2. cacheBytes[reclaim.trim.cache] \in 0..MaxBytes
        /\ cacheBytes'[reclaim.trim.cache] \in 0..MaxBytes
        /\ cacheBytes'[reclaim.trim.cache] <= cacheBytes[reclaim.trim.cache]
    BY <1>2, <2>1 DEF ReclaimFits, Bytes
  <2>. QED  BY <1>2, <2>1, <2>2, CacheAssumption DEF ReclaimFits
<1>. QED  BY <1>1, <1>2

-----------------------------------------------------------------------------
(* CacheBudget: its steps.                                                 *)

\* A batch of the enforcement.
LEMMA EvictKeeps == ASSUME CacheInv, Evict PROVE CacheInv'
<1>. USE DEF CacheInv
<1>1. PICK n \in LeftAfterBatch(trim.cache) :
        trim' = Evicted(trim, n) /\ ReportIfChanged(trim.cache, n)
  BY DEF Evict
<1>2. stage # "idle" /\ ~Finished(trim) /\ UNCHANGED <<cacheLimit, capacity, settingVars, reclaim, calls>>
  BY DEF Evict
<1>3. trim \in Trims /\ trim # NoTrim /\ trim.seen = cacheBytes[trim.cache]
  BY <1>2, NoTrimFits DEF TrimFits
<1>4. cacheBytes[trim.cache] \in 0..MaxBytes
  BY <1>3 DEF Trims, Bytes
<1>5. /\ n \in Bytes /\ n <= cacheBytes[trim.cache] /\ trim.cache \in Caches
      /\ trim' \in Trims /\ trim'.cache = trim.cache /\ trim'.target = trim.target
      /\ trim'.seen = cacheBytes[trim.cache] - (cacheBytes[trim.cache] - n)
  BY <1>1, <1>2, <1>3, <1>4, BatchEvicts
<1>6. RoundFits' /\ cacheBytes' = [cacheBytes EXCEPT ![trim.cache] = n] /\ UNCHANGED <<stage, active>>
  BY <1>1, <1>2, <1>5, BatchReported
<1>7. cacheBytes' \in [Caches -> Bytes] /\ cacheBytes'[trim.cache] = n /\ trim'.seen = n
  BY <1>4, <1>5, <1>6, CacheAssumption DEF Bytes
<1>8. TrimFits'
  <2>1. Share(active, trim.cache)' = Share(active, trim.cache)
    BY <1>2, <1>5, <1>6 DEF Share, settingVars
  <2>. QED  BY <1>2, <1>5, <1>6, <1>7, <2>1 DEF TrimFits, settingVars
<1>9. ReclaimFits'
  <2>1. \A c \in Caches : cacheBytes'[c] <= cacheBytes[c]
    BY <1>5, <1>6, CacheAssumption DEF Bytes
  <2>. QED  BY <1>2, <1>7, <2>1, ReclaimKept
<1>10. SettingsFit' /\ CeilingsFit'
  BY <1>2 DEF SettingsFit, CeilingsFit, settingVars
<1>. QED  BY <1>6, <1>7, <1>8, <1>9, <1>10

\* The next override.
LEMMA OverrideKeeps == ASSUME CacheInv, NEW c \in Caches, TrimToOverride(c) PROVE CacheInv'
<1>. USE DEF CacheInv
<1>1. /\ stage = "overrides" /\ Finished(trim)
      /\ UNCHANGED <<cacheBytes, settingVars, stage, again, active, overage, reclaim, calls>>
      /\ todo' = todo \ {c}
  BY DEF TrimToOverride
<1>2. SettingsFit' /\ RoundFits' /\ ReclaimFits'
  BY <1>1 DEF SettingsFit, RoundFits, ReclaimFits, settingVars
<1>3. CASE overrideBytes[c] # NoBytes /\ cacheBytes[c] > overrideBytes[c]
  <2>1. trim' = TrimOf(c, overrideBytes[c]) /\ LowerCeiling(c, overrideBytes[c])
    BY <1>3 DEF TrimToOverride
  <2>2. overrideBytes[c] \in Nat
    BY <1>3, CacheAssumption DEF SettingsFit, Hints
  <2>3. CeilingsFit'
    BY <2>1, <2>2, CeilingLowered
  <2>4. TrimFits'
    BY <1>1, <1>3, <2>1, <2>2, TrimBegins DEF TrimFits, settingVars
  <2>. QED  BY <1>1, <1>2, <2>3, <2>4
<1>4. CASE ~(overrideBytes[c] # NoBytes /\ cacheBytes[c] > overrideBytes[c])
  <2>1. UNCHANGED <<trim, capacity, cacheLimit>>
    BY <1>4 DEF TrimToOverride
  <2>2. TrimFits'
    BY <1>1, <2>1, TrimStaysFinished
  <2>. QED  BY <1>1, <1>2, <2>1, <2>2 DEF CeilingsFit
<1>. QED  BY <1>3, <1>4

\* The overrides are done.
LEMMA OverridesDoneKeeps == ASSUME CacheInv, OverridesDone PROVE CacheInv'
<1>. USE DEF CacheInv
<1>1. /\ stage = "overrides" /\ Finished(trim) /\ stage' \in {"global", "restore"}
      /\ UNCHANGED <<cacheBytes, cacheLimit, capacity, settingVars, again, active, trim,
                     reclaim, calls>>
  BY DEF OverridesDone
<1>2. SettingsFit' /\ CeilingsFit' /\ ReclaimFits'
  BY <1>1 DEF SettingsFit, CeilingsFit, ReclaimFits, settingVars
<1>3. TrimFits'
  BY <1>1, TrimStaysFinished
<1>4. ASSUME NEW c \in Caches PROVE Overage(active, c) \in Int
  <2>1. /\ WeightAmong(active, c) \in Nat /\ TotalWeight(active) \in Nat /\ cacheBytes[c] \in Nat
        /\ budget \in Nat
    BY <1>4, WeightsAddUp, CacheAssumption DEF RoundFits, Bytes, SettingsFit
  <2>. QED  BY <2>1 DEF Overage
<1>5. RoundFits'
  <2>1. CASE OverBudget
    <3>1. overage' = [c \in Caches |-> Overage(active, c)] /\ todo' = {c \in Caches : overage'[c] > 0}
      BY <2>1 DEF OverridesDone
    <3>2. overage' \in [Caches -> Int] /\ todo' \subseteq Caches
      <4>. HIDE DEF CacheInv
      <4>. QED  BY <1>4, <3>1
    <3>. QED  BY <1>1, <3>2 DEF RoundFits
  <2>2. CASE ~OverBudget
    BY <1>1, <2>2 DEF OverridesDone, RoundFits
  <2>. QED  BY <2>1, <2>2
<1>. QED  BY <1>1, <1>2, <1>3, <1>5

\* An entitlement is a number of bytes.
LEMMA ShareFits == ASSUME CacheInv, NEW c \in Caches PROVE Share(active, c) \in Nat
<1>1. /\ WeightAmong(active, c) \in Nat /\ TotalWeight(active) \in Nat /\ budget \in Nat
      /\ (active # {} => TotalWeight(active) > 0)
  BY WeightsAddUp, CacheAssumption DEF CacheInv, RoundFits, SettingsFit
<1>2. WeightAmong(active, c) * budget \in Nat
  BY <1>1
<1>. QED  BY <1>1, <1>2 DEF Share

\* The next share.
LEMMA ShareKeeps == ASSUME CacheInv, NEW c \in Caches, TrimToShare(c) PROVE CacheInv'
<1>. DEFINE share == Share(active, c)
            target == IF share < cacheBytes[c] THEN share ELSE cacheBytes[c]
<1>1. /\ stage = "global" /\ todo' = todo \ {c}
      /\ UNCHANGED <<cacheBytes, settingVars, stage, again, active, overage, reclaim, calls>>
      /\ trim' = TrimOf(c, target) /\ LowerCeiling(c, target)
  BY DEF TrimToShare
<1>2. share \in Nat /\ cacheBytes[c] \in Nat
  BY ShareFits, CacheAssumption DEF CacheInv, Bytes
<1>3. Share(active, c)' = share
  BY <1>1 DEF Share, settingVars
<1>. HIDE DEF share
<1>. USE DEF CacheInv
<1>4. target \in Nat /\ (target < cacheBytes[c] => target = share)
  BY <1>2
<1>. HIDE DEF target
<1>5. SettingsFit' /\ RoundFits' /\ ReclaimFits'
  BY <1>1 DEF SettingsFit, RoundFits, ReclaimFits, settingVars
<1>6. CeilingsFit'
  BY <1>1, <1>4, CeilingLowered
<1>7. trim' \in Trims /\ trim'.cache = c /\ trim'.seen = cacheBytes[c] /\ trim'.target = target
  BY <1>1, <1>4, TrimBegins
<1>8. ~Finished(trim)' => target < cacheBytes[c]
  BY <1>1, <1>2, <1>4, <1>7 DEF Finished
<1>9. TrimFits'
  <2>1. ~Finished(trim)' => trim'.target = Share(active, c)'
    BY <1>3, <1>4, <1>7, <1>8
  <2>. QED  BY <1>1, <1>7, <2>1 DEF TrimFits
<1>. QED  BY <1>1, <1>5, <1>6, <1>9

\* The shares are done.
LEMMA SharesDoneKeeps == ASSUME CacheInv, SharesDone PROVE CacheInv'
<1>. USE DEF CacheInv
<1>1. /\ stage = "global" /\ Finished(trim) /\ stage' = "restore" /\ todo' = {}
      /\ UNCHANGED <<cacheBytes, cacheLimit, capacity, settingVars, again, active, overage, trim,
                     reclaim, calls>>
  BY DEF SharesDone
<1>2. TrimFits'
  BY <1>1, TrimStaysFinished
<1>. QED  BY <1>1, <1>2 DEF SettingsFit, CeilingsFit, RoundFits, ReclaimFits, settingVars

\* A round ends.
LEMMA FinishRoundKeeps == ASSUME CacheInv, FinishRound PROVE CacheInv'
<1>. USE DEF CacheInv
<1>1. trim' = NoTrim /\ UNCHANGED <<settingVars, cacheBytes, reclaim, calls>>
  BY DEF FinishRound
<1>2. SettingsFit' /\ ReclaimFits'
  BY <1>1 DEF SettingsFit, ReclaimFits, settingVars
<1>3. CeilingsFit'
  <2>1. CASE OverBudget
    BY <2>1 DEF FinishRound, CeilingsFit
  <2>2. CASE ~OverBudget
    BY <1>2, <2>2, CeilingsApplied DEF FinishRound
  <2>. QED  BY <2>1, <2>2
<1>4. RoundFits'
  <2>1. CASE again
    BY <2>1, RoundBegins DEF FinishRound
  <2>2. CASE ~again
    BY <2>2 DEF FinishRound, RoundFits
  <2>. QED  BY <2>1, <2>2
<1>. QED  BY <1>1, <1>2, <1>3, <1>4, WithoutTrim

\* A reclamation begins.
LEMMA ReclaimKeeps == ASSUME CacheInv, NEW n \in Bytes \ {0}, Reclaim(n) PROVE CacheInv'
<1>. USE DEF CacheInv
<1>1. /\ calls' = calls + 1 /\ calls < MaxCalls
      /\ reclaim' = [NoReclaim EXCEPT !.on = TRUE, !.asked = n, !.left = n, !.todo = Caches,
                                      !.before = cacheBytes]
      /\ UNCHANGED <<cacheBytes, cacheLimit, capacity, settingVars, enforcementVars>>
  BY DEF Reclaim, MayCall
<1>2. SettingsFit' /\ CeilingsFit' /\ RoundFits'
  BY <1>1, CacheAssumption
     DEF SettingsFit, CeilingsFit, RoundFits, settingVars, enforcementVars
<1>3. TrimFits'
  BY <1>1, TrimKept DEF settingVars, enforcementVars
<1>4. n \in Nat /\ NoReclaim \in Reclaims /\ NoReclaim.trim = NoTrim
  BY NoTrimFits, CacheAssumption DEF Bytes
<1>5. ReclaimFits'
  BY <1>1, <1>4 DEF ReclaimFits, Reclaims
<1>. QED  BY <1>1, <1>2, <1>3, <1>5

\* It evicts a batch, and an enforcement begins in the middle of it.
LEMMA ReclaimEvictsKeeps == ASSUME CacheInv, ReclaimEvicts PROVE CacheInv'
<1>. USE DEF CacheInv
<1>. DEFINE t == reclaim.trim
<1>1. PICK n \in LeftAfterBatch(t.cache) :
        reclaim' = [reclaim EXCEPT !.trim = Evicted(t, n)] /\ ReportIfChanged(t.cache, n)
  BY DEF ReclaimEvicts
<1>2. reclaim.on /\ stage = "idle" /\ ~Finished(t)
      /\ UNCHANGED <<trim, cacheLimit, capacity, settingVars, calls>>
  BY DEF ReclaimEvicts
<1>3. reclaim \in Reclaims /\ t \in Trims /\ t # NoTrim /\ cacheBytes[t.cache] <= t.seen
  <2>1. Finished(NoTrim)
    BY CacheAssumption DEF Finished, NoTrim
  <2>. QED  BY <1>2, <2>1 DEF ReclaimFits, Reclaims
<1>4. cacheBytes[t.cache] \in 0..MaxBytes /\ t.seen \in 0..MaxBytes
  BY <1>3 DEF Trims, Bytes
<1>5. /\ n \in Bytes /\ n <= cacheBytes[t.cache] /\ t.cache \in Caches
      /\ Evicted(t, n) \in Trims /\ Evicted(t, n).cache = t.cache
      /\ Evicted(t, n).seen = t.seen - (cacheBytes[t.cache] - n)
  BY <1>1, <1>2, <1>3, BatchEvicts
<1>. HIDE DEF t
<1>6. RoundFits' /\ cacheBytes' = [cacheBytes EXCEPT ![t.cache] = n]
  BY <1>1, <1>5, BatchReported
<1>7. cacheBytes' \in [Caches -> Bytes] /\ cacheBytes'[t.cache] = n
  BY <1>5, <1>6
<1>8. TrimFits'
  BY <1>2, WithoutTrim DEF TrimFits
<1>9. ReclaimFits'
  <2>1. reclaim' \in Reclaims /\ reclaim'.trim = Evicted(t, n) /\ reclaim'.on = reclaim.on
    BY <1>1, <1>3, <1>5 DEF Reclaims
  <2>2. n <= Evicted(t, n).seen
    BY <1>3, <1>4, <1>5, CacheAssumption DEF Bytes
  <2>. QED  BY <1>2, <1>5, <1>7, <2>1, <2>2 DEF ReclaimFits
<1>10. SettingsFit' /\ CeilingsFit'
  BY <1>2 DEF SettingsFit, CeilingsFit, settingVars
<1>. QED  BY <1>6, <1>7, <1>8, <1>9, <1>10

\* It turns to the next cache.
LEMMA ReclaimFromKeeps == ASSUME CacheInv, NEW c \in Caches, ReclaimFrom(c) PROVE CacheInv'
<1>. USE DEF CacheInv
<1>. DEFINE target == IF StillWanted < cacheBytes[c] THEN cacheBytes[c] - StillWanted ELSE 0
<1>1. /\ reclaim.on /\ LowerCeiling(c, target)
      /\ reclaim' = [reclaim EXCEPT !.left = StillWanted, !.todo = @ \ {c},
                                    !.trim = TrimOf(c, target)]
      /\ UNCHANGED <<cacheBytes, settingVars, enforcementVars, calls>>
  BY DEF ReclaimFrom
<1>2. StillWanted \in Nat
  <2>1. /\ reclaim.left \in Nat /\ reclaim.trim.before \in 0..MaxBytes
        /\ cacheBytes[reclaim.trim.cache] \in 0..MaxBytes
    BY DEF ReclaimFits, Reclaims, Trims, Bytes
  <2>. QED  BY <2>1, CacheAssumption DEF StillWanted
<1>3. target \in Nat
  BY <1>2, CacheAssumption DEF Bytes
<1>. HIDE DEF target
<1>4. /\ TrimOf(c, target) \in Trims /\ TrimOf(c, target).cache = c
      /\ TrimOf(c, target).seen = cacheBytes[c] /\ cacheBytes[c] <= cacheBytes[c]
  BY <1>3, TrimBegins, CacheAssumption DEF Bytes
<1>5. ReclaimFits'
  <2>1. reclaim' \in Reclaims /\ reclaim'.trim = TrimOf(c, target) /\ reclaim'.on
    BY <1>1, <1>2, <1>4 DEF ReclaimFits, Reclaims
  <2>. QED  BY <1>1, <1>4, <2>1 DEF ReclaimFits
<1>6. CeilingsFit'
  BY <1>1, <1>3, CeilingLowered
<1>7. TrimFits'
  BY <1>1, TrimKept DEF settingVars, enforcementVars
<1>8. SettingsFit' /\ RoundFits'
  BY <1>1 DEF SettingsFit, RoundFits, settingVars, enforcementVars
<1>. QED  BY <1>1, <1>5, <1>6, <1>7, <1>8

\* It returns.
LEMMA ReclaimReturnsKeeps == ASSUME CacheInv, ReclaimReturns PROVE CacheInv'
<1>. USE DEF CacheInv
<1>1. /\ reclaim' = NoReclaim
      /\ UNCHANGED <<cacheBytes, cacheLimit, capacity, settingVars, enforcementVars, calls>>
  BY DEF ReclaimReturns
<1>2. TrimFits'
  BY <1>1, TrimKept DEF settingVars, enforcementVars
<1>3. ReclaimFits'
  BY <1>1, NoTrimFits DEF ReclaimFits
<1>. QED  BY <1>1, <1>2, <1>3 DEF SettingsFit, CeilingsFit, RoundFits, settingVars, enforcementVars

\* A cache grows or shrinks.
LEMMA ResizeKeeps ==
    ASSUME CacheInv, NEW c \in Caches, NEW n \in Bytes, Resize(c, n) PROVE CacheInv'
<1>. USE DEF CacheInv
<1>1. /\ stage = "idle" /\ ~reclaim.on /\ UsageReported([cacheBytes EXCEPT ![c] = n])
      /\ UNCHANGED <<cacheLimit, capacity, settingVars, trim, reclaim, calls>>
  BY DEF Resize
<1>2. RoundFits' /\ cacheBytes' = [cacheBytes EXCEPT ![c] = n]
  BY <1>1, ReportFits
<1>3. cacheBytes' \in [Caches -> Bytes]
  BY <1>2
<1>4. TrimFits'
  BY <1>1, WithoutTrim DEF TrimFits
<1>5. ReclaimFits'
  BY <1>1, <1>3, ReclaimKept
<1>. QED  BY <1>1, <1>2, <1>3, <1>4, <1>5 DEF SettingsFit, CeilingsFit, settingVars

\* A call that changes a setting.
LEMMA ConfiguredKeeps ==
    ASSUME CacheInv, NEW set, Configured(set), budget' \in Budgets,
           preferredBytes' \in [Caches -> Hints], overrideBytes' \in [Caches -> Hints]
    PROVE  CacheInv'
<1>. USE DEF CacheInv
<1>1. /\ stage = "idle" /\ calls' = calls + 1 /\ calls < MaxCalls /\ ApplyCeilings(set)
      /\ BeginRound(cacheBytes) /\ UNCHANGED <<cacheBytes, trim, reclaim>>
  BY DEF Configured, MayCall
<1>2. SettingsFit'
  BY <1>1, CacheAssumption DEF SettingsFit
<1>3. CeilingsFit' /\ RoundFits'
  BY <1>1, <1>2, CeilingsApplied, RoundBegins
<1>4. TrimFits'
  BY <1>1, WithoutTrim DEF TrimFits
<1>. QED  BY <1>1, <1>2, <1>3, <1>4 DEF ReclaimFits

\* A setting changes.
LEMMA SettingsKeep ==
    ASSUME CacheInv,
           \/ \E b \in Budgets : SetBudget(b)
           \/ \E c \in Caches, b \in Hints : SetOverride(c, b) \/ SetPreferred(c, b)
    PROVE  CacheInv'
<1>1. ASSUME NEW b \in Budgets, SetBudget(b) PROVE CacheInv'
  <2>1. budget' = b /\ UNCHANGED <<preferredBytes, overrideBytes>> /\ \E set : Configured(set)
    BY <1>1 DEF SetBudget
  <2>. QED  BY <2>1, ConfiguredKeeps DEF CacheInv, SettingsFit
<1>2. ASSUME NEW c \in Caches, NEW b \in Hints, SetOverride(c, b) PROVE CacheInv'
  <2>1. /\ overrideBytes' = [overrideBytes EXCEPT ![c] = b] /\ UNCHANGED <<preferredBytes, budget>>
        /\ \E set : Configured(set)
    BY <1>2 DEF SetOverride
  <2>2. overrideBytes' \in [Caches -> Hints]
    BY <2>1 DEF CacheInv, SettingsFit
  <2>. QED  BY <2>1, <2>2, ConfiguredKeeps DEF CacheInv, SettingsFit
<1>3. ASSUME NEW c \in Caches, NEW b \in Hints, SetPreferred(c, b) PROVE CacheInv'
  <2>1. /\ preferredBytes' = [preferredBytes EXCEPT ![c] = b] /\ UNCHANGED <<overrideBytes, budget>>
        /\ \E set : Configured(set)
    BY <1>3 DEF SetPreferred
  <2>2. preferredBytes' \in [Caches -> Hints]
    BY <2>1 DEF CacheInv, SettingsFit
  <2>. QED  BY <2>1, <2>2, ConfiguredKeeps DEF CacheInv, SettingsFit
<1>. QED  BY <1>1, <1>2, <1>3

\* The coordinator is built.
LEMMA CacheInvStarts == ASSUME CacheInit PROVE CacheInv
<1>1. PICK p \in Sizes : preferredBytes = [c \in Caches |-> IF c \in Batched THEN p ELSE NoBytes]
  BY DEF CacheInit
<1>2. SettingsFit /\ overrideBytes = [c \in Caches |-> NoBytes]
  BY <1>1, CacheAssumption DEF CacheInit, SettingsFit, Hints
<1>3. CeilingsFit
  <2>1. \A c \in Caches : Target(c) \in Nat
    BY <1>2, TargetsFit
  <2>. QED  BY <2>1, CacheAssumption DEF CacheInit, CeilingsFit
<1>4. cacheBytes \in [Caches -> Bytes] /\ RoundFits
  <2>1. 0 \in Bytes
    BY CacheAssumption DEF Bytes
  <2>2. /\ stage = "idle" /\ again = FALSE /\ todo = {} /\ active = {}
        /\ overage = [c \in Caches |-> 0]
    BY DEF CacheInit
  <2>3. RoundFits
    <3>1. again \in BOOLEAN /\ ~again
      BY <2>2, Zenon
    <3>2. stage \in {"idle", "overrides", "global", "restore"} /\ todo \subseteq Caches
          /\ active \subseteq Caches /\ overage \in [Caches -> Int]
      BY <2>2
    <3>. QED  BY <3>1, <3>2 DEF RoundFits
  <2>4. cacheBytes = [c \in Caches |-> 0]
    BY DEF CacheInit
  <2>. QED  BY <2>1, <2>3, <2>4
<1>5. TrimFits /\ ReclaimFits
  BY NoTrimFits DEF CacheInit, TrimFits, ReclaimFits
<1>. QED  BY <1>2, <1>3, <1>4, <1>5 DEF CacheInv

\* Every step keeps the invariant.
LEMMA CacheStep == ASSUME CacheInv, [CacheNext]_cacheVars PROVE CacheInv'
<1>1. CASE Enforcement
  BY <1>1, EvictKeeps, OverridesDoneKeeps, SharesDoneKeeps, FinishRoundKeeps, OverrideKeeps,
     ShareKeeps DEF Enforcement
<1>2. CASE Reclamation
  BY <1>2, ReclaimEvictsKeeps, ReclaimReturnsKeeps, ReclaimFromKeeps DEF Reclamation
<1>3. CASE UNCHANGED cacheVars
  <2>1. TrimFits'
    BY <1>3, TrimKept DEF CacheInv, cacheVars, settingVars, enforcementVars
  <2>. QED  BY <1>3, <2>1 DEF CacheInv, SettingsFit, CeilingsFit, RoundFits, ReclaimFits, cacheVars,
                              settingVars, enforcementVars
<1>. QED  BY <1>1, <1>2, <1>3, ReclaimKeeps, ResizeKeeps, SettingsKeep DEF CacheNext

\* The types are part of the invariant.
LEMMA CacheInvFits == CacheInv => CacheTypeOK
  BY DEF CacheInv, CacheTypeOK, SettingsFit, CeilingsFit, RoundFits, TrimFits, ReclaimFits, Reclaims

\* The coordinator's and the caches' state keep their types: whatever is reported in
\* the middle of a trim, no trim and no cache ends with less than no bytes, and
\* entitlements are numbers of bytes although weights may all be 0.
THEOREM CacheTypesStay == CacheSpec => []CacheTypeOK
  BY CacheInvFits, CacheInvStarts, CacheStep, PTL DEF CacheSpec

\* Only a batch of the enforcement takes bytes in a round, and it takes what is owed.
LEMMA OwedStep ==
    ASSUME CacheInv, [CacheNext]_cacheVars, NEW c \in Caches, stage # "idle",
           cacheBytes'[c] < cacheBytes[c]
    PROVE  \/ stage = "overrides" /\ overrideBytes[c] # NoBytes /\ cacheBytes[c] > overrideBytes[c]
           \/ stage = "global" /\ cacheBytes[c] > Share(active, c)
<1>0. cacheBytes \in [Caches -> Bytes] /\ cacheBytes' \in [Caches -> Bytes] /\ TrimFits /\ RoundFits
  BY CacheStep DEF CacheInv
<1>1. cacheBytes' # cacheBytes
  BY <1>0, CacheAssumption DEF Bytes
<1>2. Evict
  BY <1>1 DEF CacheNext, Enforcement, Reclamation, OverridesDone, SharesDone, FinishRound,
              TrimToOverride, TrimToShare, ReclaimEvicts, ReclaimReturns, ReclaimFrom, Reclaim,
              Resize, SetBudget, SetOverride, SetPreferred, Configured, MayCall, cacheVars
<1>3. ~Finished(trim) /\ trim \in Trims /\ trim.seen = cacheBytes[trim.cache]
  BY <1>0, <1>2, NoTrimFits DEF TrimFits, Evict
<1>4. trim.cache = c
  <2>1. PICK n \in LeftAfterBatch(trim.cache) : ReportIfChanged(trim.cache, n)
    BY <1>2 DEF Evict
  <2>2. cacheBytes' = [cacheBytes EXCEPT ![trim.cache] = n]
    BY <1>0, <1>1, <2>1, ReportFits DEF ReportIfChanged
  <2>. QED  BY <1>0, <2>2, CacheAssumption DEF Bytes
<1>5. cacheBytes[c] > trim.target
  <2>1. cacheBytes[c] \in Nat /\ trim.target \in Nat
    BY <1>0, <1>3 DEF Bytes, Trims
  <2>. QED  BY <1>3, <1>4, <2>1 DEF Finished
<1>. QED  BY <1>0, <1>3, <1>4, <1>5 DEF TrimFits

\* However enforcement, reclamation and reports follow each other, an enforcement
\* takes from a cache only what is above its override or its share
\* (_enforce_budget, _trim_consumer_to).
THEOREM EvictionsAreOwedAlways == CacheSpec => EvictionsAreOwed
<1>1. CacheInv /\ [CacheNext]_cacheVars =>
        [\A c \in Caches : stage # "idle" /\ cacheBytes'[c] < cacheBytes[c] =>
            \/ stage = "overrides" /\ overrideBytes[c] # NoBytes /\ cacheBytes[c] > overrideBytes[c]
            \/ stage = "global" /\ cacheBytes[c] > Share(active, c)]_cacheVars
  BY OwedStep
<1>. QED  BY <1>1, CacheInvStarts, CacheStep, PTL DEF CacheSpec, EvictionsAreOwed

\* What is in use was in use when the round began.
UsesCounted == stage # "idle" => \A c \in Caches \ active : cacheBytes[c] = 0

\* A round begins with what is in use, goes on with it while caches only lose
\* bytes, or is over.
LEMMA UsesStayCounted ==
    ASSUME CacheInv, UsesCounted, [CacheNext]_cacheVars PROVE UsesCounted'
<1>0. /\ CacheInv'
      /\ cacheBytes \in [Caches -> Bytes] /\ cacheBytes' \in [Caches -> Bytes] /\ RoundFits
      /\ trim \in Trims
  BY CacheStep DEF CacheInv, TrimFits
<1>1. CASE BeginRound(cacheBytes')
  <2>1. active' = {c \in Caches : cacheBytes'[c] > 0}
    BY <1>1 DEF BeginRound
  <2>. QED  BY <1>0, <2>1, CacheAssumption DEF UsesCounted, Bytes
<1>2. CASE UNCHANGED <<cacheBytes, stage, active>>
  BY <1>2 DEF UsesCounted
<1>3. CASE stage # "idle" /\ UNCHANGED <<cacheBytes, active>>
  BY <1>3 DEF UsesCounted
<1>4. CASE stage' = "idle"
  BY <1>4 DEF UsesCounted
<1>5. CASE Evict
  <2>1. PICK n \in LeftAfterBatch(trim.cache) : ReportIfChanged(trim.cache, n)
    BY <1>5 DEF Evict
  <2>2. stage # "idle" /\ trim.cache \in Caches /\ cacheBytes[trim.cache] \in 0..MaxBytes
    BY <1>0, <1>5 DEF Evict, Trims, Bytes
  <2>3. n \in Bytes /\ n <= cacheBytes[trim.cache]
    BY <2>1, <2>2, CacheAssumption DEF LeftAfterBatch, Bytes
  <2>4. cacheBytes' = [cacheBytes EXCEPT ![trim.cache] = n] /\ UNCHANGED <<stage, active>>
    BY <1>0, <2>1, <2>2, <2>3, BatchReported
  <2>5. \A c \in Caches : cacheBytes[c] = 0 => cacheBytes'[c] = 0
    BY <1>0, <2>3, <2>4, CacheAssumption DEF Bytes
  <2>. QED  BY <2>2, <2>4, <2>5 DEF UsesCounted
<1>6. CASE ReclaimEvicts
  <2>1. stage = "idle" /\ \E n \in LeftAfterBatch(reclaim.trim.cache) :
                             ReportIfChanged(reclaim.trim.cache, n)
    BY <1>6 DEF ReclaimEvicts
  <2>. QED  BY <1>1, <1>2, <2>1 DEF ReportIfChanged, UsageReported
<1>7. CASE FinishRound
  BY <1>1, <1>4, <1>7 DEF FinishRound
<1>8. CASE \E c \in Caches, n \in Bytes : Resize(c, n)
  BY <1>1, <1>8 DEF Resize, UsageReported
<1>9. CASE \/ \E b \in Budgets : SetBudget(b)
           \/ \E c \in Caches, b \in Hints : SetOverride(c, b) \/ SetPreferred(c, b)
  <2>1. BeginRound(cacheBytes) /\ UNCHANGED cacheBytes
    BY <1>9 DEF SetBudget, SetOverride, SetPreferred, Configured
  <2>. QED  BY <1>1, <2>1
<1>10. CASE OverridesDone \/ SharesDone \/ \E c \in Caches : TrimToOverride(c) \/ TrimToShare(c)
  BY <1>3, <1>10 DEF OverridesDone, SharesDone, TrimToOverride, TrimToShare
<1>11. CASE \/ ReclaimReturns \/ \E n \in Bytes \ {0} : Reclaim(n)
            \/ \E c \in Caches : ReclaimFrom(c)
            \/ UNCHANGED cacheVars
  BY <1>2, <1>11 DEF ReclaimReturns, ReclaimFrom, Reclaim, enforcementVars, cacheVars
<1>. QED  BY <1>5, <1>6, <1>7, <1>8, <1>9, <1>10, <1>11 DEF CacheNext, Enforcement, Reclamation

\* Only the step after the last override begins to trim to shares.
LEMMA ContendersStep ==
    ASSUME CacheInv, UsesCounted, [CacheNext]_cacheVars, stage = "overrides", stage' = "global"
    PROVE  todo' # {}
<1>1. OverridesDone
  <2>1. ASSUME NEW c \in Caches, NEW n, ReportIfChanged(c, n) PROVE stage' = stage
    BY <2>1 DEF ReportIfChanged, UsageReported
  <2>2. trim.cache \in Caches
    BY DEF CacheInv, TrimFits, Trims
  <2>3. ~Evict
    BY <2>1, <2>2 DEF Evict
  <2>. QED  BY <2>3 DEF CacheNext, Enforcement, Reclamation, SharesDone, FinishRound,
              TrimToOverride, TrimToShare, ReclaimEvicts, ReclaimReturns, ReclaimFrom, Reclaim,
              ReclaimEnding, Resize, SetBudget, SetOverride, SetPreferred, Configured, MayCall,
              cacheVars, enforcementVars
<1>2. OverBudget /\ todo' = {c \in Caches : overage'[c] > 0}
      /\ overage' = [c \in Caches |-> Overage(active, c)]
  BY <1>1 DEF OverridesDone
<1>3. \E c \in Caches : Overage(active, c) > 0
  <2>1. budget \in Nat /\ active \in SUBSET Caches /\ cacheBytes \in [Caches -> Bytes]
    BY CacheAssumption DEF CacheInv, SettingsFit, RoundFits
  <2>. QED  BY <1>2, <2>1, SomebodyOwes DEF UsesCounted
<1>. QED  BY <1>2, <1>3

\* With any weights and any number of caches, a round that finds the budget exceeded
\* finds a cache above its share (_active_weights, _entitlement_bytes).
THEOREM PressureHasContendersAlways == CacheSpec => PressureHasContenders
<1>1. CacheInit => CacheInv /\ UsesCounted
  BY CacheInvStarts DEF CacheInit, UsesCounted
<1>2. CacheInv /\ UsesCounted /\ [CacheNext]_cacheVars => CacheInv' /\ UsesCounted'
  BY CacheStep, UsesStayCounted
<1>3. CacheInv /\ UsesCounted /\ [CacheNext]_cacheVars =>
        [stage = "overrides" /\ stage' = "global" => todo' # {}]_cacheVars
  BY ContendersStep
<1>. QED  BY <1>1, <1>2, <1>3, PTL DEF CacheSpec, PressureHasContenders

\* The enforcement of an exceeded budget falls on those that owe, and there are
\* some, for any caches, weights, sizes and budgets.
THEOREM DebtorsPayAlways == CacheSpec => DebtorsPay
BY EvictionsAreOwedAlways, PressureHasContendersAlways DEF DebtorsPay

-----------------------------------------------------------------------------
(* PartsMC: all of them, one at a time.                                    *)

PartsInv ==
    LaneInv /\ ScopeInv /\ ProgressInv /\ HubInv /\ AgingTypeOK /\ CacheInv /\ SamInv

\* A step of one part leaves the others as they are.
LEMMA PartsStep == PartsInv /\ [PartsNext]_partVars => PartsInv'
<1>. SUFFICES ASSUME PartsInv, [PartsNext]_partVars PROVE PartsInv'
  OBVIOUS
<1>1. /\ [AffinityNext]_affinityVars /\ [TreeNext]_treeVars /\ [ProgressNext]_progressVars
      /\ [HubNext]_hubVars /\ [AgingNext]_agingVars /\ [CacheNext]_cacheVars /\ [SamNext]_samVars
  BY Zenon DEF PartsNext, partVars
<1>. QED  BY <1>1, LaneInvStep, StepKeepsScopeInv, StepKeepsProgressInv, HubStep, AgingStep,
             CacheStep, SamStep DEF PartsInv, HubKept

\* Whichever part runs, every variable of every part has its type.
THEOREM PartsTypesStay == PartsSpec => []PartsTypeOK
<1>1. PartsInit => PartsInv
  BY InitLaneInv, InitScopeInv, InitProgressInv, HubStarts, AgingStarts, CacheInvStarts, SamStarts
  DEF PartsInit, PartsInv
<1>2. PartsInv => PartsTypeOK
  BY CacheInvFits DEF PartsInv, PartsTypeOK, LaneInv, ScopeInv, ProgressInv, HubInv, SamInv
<1>. QED  BY <1>1, <1>2, PartsStep, PTL DEF PartsSpec

\* Whichever part runs, the progress channel and the hub implement LatestValue for
\* whoever observes them (report, _deliver, publish, subscribe, _run, close).
THEOREM ChannelsCoalesceAlways == PartsSpec => ChannelsCoalesce
<1>. DEFINE Inboxes == \A o \in Observers : InboxStep(o)
<1>1. PartsInit => /\ ReportsInv /\ Inbox!LatestInit
                   /\ HubInv /\ \A o \in Observers : InboxOf(o)!LatestInit
  BY ReportsStart, HubStarts DEF PartsInit
<1>2. [PartsNext]_partVars => [ProgressNext]_progressVars /\ [HubNext]_hubVars
  BY Zenon DEF PartsNext, partVars
<1>3. ReportsInv /\ [PartsNext]_partVars => ReportsInv' /\ InboxMoves
  BY <1>2, ReportsStep
<1>4. HubInv /\ [PartsNext]_partVars => HubInv' /\ [Inboxes]_hubVars
  BY <1>2, HubStep DEF HubKept
<1>5. PartsSpec => ProgressCoalesces
  BY <1>1, <1>3, PTL DEF PartsSpec, ProgressCoalesces, Inbox!LatestSpec, InboxMoves
<1>6. PartsSpec => [][Inboxes]_hubVars
  BY <1>1, <1>4, PTL DEF PartsSpec
<1>7. PartsSpec => PartsInit
  BY PTL DEF PartsSpec
<1>8. PartsSpec => SnapshotsCoalesce
  BY <1>1, <1>6, <1>7 DEF SnapshotsCoalesce
<1>. QED  BY <1>5, <1>8 DEF ChannelsCoalesce

================================================================================
