--------------------------- MODULE SchedulerAging ---------------------------
(***************************************************************************)
(* Which pending job a worker of the default backend takes: the selection  *)
(* of DefaultExecutionBackend._take_next_locked with the urgency ranks of  *)
(* default_policy.py.  ExecutionRuntime leaves this choice open; here the  *)
(* clock, the ranks and the queueing order decide it, and what the         *)
(* resource limits allow changes arbitrarily.  Time is counted in ticks,   *)
(* a whole number of which make one aging interval.                        *)
(***************************************************************************)
EXTENDS Integers

CONSTANTS
    Ranks,      \* the values of _URGENCY_RANKS
    Interval,   \* aging_interval_seconds, in ticks
    MaxJobs,    \* bound on jobs queued
    MaxTime     \* bound on the clock

ASSUME AgingAssumption ==
    Ranks \subseteq Nat /\ Ranks # {} /\ Interval \in Nat \ {0} /\ MaxJobs \in Nat /\ MaxTime \in Nat

VARIABLES
    now,        \* time.monotonic()
    sequence,   \* _sequence: jobs are named by their sequence number
    pendingJobs,\* _pending
    queuedAt,   \* entry.queued_at
    rank,       \* urgency_rank(entry.job.requirements.urgency)
    eligible    \* jobs for which _is_eligible_locked holds

agingVars == <<now, sequence, pendingJobs, queuedAt, rank, eligible>>

Jobs == 1..MaxJobs

AgingTypeOK ==
    /\ now \in 0..MaxTime /\ sequence \in 0..MaxJobs
    /\ pendingJobs \subseteq 1..sequence
    /\ queuedAt \in [Jobs -> 0..MaxTime] /\ rank \in [Jobs -> Ranks]
    /\ eligible \subseteq pendingJobs
    /\ \A i, j \in 1..sequence : i <= j => queuedAt[i] <= queuedAt[j]
    /\ \A i \in 1..sequence : queuedAt[i] <= now

AgingInit ==
    /\ now = 0 /\ sequence = 0
    /\ pendingJobs = {} /\ eligible = {}
    /\ queuedAt = [j \in Jobs |-> 0]
    /\ rank = [j \in Jobs |-> CHOOSE r \in Ranks : TRUE]

Tick ==
    /\ now < MaxTime
    /\ now' = now + 1
    /\ UNCHANGED <<sequence, pendingJobs, queuedAt, rank, eligible>>

\* The queueing part of submit; the limits may or may not let it start.
Queue ==
    /\ sequence < MaxJobs
    /\ sequence' = sequence + 1
    /\ pendingJobs' = pendingJobs \cup {sequence'}
    /\ queuedAt' = [queuedAt EXCEPT ![sequence'] = now]
    /\ \E r \in Ranks : rank' = [rank EXCEPT ![sequence'] = r]
    /\ eligible' \in {eligible, eligible \cup {sequence'}}
    /\ UNCHANGED now

\* A worker, a lease or a resource is taken or released elsewhere.
LimitsChange ==
    /\ eligible' \in SUBSET pendingJobs
    /\ eligible' # eligible
    /\ UNCHANGED <<now, sequence, pendingJobs, queuedAt, rank>>

Withdraw(j) ==
    /\ j \in pendingJobs
    /\ pendingJobs' = pendingJobs \ {j}
    /\ eligible' = eligible \ {j}
    /\ UNCHANGED <<now, sequence, queuedAt, rank>>

\* Variant: every age is taken as zero.
ScoreWithoutAge(j) == rank[j]

\* One rank is gained per whole interval waited.
Score(j) == rank[j] - ((now - queuedAt[j]) \div Interval)

\* The order of the selection key: the score, then the sequence number.
Before(i, j) ==
    \/ Score(i) < Score(j)
    \/ Score(i) = Score(j) /\ i <= j

TakeNext ==
    \E j \in eligible :
        /\ \A i \in eligible : Before(j, i)
        /\ pendingJobs' = pendingJobs \ {j}
        /\ eligible' = eligible \ {j}
        /\ UNCHANGED <<now, sequence, queuedAt, rank>>

AgingNext ==
    \/ Tick
    \/ Queue
    \/ LimitsChange
    \/ \E j \in pendingJobs : Withdraw(j)
    \/ TakeNext

AgingSpec == AgingInit /\ [][AgingNext]_agingVars

-----------------------------------------------------------------------------
\* A job that may start is overtaken by a later one only while it is more
\* ranks behind than whole intervals older: however many urgent jobs keep
\* arriving, one that is old enough starts first.
OvertakenBriefly ==
    [][TakeNext =>
        \A j \in pendingJobs \ pendingJobs', i \in eligible' :
            i < j => queuedAt[j] - queuedAt[i] < (rank[i] - rank[j]) * Interval]_agingVars

=============================================================================
