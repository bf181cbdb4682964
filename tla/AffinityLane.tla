---------------------------- MODULE AffinityLane ----------------------------
(***************************************************************************)
(* What a lane of native work promises (docs/integration-sdk.md on         *)
(* affinity keys, exclusive keys and lease release): one task of a lane at *)
(* a time, in the order in which they joined it; no two tasks of one       *)
(* exclusive key at a time, whatever their lanes; and a task that holds    *)
(* its lease through adoption keeps both until its outcome is settled.     *)
(* AffinityBackend implements it.                                          *)
(***************************************************************************)
EXTENDS Integers, SequencesExt

CONSTANTS
    Tasks,        \* native tasks
    Lanes,        \* affinity_key values
    Keys,         \* exclusive_key values
    NoKey,        \* exclusive_key is None
    NoTask,
    LaneOf,       \* requirements.affinity_key
    KeyOf,        \* requirements.exclusive_key
    AdoptionHeld  \* tasks with lease_release = ADOPTION_FINISHED

VARIABLES
    waiting,      \* per lane, the tasks that have not had their turn
    turn,         \* per lane, the task whose turn it is
    ended         \* tasks whose outcome is settled

laneVars == <<waiting, turn, ended>>

LaneInit ==
    /\ waiting = [l \in Lanes |-> <<>>]
    /\ turn = [l \in Lanes |-> NoTask]
    /\ ended = {}

Join(t) ==
    /\ t \notin ended \cup Range(waiting[LaneOf[t]]) \cup Range(turn)
    /\ waiting' = [waiting EXCEPT ![LaneOf[t]] = Append(@, t)]
    /\ UNCHANGED <<turn, ended>>

\* A cancelled task leaves the lane without a turn, and so do all that wait
\* behind the n-th when the lane is closed.
Leave(l, i) ==
    /\ waiting' = [waiting EXCEPT ![l] = RemoveAt(@, i)]
    /\ UNCHANGED <<turn, ended>>

LetGo(l, n) ==
    /\ waiting' = [waiting EXCEPT ![l] = SubSeq(@, 1, n)]
    /\ UNCHANGED <<turn, ended>>

KeyFree(t) ==
    KeyOf[t] \notin {KeyOf[u] : u \in Range(turn) \ {NoTask}} \ {NoKey}

Begin(l) ==
    /\ turn[l] = NoTask /\ waiting[l] # <<>>
    /\ KeyFree(Head(waiting[l]))
    /\ turn' = [turn EXCEPT ![l] = Head(waiting[l])]
    /\ waiting' = [waiting EXCEPT ![l] = Tail(@)]
    /\ UNCHANGED ended

EndTask(t) ==
    /\ t \notin ended \cup Range(waiting[LaneOf[t]])
    /\ ended' = ended \cup {t}
    /\ UNCHANGED <<waiting, turn>>

FreeLane(l) ==
    /\ turn[l] # NoTask
    /\ turn[l] \in AdoptionHeld => turn[l] \in ended
    /\ turn' = [turn EXCEPT ![l] = NoTask]
    /\ UNCHANGED <<waiting, ended>>

LaneNext ==
    \/ \E t \in Tasks : Join(t) \/ EndTask(t)
    \/ \E l \in Lanes : Begin(l) \/ FreeLane(l)
    \/ \E l \in Lanes : \E i \in DOMAIN waiting[l] : Leave(l, i) \/ LetGo(l, i - 1)

LaneSpec == LaneInit /\ [][LaneNext]_laneVars

=============================================================================
