----------------------------- MODULE EditHistory -----------------------------
(***************************************************************************)
(* Undo and redo of one document: CompositionEditHistory, its soft limits  *)
(* and its controller (cutecanvas/composition/edit_history.py,             *)
(* history_policy.py, edit_controller.py), the transitions of a layer      *)
(* (layer_edits.py, layers.py) and the leases that keep a layer's source   *)
(* alive (resource_lifetime.py).                                           *)
(*                                                                         *)
(* A composition shows one layer, which refers to a source (a mask) or is  *)
(* empty.  Three kinds of commands share a composition's chronology:       *)
(* "layer" replaces the layer and leases both its sources, "paint" changes *)
(* the pixels of a source and leases nothing, "select" is transient and    *)
(* has limits of its own.  Everything runs on the owner thread; what makes *)
(* it hard is that the release of a last lease, in the middle of an        *)
(* eviction, deletes the source, whose owner then discards its commands    *)
(* from the same history.                                                  *)
(***************************************************************************)
EXTENDS Integers, Sequences, FiniteSets

CONSTANTS
    Order,         \* the compositions, in browser order
    Sources,       \* mask sources
    NoSource,      \* an empty layer
    CommandLimit,  \* the soft limits of each durability class
    ByteLimit,
    BytesOf,       \* the bytes a command of each kind retains
    MaxCommands    \* bounds the commands recorded

Scopes == {Order[i] : i \in DOMAIN Order}
Kinds == {"layer", "paint", "select"}

ASSUME LimitAssumption ==
    /\ Order \in Seq(Scopes)
    /\ CommandLimit \in Nat /\ ByteLimit \in Nat /\ MaxCommands \in Nat
    /\ BytesOf \in [Kinds -> Nat] /\ NoSource \notin Sources

VARIABLES
    scopes,    \* the compositions that exist
    layer,     \* the source a composition's layer shows
    selection, \* the pixel selection of a composition
    pixels,    \* the version of the pixels of a source
    payload,   \* the sources whose payload exists
    spent,     \* the sources that were created so far
    undo, redo,\* the branches of a composition, ordered by number
    leases,    \* live, session and history leases by source
    recorded,  \* commands recorded so far
    painters   \* history variable: the compositions that painted a source

historyVars == <<scopes, layer, selection, pixels, payload, spent, undo, redo, leases,
                 recorded, painters>>

Classes == {{"layer", "paint"}, {"select"}}   \* durable and transient

\* Commands are numbered in the order in which they are recorded.  What is done
\* last is undone first, so everything that is undone is newer than what is done.
Command(s, kind, source, before, after) ==
    [scope |-> s, id |-> recorded + 1, kind |-> kind, source |-> source,
     before |-> before, after |-> after]
EntriesOf(s) == undo[s] \cup redo[s]
Newest(cs) == CHOOSE c \in cs : \A d \in cs : d.id <= c.id
Oldest(cs) == CHOOSE c \in cs : \A d \in cs : c.id <= d.id

\* retained_resources: both sides of a transition, which differ.
ResourcesOf(c) == IF c.kind = "layer" THEN {c.before, c.after} \ {NoSource} ELSE {}
-----------------------------------------------------------------------------
(* CompositionResourceLifetime.  An action acquires and releases leases in *)
(* a certain order; a source whose last lease is released is deleted then, *)
(* even if it is leased again.  Releases that follow each other can be     *)
(* taken together: they only lower the counts.                             *)
Total(ls, x) == ls[x].live + ls[x].session + ls[x].history
Now == [leases |-> leases, gone |-> {}]
AcquireAll(st, kind, count) ==
    [leases |-> [x \in Sources |-> [st.leases[x] EXCEPT ![kind] = @ + count[x]]],
     gone |-> st.gone]
ReleaseAll(st, kind, count) ==
    LET ls == [x \in Sources |-> [st.leases[x] EXCEPT ![kind] = @ - count[x]]]
    IN  [leases |-> ls,
         gone |-> st.gone \cup {x \in Sources : count[x] > 0 /\ Total(ls, x) = 0}]

\* One lease of some sources, and the leases that some commands hold.
Once(sources) == [x \in Sources |-> IF x \in sources THEN 1 ELSE 0]
Held(cs) == [x \in Sources |-> Cardinality({c \in cs : x \in ResourcesOf(c)})]

\* restore_layer protects the new source while it swaps the live lease.
RestoreLayer(st, from, to) ==
    ReleaseAll(AcquireAll(ReleaseAll(AcquireAll(st, "session", Once({to})),
                                     "live", Once({from})),
                          "live", Once({to})),
               "session", Once({to}))

\* delete_mask discards the commands of the sources that are gone.
Disposed(branch, gone) == {c \in branch : ~(c.kind = "paint" /\ c.source \in gone)}
Conclude(existing, end, us, rs) ==
    /\ leases' = end.leases
    /\ payload' = existing \ end.gone
    /\ undo' = [s \in Scopes |-> Disposed(us[s], end.gone)]
    /\ redo' = [s \in Scopes |-> Disposed(rs[s], end.gone)]
-----------------------------------------------------------------------------
(* SoftLimitHistoryPolicy.evictions of one durability class.  Nothing is   *)
(* left to redo when a command has been recorded, so the class is part of  *)
(* the undo branch.  The oldest go until the rest is within the limits;    *)
(* the newest command is protected.                                        *)
OfClass(branch, class) == {c \in branch : c.kind \in class}
OfKind(cs, kind) == {c \in cs : c.kind = kind}
Bytes(cs) == BytesOf["layer"] * Cardinality(OfKind(cs, "layer"))
             + BytesOf["paint"] * Cardinality(OfKind(cs, "paint"))
             + BytesOf["select"] * Cardinality(OfKind(cs, "select"))
Since(cs, c) == {d \in cs : c.id <= d.id}
RetainedWithin(cs, limit) ==
    {c \in cs : \/ Since(cs, c) = {c}
                \/ Cardinality(Since(cs, c)) <= limit /\ Bytes(Since(cs, c)) <= ByteLimit}
\* Mutants: the newest unprotected command goes first; one command too many.
RetainedOldest(cs) ==
    IF Cardinality(cs) <= CommandLimit /\ Bytes(cs) <= ByteLimit THEN cs
    ELSE {c \in cs : c # Newest(cs \ {Newest(cs)})}
RetainedOneTooMany(cs) == RetainedWithin(cs, CommandLimit + 1)
Retained(cs) == RetainedWithin(cs, CommandLimit)

Kept(branch) == UNION {Retained(OfClass(branch, k)) : k \in Classes}
Evicted(branch) == branch \ Kept(branch)

(* record_applied: the command is leased and appended, the redo branch is  *)
(* dropped and the limits are enforced.  These releases dispose of no      *)
(* stroke that stays: the layer, or a later transition of it, leases its   *)
(* source.                                                                 *)
RecordForgettingRedo(st, c) == \* mutant: the redo branch is not released
    ReleaseAll(AcquireAll(st, "history", Held({c})),
               "history", Held(Evicted(undo[c.scope] \cup {c})))
RecordLeases(st, c) ==
    ReleaseAll(ReleaseAll(AcquireAll(st, "history", Held({c})),
                          "history", Held(redo[c.scope])),
               "history", Held(Evicted(undo[c.scope] \cup {c})))
Record(c, existing, end) ==
    /\ recorded < MaxCommands /\ recorded' = recorded + 1
    /\ Conclude(existing, end,
                [undo EXCEPT ![c.scope] = Kept(@ \cup {c})],
                [redo EXCEPT ![c.scope] = {}])

(* _apply protects both sides of a transition until it is recorded.        *)
UnprotectedReplacement(c) == \* mutant
    RecordLeases(RestoreLayer(Now, c.before, c.after), c)
Replacement(c) ==
    ReleaseAll(RecordLeases(RestoreLayer(AcquireAll(Now, "session", Once(ResourcesOf(c))),
                                         c.before, c.after), c),
               "session", Once(ResourcesOf(c)))
-----------------------------------------------------------------------------
HistoryInit ==
    /\ scopes = Scopes
    /\ layer = [s \in Scopes |-> NoSource] /\ selection = [s \in Scopes |-> 0]
    /\ pixels = [x \in Sources |-> 0] /\ payload = {} /\ spent = {}
    /\ undo = [s \in Scopes |-> {}] /\ redo = [s \in Scopes |-> {}]
    /\ leases = [x \in Sources |-> [live |-> 0, session |-> 0, history |-> 0]]
    /\ recorded = 0 /\ painters = [x \in Sources |-> {}]

\* A new source: it has an identity of its own, and which one is of no matter.
FreshSource == IF Sources \subseteq spent THEN {} ELSE {CHOOSE x \in Sources : x \notin spent}

\* Show a new source, one that exists, or none.
ReplaceLayer(s, x) ==
    LET c == Command(s, "layer", NoSource, layer[s], x)
        fresh == {x} \cap FreshSource
    IN  /\ s \in scopes /\ x # layer[s]
        /\ x \in payload \cup FreshSource \cup {NoSource}
        /\ layer' = [layer EXCEPT ![s] = x]
        /\ spent' = spent \cup fresh
        /\ Record(c, payload \cup fresh, Replacement(c))
        /\ UNCHANGED <<scopes, selection, pixels, painters>>

\* A stroke belongs to the first composition that shows its source.
StrokeOwner(x) ==
    Order[CHOOSE i \in DOMAIN Order :
             /\ layer[Order[i]] = x
             /\ \A j \in 1..(i - 1) : layer[Order[j]] # x]
Paint(x) ==
    LET c == Command(StrokeOwner(x), "paint", x, pixels[x], recorded + 1) IN
    /\ \E s \in scopes : layer[s] = x
    /\ pixels' = [pixels EXCEPT ![x] = recorded + 1]
    /\ painters' = [painters EXCEPT ![x] = @ \cup {StrokeOwner(x)}]
    /\ Record(c, payload, RecordLeases(Now, c))
    /\ UNCHANGED <<scopes, layer, selection, spent>>

\* A new selection, or none (0).
Select(s, v) ==
    LET c == Command(s, "select", NoSource, selection[s], v) IN
    /\ s \in scopes /\ v # selection[s]
    /\ selection' = [selection EXCEPT ![s] = v]
    /\ Record(c, payload, RecordLeases(Now, c))
    /\ UNCHANGED <<scopes, layer, pixels, spent, painters>>

(* The handler of a command writes one of its sides back.  It refuses a    *)
(* layer or a selection that is there already, and the command stays where *)
(* it is; a stroke on a source that is gone changes nothing and moves.     *)
Accepts(c, value) ==
    /\ c.kind = "layer" => layer[c.scope] # value
    /\ c.kind = "select" => selection[c.scope] # value
Restored(f, kind, c, x, value) ==
    IF c.kind = kind THEN [f EXCEPT ![x] = value] ELSE f
Apply(c, value, us, rs) ==
    /\ Accepts(c, value)
    /\ layer' = Restored(layer, "layer", c, c.scope, value)
    /\ selection' = Restored(selection, "select", c, c.scope, value)
    /\ pixels' = IF c.source \in payload
                 THEN Restored(pixels, "paint", c, c.source, value) ELSE pixels
    /\ Conclude(payload,
                IF c.kind = "layer" THEN RestoreLayer(Now, layer[c.scope], value) ELSE Now,
                us, rs)
    /\ UNCHANGED <<scopes, spent, recorded, painters>>

Undo(s) ==
    /\ undo[s] # {}
    /\ LET c == Newest(undo[s]) IN
       Apply(c, c.before, [undo EXCEPT ![s] = @ \ {c}], [redo EXCEPT ![s] = @ \cup {c}])

Redo(s) ==
    /\ redo[s] # {}
    /\ LET c == Oldest(redo[s]) IN
       Apply(c, c.after, [undo EXCEPT ![s] = @ \cup {c}], [redo EXCEPT ![s] = @ \ {c}])

\* The layer goes, then the history of the composition is cleared.
RemoveComposition(s) ==
    /\ s \in scopes /\ scopes' = scopes \ {s}
    /\ layer' = [layer EXCEPT ![s] = NoSource]
    /\ Conclude(payload,
                ReleaseAll(ReleaseAll(Now, "live", Once({layer[s]})),
                           "history", Held(EntriesOf(s))),
                [undo EXCEPT ![s] = {}], [redo EXCEPT ![s] = {}])
    /\ UNCHANGED <<selection, pixels, spent, recorded, painters>>

HistoryNext ==
    \/ \E x \in Sources : Paint(x)
    \/ \E s \in Scopes :
        \/ \E x \in Sources \cup {NoSource} : ReplaceLayer(s, x)
        \/ \E v \in {0, recorded + 1} : Select(s, v)
        \/ Undo(s) \/ Redo(s) \/ RemoveComposition(s)

HistorySpec == HistoryInit /\ [][HistoryNext]_historyVars
-----------------------------------------------------------------------------
(* Every variable has its type, and no lease is released that is not held. *)
HistoryTypeOK ==
    /\ scopes \subseteq Scopes
    /\ layer \in [Scopes -> Sources \cup {NoSource}]
    /\ selection \in [Scopes -> 0..MaxCommands]
    /\ pixels \in [Sources -> 0..MaxCommands]
    /\ payload \subseteq spent /\ spent \subseteq Sources
    /\ leases \in [Sources -> [live : Nat, session : Nat, history : Nat]]
    /\ recorded \in 0..MaxCommands
    /\ \A s \in Scopes : \A c \in EntriesOf(s) :
          c.scope = s /\ c.kind \in Kinds /\ c.id \in 1..recorded

(* Whatever can still be undone or redone finds its sources: nothing that  *)
(* a layer shows or a retained command needs has been deleted, although    *)
(* evictions, dropped redo branches and removed compositions delete        *)
(* sources at every step; and the next command of a branch is never        *)
(* refused, which would block the branch.                                  *)
ReplayableForEver ==
    /\ \A s \in Scopes :
          /\ undo[s] # {} => Accepts(Newest(undo[s]), Newest(undo[s]).before)
          /\ redo[s] # {} => Accepts(Oldest(redo[s]), Oldest(redo[s]).after)
    /\ \A s \in Scopes : layer[s] \in payload \cup {NoSource}
    /\ \A s \in Scopes : \A c \in EntriesOf(s) :
          /\ ResourcesOf(c) \subseteq payload
          /\ c.kind = "paint" => c.source \in payload

(* A source is deleted as soon as nothing refers to it: every source that  *)
(* exists is shown by a layer or leased by a command, the leases count     *)
(* exactly those, and no protection outlives its edit.                     *)
LeasesAreExact ==
    \A x \in Sources :
        /\ leases[x].live = Cardinality({s \in Scopes : layer[s] = x})
        /\ leases[x].session = 0
        /\ leases[x].history = Held(UNION {EntriesOf(t) : t \in Scopes})[x]
        /\ x \in payload => Total(leases, x) > 0

(* Undo walks back through states the document was in: for each thing the  *)
(* commands of a composition change, the sides of neighbouring commands    *)
(* meet, and the current value is where the two branches meet.  (A source  *)
(* painted through two compositions has no single chronology.)             *)
Value(s, kind, x) ==
    CASE kind = "layer" -> layer[s]
      [] kind = "paint" -> pixels[x]
      [] OTHER -> selection[s]
About(branch, kind, x) == {c \in OfKind(branch, kind) : kind = "paint" => c.source = x}
Neighbours(cs, c, d) == c.id < d.id /\ \A e \in cs : e.id <= c.id \/ d.id <= e.id
ReplayRestores ==
    \A s \in scopes, kind \in Kinds, x \in Sources :
        LET done == About(undo[s], kind, x)
            undone == About(redo[s], kind, x)
            path == done \cup undone
        IN  \/ kind = "paint" /\ painters[x] # {s}
            \/ /\ \A c, d \in path : Neighbours(path, c, d) => c.after = d.before
               /\ done # {} => Newest(done).after = Value(s, kind, x)
               /\ undone # {} => Oldest(undone).before = Value(s, kind, x)

(* The limits hold for each class by itself, the newest command of a class *)
(* is kept whatever it costs, and recording leaves nothing to redo.        *)
LimitsKeepTheNewest ==
    [][recorded' = recorded + 1 =>
         \E s \in Scopes :
            /\ (\E c \in undo'[s] : c.id = recorded') /\ redo'[s] = {}
            /\ \A class \in Classes :
                 LET cs == OfClass(undo'[s], class) IN
                 Cardinality(cs) > 1 =>
                     Cardinality(cs) <= CommandLimit /\ Bytes(cs) <= ByteLimit]_historyVars
=============================================================================
