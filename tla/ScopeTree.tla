------------------------------ MODULE ScopeTree ------------------------------
(***************************************************************************)
(* Nested owner lifetimes: execution/scope.py and the scope registry of    *)
(* execution/runtime.py.  Several threads open children, register handles  *)
(* and close scopes at once; close collects what it owns under the lock    *)
(* and works through it outside.  The runtime is the root of the tree: its *)
(* shutdown closes the scopes it retains.  cancel_all is a series of       *)
(* CancelHandle steps.                                                     *)
(***************************************************************************)
EXTENDS FiniteSets

CONSTANTS
    Runtime,      \* the root
    Scopes,       \* scopes that may be opened
    Handles,      \* handles that may be registered
    Nobody        \* no scope

ASSUME TreeAssumption ==
    Runtime \notin Scopes /\ Nobody \notin Scopes \cup {Runtime}

VARIABLES
    life,         \* "unopened", "open" or "closed" (_closed)
    parent,       \* _parent; the runtime for scopes it opened itself
    children,     \* _children of a scope, _scopes of the runtime
    tracked,      \* _handles
    frame,        \* where the close of a scope stands
    toClose,      \* children its close still has to close
    calling,      \* the child whose close it waits for
    toCancel,     \* handles its close still has to cancel
    relieved      \* handles that were cancelled or have settled

treeVars == <<life, parent, children, tracked, frame, toClose, calling, toCancel, relieved>>

Nodes == Scopes \cup {Runtime}

TreeTypeOK ==
    /\ life \in [Nodes -> {"unopened", "open", "closed"}]
    /\ parent \in [Scopes -> Nodes \cup {Nobody}]
    /\ children \in [Nodes -> SUBSET Scopes]
    /\ tracked \in [Nodes -> SUBSET Handles]
    /\ frame \in [Nodes -> {"none", "children", "handles", "returned"}]
    /\ toClose \in [Nodes -> SUBSET Scopes]
    /\ calling \in [Nodes -> Scopes \cup {Nobody}]
    /\ toCancel \in [Nodes -> SUBSET Handles]
    /\ relieved \subseteq Handles

TreeInit ==
    /\ life = [n \in Nodes |-> IF n = Runtime THEN "open" ELSE "unopened"]
    /\ parent = [s \in Scopes |-> Nobody]
    /\ children = [n \in Nodes |-> {}]
    /\ tracked = [n \in Nodes |-> {}]
    /\ frame = [n \in Nodes |-> "none"]
    /\ toClose = [n \in Nodes |-> {}]
    /\ calling = [n \in Nodes |-> Nobody]
    /\ toCancel = [n \in Nodes |-> {}]
    /\ relieved = {}

Opened(p, s) ==
    /\ life' = [life EXCEPT ![s] = "open"]
    /\ parent' = [parent EXCEPT ![s] = p]
    /\ children' = [children EXCEPT ![p] = @ \cup {s}]
    /\ UNCHANGED <<tracked, frame, toClose, calling, toCancel, relieved>>

\* Scopes differ in nothing but their name: the next one is any unopened one.
Unopened(s) == s = CHOOSE u \in Scopes : life[u] = "unopened"
Exhausted == \A s \in Scopes : life[s] # "unopened"

\* Variant: _closed is read before the lock is taken to add the child.
OpenUnchecked(p, s) ==
    /\ ~Exhausted /\ Unopened(s) /\ life[p] # "unopened"
    /\ Opened(p, s)

\* open_child of a scope, open_scope of the runtime.
OpenChild(p, s) ==
    /\ ~Exhausted /\ Unopened(s) /\ life[p] = "open"
    /\ Opened(p, s)

\* open_finalization_scope: the runtime retains it, so it outlives the opener.
OpenFinalizationScope(p, s) ==
    /\ ~Exhausted /\ Unopened(s) /\ life[p] = "open" /\ life[Runtime] = "open"
    /\ Opened(Runtime, s)

Untracked(h) == \A n \in Nodes : h \notin tracked[n]

\* submit: the second look at _closed and the registration share the lock.
RegisterHandle(s, h) ==
    /\ life[s] = "open" /\ Untracked(h) /\ h \notin relieved
    /\ tracked' = [tracked EXCEPT ![s] = @ \cup {h}]
    /\ UNCHANGED <<life, parent, children, frame, toClose, calling, toCancel, relieved>>

\* _release_handle: the task settled, or its submission was refused.
ReleaseHandle(s, h) ==
    /\ h \in tracked[s]
    /\ tracked' = [tracked EXCEPT ![s] = @ \ {h}]
    /\ relieved' = relieved \cup {h}
    /\ UNCHANGED <<life, parent, children, frame, toClose, calling, toCancel>>

CancelHandle(s, h) ==
    /\ h \in tracked[s]
    /\ relieved' = relieved \cup {h}
    /\ UNCHANGED <<life, parent, children, tracked, frame, toClose, calling, toCancel>>

\* The critical section of close and of shutdown.
Collect(n) ==
    /\ life[n] = "open"
    /\ life' = [life EXCEPT ![n] = "closed"]
    /\ toClose' = [toClose EXCEPT ![n] = children[n]]
    /\ toCancel' = [toCancel EXCEPT ![n] = tracked[n]]
    /\ children' = [children EXCEPT ![n] = {}]
    /\ frame' = [frame EXCEPT ![n] = "children"]

\* The owner of a scope, or of the runtime, closes it.
CloseNode(n) ==
    /\ Collect(n)
    /\ UNCHANGED <<parent, tracked, calling, relieved>>

\* A close calls the close of its next child, which returns at once when
\* somebody else has closed it.
CloseNextChild(n) ==
    /\ frame[n] = "children" /\ calling[n] = Nobody
    /\ \E c \in toClose[n] :
        \/ /\ Collect(c)
           /\ calling' = [calling EXCEPT ![n] = c]
           /\ UNCHANGED <<parent, tracked, relieved>>
        \/ /\ life[c] = "closed"
           /\ toClose' = [toClose EXCEPT ![n] = @ \ {c}]
           /\ UNCHANGED <<life, parent, children, tracked, frame, calling, toCancel, relieved>>

ChildReturned(n) ==
    /\ calling[n] # Nobody /\ frame[calling[n]] = "returned"
    /\ toClose' = [toClose EXCEPT ![n] = @ \ {calling[n]}]
    /\ calling' = [calling EXCEPT ![n] = Nobody]
    /\ UNCHANGED <<life, parent, children, tracked, frame, toCancel, relieved>>

\* Variant: the children are left to their own close.
ChildrenSkipped(n) ==
    /\ frame[n] = "children"
    /\ frame' = [frame EXCEPT ![n] = "handles"]
    /\ UNCHANGED <<life, parent, children, tracked, toClose, calling, toCancel, relieved>>

ChildrenDone(n) ==
    /\ frame[n] = "children" /\ toClose[n] = {}
    /\ frame' = [frame EXCEPT ![n] = "handles"]
    /\ UNCHANGED <<life, parent, children, tracked, toClose, calling, toCancel, relieved>>

CancelNextHandle(n) ==
    /\ frame[n] = "handles"
    /\ \E h \in toCancel[n] :
        /\ toCancel' = [toCancel EXCEPT ![n] = @ \ {h}]
        /\ relieved' = relieved \cup {h}
    /\ UNCHANGED <<life, parent, children, tracked, frame, toClose, calling>>

\* Variant: the closed scope stays with its parent.
StayLinked(n) ==
    /\ frame[n] = "handles" /\ toCancel[n] = {}
    /\ frame' = [frame EXCEPT ![n] = "returned"]
    /\ UNCHANGED <<life, parent, children, tracked, toClose, calling, toCancel, relieved>>

\* The parent and the runtime let go of the closed scope.  One of them retains it,
\* so that of the two releases only one does anything.
Unlink(n) ==
    /\ frame[n] = "handles" /\ toCancel[n] = {}
    /\ frame' = [frame EXCEPT ![n] = "returned"]
    /\ children' = [m \in Nodes |->
        IF n # Runtime /\ m \in {parent[n], Runtime} THEN children[m] \ {n} ELSE children[m]]
    /\ UNCHANGED <<life, parent, tracked, toClose, calling, toCancel, relieved>>

Closing(n) ==
    \/ CloseNextChild(n)
    \/ ChildReturned(n)
    \/ ChildrenDone(n)
    \/ CancelNextHandle(n)
    \/ Unlink(n)

TreeNext ==
    \/ \E p \in Nodes, s \in Scopes : OpenChild(p, s)
    \/ \E p \in Scopes, s \in Scopes : OpenFinalizationScope(p, s)
    \/ \E s \in Scopes, h \in Handles :
        RegisterHandle(s, h) \/ ReleaseHandle(s, h) \/ CancelHandle(s, h)
    \/ \E n \in Nodes : CloseNode(n) \/ Closing(n)

\* As long as a thread inside close can go on, one does.
TreeSpec ==
    /\ TreeInit /\ [][TreeNext]_treeVars
    /\ WF_treeVars(\E n \in Nodes : Closing(n))

-----------------------------------------------------------------------------
\* Nothing escapes a close: a child or a handle of a closed scope is closed or
\* cancelled, or a close that is still running will get to it.
NothingEscapesClose ==
    \A n \in Nodes : life[n] = "closed" =>
        /\ \A s \in Scopes : parent[s] = n =>
            life[s] = "closed" \/ (frame[n] = "children" /\ s \in toClose[n])
        /\ \A h \in tracked[n] :
            h \in relieved \/ (frame[n] \in {"children", "handles"} /\ h \in toCancel[n])

\* No scope is retained by anyone once its close has returned, and an open
\* one is retained by its parent or by the close of its parent.
ScopesRetainedWhileOpen ==
    \A s \in Scopes :
        /\ frame[s] = "returned" => \A n \in Nodes : s \notin children[n]
        /\ life[s] = "open" => s \in children[parent[s]] \cup toClose[parent[s]]

\* After shutdown every scope that was ever opened has been closed and every
\* handle that was registered is cancelled or settled, whoever closed what.
ShutdownReachesEverything ==
    <>[](life[Runtime] = "closed" =>
        /\ \A n \in Nodes : life[n] # "unopened" => frame[n] = "returned"
        /\ \A n \in Nodes : tracked[n] \subseteq relieved)

=============================================================================
