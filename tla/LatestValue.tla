----------------------------- MODULE LatestValue -----------------------------
(***************************************************************************)
(* What a channel promises an observer when it delivers only the newest of *)
(* the values it is offered.  ProgressChannel and, for each observer,      *)
(* DiagnosticsHub implement it.  Values are numbered as they are offered.  *)
(***************************************************************************)
EXTENDS Integers

VARIABLES
    offered,    \* values offered so far
    due,        \* one of them is still to be delivered
    inHand,     \* the value the observer is about to be called with, or 0
    received,   \* the last value it was called with
    access      \* "none" before it observes, "open", and "shut" for good

latestVars == <<offered, due, inHand, received, access>>

LatestInit ==
    /\ offered = 0 /\ due = FALSE /\ inHand = 0 /\ received = 0
    /\ access \in {"none", "open"}

Offer ==
    /\ offered' = offered + 1 /\ due' = TRUE
    /\ UNCHANGED <<inHand, received, access>>

Observe ==
    /\ access = "none" /\ access' = "open"
    /\ UNCHANGED <<offered, due, inHand, received>>

\* Only the newest value is taken, once, and not while another is in hand.
Take ==
    /\ access = "open" /\ due /\ inHand = 0 /\ received < offered
    /\ due' = FALSE /\ inHand' = offered
    /\ UNCHANGED <<offered, received, access>>

\* The value was for others.
Miss ==
    /\ access # "open" /\ due /\ due' = FALSE
    /\ UNCHANGED <<offered, inHand, received, access>>

\* The observer is called; one that raises may be dropped.
Call ==
    /\ inHand # 0 /\ received' = inHand /\ inHand' = 0
    /\ \/ UNCHANGED <<due, access>>
       \/ due' = FALSE /\ access' = "shut"
    /\ UNCHANGED offered

\* Nothing is taken any more; what is in hand may still arrive.
Shut ==
    /\ access' = "shut" /\ due' \in {due, FALSE}
    /\ UNCHANGED <<offered, inHand, received>>

LatestNext == Offer \/ Observe \/ Take \/ Miss \/ Call \/ Shut

LatestSpec == LatestInit /\ [][LatestNext]_latestVars

=============================================================================
