----------------------------- MODULE OwnerPartsMC -----------------------------
(***************************************************************************)
(* The components that live on the Qt owner thread and meet the engine     *)
(* through callbacks only, one behaviour at a time: the edit history of a  *)
(* document, the debounced saves of a mask, the tiles of a viewport and    *)
(* the pyramids of its sources.  They share no state with each other, so   *)
(* each behaviour runs one of them and the others stay as they were built. *)
(***************************************************************************)
EXTENDS EditHistory, MaskAutosave, TileGeneration, PyramidGeneration

CONSTANTS s1, s2, shared

BrowserOrder == <<s1, s2>>
StrokesAreHeavy == [kind \in Kinds |-> IF kind = "paint" THEN 2 ELSE 1]

\* Two layers show the same pixels.
LayersShareTheirPixels == [k \in TileKeys |-> shared]

VARIABLE side

sideVars == <<side, historyVars, vars, tileVars, pyramidVars>>

OwnerPartsInit ==
    /\ side \in {"history", "autosave", "tiles", "pyramids"}
    /\ HistoryInit /\ Init /\ TileInit /\ PyramidInit
    \* One initial state of the other parts is enough.
    /\ space # (CHOOSE s \in Spaces : TRUE) => side = "pyramids"

OwnerPartsNext ==
    /\ UNCHANGED side
    /\ \/ /\ side = "history" /\ HistoryNext
          /\ UNCHANGED <<vars, tileVars, pyramidVars>>
       \/ /\ side = "autosave" /\ Next
          /\ UNCHANGED <<historyVars, tileVars, pyramidVars>>
       \/ /\ side = "tiles" /\ TileNext
          /\ UNCHANGED <<historyVars, vars, pyramidVars>>
       \/ /\ side = "pyramids" /\ PyramidNext
          /\ UNCHANGED <<historyVars, vars, tileVars>>

\* The fairness of the saves, as their own specification states it.
OwnerPartsSpec ==
    /\ OwnerPartsInit /\ [][OwnerPartsNext]_sideVars
    /\ \A m \in Managers :
          /\ WF_vars(side = "autosave" /\ TimerOf(m))
          /\ WF_vars(side = "autosave" /\ DelayOf(m))
    /\ \A r \in 1..MaxRequests :
          /\ WF_vars(side = "autosave" /\ WorkerOf(r))
          /\ WF_vars(side = "autosave" /\ CallbackOf(r))

\* Every variable of the four components has its type.
OwnerPartsTypeOK == HistoryTypeOK /\ TypeOK /\ TileTypeOK /\ PyramidTypeOK

=============================================================================
