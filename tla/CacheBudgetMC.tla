--------------------------- MODULE CacheBudgetMC ---------------------------
(***************************************************************************)
(* Three consumers in the order of their registration: tiles, mask         *)
(* overlays and predictors.                                                *)
(***************************************************************************)
EXTENDS CacheBudget

MCPriority == <<30, 20, 10>>
MCWeight == <<2, 1, 1>>

=============================================================================
