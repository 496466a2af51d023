------------------------- MODULE MCDynamicEntities -------------------------
(* Small instances of the dynamic entities for TLC. *)
EXTENDS DynamicEntities

CONSTANTS a, b
=============================================================================
