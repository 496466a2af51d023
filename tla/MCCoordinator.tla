--------------------------- MODULE MCCoordinator ---------------------------
(* Small instances of the update cycle for TLC. *)
EXTENDS Coordinator

CONSTANTS fast, slow

\* One endpoint of the realtime tier, and one of a tier twice as slow.
MCInterval == [e \in Endpoints |-> IF e = fast THEN Base ELSE 2 * Base]
=============================================================================
