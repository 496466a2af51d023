--------------------------- MODULE MCWriteSwitch ---------------------------
(* Two switches of one slow endpoint, beside an endpoint of the realtime tier. *)
EXTENDS WriteSwitch

CONSTANTS fast, slow

MCInterval == [e \in Endpoints |-> IF e = fast THEN Base ELSE 2 * Base]
MCEndpointOf == [s \in Switches |-> slow]
=============================================================================
