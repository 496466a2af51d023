------------------------- MODULE MCEntityRegistry -------------------------
(* The families of entities for TLC: all of them but one, and that one.     *)
EXTENDS EntityRegistry

MCOthers == Families \ {"switch_ipsec_"}
=============================================================================
