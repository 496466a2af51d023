--------------------------- MODULE MCSnmpReadings ---------------------------
(* The sets of endpoints to poll, for TLC: one concern at a time, and links beside *)
(* endpoints of slower tiers, which a requested run may read alone.                *)
EXTENDS SnmpReadings

MCOptions == {{"stats"}, {"traffic"}, {"links", "tunnels"}, {"health", "links"}}
=============================================================================
