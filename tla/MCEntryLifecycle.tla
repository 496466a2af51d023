------------------------- MODULE MCEntryLifecycle -------------------------
(* A small instance of the entry's life for TLC. *)
EXTENDS EntryLifecycle, TLC

\* Nothing, or everything, that the options can switch on.
MCOptions == {{}, {"fast", "snmp", "write"}}

\* Connection settings and dialogs differ by name only.
Symmetry == Permutations(Data) \cup Permutations(Flows)
=============================================================================
