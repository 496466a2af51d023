--------------------------- MODULE MCSnmpClient ---------------------------
(* A small instance of the SNMP client for TLC: a table of two columns and  *)
(* one of a single column, read at the same time.                           *)
EXTENDS SnmpClient

CONSTANTS traffic, cores, port1, spare1, internal

MCColumns == [o \in Operations |-> IF o = traffic THEN {"name", "value"} ELSE {"name"}]
MCIndexes == 1..2
MCNames == [x \in Objects |-> IF x = internal THEN Unnamed ELSE "Port1"]

\* Two rows of one name; an internal interface, whose name is left out, before
\* a row; a first index without a row.
MCTables == {<<port1, spare1>>, <<internal, port1>>, <<NoObject, spare1>>}
=============================================================================
