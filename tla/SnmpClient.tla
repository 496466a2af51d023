----------------------------- MODULE SnmpClient -----------------------------
(***************************************************************************)
(* The operations of SophosSNMPClient (snmp_client.py).  An operation walks*)
(* the columns of a table at the same time, each with a sequence of        *)
(* requests; a request waits for one of a few places in flight and makes   *)
(* its attempts there, each on a socket of its own.  The first failure, and*)
(* the budget of the operation, cancel everything that still runs.         *)
(*                                                                         *)
(* A GET of scalars is an operation of one column of one request.  A row   *)
(* is represented by the object it describes: every column but the name    *)
(* yields that object.  The agent may renumber its rows at any moment.     *)
(***************************************************************************)
EXTENDS Integers, FiniteSets

CONSTANTS
    Operations,       \* operations that may run at the same time
    ColumnsOf,        \* columns an operation walks
    Indexes,          \* row indexes of the table
    Objects, NameOf,  \* what rows describe, and its name, or Unnamed
    MaxConcurrent,    \* SNMP_MAX_CONCURRENT
    Attempts,         \* SNMP_RETRIES
    Bulk,             \* SNMP_BULK_SIZE, in rows
    Tables,           \* contents the table of the agent may have
    MaxChanges        \* bound on changes of the table

NoObject == "no row"
Before   == -1            \* the position of a walk that has read nothing
Unnamed  == "unnamed"     \* an empty name, or one of an internal interface
NameColumn == "name"
NoRows   == [name \in {} |-> NoObject]
Nothing  == [i \in Indexes |-> NoObject]

ASSUME SnmpAssumption ==
    /\ Indexes \subseteq Nat /\ IsFiniteSet(Indexes)
    /\ ColumnsOf \in [Operations -> SUBSET STRING]
    /\ \A o \in Operations : NameColumn \in ColumnsOf[o]
    /\ MaxConcurrent \in Nat \ {0} /\ Attempts \in Nat \ {0} /\ Bulk \in Nat \ {0}
    /\ MaxChanges \in Nat
    /\ NoObject \notin Objects
    /\ Tables \subseteq [Indexes -> Objects \cup {NoObject}]

\* The walks: a column of an operation.
Walks == UNION {{o} \X ColumnsOf[o] : o \in Operations}
WalksOf(o) == {o} \X ColumnsOf[o]

VARIABLES
    table,            \* rows of the agent
    changes,          \* number of times they have changed
    status,           \* of an operation: idle, running, unwinding
    walk,             \* of a column: off, queued, sent, done
    position,         \* last index it has read
    column,           \* rows it has read
    attempt,          \* of its current request
    inFlight,         \* walks that hold one of the MaxConcurrent places
    sockets,          \* open sockets: walk and attempt
    answer,           \* what the operation that has just ended returned
    changed           \* history: the table changed during the operation

vars == <<table, changes, status, walk, position, column, attempt, inFlight, sockets,
          answer, changed>>

------------------------------------------------------------------------------

Init ==
    /\ table \in Tables
    /\ changes = 0
    /\ status = [o \in Operations |-> "idle"]
    /\ walk = [w \in Walks |-> "off"]
    /\ position = [w \in Walks |-> Before]
    /\ column = [w \in Walks |-> Nothing]
    /\ attempt = [w \in Walks |-> 0]
    /\ inFlight = {} /\ sockets = {}
    /\ answer = NoRows
    /\ changed = {}

\* A fetch of a cycle calls the operation: all its walks start.
Start(o) ==
    /\ status[o] = "idle"
    /\ status' = [status EXCEPT ![o] = "running"]
    /\ walk' = [w \in Walks |-> IF w \in WalksOf(o) THEN "queued" ELSE walk[w]]
    /\ changed' = changed \ {o}
    /\ answer' = NoRows
    /\ UNCHANGED <<table, changes, position, column, attempt, inFlight, sockets>>

\* _send: a request gets its place; its first attempt opens a socket.
Send(w) ==
    /\ walk[w] = "queued"
    /\ status[w[1]] = "running"
    /\ Cardinality(inFlight) < MaxConcurrent
    /\ inFlight' = inFlight \cup {w}
    /\ walk' = [walk EXCEPT ![w] = "sent"]
    /\ attempt' = [attempt EXCEPT ![w] = 1]
    /\ sockets' = sockets \cup {<<w, 1>>}
    /\ answer' = NoRows
    /\ UNCHANGED <<table, changes, status, position, column, changed>>

\* Mutant of Closed: a cancelled request leaves its socket open.
ClosedUnlessCancelled(w, why) ==
    /\ sockets' = IF why = "cancelled" THEN sockets ELSE {s \in sockets : s[1] # w}
    /\ inFlight' = inFlight \ {w}

\* The request is over, whatever ended it.
Closed(w, why) ==
    /\ sockets' = {s \in sockets : s[1] # w}
    /\ inFlight' = inFlight \ {w}

\* One answer brings the next Bulk rows; a shorter one is the end of the column.
Answered(w) ==
    /\ walk[w] = "sent"
    /\ LET left == {i \in Indexes : i > position[w] /\ table[i] # NoObject}
           read == {i \in left : Cardinality({j \in left : j <= i}) <= Bulk}
       IN  /\ column' = [column EXCEPT ![w] =
                            [i \in Indexes |-> IF i \in read THEN table[i] ELSE @[i]]]
           /\ \/ /\ Cardinality(read) < Bulk
                 /\ walk' = [walk EXCEPT ![w] = "done"]
                 /\ position' = [position EXCEPT ![w] = Before]
              \/ /\ Cardinality(read) = Bulk
                 /\ walk' = [walk EXCEPT ![w] = "queued"]
                 /\ position' = [position EXCEPT ![w] =
                                    CHOOSE i \in read : \A j \in read : j <= i]
    /\ attempt' = [attempt EXCEPT ![w] = 0]
    /\ Closed(w, "answer")
    /\ answer' = NoRows
    /\ UNCHANGED <<table, changes, status, changed>>

MoreAttempts(w) == attempt[w] < Attempts

\* An attempt gets no answer in time: the next one starts on a new socket, in
\* the same place.  An answer to the old socket comes too late.
Retry(w) ==
    /\ walk[w] = "sent"
    /\ MoreAttempts(w)
    /\ attempt' = [attempt EXCEPT ![w] = @ + 1]
    /\ sockets' = {s \in sockets : s[1] # w} \cup {<<w, attempt[w] + 1>>}
    /\ answer' = NoRows
    /\ UNCHANGED <<table, changes, status, walk, position, column, inFlight, changed>>

\* What is left of a walk that stops.
Stopped(w, why) ==
    /\ walk' = [walk EXCEPT ![w] = "off"]
    /\ position' = [position EXCEPT ![w] = Before]
    /\ column' = [column EXCEPT ![w] = Nothing]
    /\ attempt' = [attempt EXCEPT ![w] = 0]
    /\ Closed(w, why)
    /\ answer' = NoRows
    /\ UNCHANGED <<table, changes, changed>>

\* The last attempt times out, or the socket or the answer is an error: the
\* operation fails and cancels its other walks.
Fails(w) ==
    /\ walk[w] = "sent"
    /\ Stopped(w, "failed")
    /\ status' = [status EXCEPT ![w[1]] = "unwinding"]

\* Mutant of OnBudget: waiting for a place is not counted.
OnBudgetInFlight(o) == status[o] = "running" /\ WalksOf(o) \cap inFlight # {}

OnBudget(o) == status[o] = "running"

\* SNMP_OPERATION_BUDGET is used up, queueing included, or an unload cancels
\* the cycle.
Expires(o) ==
    /\ OnBudget(o)
    /\ status' = [status EXCEPT ![o] = "unwinding"]
    /\ answer' = NoRows
    /\ UNCHANGED <<table, changes, walk, position, column, attempt, inFlight, sockets,
                   changed>>

\* A cancelled walk stops at its next await.
Unwind(w) ==
    /\ status[w[1]] = "unwinding"
    /\ walk[w] # "off"
    /\ Stopped(w, "cancelled")
    /\ UNCHANGED status

\* Mutant of Unwound: plain gather() raises without waiting for the others.
UnwoundAtOnce(o) == TRUE

Unwound(o) == \A w \in WalksOf(o) : walk[w] = "off"

\* _all_or_nothing has waited for what it cancelled; SophosSNMPError.
Raise(o) ==
    /\ status[o] = "unwinding"
    /\ Unwound(o)
    /\ status' = [status EXCEPT ![o] = "idle"]
    /\ answer' = NoRows
    /\ UNCHANGED <<table, changes, walk, position, column, attempt, inFlight, sockets,
                   changed>>

\* The column of an operation as table_column picks it.
Read(o, name) == column[<<o, name>>]

FirstRow(rows, name) ==
    CHOOSE i \in rows[name] : \A j \in rows[name] : i <= j

\* Rows keyed by name: unnamed ones are left out, the first one of a name
\* wins, and a column without the index yields nothing.
Keyed(names, values) ==
    LET named == {i \in Indexes : names[i] # NoObject /\ NameOf[names[i]] # Unnamed}
        rows == [name \in {NameOf[names[i]] : i \in named} |->
                    {i \in named : NameOf[names[i]] = name}]
    IN  [name \in DOMAIN rows |-> values[FirstRow(rows, name)]]

\* Mutant of Complete: the end of one column ends the walk of all.
CompleteEarly(o) == \E w \in WalksOf(o) : walk[w] = "done"

\* All columns are there: the operation returns.
Complete(o) == \A w \in WalksOf(o) : walk[w] = "done"

Finish(o) ==
    /\ status[o] = "running"
    /\ Complete(o)
    /\ \E values \in ColumnsOf[o] : answer' = Keyed(Read(o, NameColumn), Read(o, values))
    /\ status' = [status EXCEPT ![o] = "idle"]
    /\ walk' = [w \in Walks |-> IF w \in WalksOf(o) THEN "off" ELSE walk[w]]
    /\ column' = [w \in Walks |-> IF w \in WalksOf(o) THEN Nothing ELSE column[w]]
    /\ UNCHANGED <<table, changes, position, attempt, inFlight, sockets, changed>>

\* Interfaces, fans or tunnels come and go, and rows get other indexes.
TableChanges ==
    /\ changes < MaxChanges
    /\ changes' = changes + 1
    /\ table' \in Tables
    /\ changed' = {o \in Operations : status[o] = "running"} \cup changed
    /\ answer' = NoRows
    /\ UNCHANGED <<status, walk, position, column, attempt, inFlight, sockets>>

Next ==
    \/ \E o \in Operations : Start(o) \/ Expires(o) \/ Raise(o) \/ Finish(o)
    \/ \E w \in Walks : Send(w) \/ Answered(w) \/ Retry(w) \/ Fails(w) \/ Unwind(w)
    \/ TableChanges

Spec == Init /\ [][Next]_vars

\* Timers fire and cancelled tasks run.  Nothing is assumed of the agent, nor of
\* the order in which requests get their places.
Fairness ==
    /\ \A o \in Operations : WF_vars(Expires(o)) /\ WF_vars(Raise(o))
    /\ \A w \in Walks : WF_vars(Unwind(w))

LiveSpec == Spec /\ Fairness

------------------------------------------------------------------------------
\* Properties.

\* Every variable keeps its type.
TypeOK ==
    /\ table \in Tables
    /\ changes \in 0..MaxChanges
    /\ status \in [Operations -> {"idle", "running", "unwinding"}]
    /\ walk \in [Walks -> {"off", "queued", "sent", "done"}]
    /\ position \in [Walks -> Indexes \cup {Before}]
    /\ column \in [Walks -> [Indexes -> Objects \cup {NoObject}]]
    /\ attempt \in [Walks -> 0..Attempts]
    /\ inFlight \subseteq Walks
    /\ sockets \subseteq Walks \X (1..Attempts)
    /\ changed \subseteq Operations

\* An operation that has ended leaves nothing behind, however it ended: no walk
\* goes on, no socket is open and no place in flight is taken (snmp_client.py:308).
NothingLeaks ==
    \A o \in Operations : status[o] = "idle" =>
        \A w \in WalksOf(o) :
            /\ walk[w] = "off" /\ w \notin inFlight
            /\ column[w] = Nothing
            /\ \A s \in sockets : s[1] # w

\* Only requests in flight have a socket, each the one of its current attempt:
\* an answer to an earlier attempt or request reaches nobody (snmp_client.py:281).
SocketsInFlight ==
    /\ sockets = {<<w, attempt[w]>> : w \in inFlight}
    /\ inFlight = {w \in Walks : walk[w] = "sent"}
    /\ Cardinality(inFlight) <= MaxConcurrent

\* What an operation returns is the whole table, with the first row of each
\* name, unless the table changed while it was read: rows put together from
\* several columns, requests and retries never mix two objects, and none is
\* missing (snmp_client.py:466).
Expected ==
    LET named(name) == {i \in Indexes : table[i] # NoObject /\ NameOf[table[i]] = name}
        names == {name \in {NameOf[x] : x \in Objects} \ {Unnamed} : named(name) # {}}
    IN  [name \in names |->
            table[CHOOSE i \in named(name) : \A j \in named(name) : i <= j]]

WholeTable ==
    [][\A o \in Operations :
        status[o] = "running" /\ status'[o] = "idle" /\ o \notin changed
            => answer' = Expected]_vars

\* Every operation ends, and sooner or later lets the next one of its kind
\* start, although the agent may never answer and others hold the places.
OperationsEnd ==
    \A o \in Operations : status[o] = "running" ~> status[o] = "idle"
=============================================================================
