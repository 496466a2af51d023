---------------------------- MODULE ObjectUpdate ----------------------------
(***************************************************************************)
(* What the write operations promise, without requests, hosts or slots:    *)
(* one call at a time changes the object, once, by the effect of its       *)
(* operation.  It may start from a state of the object that is no longer   *)
(* the current one only if the web admin, or a request given up earlier,   *)
(* changed the object during this call.  A call that failed may still take *)
(* effect later.                                                           *)
(***************************************************************************)
EXTENDS FirewallObjects

CONSTANTS Tasks

VARIABLES
    record,           \* the object on the firewall
    operation,        \* what a task is asked to do
    seen,             \* the states of the object during a call, {} outside one
    applied,          \* the call has changed the object
    late              \* changes of calls that were given up, not yet made

vars == <<record, operation, seen, applied, late>>

Change == [base : Contents \cup {Live},
           effect : [add : SUBSET Entries, drop : SUBSET Entries]]

Based(change) == IF change.base = Live THEN record ELSE change.base

Watched(object) ==
    [t \in Tasks |-> IF seen[t] = {} THEN {} ELSE seen[t] \cup {object}]

Init ==
    /\ record \in Objects
    /\ operation = [t \in Tasks |-> NoOperation]
    /\ seen = [t \in Tasks |-> {}]
    /\ applied = [t \in Tasks |-> FALSE]
    /\ late = {}

Ask(t) ==
    /\ operation[t] = NoOperation
    /\ \E o \in Writes \cup {Poll} : operation' = [operation EXCEPT ![t] = o]
    /\ UNCHANGED <<record, seen, applied, late>>

Open(t) ==
    /\ operation[t] \in Writes
    /\ \A u \in Tasks : seen[u] = {}
    /\ seen' = [seen EXCEPT ![t] = {record}]
    /\ UNCHANGED <<record, operation, applied, late>>

Update(t) ==
    /\ seen[t] # {} /\ ~applied[t]
    /\ \E base \in seen[t] \ {Missing}, effect \in Effects(operation[t]) :
        record' = Put(base, effect)
    /\ seen' = Watched(record')
    /\ applied' = [applied EXCEPT ![t] = TRUE]
    /\ UNCHANGED <<operation, late>>

Close(t) ==
    /\ seen[t] # {}
    /\ seen' = [seen EXCEPT ![t] = {}]
    /\ applied' = [applied EXCEPT ![t] = FALSE]
    /\ \/ UNCHANGED late
       \/ /\ ~applied[t]
          /\ \E base \in (seen[t] \cup {Live}) \ {Missing},
                effect \in Effects(operation[t]) :
                late' = late \cup {[base |-> base, effect |-> effect]}
    /\ operation' = [operation EXCEPT ![t] = NoOperation]
    /\ UNCHANGED record

Leave(t) ==
    /\ seen[t] = {}
    /\ operation' = [operation EXCEPT ![t] = NoOperation]
    /\ UNCHANGED <<record, seen, applied, late>>

LateUpdate ==
    \E change \in late :
        /\ late' = late \ {change}
        /\ record' \in {record, Put(Based(change), change.effect)}
        /\ seen' = Watched(record')
        /\ UNCHANGED <<operation, applied>>

AdminEdit ==
    /\ record' \in Objects
    /\ seen' = Watched(record')
    /\ UNCHANGED <<operation, applied, late>>

Next ==
    \/ \E t \in Tasks : Ask(t) \/ Open(t) \/ Update(t) \/ Close(t) \/ Leave(t)
    \/ LateUpdate \/ AdminEdit

Spec == Init /\ [][Next]_vars
=============================================================================
