----------------------------- MODULE XmlClient -----------------------------
(***************************************************************************)
(* The write operations of SophosClient (sophos_client.py), called by the  *)
(* actions (services.py) and the switches: sequences of requests in one    *)
(* request slot, which polling wants as well.  The web admin may change    *)
(* the firewall between any two of them, any answer may fail, get lost, or *)
(* confirm what was not done, and a request whose answer was not waited    *)
(* for any longer may still be carried out at any later time.              *)
(*                                                                         *)
(* One object stands for the one a call changes: calls on different        *)
(* objects meet in the slot and in the table of IP hosts only.             *)
(***************************************************************************)
EXTENDS FirewallObjects, FiniteSets

CONSTANTS
    Tasks,            \* callers: actions, switches, polls of the coordinator
    ObjectKinds,      \* kinds of object the firewall may hold
    MaxLate           \* bound on requests given up and not yet carried out

ASSUME TasksAssumption ==
    /\ MaxLate \in Nat
    /\ ObjectKinds \subseteq {"host group", "url group", "rule", "network"}

NoAddress == "no address"

ASSUME AddressesAssumption == NoAddress \notin Addresses

VARIABLES
    objectKind,       \* of the object (never changes)
    readOnly,         \* a built-in URL group, an IPv6 host group (never changes)
    record,           \* the object, its entries and the rest of it
    hosts,            \* table of IP hosts: address of each name
    edits,            \* number of changes made in the web admin
    late, lateHosts,  \* requests given up that may still be carried out
    holders,          \* tasks that hold the request slot
    operation,        \* what a task is asked to do
    step,             \* the request it makes next
    chosen,           \* hosts its operation is about
    copy,             \* the object as the task read it
    reply,            \* what the call that has just ended reports
    seen,             \* history: states of the object while a task holds the slot
    applied,          \* history: its change reached the object
    foreign           \* history: addresses others than the client may have named

firewallVars == <<record, hosts, edits, late, lateHosts>>
callVars == <<operation, step, chosen, copy>>
historyVars == <<seen, applied, foreign>>
vars == <<objectKind, readOnly, firewallVars, holders, callVars, reply, historyVars>>

------------------------------------------------------------------------------

OperationsOn(kind) ==
    CASE kind = "host group" -> Blocks \cup Unblocks
      [] kind = "url group"  -> UrlCalls
      [] kind = "rule"       -> [kind : {"field"}, value : Values]
      [] kind = "network"    -> [kind : {"switch"}, value : Values]

\* Contents an object of a kind may have.
EntriesOf(kind) ==
    CASE kind = "host group" -> SUBSET HostNames
      [] kind = "url group"  -> SUBSET Urls
      [] OTHER               -> {{value} : value \in Values}

Watched(object) ==
    [t \in Tasks |-> IF t \in holders /\ operation[t] # Poll
                     THEN seen[t] \cup {object} ELSE seen[t]]

\* Hosts with an address.
HostsOf(address) == {host \in HostNames : hosts[host] = address}

\* The effect of a call whose hosts are known.
Effect(t) ==
    LET o == operation[t]
    IN  CASE o.kind = "block"      -> [add |-> chosen[t], drop |-> {}]
          [] o.kind = "unblock"    -> [add |-> {}, drop |-> chosen[t]]
          [] o.kind = "add url"    -> [add |-> {o.url}, drop |-> {}]
          [] o.kind = "remove url" -> [add |-> {}, drop |-> {o.url}]
          [] OTHER                 -> [add |-> {o.value}, drop |-> Entries]

\* The object has what the call wants: change() has nothing to do, verify()
\* is satisfied.
Done(t, object) ==
    /\ Effect(t).add \subseteq object.entries
    /\ Effect(t).drop \cap object.entries \subseteq Effect(t).add

\* change() has nothing to write.  A field is written whatever its value.
Unneeded(t, object) == operation[t].kind # "field" /\ Done(t, object)

\* Members of a group are hosts that exist.
HasName(host) == hosts[host] # NoAddress
Acceptable(object) == \A host \in object.entries \cap HostNames : HasName(host)

Init ==
    /\ objectKind \in ObjectKinds
    /\ readOnly \in (IF objectKind \in {"host group", "url group"} THEN BOOLEAN ELSE {FALSE})
    /\ record \in [entries : EntriesOf(objectKind), rest : {0}] \cup {Missing}
    /\ hosts \in [HostNames -> (IF objectKind = "host group" THEN Addresses ELSE {})
                                  \cup {NoAddress}]
    /\ \A address \in Addresses : \A g, h \in HostsOf(address) : g = h
    /\ Acceptable(record)
    /\ edits = 0 /\ late = {} /\ lateHosts = {}
    /\ holders = {}
    /\ operation = [t \in Tasks |-> NoOperation]
    /\ step = [t \in Tasks |-> "idle"]
    /\ chosen = [t \in Tasks |-> {}]
    /\ copy = [t \in Tasks |-> Missing]
    /\ reply = "none"
    /\ seen = [t \in Tasks |-> {}]
    /\ applied = [t \in Tasks |-> FALSE]
    /\ foreign = {}

------------------------------------------------------------------------------
\* A call gets the slot, and returns.

\* An action, a switch or a cycle calls the client and waits for the slot.
Call(t) ==
    /\ step[t] = "idle"
    /\ \E o \in OperationsOn(objectKind) \cup {Poll} :
        operation' = [operation EXCEPT ![t] = o]
    /\ step' = [step EXCEPT ![t] = "waiting"]
    /\ reply' = "none"
    /\ UNCHANGED <<objectKind, readOnly, firewallVars, holders, chosen, copy,
                   historyVars>>

FirstStep(o) ==
    CASE o.kind = "poll"    -> "get"
      [] o.kind = "block"   -> "check group"
      [] o.kind = "unblock" -> "list hosts"
      [] o.kind = "switch"  -> "set"
      [] OTHER              -> "read"

\* Mutant of SlotFree: two requests at a time.
SlotFreeTwo == \A t, u \in holders : t = u

\* XML_MAX_CONCURRENT_REQUESTS = 1.
SlotFree == holders = {}

Acquire(t) ==
    /\ step[t] = "waiting"
    /\ SlotFree
    /\ holders' = holders \cup {t}
    /\ step' = [step EXCEPT ![t] = FirstStep(operation[t])]
    /\ seen' = [seen EXCEPT ![t] = IF operation[t] = Poll THEN {} ELSE {record}]
    /\ reply' = "none"
    /\ UNCHANGED <<objectKind, readOnly, firewallVars, operation, chosen, copy,
                   applied, foreign>>

\* Mutant of Release: a failed call keeps the slot.
ReleaseAfterSuccess(t, outcome) ==
    holders' = IF outcome = "error" THEN holders ELSE holders \ {t}

\* Leaving the slot, whatever the outcome.
Release(t, outcome) == holders' = holders \ {t}

\* The call is over; its caller gets a result or an error.
Finish(t, outcome) ==
    /\ Release(t, outcome)
    /\ step' = [step EXCEPT ![t] = "idle"]
    /\ operation' = [operation EXCEPT ![t] = NoOperation]
    /\ chosen' = [chosen EXCEPT ![t] = {}]
    /\ copy' = [copy EXCEPT ![t] = Missing]
    /\ reply' = outcome
    /\ seen' = [seen EXCEPT ![t] = {}]
    /\ applied' = [applied EXCEPT ![t] = FALSE]
    /\ UNCHANGED <<objectKind, readOnly, record, edits, foreign>>

At(t, request) == t \in holders /\ step[t] = request

GoOn(t, request) ==
    /\ step' = [step EXCEPT ![t] = request]
    /\ reply' = "none"
    /\ UNCHANGED <<objectKind, readOnly, edits, holders, operation, foreign>>

------------------------------------------------------------------------------
\* Requests that read.

\* One Get of a polling cycle, or of a connection test.
GetRecords(t) ==
    /\ At(t, "get")
    /\ Finish(t, "read")
    /\ UNCHANGED <<hosts, late, lateHosts>>

\* What a read of the object, or the check of what was read, fails with.
ReadError == IF record = Missing THEN "not found"
             ELSE IF readOnly THEN "not editable" ELSE "none"

CheckGroup(t) ==
    /\ At(t, "check group")
    /\ \/ /\ ReadError # "none"
          /\ Finish(t, ReadError)
       \/ /\ ReadError = "none"
          /\ GoOn(t, "list hosts")
          /\ copy' = [copy EXCEPT ![t] = record]
          /\ UNCHANGED <<record, chosen, seen, applied>>
    /\ UNCHANGED <<hosts, late, lateHosts>>

\* Mutant of Reused: the address is taken for the host.
ReusedAddress(t) == {hosts[host] : host \in HostsOf(operation[t].address)}

\* Hosts a block may use instead of a new one, whatever their names.
Reused(t) == HostsOf(operation[t].address)

\* block_ip_in_group: a host of the address is a member already, or one is
\* there to be made a member (the first the firewall lists), or one is added.
ListHostsToBlock(t) ==
    /\ At(t, "list hosts")
    /\ operation[t].kind = "block"
    /\ LET members == Reused(t) \cap copy[t].entries
       IN  \/ /\ members # {}
              /\ Finish(t, "already blocked")
           \/ /\ members = {}
              /\ \/ /\ \E host \in Reused(t) : chosen' = [chosen EXCEPT ![t] = {host}]
                    /\ GoOn(t, "read")
                 \/ /\ Reused(t) = {}
                    /\ chosen' = [chosen EXCEPT ![t] = {operation[t].name}]
                    /\ GoOn(t, "add host")
              /\ UNCHANGED <<record, copy, seen, applied>>
    /\ UNCHANGED <<hosts, late, lateHosts>>

ListHostsToUnblock(t) ==
    /\ At(t, "list hosts")
    /\ operation[t].kind = "unblock"
    /\ chosen' = [chosen EXCEPT ![t] = HostsOf(operation[t].address)]
    /\ GoOn(t, "read")
    /\ UNCHANGED <<record, hosts, late, lateHosts, copy, seen, applied>>

\* _modify_record_held up to change(): nothing is sent if there is nothing to
\* change.  A block that finds its host added meanwhile reports a change.
ReadRecord(t) ==
    /\ At(t, "read")
    /\ \/ /\ ReadError # "none"
          /\ Finish(t, ReadError)
       \/ /\ ReadError = "none" /\ Unneeded(t, record)
          /\ Finish(t, IF operation[t].kind = "block" THEN "changed" ELSE "unchanged")
       \/ /\ ReadError = "none" /\ ~Unneeded(t, record)
          /\ GoOn(t, "set")
          /\ copy' = [copy EXCEPT ![t] = record]
          /\ UNCHANGED <<record, chosen, seen, applied>>
    /\ UNCHANGED <<hosts, late, lateHosts>>

------------------------------------------------------------------------------
\* Requests that write.

\* The firewall adds the host, and the answer says so or gets lost; or it
\* refuses, because the name is taken.
AddHost(t) ==
    /\ At(t, "add host")
    /\ LET o == operation[t]
       IN  \/ /\ ~HasName(o.name)
              /\ hosts' = [hosts EXCEPT ![o.name] = o.address]
              /\ \/ GoOn(t, "read") /\ UNCHANGED <<record, chosen, copy, seen, applied>>
                 \/ Finish(t, "error")
           \/ /\ HasName(o.name)
              /\ Finish(t, "name taken")
              /\ UNCHANGED hosts
    /\ UNCHANGED <<late, lateHosts>>

\* Mutant of SetBase: the update is built from a template of known elements.
SetBaseTemplate(t) == [entries |-> copy[t].entries, rest |-> 0]

\* What a Set of the task makes of the object: an update replaces it by the
\* copy, changed; a switch names nothing but the value.
SetBase(t) == IF operation[t].kind = "switch" THEN Live ELSE copy[t]
Based(base) == IF base = Live THEN record ELSE base

\* The firewall carries out the Set.
ApplySet(t) ==
    /\ At(t, "set")
    /\ record # Missing
    /\ record' = Put(Based(SetBase(t)), Effect(t))
    /\ Acceptable(record')
    /\ seen' = Watched(record')
    /\ applied' = [applied EXCEPT ![t] = TRUE]
    /\ GoOn(t, "confirm")
    /\ UNCHANGED <<hosts, late, lateHosts, chosen, copy>>

\* The firewall answers 200 to a Set it does not carry out.
FalseConfirmation(t) ==
    /\ At(t, "set")
    /\ GoOn(t, "confirm")
    /\ UNCHANGED <<record, hosts, late, lateHosts, chosen, copy, seen, applied>>

ReadsBack(t) == operation[t].kind \in {"block", "unblock", "add url", "remove url"}

Confirm(t) ==
    /\ At(t, "confirm")
    /\ \/ /\ ReadsBack(t)
          /\ GoOn(t, "read back")
          /\ UNCHANGED <<record, chosen, copy, seen, applied>>
       \/ /\ ~ReadsBack(t)
          /\ Finish(t, "changed")
    /\ UNCHANGED <<hosts, late, lateHosts>>

\* Mutant of Visible: an answer of 200 is believed.
VisibleAnyway(t) == TRUE

\* verify() of what was read back.
Visible(t) == Done(t, record)

\* A change that cannot be read back counts as made, and is only logged.
ReadBack(t) ==
    /\ At(t, "read back")
    /\ \/ Finish(t, "unverified")
       \/ /\ record # Missing
          /\ Finish(t, IF Visible(t) THEN "changed" ELSE "not applied")
    /\ UNCHANGED <<hosts, late, lateHosts>>

\* A request fails: it did not reach the firewall, was refused, or its answer
\* is missing, unreadable, an error, or no confirmation.
RequestFails(t) ==
    /\ t \in holders
    /\ step[t] # "read back"
    /\ Finish(t, "error")
    /\ UNCHANGED <<hosts, late, lateHosts>>

\* An unload of the entry, or a stopped script, cancels the call.
Cancel(t) ==
    /\ step[t] \in {"waiting", "read back"}
    /\ Finish(t, "error")
    /\ UNCHANGED <<hosts, late, lateHosts>>

\* A request fails, but the firewall still has it and may carry it out.
GiveUp(t) ==
    /\ t \in holders
    /\ Cardinality(late) + Cardinality(lateHosts) < MaxLate
    /\ \/ /\ step[t] = "set"
          /\ late' = late \cup {[base |-> SetBase(t), effect |-> Effect(t)]}
          /\ UNCHANGED lateHosts
       \/ /\ step[t] = "add host"
          /\ lateHosts' = lateHosts \cup {<<operation[t].name, operation[t].address>>}
          /\ UNCHANGED late
    /\ Finish(t, "error")
    /\ UNCHANGED hosts

------------------------------------------------------------------------------
\* The firewall, on its own.

\* A request that was given up reaches the firewall: done, or refused.
LateSet ==
    /\ \E change \in late :
        /\ late' = late \ {change}
        /\ LET changed == Put(Based(change.base), change.effect)
           IN  record' = IF record # Missing /\ Acceptable(changed) THEN changed ELSE record
    /\ seen' = Watched(record')
    /\ reply' = "none"
    /\ UNCHANGED <<objectKind, readOnly, hosts, edits, lateHosts, holders, callVars,
                   applied, foreign>>

LateAddHost ==
    /\ \E add \in lateHosts :
        /\ lateHosts' = lateHosts \ {add}
        /\ hosts' = IF HasName(add[1]) THEN hosts ELSE [hosts EXCEPT ![add[1]] = add[2]]
        /\ foreign' = foreign \cup {add[2]}
    /\ reply' = "none"
    /\ UNCHANGED <<objectKind, readOnly, record, edits, late, holders, callVars, seen,
                   applied>>

\* Somebody changes, deletes or creates the object in the web admin.
AdminEdit ==
    /\ edits < MaxEdits
    /\ edits' = edits + 1
    /\ record' \in [entries : EntriesOf(objectKind), rest : {edits + 1}] \cup {Missing}
    /\ Acceptable(record')
    /\ seen' = Watched(record')
    /\ reply' = "none"
    /\ UNCHANGED <<objectKind, readOnly, hosts, late, lateHosts, holders, callVars,
                   applied, foreign>>

\* Somebody creates, renames or deletes a host there.
AdminEditsHost(host) ==
    /\ objectKind = "host group"
    /\ edits < MaxEdits
    /\ edits' = edits + 1
    /\ \E address \in Addresses \cup {NoAddress} :
        /\ host \in record.entries => address # NoAddress
        /\ hosts' = [hosts EXCEPT ![host] = address]
        /\ foreign' = foreign \cup ({address} \ {NoAddress})
    /\ reply' = "none"
    /\ UNCHANGED <<objectKind, readOnly, record, late, lateHosts, holders, callVars, seen,
                   applied>>

Request(t) ==
    \/ GetRecords(t) \/ CheckGroup(t) \/ ListHostsToBlock(t) \/ ListHostsToUnblock(t)
    \/ ReadRecord(t) \/ AddHost(t) \/ ApplySet(t) \/ FalseConfirmation(t)
    \/ Confirm(t) \/ ReadBack(t) \/ RequestFails(t)

Next ==
    \/ \E t \in Tasks :
        Call(t) \/ Acquire(t) \/ Request(t) \/ GiveUp(t) \/ Cancel(t)
    \/ LateSet \/ LateAddHost
    \/ AdminEdit \/ \E host \in HostNames : AdminEditsHost(host)

Spec == Init /\ [][Next]_vars

------------------------------------------------------------------------------
\* Properties.

Steps == {"idle", "waiting", "get", "check group", "list hosts", "add host", "read",
          "set", "confirm", "read back"}

Outcomes == {"none", "read", "changed", "unverified", "unchanged", "already blocked",
             "not found", "not editable", "not applied", "name taken", "error"}

\* Every variable keeps its type.
TypeOK ==
    /\ objectKind \in ObjectKinds
    /\ readOnly \in BOOLEAN
    /\ record \in Objects
    /\ hosts \in [HostNames -> Addresses \cup {NoAddress}]
    /\ edits \in 0..MaxEdits
    /\ late \subseteq [base : Contents \cup {Live},
                       effect : [add : SUBSET Entries, drop : SUBSET Entries]]
    /\ lateHosts \subseteq HostNames \X Addresses
    /\ holders \subseteq Tasks
    /\ operation \in [Tasks -> Writes \cup {Poll, NoOperation}]
    /\ step \in [Tasks -> Steps]
    /\ chosen \in [Tasks -> SUBSET HostNames]
    /\ copy \in [Tasks -> Objects]
    /\ reply \in Outcomes
    /\ seen \in [Tasks -> SUBSET Objects]
    /\ applied \in [Tasks -> BOOLEAN]
    /\ foreign \subseteq Addresses

\* However calls for an address fail, get lost, are repeated under other names
\* or meet each other: the client never makes a second host for it, as long as
\* nobody else, and no request given up, adds one (sophos_client.py:704).
OneHostPerAddress ==
    \A address \in Addresses \ foreign :
        \A g, h \in HostsOf(address) : g = h

\* A call that reports a state of the object does not make it up: the object
\* was in that state at some time while the call had the slot - changed, as it
\* should be, or not there (sophos_client.py:553 on answers of 200).
Ends(t, outcomes) == step[t] # "idle" /\ step'[t] = "idle" /\ reply' \in outcomes

SomeSeen(t, Holds(_)) == \E object \in seen[t] \ {Missing} : Holds(object)

Truthful ==
    [][\A t \in Tasks :
        LET isDone(object) == Done(t, object)
            isOpen(object) == ~Done(t, object)
            blocked(object) == HostsOf(operation[t].address) \cap object.entries # {}
        IN  /\ Ends(t, {"changed"}) /\ ReadsBack(t) => SomeSeen(t, isDone)
            /\ Ends(t, {"unchanged"}) => SomeSeen(t, isDone)
            /\ Ends(t, {"already blocked"}) => SomeSeen(t, blocked)
            /\ Ends(t, {"not applied"}) => SomeSeen(t, isOpen)
            /\ Ends(t, {"not found"}) => Missing \in seen[t]]_vars

\* A call under way is one that holds the slot.
SeenInSlot == [t \in Tasks |-> IF t \in holders THEN seen[t] ELSE {}]
AppliedInSlot == [t \in Tasks |-> t \in holders /\ applied[t]]

Atomic == INSTANCE ObjectUpdate WITH seen <- SeenInSlot, applied <- AppliedInSlot

\* Calls change the object one at a time, once, by no more than their effect,
\* and lose no change of another call: they implement ObjectUpdate.
AtomicUpdates == Atomic!Spec

\* The slot is free for the next request unless a call under way holds it, and
\* that call does not wait for it again: whatever fails or is cancelled, no
\* request waits for ever (sophos_client.py:366).
SlotNotLeaked == \A t \in holders : step[t] \notin {"idle", "waiting"}
=============================================================================
