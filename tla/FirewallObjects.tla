-------------------------- MODULE FirewallObjects --------------------------
(***************************************************************************)
(* The firewall's configuration as the write operations of sophos_client.py*)
(* see it: one object - a group, a rule or policy, a wireless network -    *)
(* with the entries the integration changes and a rest it must preserve.   *)
(***************************************************************************)
EXTENDS Integers

CONSTANTS
    Addresses,        \* addresses of devices
    HostNames,        \* names of IP hosts, the members of an IP host group
    Urls,             \* members of a URL group
    Values,           \* values of a field (Enable, Disable)
    MaxEdits          \* bound on changes made in the web admin

ASSUME EditsAssumption == MaxEdits \in Nat

Entries == HostNames \cup Urls \cup Values

\* rest stands for the elements the integration does not know: only the web
\* admin changes them, and every change gives them a new value.
Contents == [entries : SUBSET Entries, rest : 0..MaxEdits]

Missing == [entries |-> {}, rest |-> -1]    \* there is no such object
Live    == [entries |-> {}, rest |-> -2]    \* whatever the object is by then

Objects == Contents \cup {Missing}

NoOperation == [kind |-> "none"]
Poll        == [kind |-> "poll"]

Blocks    == [kind : {"block"}, address : Addresses, name : HostNames]
Unblocks  == [kind : {"unblock"}, address : Addresses]
UrlCalls  == [kind : {"add url", "remove url"}, url : Urls]
Updates   == [kind : {"field", "switch"}, value : Values]
Writes    == Blocks \cup Unblocks \cup UrlCalls \cup Updates

\* The changes an operation may make to the entries of its object.
Effects(operation) ==
    CASE operation.kind = "block" ->
            [add : {{host} : host \in HostNames}, drop : {{}}]
      [] operation.kind = "unblock" ->
            [add : {{}}, drop : SUBSET HostNames]
      [] operation.kind = "add url" ->
            [add : {{operation.url}}, drop : {{}}]
      [] operation.kind = "remove url" ->
            [add : {{}}, drop : {{operation.url}}]
      [] operation.kind \in {"field", "switch"} ->
            [add : {{operation.value}}, drop : {Entries}]

Put(content, effect) ==
    [content EXCEPT !.entries = (@ \ effect.drop) \cup effect.add]
=============================================================================
