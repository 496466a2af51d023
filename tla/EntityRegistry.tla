-------------------------- MODULE EntityRegistry --------------------------
(***************************************************************************)
(* Which entities of the entry the entity registry keeps: the migration of *)
(* unique ids, which every setup repeats (__init__.py), and the three      *)
(* platforms, which add entities for what the options switch on and remove *)
(* them for what they switch off (sensor.py, binary_sensor.py, switch.py). *)
(* Home Assistant saves the entry within a second and the registry much    *)
(* later, and may stop hard at any moment.                                 *)
(*                                                                         *)
(* A behaviour follows one family of entities, and of it one object of the *)
(* firewall.  A family is named by the prefix of its unique ids.  When an  *)
(* absence counts as confirmed is left to DynamicEntities.                 *)
(***************************************************************************)
EXTENDS Integers, Sequences, SequencesExt, FiniteSets

CONSTANT Followed       \* families to follow

\* Entities that are there with their source, whatever the firewall reports.
Static == {"sensor_web_filter_default_action", "sensor_backup_frequency",
           "sensor_stats", "sensor_uptime", "sensor_services_summary", "service_",
           "sensor_licenses_summary", "license_", "ha_current_state", "ha_enabled"}

\* Families of switches, and the sensors that stand for them without write access.
Switches == {"switch_fwrule_", "switch_webfilter_", "switch_wlan_", "switch_ipsec_"}
ReadOnly == {"fwrule_", "wlan_"}

\* Families fed by SNMP.
OfSnmp == {"sensor_stats", "sensor_uptime", "sensor_services_summary", "service_",
           "sensor_licenses_summary", "license_", "ha_current_state", "ha_enabled",
           "sensor_cpu_usage", "sensor_cpu_core_", "traffic_", "ap_clients_", "poe_",
           "sensor_fan_", "sensor_temperature", "sensor_version", "vpn_", "psu_", "ap_",
           "switch_ipsec_"}

\* Hardware stays although the agent no longer reports it.
Hardware == {"sensor_fan_", "sensor_temperature", "psu_"}

\* Families that v1.0 did not have: nothing of them is migrated.
Newer == {"sensor_cpu_usage", "sensor_cpu_core_", "traffic_", "ap_clients_", "poe_", "ap_",
          "wlan_", "switch_wlan_", "switch_ipsec_"}

\* The source of the versions cannot be switched off.
Untoggled == {"sensor_version"}

Families == Static \cup Switches \cup ReadOnly \cup OfSnmp \cup {"dhcp_leases_", "iface_"}

ASSUME FollowedAssumption == Followed \subseteq Families

VARIABLES
    family,     \* the family followed
    listed,     \* the object is an interface that the XML API lists
    present,    \* the firewall has the object
    options,    \* of write, snmp, source (of the family), interfaces (read by XML)
    version,    \* of the entry
    registry,   \* entities of the object: form of the unique id, origin, enabled
    savedVersion, saved,  \* what is stored of them
    running,    \* the platforms are set up
    ready,      \* runtime.snmp is not None
    known       \* the XML interface fetch has succeeded since

vars == <<family, listed, present, options, version, registry, savedVersion, saved,
          running, ready, known>>

\* The options that concern the family.
OptionSets ==
    SUBSET ((IF family \in Switches \cup ReadOnly THEN {"write"} ELSE {})
            \cup (IF family \in OfSnmp THEN {"snmp"} ELSE {})
            \cup (IF family \in Untoggled THEN {} ELSE {"source"})
            \cup (IF family = "traffic_" THEN {"interfaces"} ELSE {}))

\* A unique id has the form of now, of v1 with the current address or with an
\* earlier one (of two), or none of these.
OldForms == {"current", "earlier", "other"}
Origins  == {"current", "earlier", "earliest", "other", "polled", "unpolled"}
Entities == [form : OldForms \cup {"new"}, origin : Origins, enabled : BOOLEAN]

Old(form, origin) == [form |-> form, origin |-> origin, enabled |-> TRUE]
OldEntities == {Old("current", "current"), Old("earlier", "earlier"),
                Old("earlier", "earliest"), Old("other", "other")}

\* What the user wants of the family.
Wanted ==
    /\ family \in Switches => "write" \in options
    /\ family \in ReadOnly => "write" \notin options
    /\ family \in OfSnmp => "snmp" \in options
    /\ "source" \in options \/ family \in Untoggled

Init ==
    /\ family \in Followed
    /\ listed \in BOOLEAN /\ (listed => family = "traffic_")
    /\ present \in BOOLEAN /\ (family \in Static => present)
    /\ options \in OptionSets
    /\ \/ version = 1 /\ family \notin Newer /\ registry \in SUBSET OldEntities
       \/ version = 2 /\ registry = {}
    /\ savedVersion = version /\ saved = registry
    /\ running = FALSE /\ ready = FALSE /\ known = FALSE

------------------------------------------------------------------------------
(* Migration of unique ids: __init__.py, _migrate_unique_ids.              *)

\* Mutants of Moved: an id that is taken is given twice; orphans are dropped.
MovedUnchecked(R, e) == (R \ {e}) \cup {[e EXCEPT !.form = "new"]}
MovedCurrent(R, e) ==
    (R \ {e}) \cup (IF e.form = "current" THEN {[e EXCEPT !.form = "new"]} ELSE {})

\* One entity of the plan gets its new unique id, or goes if that is taken.
Moved(R, e) ==
    IF \E x \in R : x.form = "new" THEN R \ {e}
    ELSE (R \ {e}) \cup {[e EXCEPT !.form = "new"]}

\* Entities of the current address come first.
Plans(R) ==
    {plan \in SetToSeqs({e \in R : e.form \in {"current", "earlier"}}) :
        \A i, j \in DOMAIN plan : plan[i].form = "earlier" /\ plan[j].form = "current" => j < i}

\* What is left of the registry after the whole plan.
Applied(R, plan) ==
    LET after[i \in 0..Len(plan)] == IF i = 0 THEN R ELSE Moved(after[i - 1], plan[i])
    IN  after[Len(plan)]

\* Unrecognised ones are removed at once.
Migrated(R) == {Applied({e \in R : e.form # "other"}, plan) : plan \in Plans(R)}

------------------------------------------------------------------------------
(* Platforms.                                                              *)

\* The platforms read the family's source.
Fed(hasSnmp) == family \in OfSnmp => hasSnmp

\* Mutant of SwitchedOff: sensors go whenever there is no SNMP coordinator.
SwitchedOffWithoutSnmp(hasSnmp) ==
    \/ family \in Switches /\ "write" \notin options
    \/ family \in ReadOnly /\ "write" \in options
    \/ family \in OfSnmp /\ ~hasSnmp
    \/ "source" \notin options /\ family \notin Untoggled

\* The platforms remove the family from the registry.
SwitchedOff(hasSnmp) ==
    \/ family \in Switches /\ "write" \notin options
    \/ family \in ReadOnly /\ "write" \in options
    \/ Fed(hasSnmp) /\ "source" \notin options /\ family \notin Untoggled
    \/ ~Fed(hasSnmp) /\ (family = "switch_ipsec_" \/ "snmp" \notin options)

\* Mutants of Found: nothing is waited for; the list is waited for also if it is never
\* read.
FoundAtOnce == present /\ family \notin Static
FoundListed == present /\ family \notin Static /\ (family = "traffic_" => known)

\* The items of a fetch have the object; those of traffic wait for the XML interfaces,
\* if these are polled.
Found ==
    /\ present /\ family \notin Static
    /\ family = "traffic_" => known \/ "interfaces" \notin options

\* Traffic entities of listed interfaces are created enabled.
CreatedEnabled == listed /\ "interfaces" \in options /\ known

Added(R) ==
    IF \E x \in R : x.form = "new" THEN R
    ELSE R \cup {[form |-> "new", enabled |-> family # "traffic_" \/ CreatedEnabled,
                         origin |-> IF "interfaces" \in options THEN "polled" ELSE "unpolled"]}

------------------------------------------------------------------------------
(* Setup and what follows.                                                 *)

\* Setup migrates the ids and gets no further.
SetupFails ==
    /\ ~running
    /\ version' = 2
    /\ registry' \in Migrated(registry)
    /\ UNCHANGED <<family, listed, present, options, savedVersion, saved, running, ready, known>>

\* Setup with its platforms; the SNMP client may not be usable.
Setup ==
    /\ ~running /\ running' = TRUE
    /\ version' = 2
    /\ ready' \in BOOLEAN /\ (ready' => "snmp" \in options)
    /\ UNCHANGED known
    /\ \E R \in Migrated(registry) :
          registry' = IF SwitchedOff(ready') THEN {}
                      ELSE IF family \in Static /\ Fed(ready') THEN Added(R) ELSE R
    /\ UNCHANGED <<family, listed, present, options, savedVersion, saved>>

\* Dynamic entities are added after a fetch that finds their object.
Add ==
    /\ running /\ Fed(ready) /\ ~SwitchedOff(ready)
    /\ Found
    /\ registry' = Added(registry)
    /\ UNCHANGED <<family, listed, present, options, version, savedVersion, saved, running,
                   ready, known>>

\* A confirmed absence; the guard of empty tables makes it a possibility only.
RemoveStale ==
    /\ running /\ Fed(ready) /\ ~SwitchedOff(ready)
    /\ ~present
    /\ family \notin Static \cup Hardware
    /\ registry' = {e \in registry : e.form # "new"}
    /\ UNCHANGED <<family, listed, present, options, version, savedVersion, saved, running,
                   ready, known>>

\* The XML interface endpoint has answered.
InterfacesRead ==
    /\ running /\ "interfaces" \in options /\ ~known
    /\ known' = TRUE
    /\ UNCHANGED <<family, listed, present, options, version, registry, savedVersion, saved,
                   running, ready>>

Change ==
    /\ family \notin Static
    /\ present' = ~present
    /\ UNCHANGED <<family, listed, options, version, registry, savedVersion, saved, running,
                   ready, known>>

\* The options flow: the entry is unloaded to be set up again.
ChangeOptions ==
    /\ options' \in OptionSets
    /\ running' = FALSE /\ ready' = FALSE /\ known' = FALSE
    /\ UNCHANGED <<family, listed, present, version, registry, savedVersion, saved>>

SaveEntry ==
    /\ savedVersion' = version
    /\ UNCHANGED <<family, listed, present, options, version, registry, saved, running, ready, known>>

SaveRegistry ==
    /\ saved' = registry
    /\ UNCHANGED <<family, listed, present, options, version, registry, savedVersion, running,
                   ready, known>>

\* Home Assistant stops hard, and starts with what was saved.
Crash ==
    /\ version' = savedVersion /\ registry' = saved
    /\ running' = FALSE /\ ready' = FALSE /\ known' = FALSE
    /\ UNCHANGED <<family, listed, present, options, savedVersion, saved>>

Next ==
    \/ SetupFails \/ Setup \/ Add \/ RemoveStale \/ InterfacesRead
    \/ Change \/ ChangeOptions \/ SaveEntry \/ SaveRegistry \/ Crash

Spec == Init /\ [][Next]_vars

\* Setup is retried, and sources are polled.
LiveSpec == Spec /\ WF_vars(Setup) /\ WF_vars(Add) /\ WF_vars(InterfacesRead)

------------------------------------------------------------------------------

TypeOK ==
    /\ family \in Followed /\ listed \in BOOLEAN /\ present \in BOOLEAN
    /\ options \in OptionSets
    /\ version \in {1, 2} /\ savedVersion \in {1, 2}
    /\ registry \subseteq Entities /\ saved \subseteq Entities
    /\ Cardinality({e \in registry : e.form = "new"}) <= 1
    /\ running \in BOOLEAN /\ ready \in BOOLEAN /\ known \in BOOLEAN

\* However often Home Assistant stopped between the saves, a running entry knows one
\* entity of the object, with the unique id of now (__init__.py:234-242).
OneIdentity == running => \A e, x \in registry : e = x /\ e.form = "new"

\* An entity, with what the user has made of it, is lost only when its source is
\* switched off or its object is gone; that SNMP cannot be initialised is no reason
\* (sensor.py:435), nor is a leftover of an earlier address or of no known format.
OnlyTheUser ==
    [][ ~Crash /\ Wanted /\ present =>
          \A e \in registry : e.form = "current" \/ e.form = "new" =>
              \E x \in registry' : x.origin = e.origin ]_vars

\* An orphan is restored unless the object has an entity.
OrphanRestored ==
    [][ ~Crash /\ Wanted /\ present /\ (\E e \in registry : e.form # "other")
          => registry' # {} ]_vars

\* A traffic entity of an interface that the XML API lists is created enabled, in
\* whichever order the two sources answer (sensor.py:357-360).
CreatedRight ==
    \A e \in registry : listed /\ e.origin = "polled" => e.enabled

\* An object that stays gets its entity, although traffic entities wait for XML.
Appears ==
    (<>[](running /\ present /\ Fed(ready) /\ Wanted)) => <>[](registry # {})
=============================================================================
