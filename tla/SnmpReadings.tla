---------------------------- MODULE SnmpReadings ----------------------------
(***************************************************************************)
(* What SophosSnmpCoordinator (coordinator.py) and the entities it feeds   *)
(* (sensor.py, binary_sensor.py, switch.py) make of the agent's answers:   *)
(* rates between two samples of a counter, the time of the last boot, the  *)
(* detection of a virtual appliance, the issue about an agent that never   *)
(* answers, the link of a port known to two sources, and a table whose     *)
(* rows are renumbered.                                                    *)
(*                                                                         *)
(* The schedule and the errors of a cycle are modelled in Coordinator.     *)
(* Here a cycle reads its endpoints at one moment and records them at a    *)
(* later one; until then the firewall moves on, and in between the walk    *)
(* of the counters ends, which is the time their sample gets.  The time    *)
(* counts units of at least a second, and rounding is within a unit.       *)
(***************************************************************************)
EXTENDS Integers, Sequences, FiniteSets

CONSTANTS
    Options,          \* sets of endpoints that the options of an entry poll
    Connections,      \* IPsec connections of the firewall
    Horizon,          \* bound on the time
    MaxCycles,        \* bound on the cycles
    MaxTraffic,       \* octets that may arrive in a unit of time
    MaxDelay,         \* of a cycle, from reading an endpoint to recording it
    Wrap,             \* time after which TimeTicks start again at 0
    Tolerance,        \* BOOT_TIME_TOLERANCE
    IssueAttempts,    \* SNMP_ISSUE_AFTER_ATTEMPTS
    IssueTime,        \* SNMP_ISSUE_AFTER_SECONDS
    Confirmations     \* EMPTY_CONFIRMATIONS

Missing == -1         \* a number that is not reported, or None
NoRow   == "no row"   \* nothing in the agent's table

ASSUME ReadingsAssumption ==
    /\ \A n \in {Horizon, MaxCycles, MaxTraffic, MaxDelay, Tolerance, IssueTime} : n \in Nat
    /\ \A n \in {Wrap, IssueAttempts, Confirmations} : n \in Nat \ {0}
    /\ MaxDelay <= Tolerance
    /\ NoRow \notin Connections

VARIABLES
    totals,           \* octets transferred at all, by the time
    booted, counted,  \* time of the last boot, octets transferred until then
    hardware,         \* the appliance has sensors, fans or power supplies
    configured,       \* endpoints the options poll
    disabled,         \* _runtime_disabled
    ok, up,           \* endpoints whose last fetch succeeded, last_update_success
    cycle,            \* what the cycle in progress has read, or Idle
    stats, row, rows, \* data.stats and its fetched_at, data.links, data.tunnels
    sample, rate,     \* _traffic_sample, and the rate in data.traffic
    virtual, empties, \* is_virtual, _empty_health_reads
    reached, attempts, firstFailure, issue,
    switch,           \* InterfaceStatus, as the XML coordinator has read it
    boot, link,       \* _boot_time, and the state of the interface sensor
    shown, created,   \* connections of entity 1 of the table: shown, and at creation
    command,          \* connection of the last request of the IPsec switch 1
    log,              \* history: time and outcome of the cycles, see Logged
    origin            \* history: boot time by the agent's clock when boot was set

firewallVars == <<totals, booted, counted, hardware>>
issueVars    == <<reached, attempts, firstFailure, issue>>
dataVars     == <<configured, disabled, ok, up, stats, row, rows, sample, rate, virtual, empties>>
entityVars   == <<switch, boot, link, shown, created, command, origin>>
vars == <<firewallVars, issueVars, dataVars, entityVars, cycle, log>>

------------------------------------------------------------------------------
\* The firewall.

Now == Len(totals) - 1
Total(t) == totals[t + 1]

\* The time a cycle may take before another, or the first of all.
Before(t) == IF t < MaxDelay THEN 0 ELSE t - MaxDelay

Idle == [at |-> Missing]

\* The other endpoints do not depend on the time.
Timed == configured \cap {"stats", "traffic"} # {}

Tick ==
    /\ Timed /\ Now < Horizon
    /\ cycle = Idle \/ Now < cycle.at + MaxDelay
    /\ \E octets \in IF "traffic" \in configured THEN 0..MaxTraffic ELSE {0} :
           totals' = Append(totals, Total(Now) + octets)
    /\ UNCHANGED <<booted, counted, hardware, issueVars, dataVars, entityVars, cycle, log>>

\* A boot starts the uptime and the counters again.
Reboot ==
    /\ Timed /\ booted < Now
    /\ booted' = Now /\ counted' = Total(Now)
    /\ UNCHANGED <<totals, hardware, issueVars, dataVars, entityVars, cycle, log>>

------------------------------------------------------------------------------
\* The entities.  They write their states when the coordinator tells them to;
\* what belongs to an endpoint that is not available keeps its value.

Available(endpoint) == up' /\ endpoint \in ok'

Apart(a, b) == IF a < b THEN b - a ELSE a - b

\* Mutant of Moved: any new value replaces it.
MovedAtAll(reported) == TRUE

\* The boot time is replaced when it has moved far enough.
Moved(reported) == boot = Missing \/ Apart(reported, boot) > Tolerance

UptimeSensor ==
    LET reported == stats'.at - stats'.uptime IN
    IF ~Available("stats") THEN UNCHANGED <<boot, origin>>
    ELSE IF stats'.uptime = Missing THEN boot' = Missing /\ origin' = Missing
    ELSE IF Moved(reported) THEN boot' = reported /\ origin' = stats'.origin
    ELSE UNCHANGED <<boot, origin>>

\* The link if SNMP knows it, the switch if SNMP has no row for the port.
LinkState ==
    IF switch' = "gone" THEN "unknown"
    ELSE IF "links" \in ok' /\ row' = NoRow THEN switch'
    ELSE IF switch' = "off" THEN "off"
    ELSE IF "links" \in ok' THEN row' ELSE "unknown"

\* Mutant of LinkListens: it does not listen to the SNMP coordinator.
LinkListensToXml == link' = IF cycle' = cycle THEN LinkState ELSE link

\* The interface sensor belongs to the XML coordinator and listens to both.
LinkListens == link' = LinkState

TunnelEntity ==
    IF Available("tunnels")
    THEN /\ shown' = rows'[1]
         /\ created' = IF created = NoRow THEN rows'[1] ELSE created
    ELSE UNCHANGED <<shown, created>>

Notify == UptimeSensor /\ LinkListens /\ TunnelEntity

XmlPoll ==
    /\ "links" \in configured
    /\ switch' \in {"on", "off", "unknown", "gone"}
    /\ UNCHANGED <<firewallVars, issueVars, dataVars, boot, shown, created, command, origin,
                   cycle, log>>
    /\ LinkListens

\* Mutant of Named: that of the row when the switch was created.
NamedOnce == created

\* The connection a request of the IPsec switch names: that of the current row.
Named == rows[1]

\* A request without a row is refused.
Command ==
    /\ created # NoRow /\ rows[1] # NoRow
    /\ command' = Named
    /\ UNCHANGED <<firewallVars, issueVars, dataVars, switch, boot, link, shown, created, origin,
                   cycle, log>>

------------------------------------------------------------------------------
\* The update cycle.

Polled == configured \ disabled

\* What failed last time is due.  Of the rest a scheduled run reads the realtime tier and
\* what its tier says, and a requested one maybe only what was invalidated, or nothing.
MayBeDue(due) == Polled \ ok \subseteq due

Uptime == (Now - booted) % Wrap

\* What the endpoints may return, read at this moment; any number may be missing.
Readings(due, answered) ==
    [at : {Now}, due : {due}, answered : {answered},
     sensors : IF hardware /\ "health" \in answered THEN BOOLEAN ELSE {FALSE},
     uptime  : {Missing} \cup IF "stats" \in answered THEN {Uptime} ELSE {},
     octets  : {Missing} \cup IF "traffic" \in answered THEN {Total(Now) - counted} ELSE {},
     row     : IF "links" \in answered THEN {"on", "off", "unknown", NoRow} ELSE {row},
     rows    : IF "tunnels" \in answered THEN [1..2 -> Connections \cup {NoRow}] ELSE {rows}]

\* The endpoints are read.
Begin ==
    /\ cycle = Idle /\ Len(log) < MaxCycles /\ attempts < MaxCycles
    /\ \E due \in {d \in SUBSET Polled : MayBeDue(d)} : \E answered \in SUBSET due :
           cycle' \in Readings(due, answered)
    /\ UNCHANGED <<firewallVars, issueVars, dataVars, entityVars, log>>

\* Mutant of Hopeless: the number of cycles is enough.
HopelessByNumber(tries, since) == tries >= IssueAttempts

\* Three failed cycles, and enough time since the first of them.
Hopeless(tries, since) == tries >= IssueAttempts /\ Now - since >= IssueTime

\* Nothing answered.  Listeners hear of the first failure in a row.
Fail ==
    /\ cycle.answered = {} /\ cycle.due # {}
    /\ IF reached THEN UNCHANGED issueVars
       ELSE /\ attempts' = attempts + 1
            /\ firstFailure' = IF firstFailure = Missing THEN Now ELSE firstFailure
            /\ issue' = (issue \/ Hopeless(attempts', firstFailure'))
            /\ UNCHANGED reached
    /\ ok' = ok \ cycle.due
    /\ up' = FALSE
    /\ UNCHANGED <<disabled, stats, row, rows, sample, rate, virtual, empties, switch>>
    /\ IF up THEN Notify ELSE UNCHANGED <<boot, link, shown, created, origin>>

NoRate == [octets |-> Missing, seconds |-> Missing]

\* Mutant of Rate: a counter that started again is one like any other.
RateOfAny(octets, at) ==
    IF Missing \in {sample.octets, octets} \/ at - sample.at < 1
    THEN NoRate
    ELSE [octets |-> octets - sample.octets, seconds |-> at - sample.at]

\* The rate between two readings of the counter, as octets in seconds.
Rate(octets, at) ==
    IF Missing \in {sample.octets, octets} \/ at - sample.at < 1 \/ octets < sample.octets
    THEN NoRate
    ELSE [octets |-> octets - sample.octets, seconds |-> at - sample.at]

\* The sample the next rate starts from, with the time at which its walk ended.
Sampled(walked) ==
    IF "traffic" \in cycle.answered THEN [octets |-> cycle.octets, at |-> walked] ELSE sample

\* Mutant of EmptyReads: a failed fetch counts.
EmptyReadsAny == empties + IF "health" \in cycle.due THEN 1 ELSE 0

\* Health answers without sensors, so far.
EmptyReads == empties + IF "health" \in cycle.answered THEN 1 ELSE 0

\* Detects a virtual appliance, which has no health to poll.
Detect ==
    IF virtual # "undecided" THEN UNCHANGED <<virtual, empties, disabled>>
    ELSE IF cycle.sensors THEN virtual' = "no" /\ UNCHANGED <<empties, disabled>>
    ELSE /\ empties' = EmptyReads
         /\ IF empties' >= Confirmations
            THEN virtual' = "yes" /\ disabled' = disabled \cup {"health"}
            ELSE UNCHANGED <<virtual, disabled>>

Succeed ==
    /\ cycle.answered # {} \/ cycle.due = {}
    /\ ok' = (ok \ cycle.due) \cup cycle.answered
    /\ up' = TRUE
    /\ stats' = IF "stats" \in cycle.answered
                THEN [uptime |-> cycle.uptime, at |-> Now, origin |-> cycle.at - cycle.uptime]
                ELSE stats
    /\ row' = IF "links" \in cycle.answered THEN cycle.row ELSE row
    /\ rows' = IF "tunnels" \in cycle.answered THEN cycle.rows ELSE rows
    /\ \E walked \in cycle.at..Now :
           /\ rate' = IF "traffic" \in cycle.answered THEN Rate(cycle.octets, walked) ELSE rate
           /\ sample' = Sampled(walked)
    /\ Detect
    /\ reached' = (reached \/ ok' # {})
    /\ issue' = (issue /\ ~(ok' # {} /\ ~reached))
    /\ UNCHANGED <<attempts, firstFailure, switch>>
    /\ Notify

\* The history is kept for the endpoints that the properties about it need.
Logged == {"stats", "health"}

End ==
    /\ cycle # Idle
    /\ cycle' = Idle
    /\ log' = IF configured \cap Logged = {} THEN log
              ELSE Append(log, [at |-> Now, due |-> cycle.due, answered |-> cycle.answered,
                                sensors |-> cycle.sensors])
    /\ Fail \/ Succeed
    /\ UNCHANGED <<firewallVars, configured, command>>

Init ==
    /\ totals = <<0>> /\ booted = 0 /\ counted = 0
    /\ configured \in Options
    /\ hardware \in IF "health" \in configured THEN BOOLEAN ELSE {FALSE}
    /\ disabled = {} /\ ok = {} /\ up = TRUE /\ cycle = Idle
    /\ stats = [uptime |-> Missing, at |-> 0, origin |-> Missing]
    /\ row = NoRow /\ rows = <<NoRow, NoRow>>
    /\ sample = [octets |-> Missing, at |-> 0] /\ rate = NoRate
    /\ virtual = "undecided" /\ empties = 0
    /\ reached = FALSE /\ attempts = 0 /\ firstFailure = Missing /\ issue = FALSE
    /\ switch = "on" /\ boot = Missing /\ link = "unknown"
    /\ shown = NoRow /\ created = NoRow /\ command = NoRow
    /\ log = <<>> /\ origin = Missing

Next == Tick \/ Reboot \/ XmlPoll \/ Command \/ Begin \/ End

Spec == Init /\ [][Next]_vars

------------------------------------------------------------------------------
\* Properties.

TypeOK ==
    LET Numbers == Nat \cup {Missing}
        Links   == {"on", "off", "unknown", NoRow}
        Names   == Connections \cup {NoRow}
        Some    == SUBSET configured
    IN
    /\ totals \in Seq(Nat) /\ totals # <<>> /\ booted \in 0..Now
    /\ counted \in Nat /\ hardware \in BOOLEAN
    /\ configured \in Options /\ ok \in Some /\ disabled \in SUBSET {"health"} /\ up \in BOOLEAN
    /\ cycle \in {Idle} \cup
          [at : Nat, due : Some, answered : Some, sensors : BOOLEAN, uptime : Numbers,
           octets : Numbers, row : Links, rows : [1..2 -> Names]]
    /\ stats \in [uptime : Numbers, at : Nat, origin : Int]
    /\ row \in Links /\ rows \in [1..2 -> Names]
    /\ sample \in [octets : Numbers, at : Nat] /\ rate \in [octets : Numbers, seconds : Numbers]
    /\ virtual \in {"undecided", "no", "yes"} /\ empties \in Nat
    /\ reached \in BOOLEAN /\ attempts \in Nat /\ firstFailure \in Numbers /\ issue \in BOOLEAN
    /\ switch \in {"on", "off", "unknown", "gone"} /\ link \in {"on", "off", "unknown"}
    /\ boot \in Int /\ origin \in Int
    /\ {shown, created, command} \subseteq Names
    /\ log \in Seq([at : Nat, due : Some, answered : Some, sensors : BOOLEAN])

\* A rate never claims more octets than came in its time and the duration of a walk
\* before it, nor a negative number, whatever walks fail, whenever the counter starts
\* again, and however long the interval was (coordinator.py:567, 645).  In its time alone
\* it may: the counters of the first sample are older than their time, which is taken
\* after the walk (snmp_client.py:627), and a slow walk may be followed by a fast one.
RateIsReal ==
    rate # NoRate =>
        rate.octets \in 0..(Total(sample.at) - Total(Before(sample.at - rate.seconds)))

\* The boot time that is shown only changes when the firewall has booted or its
\* uptime has overflowed since it was set, however long the cycles take
\* (sensor.py:707), unless the agent did not report the uptime in between; and it
\* is never further off than the tolerance and the duration of a cycle.
BootKept ==
    [][/\ boot' # boot /\ Missing \notin {boot, boot'} => stats'.origin # origin
       /\ Available("stats") /\ boot' # Missing
              => Apart(boot', stats'.origin) <= Tolerance + MaxDelay]_vars

\* The issue is there when, and only when, no cycle got any answer and the failed
\* ones are as many and as far apart as they must be (coordinator.py:589).
IssueEarned ==
    LET failed == {i \in DOMAIN log : log[i].due # {}}
    IN  configured \cap Logged # {} =>
            (issue <=> /\ \A i \in DOMAIN log : log[i].answered = {}
                       /\ Cardinality(failed) >= IssueAttempts
                       /\ \E i, j \in failed : log[j].at - log[i].at >= IssueTime)

\* Health is no longer polled when, and only when, the appliance has answered
\* often enough and never with a sensor: failures prove nothing
\* (coordinator.py:654).
VirtualEarned ==
    LET answers == {i \in DOMAIN log : "health" \in log[i].answered}
    IN  "health" \in disabled <=> /\ Cardinality(answers) >= Confirmations
                                  /\ \A i \in answers : ~log[i].sensors

\* The interface sensor follows both of its sources: connected only if neither says
\* otherwise, and unknown only if one of them does not know (binary_sensor.py:177).  In an
\* outage of the agent that began with another endpoint, read alone, it may keep to the
\* last table of links that was read, although links are no longer available: listeners
\* only hear of the first failure in a row.  It always follows the switch of XML.
LinkHonest ==
    LET Follows(known) ==
            /\ link = "on" => known /\ <<row, switch>> \in
                                  {<<"on", "on">>, <<"on", "unknown">>, <<NoRow, "on">>}
            /\ link = "off" => switch = "off" \/ (known /\ row = "off")
            /\ link = "unknown" => switch \in {"gone", "unknown"} \/ ~known \/ row = "unknown"
    IN  "links" \in configured => Follows("links" \in ok) \/ (~up /\ reached /\ Follows(TRUE))

\* The switch acts on the connection whose state it shows, although the rows of
\* the table are renumbered (switch.py:274).
CommandMatches == [][command' # command => command' = shown]_vars
=============================================================================
