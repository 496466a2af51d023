------------------------- MODULE SnmpReadingsProofs -------------------------
(***************************************************************************)
(* Proofs about what is made of the SNMP agent's answers, for any traffic, *)
(* duration of cycles, overflow of the uptime and renumbering of rows.     *)
(***************************************************************************)
EXTENDS SnmpReadings, FiniteSetTheorems, TLAPS

\* The counters of the firewall never run backwards, and a cycle is no longer under
\* way than it may be.
ClockInv ==
    /\ totals \in Seq(Nat) /\ Len(totals) >= 1
    /\ \A s, t \in 0..Now : s <= t => Total(s) <= Total(t)
    /\ counted \in 0..Total(Now)
    /\ booted \in 0..Now
    /\ cycle # Idle => cycle.at \in 0..Now /\ Now <= cycle.at + MaxDelay

\* The sample, the rate and the counter that the cycle has read belong together: the
\* counter was read no earlier than a walk before the time of the sample, and a boot in
\* between only makes the difference smaller.
TrafficInv ==
    /\ sample.at \in 0..Now
    /\ sample.octets # Missing =>
         sample.octets \in Nat /\ sample.octets >= Total(Before(sample.at)) - counted
    /\ cycle # Idle =>
         /\ sample.at <= cycle.at
         /\ cycle.octets # Missing => cycle.octets \in Nat
         /\ cycle.octets # Missing => cycle.octets >= Total(cycle.at) - counted
         /\ Missing \notin {cycle.octets, sample.octets} =>
              cycle.octets - sample.octets <= Total(cycle.at) - Total(Before(sample.at))
    /\ rate # NoRate => rate.octets \in Nat /\ rate.seconds \in 1..sample.at
    /\ RateIsReal

\* The time of the boot is that of the agent's clock, but for the duration of a cycle.
BootInv ==
    /\ cycle # Idle => cycle.uptime \in Int
    /\ stats.at \in Int /\ stats.uptime \in Int /\ stats.origin \in Int
    /\ boot \in Int /\ origin \in Int
    /\ stats.uptime # Missing => stats.at - stats.uptime - stats.origin \in 0..MaxDelay
    /\ boot # Missing => boot - origin \in 0..MaxDelay
    /\ "stats" \in ok /\ boot # Missing =>
         Apart(boot, stats.origin) <= Tolerance + MaxDelay

\* LinkState of the present state, if links are available or not.
LinkNow(known) ==
    IF switch = "gone" THEN "unknown"
    ELSE IF known /\ row = NoRow THEN switch
    ELSE IF switch = "off" THEN "off"
    ELSE IF known THEN row ELSE "unknown"

PortRows == {"on", "off", "unknown", NoRow}

\* The interface sensor has heard of everything its state depends on, except that links
\* became unavailable during an outage.
LinkInv ==
    /\ switch \in {"on", "off", "unknown", "gone"} /\ row \in PortRows
    /\ cycle # Idle => cycle.row \in PortRows
    /\ "links" \in ok => reached
    /\ "links" \in configured =>
         link = LinkNow("links" \in ok) \/ (~up /\ reached /\ link = LinkNow(TRUE))

TableInv == shown = rows[1]

Constants ==
    /\ Horizon \in Nat /\ MaxTraffic \in Nat /\ MaxDelay \in Nat /\ Tolerance \in Nat
    /\ Wrap \in Nat \ {0} /\ MaxDelay <= Tolerance

\* What a cycle in progress has read.
LEMMA BeginReads ==
  ASSUME Begin
  PROVE  /\ MayBeDue(cycle'.due) /\ cycle'.due \subseteq Polled
         /\ cycle'.answered \subseteq cycle'.due
         /\ cycle'.sensors \in BOOLEAN /\ (cycle'.sensors => "health" \in cycle'.answered)
         /\ cycle'.at = Now
         /\ cycle'.uptime \in {Uptime, Missing}
         /\ cycle'.octets \in {Total(Now) - counted, Missing}
         /\ cycle'.row \in {"on", "off", "unknown", NoRow, row}
<1>1. PICK due \in SUBSET Polled, answered \in SUBSET Polled :
          MayBeDue(due) /\ answered \subseteq due /\ cycle' \in Readings(due, answered)
  BY DEF Begin
<1>2. /\ cycle'.due = due /\ cycle'.answered = answered /\ cycle'.at = Now
      /\ cycle'.sensors \in BOOLEAN /\ (cycle'.sensors => "health" \in answered)
  BY <1>1 DEF Readings
<1>3. /\ cycle'.uptime \in {Uptime, Missing}
      /\ cycle'.octets \in {Total(Now) - counted, Missing}
      /\ cycle'.row \in {"on", "off", "unknown", NoRow, row}
  BY <1>1 DEF Readings
<1>4. QED
  BY <1>1, <1>2, <1>3

LEMMA ConstantsTyped == Constants
  BY ReadingsAssumption DEF ReadingsAssumption, Constants

------------------------------------------------------------------------------
\* The rows of the table.

LEMMA TableStep == TableInv /\ [Next]_vars => TableInv'
<1> SUFFICES ASSUME TableInv, [Next]_vars PROVE TableInv'
  OBVIOUS
<1>1. CASE Tick \/ Reboot \/ XmlPoll \/ Command \/ Begin \/ UNCHANGED vars
  BY <1>1 DEF TableInv, Tick, Reboot, XmlPoll, Command, Begin, vars, dataVars, entityVars
<1>2. CASE End /\ Fail
  BY <1>2 DEF TableInv, End, Fail, Notify, TunnelEntity, Available
<1>3. CASE End /\ Succeed
  <2>1. CASE "tunnels" \in cycle.answered
    BY <1>3, <2>1 DEF TableInv, End, Succeed, Notify, TunnelEntity, Available
  <2>2. CASE "tunnels" \notin cycle.answered
    BY <1>3, <2>2 DEF TableInv, End, Succeed, Notify, TunnelEntity, Available
  <2>3. QED
    BY <2>1, <2>2
<1>4. QED
  BY <1>1, <1>2, <1>3 DEF Next, End

\* A request of the IPsec switch names the connection whose state the switch shows,
\* however the rows are renumbered (switch.py:274).
THEOREM CommandMatchesCorrect == Spec => CommandMatches
<1>1. Init => TableInv
  BY DEF Init, TableInv
<1>2. TableInv /\ [Next]_vars => TableInv'
  BY TableStep
<1>3. TableInv /\ [Next]_vars => [command' # command => command' = shown]_vars
  BY DEF TableInv, Next, Tick, Reboot, XmlPoll, Command, Named, Begin, End, entityVars
<1>4. QED
  BY <1>1, <1>2, <1>3, PTL DEF Spec, CommandMatches

------------------------------------------------------------------------------
\* The link of a port.

LEMMA LinkStep == LinkInv /\ [Next]_vars => LinkInv'
<1> SUFFICES ASSUME LinkInv, [Next]_vars PROVE LinkInv'
  OBVIOUS
<1>1. CASE Tick \/ Reboot \/ Command \/ UNCHANGED vars
  BY <1>1 DEF LinkInv, LinkNow, Tick, Reboot, Command, vars, dataVars, entityVars, issueVars
<1>2. CASE XmlPoll
  BY <1>2 DEF LinkInv, LinkNow, XmlPoll, LinkListens, LinkState, dataVars, issueVars
<1>3. CASE Begin
  <2>1. cycle'.row \in PortRows
    BY <1>3, BeginReads DEF LinkInv, PortRows
  <2>2. QED
    BY <1>3, <2>1 DEF Begin, LinkInv, LinkNow, dataVars, entityVars, issueVars
<1>4. CASE End /\ Fail
  <2>1. cycle # Idle /\ cycle' = Idle /\ up' = FALSE /\ ok' = ok \ cycle.due
        /\ UNCHANGED <<configured, row, switch, reached>>
    BY <1>4 DEF End, Fail, issueVars
  <2>2. CASE up
    <3>1. link' = LinkNow("links" \in ok)'
      BY <1>4, <2>2 DEF Fail, Notify, LinkListens, LinkState, LinkNow
    <3>2. QED
      BY <2>1, <3>1 DEF LinkInv
  <2>3. CASE ~up
    <3>1. link' = link /\ \A known \in BOOLEAN : LinkNow(known)' = LinkNow(known)
      BY <1>4, <2>1, <2>3 DEF Fail, LinkNow
    <3>2. CASE "links" \in ok'
      BY <2>1, <2>3, <3>1, <3>2 DEF LinkInv
    <3>3. CASE "links" \notin ok' /\ "links" \in ok
      BY <2>1, <2>3, <3>1, <3>3 DEF LinkInv
    <3>4. CASE "links" \notin ok' /\ "links" \notin ok
      <4>1. LinkNow("links" \in ok)' = LinkNow("links" \in ok) /\ LinkNow(TRUE)' = LinkNow(TRUE)
        BY <2>1, <3>4 DEF LinkNow
      <4>2. QED
        BY <2>1, <2>3, <3>1, <3>4, <4>1 DEF LinkInv
    <3>5. QED
      BY <3>2, <3>3, <3>4
  <2>4. QED
    BY <2>2, <2>3
\* Every success is told to the sensor.
<1>5. CASE End /\ Succeed
  <2>1. cycle # Idle /\ cycle' = Idle /\ UNCHANGED <<configured, switch>>
        /\ link' = LinkNow("links" \in ok)' /\ row' \in {row, cycle.row}
    BY <1>5 DEF End, Succeed, Notify, LinkListens, LinkState, LinkNow
  <2>2. "links" \in ok' => reached'
    BY <1>5 DEF Succeed
  <2>3. QED
    BY <2>1, <2>2 DEF LinkInv
<1>6. QED
  BY <1>1, <1>2, <1>3, <1>4, <1>5 DEF Next, End

\* The interface sensor follows the switch of its port at any time, and its link while the
\* last cycle got an answer; in an outage it claims nothing that neither of them reported
\* last (binary_sensor.py:177).
THEOREM LinkHonestCorrect == Spec => []LinkHonest
<1>1. Init => LinkInv
  BY DEF Init, LinkInv, LinkNow, PortRows
<1>2. LinkInv /\ [Next]_vars => LinkInv'
  BY LinkStep
<1>3. LinkInv => LinkHonest
  BY DEF LinkInv, LinkNow, PortRows, LinkHonest, NoRow
<1>4. QED
  BY <1>1, <1>2, <1>3, PTL DEF Spec

------------------------------------------------------------------------------
\* The clock and the counters.

\* Only the clock and a boot change the firewall.
LEMMA ClockStep == ClockInv /\ [Next]_vars => ClockInv'
<1> SUFFICES ASSUME ClockInv, [Next]_vars PROVE ClockInv'
  OBVIOUS
<1>1. CASE Tick
  <2>1. PICK octets \in Nat : totals' = Append(totals, Total(Now) + octets)
    BY <1>1, ConstantsTyped DEF Tick, Constants
  <2>2. Total(Now) \in Nat
    BY DEF ClockInv, Total, Now
  <2>3. totals' \in Seq(Nat) /\ Len(totals') = Len(totals) + 1
    BY <2>1, <2>2 DEF ClockInv
  <2>4. \A t \in 0..Now : Total(t)' = Total(t) /\ Total(t) <= Total(Now)
    <3>1. SUFFICES ASSUME NEW t \in 0..Now
                   PROVE  totals'[t + 1] = totals[t + 1] /\ totals[t + 1] <= totals[Now + 1]
      BY DEF Total
    <3>2. Now \in 0..Now /\ t <= Now /\ t + 1 \in 1..Len(totals)
      BY DEF ClockInv, Now
    <3>3. totals'[t + 1] = totals[t + 1]
      BY <2>1, <2>2, <3>2 DEF ClockInv
    <3>4. Total(t) <= Total(Now)
      BY <3>2 DEF ClockInv
    <3>5. QED
      BY <3>3, <3>4 DEF Total
  <2>5. Total(Now)' = Total(Now) + octets
    BY <2>1, <2>2 DEF ClockInv, Total, Now
  <2>6. \A s, t \in 0..Now' : s <= t => Total(s)' <= Total(t)'
    <3>1. Now' = Now + 1 /\ Now \in Nat
      BY <2>3 DEF ClockInv, Now
    <3>2. totals'[Now' + 1] = Total(Now) + octets
      BY <2>5 DEF Total, Now
    <3>3. \A t \in 0..Now : totals'[t + 1] = totals[t + 1] /\ totals[t + 1] <= Total(Now)
                            /\ totals[t + 1] \in Nat
      BY <2>4 DEF ClockInv, Total, Now
    <3>4. ASSUME NEW a \in 0..Now', NEW b \in 0..Now', a <= b
          PROVE  totals'[a + 1] <= totals'[b + 1]
      <4>1. CASE b \in 0..Now
        BY <3>1, <3>3, <3>4, <4>1 DEF ClockInv, Total
      <4>2. CASE b = Now' /\ a \in 0..Now
        <5>1. totals'[a + 1] <= Total(Now) /\ totals'[a + 1] \in Nat
          BY <3>3, <4>2
        <5>2. QED
          BY <2>2, <3>2, <4>2, <5>1
      <4>3. CASE b = Now' /\ a = Now'
        BY <2>2, <3>2, <4>3
      <4>4. QED
        BY <3>1, <3>4, <4>1, <4>2, <4>3
    <3>5. QED
      BY <3>4 DEF Total
  <2>7. /\ counted' = counted /\ booted' = booted /\ cycle' = cycle
        /\ cycle = Idle \/ Now < cycle.at + MaxDelay
    BY <1>1 DEF Tick
  <2>8. counted' \in 0..Total(Now)'
    BY <2>2, <2>5, <2>7 DEF ClockInv
  <2>9. Now' = Now + 1 /\ Now \in Nat
    BY <2>3 DEF ClockInv, Now
  <2>10. QED
    BY <2>3, <2>6, <2>7, <2>8, <2>9, ConstantsTyped DEF ClockInv, Constants
<1>2. CASE Reboot
  <2>1. Now \in Nat /\ Total(Now) \in Nat /\ Now' = Now /\ UNCHANGED <<totals, cycle>>
    BY <1>2 DEF ClockInv, Now, Total, Reboot
  <2>2. counted' = Total(Now) /\ booted' = Now
    BY <1>2 DEF Reboot
  <2>3. QED
    BY <2>1, <2>2 DEF ClockInv, Now, Total
<1>3. CASE Begin
  <2>1. cycle'.at = Now /\ UNCHANGED <<totals, counted, booted>>
    BY <1>3, BeginReads DEF Begin, firewallVars
  <2>2. Now \in Nat /\ Now' = Now
    BY <2>1 DEF ClockInv, Now
  <2>3. QED
    BY <2>1, <2>2, ConstantsTyped DEF ClockInv, Now, Total, Constants
<1>4. CASE End
  BY <1>4 DEF End, ClockInv, Now, Total, firewallVars
<1>5. CASE XmlPoll \/ Command \/ UNCHANGED vars
  BY <1>5 DEF XmlPoll, Command, ClockInv, Now, Total, firewallVars, vars
<1>6. QED
  BY <1>1, <1>2, <1>3, <1>4, <1>5 DEF Next

LEMMA ClockInit == Init => ClockInv
<1> SUFFICES ASSUME Init PROVE ClockInv
  OBVIOUS
<1>1. totals = <<0>> /\ booted = 0 /\ counted = 0 /\ cycle = Idle
  BY Zenon DEF Init
<1>2. Now = 0 /\ Total(0) = 0 /\ totals \in Seq(Nat) /\ Len(totals) = 1
  BY <1>1 DEF Now, Total
<1>3. QED
  BY <1>1, <1>2 DEF ClockInv

------------------------------------------------------------------------------
\* The rate of the traffic.

\* What is true of times that have passed stays true.
LEMMA PastKept ==
  ASSUME ClockInv, [Next]_vars
  PROVE  /\ Now \in Nat /\ Now' \in Nat /\ Now <= Now'
         /\ \A t \in 0..Now : Total(t)' = Total(t) /\ Total(t) \in Nat
         /\ counted <= counted' /\ counted' \in Nat /\ counted \in Nat
<1>1. CASE Tick
  BY <1>1 DEF Tick, ClockInv, Now, Total
<1>2. CASE ~Tick
  <2>1. totals' = totals
    BY <1>2 DEF Next, Reboot, XmlPoll, Command, Begin, End, firewallVars, vars
  <2>2. counted' = counted \/ counted' = Total(Now)
    BY <1>2 DEF Next, Reboot, XmlPoll, Command, Begin, End, firewallVars, vars
  <2>3. Now \in Nat /\ Now' = Now /\ Total(Now) \in Nat /\ counted \in 0..Total(Now)
    BY <2>1 DEF ClockInv, Now, Total
  <2>4. \A t \in 0..Now : Total(t)' = Total(t) /\ Total(t) \in Nat
    BY <2>1 DEF ClockInv, Now, Total
  <2>5. QED
    BY <2>2, <2>3, <2>4
<1>3. QED
  BY <1>1, <1>2

\* The time before a walk that ends at t, and so the beginning of a cycle that ends by then.
LEMMA BeforeTyped ==
  ASSUME NEW t \in Nat
  PROVE  /\ Before(t) \in 0..t
         /\ \A s \in Nat : t <= s + MaxDelay => Before(t) <= s
BY ConstantsTyped DEF Constants, Before

\* A step that leaves the sample, the rate and the cycle alone.
LEMMA TrafficKept ==
  ASSUME ClockInv, TrafficInv, [Next]_vars, UNCHANGED <<sample, rate, cycle>>
  PROVE  TrafficInv'
<1>1. /\ Now \in Nat /\ Now' \in Nat /\ Now <= Now'
      /\ \A t \in 0..Now : Total(t)' = Total(t) /\ Total(t) \in Nat
      /\ counted <= counted' /\ counted' \in Nat /\ counted \in Nat
  BY PastKept
<1>2. sample.at \in 0..Now /\ sample' = sample /\ cycle' = cycle /\ rate' = rate
  BY DEF TrafficInv
<1> DEFINE start == Before(sample.at)
           first == Before(sample.at - rate.seconds)
<1>3. /\ start \in 0..Now /\ Total(start)' = Total(start) /\ Total(start) \in Nat
      /\ Before(sample'.at) = start /\ Total(sample.at)' = Total(sample.at)
      /\ Total(sample.at) \in Nat
  <2>1. start \in 0..Now
    BY <1>1, <1>2, BeforeTyped
  <2>2. totals'[start + 1] = totals[start + 1] /\ totals[start + 1] \in Nat
    BY <1>1, <2>1 DEF Total
  <2>3. Before(sample'.at) = start
    BY <1>2
  <2>4. totals'[sample.at + 1] = totals[sample.at + 1] /\ totals[sample.at + 1] \in Nat
    BY <1>1, <1>2 DEF Total
  <2>5. QED
    BY <1>2, <2>1, <2>2, <2>3, <2>4 DEF Total, Before
<1>4. cycle # Idle => /\ cycle.at \in 0..Now /\ totals'[cycle.at + 1] = totals[cycle.at + 1]
                      /\ totals[cycle.at + 1] \in Nat
  BY <1>1 DEF ClockInv, Total
<1>5. RateIsReal'
  <2>1. SUFFICES ASSUME rate # NoRate
                 PROVE  rate.octets \in 0..(totals'[sample.at + 1] - totals'[first + 1])
    BY <1>2 DEF RateIsReal, Total, NoRate, Before
  <2>2. rate.seconds \in 1..sample.at
    BY <2>1 DEF TrafficInv
  <2>3. first \in 0..Now
    <3>1. sample.at - rate.seconds \in Nat /\ sample.at - rate.seconds <= Now
      BY <1>1, <1>2, <2>2
    <3>2. QED
      BY <1>1, <3>1, BeforeTyped
  <2>4. totals'[first + 1] = totals[first + 1]
    BY <1>1, <2>3 DEF Total
  <2>5. totals'[sample.at + 1] = totals[sample.at + 1]
    BY <1>1, <1>2 DEF Total
  <2>6. QED
    BY <2>1, <2>4, <2>5 DEF TrafficInv, RateIsReal, Total
<1>6. sample.octets # Missing => /\ sample.octets \in Nat
                                 /\ sample.octets >= Total(start) - counted'
  <2>1. SUFFICES ASSUME sample.octets # Missing
                 PROVE  sample.octets \in Nat /\ sample.octets >= Total(start) - counted'
    OBVIOUS
  <2>2. sample.octets \in Nat /\ sample.octets >= Total(start) - counted
    BY <2>1 DEF TrafficInv
  <2>3. QED
    BY <1>1, <1>3, <2>2
<1>7. cycle # Idle =>
         /\ sample.at <= cycle.at
         /\ cycle.octets # Missing => cycle.octets \in Nat
         /\ cycle.octets # Missing => cycle.octets >= totals[cycle.at + 1] - counted'
         /\ Missing \notin {cycle.octets, sample.octets} =>
              cycle.octets - sample.octets <= totals[cycle.at + 1] - Total(start)
  <2>1. SUFFICES ASSUME cycle # Idle, cycle.octets # Missing
                 PROVE  cycle.octets >= totals[cycle.at + 1] - counted'
    BY DEF TrafficInv, Total
  <2>2. cycle.octets \in Nat /\ cycle.octets >= totals[cycle.at + 1] - counted
    BY <2>1 DEF TrafficInv, Total
  <2>3. QED
    BY <1>1, <1>4, <2>1, <2>2
<1>8. rate # NoRate => rate.octets \in Nat /\ rate.seconds \in 1..sample.at
  BY DEF TrafficInv
<1>9. sample'.at \in 0..Now'
  BY <1>1, <1>2
<1> HIDE DEF start, first
<1>10. /\ sample'.octets # Missing =>
             /\ sample'.octets \in Nat
             /\ sample'.octets >= Total(Before(sample.at))' - counted'
       /\ cycle' # Idle =>
             /\ sample'.at <= cycle'.at
             /\ cycle'.octets # Missing => cycle'.octets \in Nat
             /\ cycle'.octets # Missing => cycle'.octets >= Total(cycle.at)' - counted'
             /\ Missing \notin {cycle'.octets, sample'.octets} =>
                  cycle'.octets - sample'.octets <= Total(cycle.at)' - Total(Before(sample.at))'
  <2>1. Total(Before(sample.at))' = Total(start)
    BY <1>3 DEF Total, Before, start
  <2>2. cycle # Idle => Total(cycle.at)' = totals[cycle.at + 1]
    BY <1>2, <1>4 DEF Total
  <2>3. QED
    BY <1>2, <1>6, <1>7, <2>1, <2>2
<1>11. QED
  BY <1>2, <1>5, <1>8, <1>9, <1>10 DEF TrafficInv, NoRate, Idle

LEMMA TotalTyped == ClockInv => Now \in Nat /\ \A t \in 0..Now : Total(t) \in Nat
<1> SUFFICES ASSUME ClockInv, NEW t \in 0..Now PROVE Now \in Nat /\ Total(t) \in Nat
  BY DEF ClockInv, Now
<1>1. totals \in Seq(Nat) /\ Len(totals) \in Nat /\ Now = Len(totals) - 1 /\ Now \in Nat
  BY DEF ClockInv, Now
<1>2. t + 1 \in 1..Len(totals)
  BY <1>1
<1>3. QED
  BY <1>1, <1>2 DEF Total

LEMMA TrafficBegin ==
  ASSUME ClockInv, TrafficInv, Begin
  PROVE  TrafficInv'
<1>1. /\ cycle = Idle /\ cycle' # Idle /\ cycle'.at = Now
      /\ cycle'.octets \in {Total(Now) - counted, Missing}
      /\ UNCHANGED <<totals, counted, sample, rate>>
  <2>1. Now \in Nat /\ Idle.at = Missing
    BY DEF ClockInv, Now, Idle
  <2>2. QED
    BY <2>1, BeginReads DEF Begin, firewallVars, dataVars, Missing
<1>2. Now \in Nat /\ Now' = Now /\ Total(Now) \in Nat /\ counted \in 0..Total(Now)
  <2>1. Now \in Nat /\ Now \in 0..Now /\ Now' = Now
    BY <1>1, TotalTyped DEF Now
  <2>2. QED
    BY <2>1, TotalTyped DEF ClockInv
<1> DEFINE start == Before(sample.at)
<1>3. sample.at \in 0..Now /\ start \in 0..Now /\ Total(start) \in Nat
  <2>1. sample.at \in 0..Now
    BY DEF TrafficInv
  <2>2. start \in 0..Now
    BY <1>2, <2>1, BeforeTyped
  <2>3. QED
    BY <2>1, <2>2, TotalTyped
<1>4. cycle'.octets # Missing =>
         /\ cycle'.octets = Total(Now) - counted
         /\ cycle'.octets \in Nat
  BY <1>1, <1>2
<1>5. Missing \notin {cycle'.octets, sample.octets} =>
         cycle'.octets - sample.octets <= Total(Now) - Total(start)
  BY <1>2, <1>3, <1>4 DEF TrafficInv
<1>6. Total(start)' = Total(start) /\ Total(Now)' = Total(Now) /\ Before(sample'.at) = start
  BY <1>1 DEF Total, Now, Before
<1>7. /\ sample'.at \in 0..Now'
      /\ sample'.octets # Missing =>
           sample'.octets \in Nat /\ sample'.octets >= Total(Before(sample.at))' - counted'
  BY <1>1, <1>2, <1>3, <1>6 DEF TrafficInv, Total, Before
<1>8. /\ sample'.at <= cycle'.at
      /\ cycle'.octets # Missing => cycle'.octets \in Nat
      /\ cycle'.octets # Missing => cycle'.octets >= Total(cycle.at)' - counted'
      /\ Missing \notin {cycle'.octets, sample'.octets} =>
           cycle'.octets - sample'.octets <= Total(cycle.at)' - Total(Before(sample.at))'
  <2>1. Total(cycle.at)' = Total(Now)
    BY <1>1, <1>6 DEF Total, Now
  <2>2. Total(Before(sample.at))' = Total(start)
    BY <1>6 DEF Total, Before
  <2>3. QED
    BY <1>1, <1>2, <1>3, <1>4, <1>5, <2>1, <2>2
<1>9. (rate # NoRate => rate.octets \in Nat /\ rate.seconds \in 1..sample.at)'
      /\ RateIsReal'
  BY <1>1 DEF TrafficInv, RateIsReal, Total, NoRate, Before
<1>10. QED
  BY <1>1, <1>7, <1>8, <1>9 DEF TrafficInv

\* Only a cycle that succeeds replaces the sample and the rate.
LEMMA TrafficEnd ==
  ASSUME ClockInv, TrafficInv, End
  PROVE  TrafficInv'
<1>1. cycle # Idle /\ cycle' = Idle /\ UNCHANGED <<totals, booted, counted, hardware>>
  BY DEF End, firewallVars
<1>2. Now \in Nat /\ Now' = Now /\ cycle.at \in 0..Now /\ Total(cycle.at) \in Nat
  <2>1. Now' = Now
    BY <1>1 DEF Now
  <2>2. cycle.at \in 0..Now
    BY <1>1 DEF ClockInv
  <2>3. QED
    BY <2>1, <2>2, TotalTyped
<1>3. sample.at \in 0..cycle.at /\ Before(sample.at) \in 0..Now
      /\ Total(Before(sample.at)) \in Nat
  <2>1. sample.at \in 0..Now /\ sample.at <= cycle.at
    BY <1>1 DEF TrafficInv
  <2>2. Before(sample.at) \in 0..Now
    BY <1>2, <2>1, BeforeTyped
  <2>3. QED
    BY <1>2, <2>1, <2>2, TotalTyped
<1>4. CASE UNCHANGED <<sample, rate>>
  BY <1>1, <1>2, <1>4 DEF TrafficInv, RateIsReal, Total, NoRate, Before
<1>5. CASE Succeed /\ "traffic" \in cycle.answered
  <2>1. PICK walked \in cycle.at..Now :
             /\ sample' = [octets |-> cycle.octets, at |-> walked]
             /\ rate' = Rate(cycle.octets, walked)
    BY <1>5 DEF Succeed, Sampled
  <2>2. /\ walked \in 0..Now /\ Before(walked) \in 0..Now /\ Before(walked) <= cycle.at
        /\ Total(walked) \in Nat /\ Total(Before(walked)) \in Nat
        /\ Total(Before(walked)) <= Total(cycle.at) /\ Total(cycle.at) <= Total(walked)
    <3>1. walked \in 0..Now /\ cycle.at <= walked
      BY <1>2
    <3>2. walked <= cycle.at + MaxDelay
      BY <1>1, <1>2, <3>1, ConstantsTyped DEF ClockInv, Constants
    <3>3. Before(walked) \in 0..Now /\ Before(walked) <= cycle.at
      BY <1>2, <3>1, <3>2, BeforeTyped
    <3>4. QED
      BY <1>2, <3>1, <3>3, TotalTyped DEF ClockInv
  <2>3. /\ sample'.at \in 0..Now'
        /\ sample'.octets # Missing =>
             sample'.octets \in Nat /\ sample'.octets >= Total(Before(sample.at))' - counted'
    <3>1. sample'.at = walked /\ sample'.octets = cycle.octets
          /\ Total(Before(sample.at))' = Total(Before(walked))
      BY <1>1, <2>1 DEF Total, Before
    <3>2. cycle.octets # Missing =>
             cycle.octets \in Nat /\ cycle.octets >= Total(cycle.at) - counted
      BY <1>1 DEF TrafficInv
    <3>3. counted \in Nat
      BY <1>2, TotalTyped DEF ClockInv
    <3>4. QED
      BY <1>1, <1>2, <2>2, <3>1, <3>2, <3>3
  <2>4. CASE rate' = NoRate
    BY <1>1, <2>3, <2>4 DEF TrafficInv, RateIsReal, NoRate
  <2>5. CASE rate' # NoRate
    <3>1. /\ Missing \notin {sample.octets, cycle.octets}
          /\ walked - sample.at >= 1 /\ cycle.octets >= sample.octets
          /\ rate' = [octets |-> cycle.octets - sample.octets, seconds |-> walked - sample.at]
      <4>1. ~(Missing \in {sample.octets, cycle.octets} \/ walked - sample.at < 1
              \/ cycle.octets < sample.octets)
        BY <2>1, <2>5 DEF Rate
      <4>2. sample.octets \in Nat /\ cycle.octets \in Nat
        BY <1>1, <4>1 DEF TrafficInv
      <4>3. walked - sample.at >= 1 /\ cycle.octets >= sample.octets
        BY <1>2, <1>3, <2>2, <4>1, <4>2
      <4>4. QED
        BY <2>1, <4>1, <4>3 DEF Rate
    <3>2. sample.octets \in Nat /\ cycle.octets \in Nat
      BY <1>1, <3>1 DEF TrafficInv
    <3>3. cycle.octets - sample.octets <= Total(cycle.at) - Total(Before(sample.at))
      BY <1>1, <3>1 DEF TrafficInv
    <3>4. rate'.octets \in Nat /\ rate'.seconds \in 1..sample'.at
      BY <1>2, <1>3, <2>1, <2>2, <3>1, <3>2
    <3>5. sample'.at = walked /\ sample'.at - rate'.seconds = sample.at
          /\ rate'.octets = cycle.octets - sample.octets
      BY <1>2, <1>3, <2>1, <2>2, <3>1
    <3>6. rate'.octets \in 0..(Total(walked) - Total(Before(sample.at)))
      BY <1>2, <1>3, <2>2, <3>2, <3>3, <3>4, <3>5
    <3>7. RateIsReal'
      BY <1>1, <3>5, <3>6 DEF RateIsReal, Total, Before
    <3>8. QED
      BY <1>1, <2>3, <3>4, <3>7 DEF TrafficInv
  <2>6. QED
    BY <2>4, <2>5
<1>6. CASE Succeed /\ "traffic" \notin cycle.answered
  BY <1>4, <1>6 DEF Succeed, Sampled
<1>7. CASE Fail
  BY <1>4, <1>7 DEF Fail
<1>8. QED
  BY <1>5, <1>6, <1>7 DEF End

LEMMA TrafficStep == ClockInv /\ TrafficInv /\ [Next]_vars => TrafficInv'
<1> SUFFICES ASSUME ClockInv, TrafficInv, [Next]_vars PROVE TrafficInv'
  OBVIOUS
<1>1. CASE Tick \/ Reboot \/ XmlPoll \/ Command \/ UNCHANGED vars
  BY <1>1, TrafficKept DEF Tick, Reboot, XmlPoll, Command, dataVars, vars
<1>2. QED
  BY <1>1, TrafficBegin, TrafficEnd DEF Next

LEMMA TrafficInit == Init => TrafficInv
<1> SUFFICES ASSUME Init PROVE TrafficInv
  OBVIOUS
<1>1. /\ totals = <<0>> /\ cycle = Idle /\ counted = 0
      /\ sample = [octets |-> Missing, at |-> 0] /\ rate = NoRate
  BY Zenon DEF Init
<1>2. QED
  BY <1>1 DEF TrafficInv, RateIsReal, Now

\* A rate never claims more octets than came in its time and the duration of a walk before
\* it, nor a negative number, whatever walks fail, however long they take, and whenever the
\* counter starts again (coordinator.py:567, 645, snmp_client.py:627).
THEOREM RateIsRealCorrect == Spec => []RateIsReal
<1>1. Init => ClockInv /\ TrafficInv
  BY ClockInit, TrafficInit
<1>2. ClockInv /\ TrafficInv /\ [Next]_vars => (ClockInv /\ TrafficInv)'
  BY ClockStep, TrafficStep
<1>3. TrafficInv => RateIsReal
  BY DEF TrafficInv
<1>4. QED
  BY <1>1, <1>2, <1>3, PTL DEF Spec

------------------------------------------------------------------------------
\* The time of the last boot.

BootStepKept ==
    /\ boot' # boot /\ Missing \notin {boot, boot'} => stats'.origin # origin
    /\ Available("stats") /\ boot' # Missing
           => Apart(boot', stats'.origin) <= Tolerance + MaxDelay

\* What the sensor of the boot time does when the statistics are sound.
LEMMA SensorStep ==
  ASSUME boot \in Int, origin \in Int, boot # Missing => boot - origin \in 0..MaxDelay,
         stats'.at \in Int, stats'.uptime \in Int, stats'.origin \in Int,
         stats'.uptime # Missing => stats'.at - stats'.uptime - stats'.origin \in 0..MaxDelay,
         UptimeSensor
  PROVE  /\ boot' \in Int /\ origin' \in Int
         /\ boot' # Missing => boot' - origin' \in 0..MaxDelay
         /\ BootStepKept
<1> USE ConstantsTyped DEF Constants
<1>1. CASE ~Available("stats")
  BY <1>1 DEF UptimeSensor, BootStepKept
<1>2. CASE Available("stats") /\ stats'.uptime = Missing
  BY <1>2 DEF UptimeSensor, BootStepKept, Missing
<1>3. CASE Available("stats") /\ stats'.uptime # Missing
  <2> DEFINE reported == stats'.at - stats'.uptime
  <2>1. reported \in Int /\ reported - stats'.origin \in 0..MaxDelay
    BY <1>3
  <2>2. CASE Moved(reported)
    <3>1. boot' = reported /\ origin' = stats'.origin
      BY <1>3, <2>2 DEF UptimeSensor
    <3>2. Apart(boot', stats'.origin) <= Tolerance + MaxDelay
      BY <2>1, <3>1 DEF Apart
    <3>3. boot # Missing => stats'.origin # origin
      <4>1. SUFFICES ASSUME boot # Missing, stats'.origin = origin PROVE FALSE
        OBVIOUS
      <4>2. boot - origin \in 0..MaxDelay /\ reported - origin \in 0..MaxDelay
        BY <2>1, <4>1
      <4>3. Apart(reported, boot) <= Tolerance
        BY <2>1, <4>2 DEF Apart
      <4>4. Apart(reported, boot) > Tolerance
        BY <2>2, <4>1 DEF Moved
      <4>5. Apart(reported, boot) \in Int
        BY <2>1 DEF Apart
      <4>6. QED
        BY <4>3, <4>4, <4>5
    <3>4. QED
      BY <2>1, <3>1, <3>2, <3>3 DEF BootStepKept
  <2>3. CASE ~Moved(reported)
    <3>1. boot' = boot /\ origin' = origin
      BY <1>3, <2>3 DEF UptimeSensor
    <3>2. Apart(reported, boot) <= Tolerance
      BY <2>1, <2>3 DEF Moved, Apart
    <3>3. Apart(boot', stats'.origin) <= Tolerance + MaxDelay
      BY <2>1, <3>1, <3>2 DEF Apart
    <3>4. QED
      BY <3>1, <3>3 DEF BootStepKept
  <2>4. QED
    BY <2>2, <2>3
<1>4. QED
  BY <1>1, <1>2, <1>3

LEMMA BootStep == ClockInv /\ BootInv /\ [Next]_vars => BootInv' /\ [BootStepKept]_vars
<1> SUFFICES ASSUME ClockInv, BootInv, [Next]_vars PROVE BootInv' /\ BootStepKept
  OBVIOUS
<1>1. ASSUME UNCHANGED <<boot, stats, origin, up, ok>>,
             cycle' # Idle => cycle' = cycle \/ cycle'.uptime \in Int
      PROVE  BootInv' /\ BootStepKept
  BY <1>1 DEF BootInv, BootStepKept, Available, Apart
<1>2. CASE Tick \/ Reboot \/ XmlPoll \/ Command \/ UNCHANGED vars
  BY <1>1, <1>2 DEF Tick, Reboot, XmlPoll, Command, dataVars, entityVars, vars
<1>3. CASE Begin
  <2>1. Uptime \in Int
    <3>1. Now - booted \in Int
      BY DEF ClockInv, Now
    <3>2. QED
      BY <3>1, ConstantsTyped DEF Uptime, Constants
  <2>2. cycle'.uptime \in {Uptime, Missing}
    BY <1>3, BeginReads
  <2>3. cycle'.uptime \in Int
    BY <2>1, <2>2 DEF Missing
  <2>4. UNCHANGED <<boot, stats, origin, up, ok>>
    BY <1>3 DEF Begin, dataVars, entityVars
  <2>5. QED
    BY <1>1, <2>3, <2>4
<1>4. CASE End /\ Fail
  <2>1. cycle' = Idle /\ stats' = stats /\ up' = FALSE /\ ("stats" \in ok' => "stats" \in ok)
    BY <1>4 DEF End, Fail
  <2>2. UNCHANGED <<boot, origin>>
    BY <1>4, <2>1 DEF Fail, Notify, UptimeSensor, Available
  <2>3. QED
    BY <2>1, <2>2 DEF BootInv, BootStepKept, Available, Apart
<1>5. CASE End /\ Succeed
  <2>1. cycle # Idle /\ cycle' = Idle /\ up' = TRUE /\ UptimeSensor /\ Now' = Now
    BY <1>5 DEF End, Succeed, Notify, Now, firewallVars
  <2>2. /\ stats'.at \in Int /\ stats'.uptime \in Int /\ stats'.origin \in Int
        /\ stats'.uptime # Missing => stats'.at - stats'.uptime - stats'.origin \in 0..MaxDelay
    <3>1. CASE "stats" \in cycle.answered
      <4>1. stats' = [uptime |-> cycle.uptime, at |-> Now, origin |-> cycle.at - cycle.uptime]
        BY <1>5, <3>1 DEF Succeed
      <4>2. Now \in Nat /\ cycle.at \in 0..Now /\ Now <= cycle.at + MaxDelay /\ cycle.uptime \in Int
        BY <2>1 DEF ClockInv, BootInv, Now
      <4>3. QED
        BY <4>1, <4>2, ConstantsTyped DEF Constants
    <3>2. CASE "stats" \notin cycle.answered
      BY <1>5, <3>2 DEF Succeed, BootInv
    <3>3. QED
      BY <3>1, <3>2
  <2>3. /\ boot' \in Int /\ origin' \in Int
        /\ boot' # Missing => boot' - origin' \in 0..MaxDelay
        /\ BootStepKept
    BY <2>1, <2>2, SensorStep DEF BootInv
  <2>4. QED
    BY <2>1, <2>2, <2>3 DEF BootInv, BootStepKept, Available
<1>6. QED
  BY <1>2, <1>3, <1>4, <1>5 DEF Next, End

\* The boot time that is shown changes only when the agent's clock says that the firewall
\* has booted, however long the cycles take, and is never far off it (sensor.py:707).
THEOREM BootKeptCorrect == Spec => BootKept
<1>1. Init => ClockInv /\ BootInv
  <2>1. Init => BootInv
    <3> SUFFICES ASSUME Init PROVE BootInv
      OBVIOUS
    <3>1. /\ cycle = Idle /\ boot = Missing /\ origin = Missing /\ ok = {}
          /\ stats = [uptime |-> Missing, at |-> 0, origin |-> Missing]
      BY Zenon DEF Init
    <3>2. QED
      BY <3>1 DEF BootInv, Missing
  <2>2. QED
    BY <2>1, ClockInit
<1>2. ClockInv /\ BootInv /\ [Next]_vars => (ClockInv /\ BootInv)'
  BY ClockStep, BootStep
<1>3. ClockInv /\ BootInv /\ [Next]_vars => [BootStepKept]_vars
  BY BootStep
<1>4. QED
  <2>1. [][BootStepKept]_vars => BootKept
    BY PTL DEF BootKept, BootStepKept
  <2>2. QED
    BY <1>1, <1>2, <1>3, <2>1, PTL DEF Spec

------------------------------------------------------------------------------
\* The history of the cycles.

Entry == [at : Nat, due : SUBSET configured, answered : SUBSET configured, sensors : BOOLEAN]

FailedCycles == {i \in DOMAIN log : log[i].due # {}}
HealthAnswers == {i \in DOMAIN log : "health" \in log[i].answered}

\* Only what is polled is due, only what is due answers, and nothing lies in the future.
LogInv ==
    /\ ClockInv
    /\ log \in Seq(Entry)
    /\ \A i \in 1..Len(log) : log[i].at <= Now
    /\ disabled \in SUBSET {"health"}
    /\ cycle # Idle =>
         /\ cycle.due \subseteq configured /\ cycle.answered \subseteq cycle.due
         /\ cycle.answered \subseteq Polled
         /\ cycle.sensors \in BOOLEAN /\ (cycle.sensors => "health" \in cycle.answered)

\* Appending to a sequence.
LEMMA Appended ==
  ASSUME NEW S, NEW e \in S, NEW s \in Seq(S)
  PROVE  /\ Append(s, e) \in Seq(S) /\ Len(Append(s, e)) = Len(s) + 1 /\ Len(s) \in Nat
         /\ DOMAIN s = 1..Len(s) /\ DOMAIN Append(s, e) = 1..(Len(s) + 1)
         /\ \A i \in 1..Len(s) : Append(s, e)[i] = s[i] /\ s[i] \in S
         /\ Append(s, e)[Len(s) + 1] = e
  OBVIOUS

\* Counting the positions of a sequence.
LEMMA Counting ==
  ASSUME NEW n \in Nat, NEW S \in SUBSET (1..n)
  PROVE  /\ IsFiniteSet(S) /\ Cardinality(S) \in Nat
         /\ Cardinality(S \cup {n + 1}) = Cardinality(S) + 1
<1>1. IsFiniteSet(S)
  <2>1. 1 \in Int /\ n \in Int
    OBVIOUS
  <2>2. IsFiniteSet(1..n)
    BY <2>1, FS_Interval
  <2>3. QED
    BY <2>2, FS_Subset
<1>2. n + 1 \notin S
  OBVIOUS
<1>3. QED
  BY <1>1, <1>2, FS_AddElement, FS_CardinalityType

\* What the end of a cycle makes of the history.
LEMMA LogGrows ==
  ASSUME LogInv, End, configured \cap Logged # {}
  PROVE  LET n == Len(log) IN
         /\ n \in Nat /\ DOMAIN log = 1..n /\ DOMAIN log' = 1..(n + 1)
         /\ log' \in Seq(Entry)
         /\ \A i \in 1..n : log'[i] = log[i] /\ log[i] \in Entry
         /\ log'[n + 1] = [at |-> Now, due |-> cycle.due, answered |-> cycle.answered,
                           sensors |-> cycle.sensors]
<1> DEFINE e == [at |-> Now, due |-> cycle.due, answered |-> cycle.answered,
                 sensors |-> cycle.sensors]
<1>1. log' = Append(log, e) /\ cycle # Idle
  BY DEF End
<1>2. e \in Entry
  BY <1>1 DEF LogInv, Entry, ClockInv, Now
<1>3. QED
  BY <1>1, <1>2, Appended DEF LogInv

LEMMA LogStep == LogInv /\ [Next]_vars => LogInv'
<1> SUFFICES ASSUME LogInv, [Next]_vars PROVE LogInv'
  OBVIOUS
<1>1. ClockInv' /\ Now \in Nat /\ Now' \in Nat
  BY ClockStep DEF LogInv, ClockInv, Now
<1>2. CASE UNCHANGED vars \/ Tick \/ Reboot \/ XmlPoll \/ Command
  <2>1. Now <= Now'
    <3>1. Len(totals) <= Len(totals')
      BY <1>2 DEF Tick, Reboot, XmlPoll, Command, vars, firewallVars, LogInv, ClockInv
    <3>2. QED
      BY <1>1, <3>1 DEF Now, LogInv, ClockInv
  <2>2. UNCHANGED <<log, cycle, configured, disabled>>
    BY <1>2 DEF Tick, Reboot, XmlPoll, Command, vars, dataVars
  <2>3. \A i \in 1..Len(log) : log[i].at <= Now'
    <3>1. \A i \in 1..Len(log) : log[i] \in Entry
      BY DEF LogInv
    <3>2. \A i \in 1..Len(log) : log[i].at \in Nat /\ log[i].at <= Now
      BY <3>1 DEF Entry, LogInv
    <3>3. QED
      BY <1>1, <2>1, <3>2
  <2>4. log' \in Seq(Entry)'
    BY <2>2 DEF LogInv, Entry
  <2>5. /\ disabled' \in SUBSET {"health"}
        /\ cycle' # Idle =>
             /\ cycle'.due \subseteq configured' /\ cycle'.answered \subseteq cycle'.due
             /\ cycle'.answered \subseteq Polled'
             /\ cycle'.sensors \in BOOLEAN /\ (cycle'.sensors => "health" \in cycle'.answered)
    BY <2>2 DEF LogInv, Polled
  <2>6. \A i \in 1..Len(log') : log'[i].at <= Now'
    BY <2>2, <2>3
  <2>7. Idle' = Idle
    BY DEF Idle, Missing
  <2>8. QED
    BY <1>1, <2>4, <2>5, <2>6, <2>7 DEF LogInv
<1>3. CASE Begin
  <2>1. UNCHANGED <<totals, log, configured, disabled>>
    BY <1>3 DEF Begin, firewallVars, dataVars
  <2>2. /\ cycle'.due \subseteq Polled /\ cycle'.answered \subseteq cycle'.due
        /\ cycle'.sensors \in BOOLEAN
        /\ cycle'.sensors => "health" \in cycle'.answered
    BY <1>3, BeginReads
  <2>3. log' \in Seq(Entry)' /\ Now' = Now
    BY <2>1 DEF LogInv, Entry, Now
  <2>4. Polled' = Polled /\ Polled \subseteq configured
    BY <2>1 DEF Polled
  <2>5. QED
    BY <1>1, <2>1, <2>2, <2>3, <2>4 DEF LogInv
<1>4. CASE End
  <2>1. UNCHANGED <<totals, configured>> /\ cycle' = Idle
    BY <1>4 DEF End, firewallVars
  <2>2. disabled' \in SUBSET {"health"}
    BY <1>4 DEF End, Fail, Succeed, Detect, LogInv
  <2>3. Now' = Now /\ Entry' = Entry
    BY <2>1 DEF Now, Entry
  <2>4. CASE configured \cap Logged = {}
    <3>1. log' = log
      BY <1>4, <2>4 DEF End
    <3>2. QED
      BY <1>1, <2>1, <2>2, <2>3, <3>1 DEF LogInv
  <2>5. CASE configured \cap Logged # {}
    <3>1. log' \in Seq(Entry)
      BY <1>4, <2>5, LogGrows
    <3>2. \A i \in 1..Len(log') : log'[i].at <= Now
      BY <1>1, <1>4, <2>5, <3>1, LogGrows DEF LogInv
    <3>3. QED
      BY <1>1, <2>1, <2>2, <2>3, <3>1, <3>2 DEF LogInv
  <2>6. QED
    BY <2>4, <2>5
<1>5. QED
  BY <1>2, <1>3, <1>4 DEF Next

LEMMA LogInit == Init => LogInv
<1> SUFFICES ASSUME Init PROVE LogInv
  OBVIOUS
<1>1. log = <<>> /\ disabled = {} /\ cycle = Idle
  BY Zenon DEF Init
<1>2. QED
  BY <1>1, ClockInit DEF LogInv

\* The answers about health are finitely many.
LEMMA AnswersCounted == ASSUME LogInv PROVE Cardinality(HealthAnswers) \in Nat
<1>1. Len(log) \in Nat /\ DOMAIN log = 1..Len(log)
  BY DEF LogInv
<1>2. HealthAnswers \in SUBSET (1..Len(log))
  BY <1>1 DEF HealthAnswers
<1>3. QED
  BY <1>1, <1>2, Counting

------------------------------------------------------------------------------
\* The issue about an agent that never answers.

\* Until the first answer, the program's count and time stamp are those of the history.
IssueInv ==
    /\ ~reached => ok = {}
    /\ configured \cap Logged # {} =>
         /\ reached <=> \E i \in DOMAIN log : log[i].answered # {}
         /\ ~reached =>
              /\ attempts = Cardinality(FailedCycles)
              /\ IF FailedCycles = {} THEN firstFailure = Missing
                 ELSE /\ firstFailure # Missing
                      /\ \E i \in FailedCycles : firstFailure = log[i].at
                      /\ \A i \in FailedCycles : firstFailure <= log[i].at
    /\ IssueEarned

LEMMA IssueStep == LogInv /\ IssueInv /\ [Next]_vars => IssueInv'
<1> SUFFICES ASSUME LogInv, IssueInv, [Next]_vars PROVE IssueInv'
  OBVIOUS
<1>1. CASE UNCHANGED vars \/ Tick \/ Reboot \/ XmlPoll \/ Command \/ Begin
  <2>1. UNCHANGED <<log, configured, ok, reached, attempts, firstFailure, issue>>
    BY <1>1 DEF Tick, Reboot, XmlPoll, Command, Begin, vars, dataVars, issueVars
  <2>2. QED
    BY <2>1 DEF IssueInv, IssueEarned, FailedCycles
<1>2. CASE End
  <2>1. UNCHANGED configured /\ cycle # Idle /\ (Fail \/ Succeed)
    BY <1>2 DEF End
  <2>2. ~reached' => ok' = {} /\ ~reached
    BY <2>1 DEF Fail, Succeed, IssueInv, issueVars
  <2>3. CASE configured \cap Logged = {}
    BY <2>1, <2>2, <2>3 DEF IssueInv, IssueEarned
  <2>4. CASE configured \cap Logged # {}
    <3> DEFINE n == Len(log)
    <3>1. /\ n \in Nat /\ DOMAIN log = 1..n /\ DOMAIN log' = 1..(n + 1)
          /\ \A i \in 1..n : log'[i] = log[i] /\ log[i] \in Entry
          /\ log'[n + 1].at = Now /\ log'[n + 1].due = cycle.due
          /\ log'[n + 1].answered = cycle.answered
      BY <1>2, <2>4, LogGrows
    <3> HIDE DEF n
    <3>2. /\ \A i \in 1..n : log[i].at \in Nat /\ log[i].at <= Now
          /\ Now \in Nat
      BY <3>1 DEF n, LogInv, ClockInv, Now, Entry
    <3>3. FailedCycles \subseteq 1..n
      BY <3>1 DEF FailedCycles
    <3>4. FailedCycles' = IF cycle.due = {} THEN FailedCycles ELSE FailedCycles \cup {n + 1}
      BY <3>1 DEF FailedCycles
    <3>5. Cardinality(FailedCycles) \in Nat
          /\ Cardinality(FailedCycles \cup {n + 1}) = Cardinality(FailedCycles) + 1
      BY <3>1, <3>3, Counting
    <3>6. (\E i \in DOMAIN log' : log'[i].answered # {})
             <=> (\E i \in DOMAIN log : log[i].answered # {}) \/ cycle.answered # {}
      BY <3>1
    <3>7. CASE reached
      <4>1. reached' /\ ~issue /\ ~issue'
        BY <2>1, <2>4, <3>7 DEF Fail, Succeed, IssueInv, IssueEarned, issueVars
      <4>2. \E i \in DOMAIN log' : log'[i].answered # {}
        BY <2>4, <3>6, <3>7 DEF IssueInv
      <4>3. QED
        BY <4>1, <4>2 DEF IssueInv, IssueEarned
    <3>8. CASE ~reached /\ reached'
      <4>1. ~issue' /\ cycle.answered # {}
        BY <2>1, <3>8 DEF Fail, Succeed, IssueInv, LogInv
      <4>2. \E i \in DOMAIN log' : log'[i].answered # {}
        BY <3>6, <4>1
      <4>3. QED
        BY <3>8, <4>1, <4>2 DEF IssueInv, IssueEarned
    <3>9. CASE ~reached /\ ~reached' /\ Succeed
      <4>1. /\ ok' = {} /\ ok' = (ok \ cycle.due) \cup cycle.answered
            /\ cycle.answered # {} \/ cycle.due = {}
            /\ UNCHANGED <<attempts, firstFailure>>
        BY <2>2, <3>9 DEF Succeed
      <4>2. cycle.answered = {} /\ cycle.due = {}
        BY <4>1
      <4>3. issue' <=> issue
        BY <4>1, <3>9 DEF Succeed
      <4>4. FailedCycles' = FailedCycles /\ \A i \in FailedCycles : log'[i] = log[i]
        BY <3>1, <3>3, <3>4, <4>2
      <4>5. ~\E i \in DOMAIN log' : log'[i].answered # {}
        BY <2>4, <3>6, <3>9, <4>2 DEF IssueInv
      <4>6. /\ issue <=> /\ Cardinality(FailedCycles) >= IssueAttempts
                         /\ \E i, j \in FailedCycles : log[j].at - log[i].at >= IssueTime
        BY <2>4, <3>9 DEF IssueInv, IssueEarned, FailedCycles
      <4>7. IssueEarned'
        BY <4>3, <4>4, <4>5, <4>6 DEF IssueEarned, FailedCycles
      <4>8. QED
        BY <2>1, <2>2, <2>4, <3>9, <4>1, <4>4, <4>5, <4>7 DEF IssueInv
    <3>10. CASE ~reached /\ ~reached' /\ Fail
      <4>1. /\ cycle.answered = {} /\ cycle.due # {}
            /\ attempts' = attempts + 1
            /\ firstFailure' = IF firstFailure = Missing THEN Now ELSE firstFailure
            /\ issue' = (issue \/ Hopeless(attempts', firstFailure'))
        BY <3>10 DEF Fail
      <4>2. FailedCycles' = FailedCycles \cup {n + 1} /\ \A i \in FailedCycles : log'[i] = log[i]
        BY <3>1, <3>3, <3>4, <4>1
      <4>3. ~\E i \in DOMAIN log' : log'[i].answered # {}
        BY <2>4, <3>6, <3>10, <4>1 DEF IssueInv
      <4>4. attempts' = Cardinality(FailedCycles')
        BY <2>4, <3>5, <3>10, <4>1, <4>2 DEF IssueInv
      <4>5. /\ firstFailure' # Missing /\ firstFailure' \in Nat
            /\ \E i \in FailedCycles' : firstFailure' = log'[i].at
            /\ \A i \in FailedCycles' : firstFailure' <= log'[i].at
        <5>1. CASE FailedCycles = {}
          BY <2>4, <3>1, <3>2, <3>10, <4>1, <4>2, <5>1 DEF IssueInv, Missing
        <5>2. CASE FailedCycles # {}
          BY <2>4, <3>1, <3>2, <3>3, <3>10, <4>1, <4>2, <5>2 DEF IssueInv, Missing
        <5>3. QED
          BY <5>1, <5>2
      <4>6. /\ issue <=> /\ Cardinality(FailedCycles) >= IssueAttempts
                         /\ \E i, j \in FailedCycles : log[j].at - log[i].at >= IssueTime
        BY <2>4, <3>10 DEF IssueInv, IssueEarned, FailedCycles
      <4>7. IssueAttempts \in Nat /\ IssueTime \in Nat
        BY ReadingsAssumption DEF ReadingsAssumption
      <4>8. \A i \in FailedCycles' : log'[i].at \in Nat /\ log'[i].at <= Now
        <5>1. \A i \in FailedCycles : log'[i].at \in Nat /\ log'[i].at <= Now
          BY <3>2, <3>3, <4>2
        <5>2. log'[n + 1].at \in Nat /\ log'[n + 1].at <= Now
          BY <3>1, <3>2
        <5>3. QED
          BY <4>2, <5>1, <5>2
      <4>9. issue' <=> /\ Cardinality(FailedCycles') >= IssueAttempts
                       /\ \E i, j \in FailedCycles' : log'[j].at - log'[i].at >= IssueTime
        <5>1. ASSUME issue'
              PROVE  /\ Cardinality(FailedCycles') >= IssueAttempts
                     /\ \E i, j \in FailedCycles' : log'[j].at - log'[i].at >= IssueTime
          <6>1. CASE issue
            BY <3>5, <4>2, <4>6, <4>7, <6>1
          <6>2. CASE Hopeless(attempts', firstFailure')
            BY <3>1, <4>2, <4>4, <4>5, <6>2 DEF Hopeless
          <6>3. QED
            BY <4>1, <5>1, <6>1, <6>2
        <5>2. ASSUME Cardinality(FailedCycles') >= IssueAttempts,
                     NEW i \in FailedCycles', NEW j \in FailedCycles',
                     log'[j].at - log'[i].at >= IssueTime
              PROVE  issue'
          <6>1. Now - firstFailure' >= IssueTime
            BY <3>2, <4>5, <4>7, <4>8, <5>2
          <6>2. QED
            BY <4>1, <4>4, <5>2, <6>1 DEF Hopeless
        <5>3. QED
          BY <5>1, <5>2
      <4>10. IssueEarned'
        BY <2>1, <4>3, <4>9 DEF IssueEarned, FailedCycles
      <4>11. QED
        BY <2>1, <2>2, <2>4, <3>10, <4>3, <4>4, <4>5, <4>10 DEF IssueInv
    <3>11. QED
      BY <2>1, <3>7, <3>8, <3>9, <3>10
  <2>5. QED
    BY <2>3, <2>4
<1>3. QED
  BY <1>1, <1>2 DEF Next

\* The issue is raised when, and only when, no cycle got any answer and the failed ones are
\* as many and as far apart as they must be, in every history (coordinator.py:589).
THEOREM IssueEarnedCorrect == Spec => []IssueEarned
<1>1. Init => LogInv
  BY LogInit
<1>2. Init => IssueInv
  <2> SUFFICES ASSUME Init PROVE IssueInv
    OBVIOUS
  <2>1. log = <<>> /\ ok = {} /\ ~reached /\ attempts = 0 /\ firstFailure = Missing /\ ~issue
    BY Zenon DEF Init
  <2>2. DOMAIN log = {}
    BY <2>1
  <2>3. FailedCycles = {} /\ Cardinality(FailedCycles) = 0
    BY <2>2, FS_EmptySet DEF FailedCycles
  <2>4. IssueEarned
    BY <2>1, <2>2, <2>3 DEF IssueEarned, FailedCycles
  <2>5. QED
    BY <2>1, <2>2, <2>3, <2>4 DEF IssueInv
<1>3. LogInv /\ IssueInv /\ [Next]_vars => LogInv' /\ IssueInv'
  BY LogStep, IssueStep
<1>4. IssueInv => IssueEarned
  BY DEF IssueInv
<1>5. QED
  BY <1>1, <1>2, <1>3, <1>4, PTL DEF Spec

------------------------------------------------------------------------------
\* The detection of a virtual appliance.

\* While it is undecided, the program's count is that of the history; and a decision rests on
\* what the history can no longer take back.
HealthInv ==
    /\ virtual \in {"undecided", "no", "yes"}
    /\ "health" \in disabled <=> virtual = "yes"
    /\ virtual = "undecided" =>
         /\ empties = Cardinality(HealthAnswers) /\ empties < Confirmations
         /\ \A i \in HealthAnswers : ~log[i].sensors
    /\ virtual = "no" => \E i \in HealthAnswers : log[i].sensors
    /\ virtual = "yes" =>
         /\ Cardinality(HealthAnswers) >= Confirmations
         /\ \A i \in HealthAnswers : ~log[i].sensors

LEMMA HealthStep == LogInv /\ HealthInv /\ [Next]_vars => HealthInv'
<1> SUFFICES ASSUME LogInv, HealthInv, [Next]_vars PROVE HealthInv'
  OBVIOUS
<1>1. CASE UNCHANGED vars \/ Tick \/ Reboot \/ XmlPoll \/ Command \/ Begin
  <2>1. UNCHANGED <<log, disabled, virtual, empties>>
    BY <1>1 DEF Tick, Reboot, XmlPoll, Command, Begin, vars, dataVars
  <2>2. QED
    BY <2>1 DEF HealthInv, HealthAnswers
<1>2. CASE End
  <2>1. /\ cycle # Idle /\ (cycle.sensors => "health" \in cycle.answered)
        /\ cycle.answered \subseteq configured \ disabled
        /\ cycle.sensors \in BOOLEAN
    BY <1>2 DEF End, LogInv, Polled
  <2>2. (Fail /\ cycle.answered = {}) \/ Succeed
    BY <1>2 DEF End, Fail
  <2>3. CASE "health" \notin cycle.answered
    <3>1. UNCHANGED <<virtual, disabled>> /\ (virtual = "undecided" => empties' = empties)
      <4>1. CASE Fail
        BY <4>1 DEF Fail
      <4>2. CASE Succeed /\ virtual # "undecided"
        BY <4>2 DEF Succeed, Detect
      <4>3. CASE Succeed /\ virtual = "undecided"
        <5>1. empties \in Nat /\ EmptyReads = empties /\ empties < Confirmations
          BY <2>3, <4>3, AnswersCounted DEF HealthInv, EmptyReads
        <5>2. Confirmations \in Nat
          BY ReadingsAssumption DEF ReadingsAssumption
        <5>3. ~cycle.sensors
          BY <2>1, <2>3
        <5>4. QED
          BY <4>3, <5>1, <5>2, <5>3 DEF Succeed, Detect
      <4>4. QED
        BY <2>2, <4>1, <4>2, <4>3
    <3>2. HealthAnswers' = HealthAnswers /\ \A i \in HealthAnswers : log'[i] = log[i]
      <4>1. CASE configured \cap Logged = {}
        BY <1>2, <4>1 DEF End, HealthAnswers
      <4>2. CASE configured \cap Logged # {}
        BY <1>2, <2>3, <4>2, LogGrows DEF HealthAnswers
      <4>3. QED
        BY <4>1, <4>2
    <3>3. QED
      BY <3>1, <3>2 DEF HealthInv
  <2>4. CASE "health" \in cycle.answered
    <3>1. Succeed /\ configured \cap Logged # {} /\ virtual # "yes"
      BY <2>1, <2>2, <2>4 DEF Logged, HealthInv
    <3> DEFINE n == Len(log)
    <3>2. /\ n \in Nat /\ DOMAIN log = 1..n /\ DOMAIN log' = 1..(n + 1)
          /\ \A i \in 1..n : log'[i] = log[i]
          /\ log'[n + 1].answered = cycle.answered /\ log'[n + 1].sensors = cycle.sensors
      BY <1>2, <3>1, LogGrows
    <3> HIDE DEF n
    <3>3. HealthAnswers \subseteq 1..n
      BY <3>2 DEF HealthAnswers
    <3>4. HealthAnswers' = HealthAnswers \cup {n + 1}
      BY <2>4, <3>2 DEF HealthAnswers
    <3>5. /\ Cardinality(HealthAnswers) \in Nat
          /\ Cardinality(HealthAnswers') = Cardinality(HealthAnswers) + 1
      BY <3>2, <3>3, <3>4, Counting
    <3>6. \A i \in HealthAnswers : log'[i] = log[i]
      BY <3>2, <3>3
    <3>7. CASE virtual = "no"
      <4>1. UNCHANGED <<virtual, disabled>>
        BY <3>1, <3>7 DEF Succeed, Detect
      <4>2. \E i \in HealthAnswers' : log'[i].sensors
        BY <3>4, <3>6, <3>7 DEF HealthInv
      <4>3. QED
        BY <3>7, <4>1, <4>2 DEF HealthInv
    <3>8. CASE virtual = "undecided" /\ cycle.sensors
      <4>1. virtual' = "no" /\ disabled' = disabled
        BY <3>1, <3>8 DEF Succeed, Detect
      <4>2. \E i \in HealthAnswers' : log'[i].sensors
        BY <3>2, <3>4, <3>8
      <4>3. QED
        BY <3>8, <4>1, <4>2 DEF HealthInv
    <3>9. CASE virtual = "undecided" /\ ~cycle.sensors
      <4>1. /\ empties' = empties + 1
            /\ IF empties' >= Confirmations
               THEN virtual' = "yes" /\ disabled' = disabled \cup {"health"}
               ELSE UNCHANGED <<virtual, disabled>>
        BY <2>4, <3>1, <3>9 DEF Succeed, Detect, EmptyReads
      <4>2. empties' = Cardinality(HealthAnswers') /\ empties' \in Nat
        BY <3>5, <3>9, <4>1 DEF HealthInv
      <4>3. \A i \in HealthAnswers' : ~log'[i].sensors
        BY <3>2, <3>4, <3>6, <3>9 DEF HealthInv
      <4>4. Confirmations \in Nat
        BY ReadingsAssumption DEF ReadingsAssumption
      <4>5. QED
        BY <3>9, <4>1, <4>2, <4>3, <4>4 DEF HealthInv
    <3>10. QED
      BY <3>1, <3>7, <3>8, <3>9 DEF HealthInv
  <2>5. QED
    BY <2>3, <2>4
<1>3. QED
  BY <1>1, <1>2 DEF Next

\* Health is no longer polled when, and only when, the appliance has answered often enough and
\* never with a sensor, whatever else failed in between (coordinator.py:654).
THEOREM VirtualEarnedCorrect == Spec => []VirtualEarned
<1>1. Init => LogInv
  BY LogInit
<1>2. Init => HealthInv
  <2> SUFFICES ASSUME Init PROVE HealthInv
    OBVIOUS
  <2>1. log = <<>> /\ disabled = {} /\ virtual = "undecided" /\ empties = 0
    BY Zenon DEF Init
  <2>2. HealthAnswers = {} /\ Cardinality(HealthAnswers) = 0
    BY <2>1, FS_EmptySet DEF HealthAnswers
  <2>3. Confirmations \in Nat \ {0}
    BY ReadingsAssumption DEF ReadingsAssumption
  <2>4. QED
    BY <2>1, <2>2, <2>3 DEF HealthInv
<1>3. LogInv /\ HealthInv /\ [Next]_vars => LogInv' /\ HealthInv'
  BY LogStep, HealthStep
<1>4. LogInv /\ HealthInv => VirtualEarned
  <2> SUFFICES ASSUME LogInv, HealthInv PROVE VirtualEarned
    OBVIOUS
  <2>1. Confirmations \in Nat
    BY ReadingsAssumption DEF ReadingsAssumption
  <2>2. Cardinality(HealthAnswers) \in Nat
    BY AnswersCounted
  <2>3. QED
    BY <2>1, <2>2 DEF HealthInv, VirtualEarned, HealthAnswers
<1>5. QED
  BY <1>1, <1>2, <1>3, <1>4, PTL DEF Spec

------------------------------------------------------------------------------
\* The types.

Numbers == Nat \cup {Missing}
Names   == Connections \cup {NoRow}
Reads   == [at : Nat, due : SUBSET configured, answered : SUBSET configured, sensors : BOOLEAN,
            uptime : Numbers, octets : Numbers, row : PortRows, rows : [1..2 -> Names]]

\* What the coordinator keeps about endpoints and attempts, what it has read, and what the
\* entities show.
StateType ==
    /\ hardware \in BOOLEAN /\ configured \in Options /\ ok \in SUBSET configured
    /\ up \in BOOLEAN /\ reached \in BOOLEAN /\ issue \in BOOLEAN
    /\ attempts \in Nat /\ firstFailure \in Numbers /\ empties \in Nat
    /\ virtual \in {"undecided", "no", "yes"}

ReadType ==
    /\ cycle \in {Idle} \cup Reads
    /\ row \in PortRows /\ rows \in [1..2 -> Names]

ValueType ==
    /\ stats \in [uptime : Numbers, at : Nat, origin : Int]
    /\ sample \in [octets : Numbers, at : Nat]
    /\ rate \in [octets : Numbers, seconds : Numbers]

EntityType ==
    /\ switch \in {"on", "off", "unknown", "gone"} /\ link \in {"on", "off", "unknown"}
    /\ boot \in Int /\ origin \in Int
    /\ shown \in Names /\ created \in Names /\ command \in Names

TypeInv == LogInv /\ StateType /\ ReadType /\ ValueType /\ EntityType

\* A cycle in progress has the fields of one.
LEMMA ReadFields ==
  ASSUME ReadType, cycle # Idle
  PROVE  /\ cycle \in Reads /\ cycle.at \in Nat
         /\ cycle.due \in SUBSET configured /\ cycle.answered \in SUBSET configured
         /\ cycle.uptime \in Numbers /\ cycle.octets \in Numbers
         /\ cycle.row \in PortRows /\ cycle.rows \in [1..2 -> Names]
<1>1. cycle \in Reads
  BY DEF ReadType
<1>2. QED
  BY <1>1 DEF Reads

LEMMA BeginType ==
  ASSUME TypeInv, Begin
  PROVE  cycle' \in Reads
<1>1. PICK due \in SUBSET Polled, answered \in SUBSET Polled : cycle' \in Readings(due, answered)
  BY DEF Begin
<1>2. Now \in Nat /\ booted \in 0..Now /\ counted \in 0..Total(Now) /\ Total(Now) \in Nat
  <2>1. Now \in Nat /\ Now \in 0..Now /\ ClockInv
    BY TotalTyped DEF TypeInv, LogInv
  <2>2. QED
    BY <2>1, TotalTyped DEF ClockInv
<1>3. Uptime \in Numbers
  BY <1>2, ConstantsTyped DEF Constants, Uptime, Numbers
<1>4. Total(Now) - counted \in Numbers
  BY <1>2 DEF Numbers
<1>5. due \in SUBSET configured /\ answered \in SUBSET configured
  BY <1>1 DEF Polled
<1>6. row \in PortRows /\ rows \in [1..2 -> Names]
  BY DEF TypeInv, ReadType
<1>7. Missing \in Numbers /\ Now \in Nat
  BY <1>2 DEF Numbers
<1>8. /\ (IF hardware /\ "health" \in answered THEN BOOLEAN ELSE {FALSE}) \subseteq BOOLEAN
      /\ ({Missing} \cup IF "stats" \in answered THEN {Uptime} ELSE {}) \subseteq Numbers
      /\ ({Missing} \cup IF "traffic" \in answered THEN {Total(Now) - counted} ELSE {})
            \subseteq Numbers
      /\ (IF "links" \in answered THEN {"on", "off", "unknown", NoRow} ELSE {row})
            \subseteq PortRows
      /\ (IF "tunnels" \in answered THEN [1..2 -> Connections \cup {NoRow}] ELSE {rows})
            \subseteq [1..2 -> Names]
  BY <1>3, <1>4, <1>6, <1>7 DEF PortRows, Names
<1>9. QED
  BY <1>1, <1>5, <1>7, <1>8 DEF Readings, Reads

\* What a cycle leaves behind.
LEMMA EndState ==
  ASSUME TypeInv, End
  PROVE  StateType' /\ ReadType' /\ ValueType'
<1>1. /\ cycle # Idle /\ cycle' = Idle /\ (Fail \/ Succeed)
      /\ UNCHANGED <<totals, hardware, configured>>
  BY DEF End, firewallVars
<1>2. /\ StateType /\ ReadType /\ ValueType
      /\ Now \in Nat
  BY TotalTyped DEF TypeInv, LogInv
<1>3. /\ cycle.at \in Nat
      /\ cycle.due \in SUBSET configured /\ cycle.answered \in SUBSET configured
      /\ cycle.uptime \in Numbers /\ cycle.octets \in Numbers
      /\ cycle.row \in PortRows /\ cycle.rows \in [1..2 -> Names]
  BY <1>1, <1>2, ReadFields
<1>4. ReadType'
  <2>1. row' \in {row, cycle.row} /\ rows' \in {rows, cycle.rows}
    BY <1>1 DEF Fail, Succeed
  <2>2. row' \in PortRows /\ rows' \in [1..2 -> Names]
    BY <1>2, <1>3, <2>1 DEF ReadType
  <2>3. QED
    BY <1>1, <2>2 DEF ReadType, Idle
<1>5. CASE Fail
  <2>1. UNCHANGED <<stats, sample, rate, empties, virtual, reached>>
        /\ ok' = ok \ cycle.due /\ up' = FALSE
    BY <1>5 DEF Fail, issueVars
  <2>2. attempts' \in Nat /\ firstFailure' \in Numbers /\ issue' \in BOOLEAN
    <3>1. attempts \in Nat /\ firstFailure \in Numbers /\ issue \in BOOLEAN
      BY <1>2 DEF StateType
    <3>2. CASE reached
      BY <1>5, <3>1, <3>2 DEF Fail, issueVars
    <3>3. CASE ~reached
      <4>1. /\ attempts' = attempts + 1
            /\ firstFailure' = IF firstFailure = Missing THEN Now ELSE firstFailure
        BY <1>5, <3>3 DEF Fail
      <4>2. issue' = (issue \/ Hopeless(attempts', firstFailure'))
        BY <1>5, <3>3, Zenon DEF Fail
      <4>3. issue' \in BOOLEAN
        BY <4>2
      <4>4. attempts' \in Nat /\ firstFailure' \in Numbers
        BY <1>2, <3>1, <4>1 DEF Numbers
      <4>5. QED
        BY <4>3, <4>4
    <3>4. QED
      BY <3>2, <3>3
  <2>3. QED
    BY <1>1, <1>2, <1>4, <2>1, <2>2 DEF StateType, ValueType
<1>6. CASE Succeed
  <2>1. ok' = (ok \ cycle.due) \cup cycle.answered /\ up' = TRUE
        /\ UNCHANGED <<attempts, firstFailure>>
    BY <1>6 DEF Succeed
  <2>2. reached' \in BOOLEAN /\ issue' \in BOOLEAN
    BY <1>2, <1>6 DEF Succeed, StateType
  <2>3. empties' \in Nat /\ virtual' \in {"undecided", "no", "yes"}
    BY <1>2, <1>6 DEF Succeed, StateType, Detect, EmptyReads
  <2>4. StateType'
    BY <1>1, <1>2, <1>3, <2>1, <2>2, <2>3 DEF StateType
  <2>5. stats' \in [uptime : Numbers, at : Nat, origin : Int]
    <3>1. cycle.at - cycle.uptime \in Int
      BY <1>3 DEF Numbers, Missing
    <3>2. QED
      BY <1>2, <1>3, <1>6, <3>1 DEF Succeed, ValueType
  <2>6. PICK walked \in cycle.at..Now :
             /\ rate' = IF "traffic" \in cycle.answered THEN Rate(cycle.octets, walked) ELSE rate
             /\ sample' = Sampled(walked)
    BY <1>6 DEF Succeed
  <2>7. walked \in Nat
    BY <1>2, <1>3 DEF Now
  <2>8. sample' \in [octets : Numbers, at : Nat]
    BY <1>2, <1>3, <2>6, <2>7 DEF Sampled, ValueType
  <2>9. rate' \in [octets : Numbers, seconds : Numbers]
    <3>1. NoRate \in [octets : Numbers, seconds : Numbers]
      BY DEF NoRate, Numbers
    <3>2. Rate(cycle.octets, walked) \in [octets : Numbers, seconds : Numbers]
      <4>1. sample.octets \in Numbers /\ sample.at \in Nat
        BY <1>2 DEF ValueType
      <4>2. CASE \/ Missing \in {sample.octets, cycle.octets} \/ walked - sample.at < 1
                 \/ cycle.octets < sample.octets
        BY <3>1, <4>2 DEF Rate
      <4>3. CASE ~ \/ Missing \in {sample.octets, cycle.octets} \/ walked - sample.at < 1
                   \/ cycle.octets < sample.octets
        <5>1. cycle.octets - sample.octets \in Nat /\ walked - sample.at \in Nat
          BY <1>3, <2>7, <4>1, <4>3 DEF Numbers
        <5>2. Rate(cycle.octets, walked) =
                 [octets |-> cycle.octets - sample.octets, seconds |-> walked - sample.at]
          BY <4>3 DEF Rate
        <5>3. QED
          BY <5>1, <5>2 DEF Numbers
      <4>4. QED
        BY <4>2, <4>3
    <3>3. rate' = rate \/ rate' = Rate(cycle.octets, walked)
      BY <2>6
    <3>4. QED
      BY <1>2, <3>2, <3>3 DEF ValueType
  <2>10. QED
    BY <1>4, <2>4, <2>5, <2>8, <2>9 DEF ValueType
<1>7. QED
  BY <1>1, <1>5, <1>6

\* What the entities make of it.
LEMMA EndEntities ==
  ASSUME TypeInv, End
  PROVE  EntityType'
<1>1. /\ row' \in PortRows /\ rows' \in [1..2 -> Names]
      /\ stats' \in [uptime : Numbers, at : Nat, origin : Int]
  BY EndState DEF ReadType, ValueType
<1>2. EntityType /\ switch' = switch /\ command' = command
  BY DEF TypeInv, End, Fail, Succeed
<1>3. CASE UNCHANGED <<boot, link, shown, created, origin>>
  BY <1>2, <1>3 DEF EntityType
<1>4. CASE Notify
  <2>1. boot' \in Int /\ origin' \in Int
    <3>1. stats'.at - stats'.uptime \in Int /\ stats'.origin \in Int /\ Missing \in Int
      BY <1>1 DEF Numbers, Missing
    <3>2. boot \in Int /\ origin \in Int
      BY <1>2 DEF EntityType
    <3>3. QED
      BY <1>4, <3>1, <3>2 DEF Notify, UptimeSensor
  <2>2. link' \in {"on", "off", "unknown"}
    BY <1>1, <1>2, <1>4 DEF Notify, LinkListens, LinkState, EntityType, PortRows
  <2>3. shown' \in Names /\ created' \in Names
    BY <1>1, <1>2, <1>4 DEF Notify, TunnelEntity, EntityType
  <2>4. QED
    BY <1>2, <2>1, <2>2, <2>3 DEF EntityType
<1>5. QED
  BY <1>3, <1>4 DEF End, Fail, Succeed

LEMMA TypeStep == TypeInv /\ [Next]_vars => TypeInv'
<1> SUFFICES ASSUME TypeInv, [Next]_vars PROVE TypeInv'
  OBVIOUS
<1>1. LogInv'
  BY LogStep DEF TypeInv
<1>2. CASE Tick \/ Reboot \/ UNCHANGED vars
  <2>1. UNCHANGED <<hardware, issueVars, dataVars, entityVars, cycle>>
    BY <1>2 DEF Tick, Reboot, vars, firewallVars
  <2>2. QED
    BY <1>1, <2>1 DEF TypeInv, StateType, ReadType, Reads, Idle, ValueType, EntityType,
          issueVars, dataVars, entityVars
<1>3. CASE XmlPoll
  <2>1. UNCHANGED <<hardware, issueVars, dataVars, cycle, boot, origin, shown, created, command>>
        /\ switch' \in {"on", "off", "unknown", "gone"} /\ link' = LinkState /\ row' = row
    BY <1>3 DEF XmlPoll, LinkListens, firewallVars, dataVars
  <2>2. link' \in {"on", "off", "unknown"}
    BY <2>1 DEF LinkState, TypeInv, ReadType, PortRows
  <2>3. QED
    BY <1>1, <2>1, <2>2 DEF TypeInv, StateType, ReadType, Reads, Idle, ValueType, EntityType,
          issueVars, dataVars
<1>4. CASE Command
  <2>1. UNCHANGED <<hardware, issueVars, dataVars, cycle, switch, boot, link, origin, shown,
                    created>>
        /\ command' = rows[1]
    BY <1>4 DEF Command, Named, firewallVars
  <2>2. command' \in Names
    BY <2>1 DEF TypeInv, ReadType
  <2>3. QED
    BY <1>1, <2>1, <2>2 DEF TypeInv, StateType, ReadType, Reads, Idle, ValueType, EntityType,
          issueVars, dataVars
<1>5. CASE Begin
  <2>1. UNCHANGED <<hardware, issueVars, dataVars, entityVars>> /\ cycle' \in Reads
    BY <1>5, BeginType DEF Begin, firewallVars
  <2>2. QED
    BY <1>1, <2>1 DEF TypeInv, StateType, ReadType, Reads, Idle, ValueType, EntityType,
          issueVars, dataVars, entityVars
<1>6. CASE End
  BY <1>1, <1>6, EndState, EndEntities DEF TypeInv
<1>7. QED
  BY <1>2, <1>3, <1>4, <1>5, <1>6 DEF Next

LEMMA TypeInit == Init => TypeInv
<1> SUFFICES ASSUME Init PROVE TypeInv
  OBVIOUS
<1>1. LogInv
  BY LogInit
<1>2. StateType
  BY DEF Init, StateType, Numbers
<1>3. ReadType
  BY DEF Init, ReadType, PortRows, Names
<1>4. ValueType
  BY DEF Init, ValueType, Numbers, Missing, NoRate
<1>5. EntityType
  BY DEF Init, EntityType, Names, Missing
<1>6. QED
  BY <1>1, <1>2, <1>3, <1>4, <1>5 DEF TypeInv

\* The variables of the readings keep their types, for any options, traffic and history.
THEOREM TypeCorrect == Spec => []TypeOK
<1>1. TypeInv => TypeOK
  <2> SUFFICES ASSUME TypeInv PROVE TypeOK
    OBVIOUS
  <2>1. /\ totals \in Seq(Nat) /\ totals # <<>> /\ booted \in 0..Now /\ counted \in Nat
        /\ disabled \in SUBSET {"health"} /\ log \in Seq(Entry)
    <3>1. ClockInv /\ Now \in 0..Now /\ Total(Now) \in Nat
      BY TotalTyped DEF TypeInv, LogInv
    <3>2. QED
      BY <3>1 DEF ClockInv, TypeInv, LogInv
  <2>2. StateType /\ ReadType /\ ValueType /\ EntityType
    BY DEF TypeInv
  <2>3. QED
    BY <2>1, <2>2 DEF TypeOK, StateType, ReadType, Reads, ValueType, EntityType, Numbers, Names,
          PortRows, Entry
<1>2. QED
  BY <1>1, TypeInit, TypeStep, PTL DEF Spec
=============================================================================
