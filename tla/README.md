# A formal model of the Sophos Firewall integration

TLA+ specifications of `custom_components/sophos_firewall`, a Home Assistant
integration that polls a Sophos firewall over its XML API (HTTPS) and over SNMP
(UDP), shows what it reads as entities, and writes to the firewall through
switches and actions. TLC checks the modules on small instances; TLAPS proves
the results that matter most for every value of the constants.

File and line numbers refer to `src/custom_components/sophos_firewall/`.

## The system

Everything runs on Home Assistant's asyncio event loop: one thread, and an
interleaving at every `await`. There is one config entry per firewall, with two
data sources.

| Part | State | Operations | Interacts with | Correct when | Module |
|---|---|---|---|---|---|
| Update cycle (`coordinator.py`) | per endpoint: time of the last fetch, success, logged failure, generation; the data; the update lock | run (scheduled, requested, first), fetch round, auth retry, error handling, bookkeeping; `invalidate` | asked by timer, switches and setup; calls a client; tells its listeners | failed endpoints are retried, data is no older than the tier, availability is honest, an outage is logged once | `Coordinator` |
| SNMP coordinator and its readings (`coordinator.py:500-677`, parts of `sensor.py`, `binary_sensor.py`, `switch.py`) | reached, attempts, empty health reads, traffic sample; boot time, link | the same cycle, plus issue, detection of virtual appliances, rates | repair issues, entities | no false alarm, no appliance taken for virtual after timeouts, no rate that was not there | `Coordinator`, `SnmpReadings` |
| Write switches (`switch.py`) | `_optimistic`, `_written_at` | `_set`, `_handle_coordinator_update` | write through the XML client, invalidate an endpoint of either coordinator | never flip back, return to the firewall's own state | `WriteSwitch` |
| Dynamic entities (`entity.py`) | known, streaks of empty tables and missing objects | `_sync` after every update | entity registry | an object's entity appears once, and is removed only after confirmed absence | `DynamicEntities` |
| XML client (`sophos_client.py`) | the request slot | reads; read-modify-write with verification; block and unblock a device | firewall | no lost update between own requests, one host per address, success only when confirmed | `XmlClient` |
| SNMP client (`snmp_client.py`) | places in flight, sockets | get, walk, retries within a budget | agent | all-or-nothing walks, bounded time, no leaked socket | `SnmpClient` |
| Lifecycle (`__init__.py`, `config_flow.py`, `session.py`, `issues.py`) | entry state, session, settings at setup, dialogs, issues | setup, unload, reload, disable, remove, stop; the flows | all of the above | reloaded exactly once, session closed exactly when the setup is over, no stale issue | `EntryLifecycle` |
| Migration and platforms (`__init__.py:201-300`, `sensor.py`, `binary_sensor.py`, `switch.py`) | unique ids in the entity registry, saved and not | migrate, add, remove | options, both sources | no entity lost that the user did not give up | `EntityRegistry` |
| Actions (`services.py`) | none | block, unblock, URL and rule changes | XML client | only while write access is on | `EntryLifecycle`, `XmlClient` |
| Diagnostics, parsing, texts | none | pure functions | – | – | – |

What is hard about it: a cycle takes seconds and other tasks run meanwhile
(writes, invalidations, reloads, other edits of the firewall); requests for a
refresh may be swallowed by Home Assistant's debouncer; the timer is early by up
to a second; a cycle can fail as a whole, endpoint by endpoint, or because of
the account; a write may be applied although its answer never arrives, or after
its call was given up; setup has awaits at which options change; a hard stop
falls between two saves. `PROJECT.json` lists these hazards line by line, each
with the properties about it.

## Modules

Each component has a module with its state, actions and properties, an `MC`
module with the values that a configuration cannot write, and, where something
is proved, a `Proofs` module. In every module a variable marked *history* is
read by properties only.

    FirewallObjects <- XmlClient  -- implements -->  ObjectUpdate
    Coordinator     <- WriteSwitch                -- implements -->  Coordinator
    DynamicEntities, SnmpClient, SnmpReadings, EntryLifecycle, EntityRegistry

### Coordinator

The shared `SophosCoordinator` with the error handling of the XML source; the
SNMP source is the instance whose errors are only `connection` and `api`.

| Model | Code |
|---|---|
| `last`, `IsDue`, `Due` | `TierScheduler`; half a base interval of tolerance |
| `StartUpdate`, `ScheduledRun`, `RequestedRun`, `NothingDueRun` | `_async_update_data`, `_update` up to the first `gather()` |
| `Answer`, `Fail` | one coroutine of the `gather()`; any order, other steps in between |
| `RetryAuth`, `AuthRejected`, `AccessDenied` | `SophosXmlCoordinator._handle_failures` |
| `FetchLater`, `later` | the second round of a restricted first refresh |
| `FinishUpdate`, `FinishFailed`, `RecordCycle` | the end of `_update`: no `await` between bookkeeping, data and listeners |
| `ScheduleRefresh`, `Invalidate`, `snapshot`, `generation` | `async_schedule_refresh_endpoints`, `invalidate` |
| `timer`, `requested`, `TimerFires`, `DropRequest`, `lastUpdateSuccess` | Home Assistant's DataUpdateCoordinator (external) |
| `Boot`, `Reload` | a failed first refresh, a reload, a restart: a new coordinator |

Time is counted in ticks. A time stamp is kept as its age, which stops growing
at `Horizon`: only comparisons of ages with intervals and with each other
matter, and `ConstantsAssumption` says that `Horizon` is large enough for them.
A cycle lasts at most `MaxCycle` ticks (request timeouts). The next run is
planned `Base` after the end of the last, up to `Early` sooner
(`coordinator.py:164`). A fetched table is represented by the version of the
firewall object at the moment it was read.

The update lock is structure: there is one cycle at a time, a run that finds one
going waits as `requested`, and what is due is determined when it starts.

### WriteSwitch

Extends `Coordinator` with the switches of `switch.py`. A write is three steps:
it is sent (`BeginWrite`), the firewall applies it (`ApplyWrite`), and the answer
arrives (`ConfirmWrite`) or does not (`FailWrite`, before or after the firewall
applied it). A write cancelled with its script (`CancelWrite`) may have been applied
as well, but is no `SophosError` and asks for no re-read: `PromptReread` does not
speak of it, and what it changed is read with its tier. Fetches of a running cycle may fall anywhere between them; for
the IPsec switches, which read over SNMP and write over XML, nothing orders
them. The requests a write consists of are in `XmlClient`.

`Written` names the endpoints that writes invalidate; only these have switches,
and only for these the coordinator alone lets an invalidation happen.

### DynamicEntities

One call of `async_setup_dynamic_entities` (`entity.py`), with its families in
the order `_sync` handles them.

| Model | Code |
|---|---|
| `Setup` | a setup after a reload or restart; families switched off in the options lose their registry entries |
| `Update` | what one cycle leaves behind: endpoints that were fetched, overtaken by an invalidation (`generation`), failed, or not due |
| `Sync`, `Handled`, `Synced`, `LookupFails` | `_sync`, up to the end or to the exception that ends it |
| `EmptyStreak`, `emptyStreak`, `freshEmpty` | `empty_streak`, `last_fetch` |
| `MissingStreak`, `StillConfirming`, `missingStreak`, `freshMissing` | `_still_confirming`, `missing_streak`, `last_missing_fetch` |
| `Stale`, `registry` | `async_remove_stale_entities`, the entity registry |
| `KnownAfter`, `entities` | `known`; the entities of this session |

Of the time stamp `fetched_at` only its change matters: a fetch is fresh until
`_sync` has counted it. A cycle is one step here, since `_sync` runs without
`await` when it is over; `Coordinator` has its steps. The families have endpoints
of their own. Entities are registered when `_sync` adds them (Home Assistant
does so in a task of its own right after it).

### XmlClient, FirewallObjects, ObjectUpdate

`FirewallObjects` is the vocabulary: one object of the firewall's configuration
(a group, a rule or policy, a wireless network), with the entries the
integration changes and a `rest` it must preserve, and the effects of the
operations on it. A behaviour follows one object; calls on different objects
meet in the request slot and in the table of IP hosts only.

| Model | Code |
|---|---|
| `Acquire`, `SlotFree`, `Release`, `holders` | the semaphore of `XML_MAX_CONCURRENT_REQUESTS`, held over all requests of a write (`sophos_client.py:366`) |
| `CheckGroup`, `ListHostsToBlock`, `AddHost` | `block_ip_in_group`: an existing host of the address is reused, whatever its name |
| `ListHostsToUnblock` | `unblock_ip_from_group`: every host of the address |
| `ReadRecord`, `ApplySet`, `SetBase` | `_modify_record_held`: the record is read, changed and written back whole; a wireless network is set by name and value |
| `Confirm`, `ReadBack`, `Visible` | status of the answer; `verify()` of the record read back |
| `FalseConfirmation`, `RequestFails`, `GiveUp`, `LateSet`, `LateAddHost` | an answer of 200 to what was not done; a failed request; one whose answer is not waited for any longer and that the firewall carries out later |
| `Cancel` | an unload of the entry or a stopped script |
| `GetRecords` | one Get of a polling cycle: it shares the slot |
| `AdminEdit`, `AdminEditsHost` | changes in the web admin, at any moment |

`ObjectUpdate` is what the operations promise: a call changes the object at most
once, by the effect of its operation, starting from a state the object had
during this call, and calls do not overlap; a call that failed may still take
effect later. `XmlClient` implements it (`AtomicUpdates`) under the mapping in
which a call is under way while its task holds the slot (`SeenInSlot`,
`AppliedInSlot`).

### SnmpClient

An operation (`Operations`) walks the columns of a table at the same time, each
walk a sequence of requests. A request waits for one of `MaxConcurrent` places
(`Send`), makes up to `Attempts` attempts on a socket of its own each (`Retry`),
and brings the next `Bulk` rows (`Answered`). The first failure (`Fails`) and the
operation's budget (`Expires`) cancel what still runs; a cancelled walk stops at
its next await (`Unwind`), and the error is raised when all have (`Raise`,
`_all_or_nothing`). `Finish` joins the columns by row index and keys them by name
(`Keyed`, `table_column`): unnamed rows are left out and the first row of a name
wins. The agent may renumber its rows at any moment. A GET of scalars is an
operation of one column and one request.

### SnmpReadings

What the coordinator and the entities make of the agent's answers. A cycle is
two steps: `Begin` reads the endpoints at one moment, `End` records them at a
later one (`Succeed`, `Fail`), and the firewall moves on in between (`Tick`,
`Reboot`). The walk of the counters ends at any moment in between, and that is the
time its sample gets (`walked`). A cycle reads at least what failed before
(`MayBeDue`), and any of the rest: a scheduled run the realtime tier and what its
tier says, a run requested soon after it maybe only what was invalidated.

| Model | Code |
|---|---|
| `Rate` | traffic rates from two samples of a counter (`coordinator.py:559-586`) |
| `Sampled`, `Before` | the time of a sample, taken after its walk (`snmp_client.py:624-627`); when that walk may have begun |
| `MayBeDue` | what one cycle reads (`coordinator.py:182-187`, `298-314`) |
| `Moved`, `UptimeSensor` | the boot time sensor and its tolerance (`sensor.py:700-745`); `Wrap` is the overflow of 32-bit TimeTicks |
| `Detect`, `EmptyReads` | detection of virtual appliances (`coordinator.py:654-677`) |
| `Hopeless` | the issue about an agent that never answers (`coordinator.py:600-645`) |
| `LinkState`, `LinkListens`, `XmlPoll` | the interface sensor, fed by both coordinators (`binary_sensor.py:150-200`) |
| `TunnelEntity`, `Named`, `Command` | the row an IPsec switch belongs to (`switch.py:255-300`) |

Two properties allow for what the code cannot know or does not hear of:

* `RateIsReal` compares a rate with the traffic of its time *and of a walk before
  it*. `snmp_client.py:615-617` calls the difference of two sample times the real
  time between the samples. It is that of their ends: the counters of the first
  sample were read during its walk, up to an operation's budget earlier, and when a
  slow walk is followed by a fast one, the rate claims more octets than came in its
  time. By more than one walk it is never wrong.
* `LinkHonest` exempts an outage that began with another endpoint read alone. When the
  re-read of the tunnels after a command fails, the source is down and links are
  still available; when the next run fails too, links are not, but Home Assistant
  tells listeners of the first failure in a row only, and the sensor keeps the
  last link, where `binary_sensor.py:177` has it unknown, until XML is read or the
  source is back. Nothing else makes it differ from its sources.

Left out: an XML outage, the interface sensor of an interface that was never
listed, errors nobody expected, and an issue left by an earlier session, which
is in `EntryLifecycle`.

### EntryLifecycle

The config entry: `BeginSetup`, `Refreshed`, `Preloaded` and `PlatformsReady` are
`async_setup_entry` cut at its awaits. Setup reads the options at three moments
(`UsedWith`): the polling intervals, for which `"fast"` stands, when the coordinator
is built (`BeginSetup`), whether there is SNMP after the first refresh (`Refreshed`),
and write access in the platforms (`PlatformsReady`); what it records as its settings
it reads once, before the platforms (`RunWith`). `RefreshFails` is its three ways to fail;
`Reload`, `FinishUnload`, `Remove`, `SetDisabled`, `Stop`, `Restart` what Home
Assistant does with an entry under its setup lock (external, as the integration
uses it); `Submit`, `UserTested`, `CreateEntry`, `UpdateAndFinish`, `SaveOptions`
the flows of `config_flow.py`, where reauth and reconfigure end in the same
`_async_update_and_finish`; `Notified` the update listener with its comparison of
settings; `StartAction` the check of `services.py`. `RevokedIsOver` is about an
action that keeps the client of an entry that was reloaded meanwhile.

Simplified: unloading succeeds; there is one firewall, so a duplicate is another
dialog for the same one; setup is cancelled only by a stop of Home Assistant;
"exactly once" is claimed of a flow that ends while the entry is loaded and no
reload waits, since for one that ends earlier two reloads in a row are possible
and harmless. A new session is different from the two that may still be in use,
which stands for object identity.

### EntityRegistry

A behaviour follows one family of entities and one object of it. `Setup` migrates
the unique ids (`Migrated`, `Applied`, `Moved`: `_migrate_unique_ids`) and runs the platforms'
setup, which removes what the options switch off (`SwitchedOff`) and adds static
entities; `Add` and `RemoveStale` are dynamic entities; `InterfacesRead` is the
first XML answer that traffic entities wait for. The entry and the registry are
saved separately (`SaveEntry`, `SaveRegistry`), and `Crash` goes back to what was
saved. When an absence counts as confirmed is left to `DynamicEntities`.

## Runs

| Run | Instance | Shows |
|---|---|---|
| `coordinator_xml` | one realtime and one slow endpoint, all four errors, restricted first refresh of the slow one, base 2, early 1 | `FailedIsDue`, `NotStale`, `NoFalseRecovery`: what a cycle records is retried, no older than its tier allows, and honest about an outage |
| `write_switch` | two switches on one slow endpoint, three versions of its object, two invalidations per session, all four errors | `NoFlipBack`, `PromptReread` |
| `write_switch_live` | a slow endpoint with a switch beside a realtime one that may be disabled for the session | `OptimisticEnds`, `FailedRecovers`, `OldDataGoes` |
| `entities` | a guarded family whose endpoint is written, and one that trusts empty tables and confirms missing objects; two objects | `ObjectsShown`, `LastEntityConfirmed`, `MissingConfirmed`, `StaleGoes` |
| `entities_skipped` | both families trust empty tables, the endpoint of the first is written | finding: `ObjectsShown` is violated |
| `xml_client` | two callers, one address and two host names, every kind of object, one edit in the web admin, one late request | `OneHostPerAddress`, `SlotNotLeaked`, `Truthful`, `AtomicUpdates` |
| `snmp_client` | a walk of two columns and one of a single column share two places; two attempts, two rows, one change of the table | `NothingLeaks`, `SocketsInFlight`, `WholeTable`, `OperationsEnd` |
| `lifecycle` | two connection settings, two sets of options, two dialogs, two waiting reloads, three sessions | `SessionsClosed`, `ConnectionCurrent`, `RevokedIsOver`, `IssuesApply`, `PromiseKept`, `ReloadedOnce`, `NeverReplaced` |
| `lifecycle_settings` | the same with one dialog and one reload | finding: `OptionsCurrent` is violated |
| `registry` | every family but the IPsec switches | `OneIdentity`, `CreatedRight`, `OnlyTheUser`, `OrphanRestored`, `Appears` |
| `registry_ipsec` | the IPsec switches | finding: `OnlyTheUser` is violated |
| `readings` | uptime; traffic; links with tunnels; links with health | `RateIsReal`, `BootKept`, `IssueEarned`, `VirtualEarned`, `LinkHonest`, `CommandMatches` |

`TypeOK` is an invariant of `coordinator_xml` and `xml_client`; the other type
invariants are proved.

### Findings

* `entities_skipped`. When an empty table is trusted but its fetch was overtaken
  by an invalidation, `fetched_at` is the one already counted, and if a non-empty
  table removed the key in between, `empty_streak[family.prefix]` raises
  `KeyError` (`entity.py:309`). The exception ends `_sync`: objects of earlier
  families are already `known` but never get an entity, later families are
  skipped, and a non-empty table they missed does not reset their streak. Only
  an endpoint that is both trusted when empty and written is exposed:
  `EP_TUNNELS`, which the IPsec switches invalidate.
* `lifecycle_settings`. The settings of the setup are recorded at `__init__.py:138`,
  after its awaits, while the XML coordinator has read its polling intervals when it
  was built (`coordinator.py:230`), before the first refresh. Intervals saved during
  that refresh reach no listener, which is registered later (`__init__.py:153`),
  and are recorded as those of the setup: the entry polls with the old ones until
  something else reloads it. Whether there is SNMP is exposed in the same way during
  the preload of the SNMP client; write access, read later, is not. Connection settings are not exposed:
  a flow that changes them reloads an entry that is not loaded itself.
* `registry_ipsec`. The IPsec switches are removed from the registry whenever
  there is no SNMP coordinator (`switch.py:70`), also when SNMP is switched on
  and could only not be initialised at this start, where the sensors stay
  (`sensor.py:435`).

### Bounds

`coordinator_xml`, `write_switch`, `write_switch_live`: two endpoints are the
smallest table with a realtime and a slower tier and with partial failures. A
base of two ticks with one tick of earliness is the largest earliness the
tolerance covers, and a slow interval of two bases makes a run fall both before
and on the interval. `Horizon` (7, 5, 3) exceeds every age a property of the run
compares. `MaxGeneration` bounds the invalidations of an endpoint per session and
`MaxVersion` the changes of its object: two writes that overlap one cycle, and an
edit by somebody else between them, need two and three. `Changing` names the
objects that change at all.

`entities`: two families show what one does to the next, two objects what happens
to one while the other is there; the number of confirmations is the real one,
three, and a count stops there because it is only compared with it.

`xml_client`: two callers overlap, one blocking and one unblocking or polling; two
host names are what a second host for one address needs; one edit and one late
request can fall between any two requests. `snmp_client`: two places with three
walks make walks wait for a place, two attempts make an answer come too late, and
its three tables have two rows of one name, an unnamed row before a named one,
and a first index without a row.

`lifecycle`: three sessions are the two in use and a new one; two reloads may wait
at a time (`MaxReloads`); settings and dialogs are symmetric. `registry`: addresses
are the current one and an earlier one with two orphans, options those that
concern the family. `readings`: time up to 5, four cycles, at most one octet a unit,
a cycle of at most one unit with a tolerance of one, an uptime that overflows at
4, three attempts and three units for the issue (three confirmations as in the
code). Uptime and traffic are followed alone, since the concerns share only the
cycle; the realtime endpoint links is followed beside ones of slower tiers, which a
requested run reads without it. A walk of one unit, followed by one of none, is enough
for a rate to claim more than its time brought.

Deadlock is checked except in `readings`, where time and cycles are bounded, and
in `lifecycle_settings`, which ends at its violation.

The proofs have none of these bounds on endpoints, switches, intervals, versions,
callers, hosts, rows, columns, dialogs, reloads or traffic.

### Fairness

* `write_switch_live`: the event loop keeps running, so ticks, runs that are due
  and the steps of a cycle are weakly fair: every request ends with an answer, an
  error or a timeout. A source that is asked again and again answers some time
  (`SF(Answer(e))`): without it nothing recovers. Invalidations, writes, reloads
  and dropped requests are never forced. The only error is `connection`: rejected
  credentials stop polling until the user acts, and access denied fails the whole
  cycle by design, so with either a source may be down for ever.
* `entities` (`StaleGoes`): each family has a fetch that counts again and again.
* `snmp_client` (`OperationsEnd`): timers fire and cancelled tasks run. Nothing is
  assumed of the agent, nor of the order in which requests get their places.
* `registry` (`Appears`): setup is retried and sources are polled.

## Proofs

`tlapm` proves all of the following from the named assumptions of the modules
(`ConstantsAssumption`, `SwitchesAssumption`, `FamiliesAssumption`,
`EditsAssumption`, `TasksAssumption`, `AddressesAssumption`, `SnmpAssumption`,
`LifecycleAssumption`, `ReadingsAssumption`, `FollowedAssumption`), which say no more
than what the constants are, and from two further ones where named below:
`TrustedUnwritten`, and that no IPsec switches are followed.

**CoordinatorProofs.** `Inv` is the inductive invariant of the update cycle: an
endpoint is in at most one place of a cycle (waiting, later, updated, failed), a
cycle deals only with due endpoints and, after the first refresh, with every
failed one, and a source that is down has something due. `FailedIsDue` alone is
not inductive: a cycle that ends must be known to have dealt with what was due.
From it follow `FailedIsDueCorrect`, `AvailableHasDataCorrect`,
`FailuresLoggedCorrect` and `NoFalseRecoveryCorrect`. `RealtimeEveryRunCorrect`
needs `TimerInv`, which relates the ticks left on the timer to the ages of the
realtime endpoints. `NotStaleCorrect` needs `AgeInv`: between two cycles the timer
leaves room for the age of what is available; in a cycle, what it does not fetch
was not due when it started. It holds for any intervals: the options form also allows
60 s for the fast tier with 300 s for the realtime one, and then that tier is read with
every run but is as old as the realtime one, which is why `NotStale` counts an interval
shorter than half the base as half the base (`Span`).

**WriteSwitchProofs.** `SwitchImplementsCoordinator`: every behaviour of
`WriteSwitch` is one of `Coordinator`, so the results above hold under concurrent
writes. `NoFlipBackCorrect` and `OptimisticIsDueCorrect` follow from `SwitchInv`.
Its core, `OptimisticInv`, says that whatever a running cycle read before a write
was confirmed is kept from ending the optimistic state, because the write bumped
the generation; its `VersionsInv` that data never goes back in versions.
`PromptRereadCorrect` needs `PromptInv`: an endpoint that a cycle leaves due was
invalidated during that cycle, and the timer bounds the rest.

**DynamicEntitiesProofs.** `Inv` says that no count runs ahead of the fetches it
counts, and that what is known has its entity. `ObjectsShownCorrect`,
`LastEntityConfirmedCorrect` and `MissingConfirmedCorrect` assume
`TrustedUnwritten`, that no family whose empty table is trusted has an endpoint
that is written; without it `entities_skipped` shows the counterexample.

**XmlClientProofs.** `Inv` says that at most one call holds the slot, that it has
seen every state of its object since (`SeenBy`), and that it adds a host only for
an address that had none when it looked (`AddsFirst`), which stays true because
nobody else in the client writes. From it `SlotNotLeakedCorrect`,
`OneHostPerAddressCorrect`, `TruthfulCorrect`, and `AtomicUpdatesCorrect`: every
step maps to a step of `ObjectUpdate` or to a stutter.

**SnmpClientProofs.** `SocketsInFlightCorrect`, `NothingLeaksCorrect`: a walk that is
off holds nothing, and every walk of an idle operation is off. `WholeTableCorrect`
needs `WalkInv`: while the agent's table has not changed under an operation
(`Intact`), what a walk has read is exactly the rows up to its position
(`RowsUpTo`), and an answer moves the position past the rows it brings. At the end
every column has all rows, and the first row of a name, which the code finds in
the order of reading, is the one of the least index (`KeyedTable`). The least and
the greatest of a set of indexes (`LeastNumber`, `GreatestNumber`) come from the
well-foundedness of the numbers; the latter is why `SnmpAssumption` says that the
agent's indexes are finitely many.

**EntityRegistryProofs.** `Inv` says that the registry in memory and the saved one are
`Sound` (of an object, at most one entity has the id of now or of the current
address, and none is disabled that should not be) and that a running entry's is
migrated. `OneIdentity` alone is not inductive: a crash brings back a saved registry
in any state of migration. The core is what a whole migration does
(`MigratedSound`): after `i` steps of the plan, what is left to move is exactly what
the plan still names, and every entity of the current address has one with its origin
(`Left`, preserved by each step in `MovedLeft`, where the order of the plan, current
address first, is what excludes a collision in the wrong direction). The induction
along the plan is by least counterexample (`UpTo`), and that the recursion defines
the steps at all is `StepsExist`. From it `OneIdentityCorrect` and
`CreatedRightCorrect` for any families, and `LossExplainedCorrect`: a setup of the
IPsec switches without SNMP, the counterexample of `registry_ipsec`, is the only step
but a crash that loses what the user wants to keep. `OnlyTheUserCorrect` and
`OrphanRestoredCorrect` follow for any families but these switches.

**SnmpReadingsProofs.** `RateIsRealCorrect`, from `TrafficInv`: a sample counts at
least the octets up to the beginning of its walk, which is no longer before its time
than `MaxDelay` (`BeforeTyped`), and a boot between two samples only makes their
difference smaller. `BootKeptCorrect`, from `BootInv`: the reported boot time
is that of the agent's clock but for the duration of a cycle, which is within the
tolerance (`MaxDelay <= Tolerance`; an operation's budget is 20 s, the tolerance
60 s). `LinkHonestCorrect`, from `LinkInv`: the sensor shows what its sources make of
the link now, or, in an outage, what they would if links were still available.
`CommandMatchesCorrect`: the switch has heard of every row. `IssueEarnedCorrect` and `VirtualEarnedCorrect` relate
what the program counts to the history of all cycles: until the first answer, its
count and time stamp of failures are those of the history (`IssueInv`); while the
detection is undecided, so is its count of empty answers (`HealthInv`).

**EntryLifecycleProofs.** `Inv` relates the session to the state of the entry
(`SessionInv`), the issues to what they speak of (`IssueInv`), what is stored to what
is in use, unless a reload is on its way (`SettingsInv`), running actions to the
session (`CallInv`) and dialogs to each other (`FlowInv`). From it all seven
properties of the run `lifecycle`.

Proved though no run lists them: `AvailableHasData`, `FailuresLogged`,
`RealtimeEveryRun`, `OptimisticIsDue`, and the types of `WriteSwitch`,
`DynamicEntities`, `EntryLifecycle`, `SnmpClient`, `SnmpReadings` and
`EntityRegistry`.

Only model-checked: liveness (`OptimisticEnds`, `FailedRecovers`, `OldDataGoes`,
`StaleGoes`, `OperationsEnd`, `Appears`), which is out of the prover's reach. Every
other property of the passing runs is proved for all values of the constants. What
the runs that end in a violation refute is refuted by TLC's counterexample.

## Not modelled

* Diagnostics: a redacted dump of the current state.
* Values and formatting of sensors that are pure functions of the data, frozen
  records and constants, the decoding of single SNMP values, building and parsing
  of XML, translations and log messages.
* TLS and connector settings of the HTTP session; the wording of forms; the
  merging of option forms.
* In `services.py`, the resolution of a call to several entries and its errors.
* In `entity.py`, families of one call that share an endpoint.
* Tests, CI scripts and translations are read as statements about the program.

## Plan

1. Done: the update cycle, switches, dynamic entities, both clients, the readings,
   the lifecycle, the registry, and their proofs.
2. An explicit update lock with waiting runs, shown to implement `Coordinator`.
3. The step from `EntityRegistry`'s possibility of a removal to `DynamicEntities`'s
   confirmed one, as a refinement.
