---------------------------- MODULE Coordinator ----------------------------
(***************************************************************************)
(* The update cycle of a SophosCoordinator (coordinator.py): which         *)
(* endpoints are due, how a cycle fetches them, what it records, and when  *)
(* the whole source counts as down.  Home Assistant's DataUpdateCoordinator*)
(* around it (timer, debounced requests, last_update_success) is external  *)
(* code, modelled by how the integration uses it.                          *)
(*                                                                         *)
(* One clock tick stands for the resolution of the schedule.  A time stamp *)
(* is kept as its age in ticks, saturating at Horizon, so runs of any      *)
(* length stay finite.  A fetched table is represented by the version of   *)
(* the firewall object it was read from.                                   *)
(***************************************************************************)
EXTENDS Integers

CONSTANTS
    Endpoints,        \* keys of the endpoint table
    Interval,         \* tier interval of each endpoint, in ticks
    Base,             \* interval of the realtime tier = update_interval
    Early,            \* how much before Base Home Assistant may start a run
    Horizon,          \* ages at or above it are not told apart
    MaxCycle,         \* longest update cycle, in ticks (request timeouts)
    FirstRefreshOf,   \* endpoints of the restricted first refresh, {} if none
    Errors,           \* kinds of error the source's client raises
    Written,          \* endpoints whose objects the integration writes
    MayDisable,       \* endpoints _after_update may switch off for a session
    MaxGeneration,    \* bound on invalidations of an endpoint per session
    Changing,         \* endpoints whose objects may change, a bound as well
    MaxVersion        \* bound on changes of a firewall object

Never  == -1          \* a time stamp that was never set
Off    == -1          \* no run scheduled
NoData == 0           \* the data field is None
None   == "none"      \* the endpoint did not fail

Ages == 0..Horizon
Versions == 1..MaxVersion

ASSUME ConstantsAssumption ==
    /\ Interval \in [Endpoints -> Nat]
    /\ Base \in Nat /\ Early \in Nat /\ 2 * Early <= Base
    /\ Horizon \in Nat \ {0}
    /\ \A e \in Endpoints : 2 * Interval[e] <= 2 * Horizon + Base
    /\ MaxCycle \in Nat \ {0}
    /\ FirstRefreshOf \subseteq Endpoints
    /\ Written \subseteq Changing /\ Changing \subseteq Endpoints
    /\ MayDisable \subseteq Endpoints
    /\ Errors \subseteq {"connection", "auth", "access", "api"}
    /\ MaxGeneration \in Nat
    /\ MaxVersion \in Nat \ {0}

VARIABLES
    last,               \* TierScheduler._last
    fetchedAt,          \* _fetched_at
    generation,         \* _generation
    ok,                 \* _ok: "unset" before the first fetch
    failureLogged,      \* _failure_logged
    disabled,           \* _runtime_disabled
    data,               \* DataUpdateCoordinator.data, field by field
    lastUpdateSuccess,  \* DataUpdateCoordinator.last_update_success
    restricted,         \* _restrict_to is set: the first refresh of a setup
    timer,              \* ticks until the scheduled run, or Off
    requested,          \* a refresh was requested and has not started
    phase,              \* of the cycle that holds _update_lock
    waiting,            \* endpoints of the current gather() still running
    later,              \* endpoints left for a second round
    snapshot,           \* _generation when the cycle started
    updates, failures,  \* results of the cycle
    elapsed,            \* ticks since the cycle started
    accessIssue,        \* repair issue api_access_denied
    firewall            \* current version of each endpoint's object

endpointVars == <<last, fetchedAt, generation, ok, failureLogged, disabled, data>>
haVars == <<lastUpdateSuccess, restricted, timer, requested>>
cycleVars == <<phase, waiting, later, snapshot, updates, failures, elapsed>>
vars == <<endpointVars, haVars, cycleVars, accessIssue, firewall>>

------------------------------------------------------------------------------

Enabled == Endpoints \ disabled

\* Mutants of IsDue: the tolerance on the wrong side, doubled; an endpoint is
\* fetched once only.
IsDueLate(e) == last[e] = Never \/ last[e] >= Interval[e] + Base
IsDueOnce(e) == last[e] = Never

\* TierScheduler.is_due: half a base interval of tolerance, both sides doubled.
IsDue(e) == last[e] = Never \/ 2 * last[e] >= 2 * Interval[e] - Base

Due == {e \in Enabled : IsDue(e)}

Updated == {e \in Endpoints : updates[e] # NoData}
Failed(kinds) == {e \in Endpoints : failures[e] \in kinds}

\* What an entity fed by e reports: the source is up, the last fetch succeeded.
Available(e) == lastUpdateSuccess /\ ok[e] = "ok"

\* self.data is not None: some cycle has succeeded in this session.
HasData == \E e \in Endpoints : data[e] # NoData

Everywhere(value) == [e \in Endpoints |-> value]

Init ==
    /\ last = Everywhere(Never) /\ fetchedAt = Everywhere(Never)
    /\ generation = Everywhere(0)
    /\ ok = Everywhere("unset") /\ failureLogged = {} /\ disabled = {}
    /\ data = Everywhere(NoData)
    /\ lastUpdateSuccess = TRUE
    /\ restricted = (FirstRefreshOf # {})
    /\ timer = IF FirstRefreshOf = {} THEN Base ELSE Off
    /\ requested = TRUE
    /\ phase = "idle" /\ waiting = {} /\ later = {} /\ elapsed = 0
    /\ snapshot = Everywhere(0)
    /\ updates = Everywhere(NoData) /\ failures = Everywhere(None)
    /\ accessIssue = FALSE
    /\ firewall = Everywhere(1)

\* The cycle is over: its local variables are gone.
EndCycle ==
    /\ phase' = "idle" /\ waiting' = {} /\ later' = {} /\ elapsed' = 0
    /\ snapshot' = Everywhere(0)
    /\ updates' = Everywhere(NoData) /\ failures' = Everywhere(None)

\* The entry is set up anew, with a new coordinator and its first refresh.
Boot ==
    /\ last' = Everywhere(Never) /\ fetchedAt' = Everywhere(Never)
    /\ generation' = Everywhere(0)
    /\ ok' = Everywhere("unset") /\ failureLogged' = {} /\ disabled' = {}
    /\ data' = Everywhere(NoData)
    /\ lastUpdateSuccess' = TRUE
    /\ restricted' = (FirstRefreshOf # {})
    /\ timer' = IF FirstRefreshOf = {} THEN Base ELSE Off
    /\ requested' = TRUE
    /\ EndCycle

------------------------------------------------------------------------------
\* Start of a run.

\* _update up to the first gather(): a restricted first refresh keeps the
\* endpoints it was not asked for aside, unless none of its own is due.
StartUpdate ==
    /\ phase = "idle"
    /\ Due # {}
    /\ LET limited == IF restricted THEN Due \cap FirstRefreshOf ELSE {}
       IN waiting' = IF limited = {} THEN Due ELSE limited
    /\ later' = Due \ waiting'
    /\ phase' = "fetching"
    /\ snapshot' = generation
    /\ UNCHANGED <<endpointVars, lastUpdateSuccess, restricted, updates, failures,
                   elapsed, accessIssue, firewall>>

ScheduledRun ==
    /\ timer = 0
    /\ timer' = Off
    /\ UNCHANGED requested
    /\ StartUpdate

RequestedRun ==
    /\ requested
    /\ requested' = FALSE
    /\ UNCHANGED timer
    /\ StartUpdate

\* Mutants of Rearmed: runs planned too late; no run planned.
RearmedLate == Base..(Base + Early)
RearmedNever == {Off}

\* The next run is planned Base after the end of this one, up to Early sooner.
Rearmed == (Base - Early)..Base

\* Nothing is due: the run returns the previous data, and counts as a success.
NothingDueRun ==
    /\ phase = "idle"
    /\ timer = 0 \/ requested
    /\ Due = {}
    /\ requested' = FALSE
    /\ lastUpdateSuccess' = TRUE
    /\ timer' \in Rearmed
    /\ UNCHANGED <<endpointVars, restricted, cycleVars, accessIssue, firewall>>

------------------------------------------------------------------------------
\* The cycle.

\* One coroutine of the gather() reads its object, or raises.
Answer(e) ==
    /\ e \in waiting
    /\ waiting' = waiting \ {e}
    /\ updates' = [updates EXCEPT ![e] = firewall[e]]
    /\ UNCHANGED <<endpointVars, haVars, phase, later, snapshot, failures, elapsed,
                   accessIssue, firewall>>

Fail(e, error) ==
    /\ e \in waiting
    /\ waiting' = waiting \ {e}
    /\ failures' = [failures EXCEPT ![e] = error]
    /\ UNCHANGED <<endpointVars, haVars, phase, later, snapshot, updates, elapsed,
                   accessIssue, firewall>>

\* The gather() returned.  Network requests take at least one clock reading.
RoundDone == phase # "idle" /\ waiting = {} /\ elapsed > 0

\* _handle_failures: an authentication error is retried once, after a pause.
RetryAuth ==
    /\ RoundDone
    /\ phase = "fetching"
    /\ Failed({"auth"}) # {}
    /\ phase' = "retrying"
    /\ waiting' = Failed({"auth"})
    /\ failures' = [e \in Endpoints |-> IF failures[e] = "auth" THEN None ELSE failures[e]]
    /\ UNCHANGED <<endpointVars, haVars, later, snapshot, updates, elapsed,
                   accessIssue, firewall>>

\* A failed first refresh fails the setup: Home Assistant drops the coordinator
\* and sets the entry up again.  Otherwise the results of the cycle are gone.
GiveUp(nextRun) ==
    IF restricted
    THEN Boot
    ELSE /\ EndCycle
         /\ lastUpdateSuccess' = FALSE
         /\ timer' \in nextRun
         /\ UNCHANGED <<endpointVars, restricted, requested>>

\* ConfigEntryAuthFailed: polling stops until the user has logged in again.
AuthRejected ==
    /\ RoundDone
    /\ phase = "retrying"
    /\ Failed({"auth"}) # {}
    /\ GiveUp({Off})
    /\ UNCHANGED <<accessIssue, firewall>>

\* The retry settled every authentication error of this round.
Settled == RoundDone /\ Failed({"auth"}) = {}

\* Access denied concerns the whole account: nothing of the cycle is recorded.
AccessDenied ==
    /\ Settled
    /\ Failed({"access"}) # {}
    /\ accessIssue' = TRUE
    /\ GiveUp(Rearmed)
    /\ UNCHANGED firewall

Unreachable == Updated = {} /\ Failed(Errors \ {"connection"}) = {}

\* The restricted first refresh got errors but no data: fetch the rest, too.
WantsLater == later # {} /\ Updated = {} /\ ~Unreachable

FetchLater ==
    /\ Settled
    /\ Failed({"access"}) = {}
    /\ WantsLater
    /\ phase' = "fetching"
    /\ waiting' = later
    /\ later' = {}
    /\ UNCHANGED <<endpointVars, haVars, snapshot, updates, failures, elapsed,
                   accessIssue, firewall>>

\* Mutants of Fetched: failed endpoints count, too; the invalidation of a running
\* cycle is ignored; an endpoint that was ever invalidated never counts again.
FetchedOrFailed == Updated \cup Failed(Errors)
FetchedAnyGeneration == Updated
FetchedNeverInvalidated == {e \in Updated : generation[e] = 0}

\* Updates that no invalidation overtook: only these count as fetched.
Fetched == {e \in Updated : generation[e] = snapshot[e]}

\* The bookkeeping of every cycle that gets past the error handling.
RecordCycle ==
    /\ last' = [e \in Endpoints |-> IF e \in Fetched THEN 0 ELSE last[e]]
    /\ fetchedAt' = [e \in Endpoints |-> IF e \in Fetched THEN 0 ELSE fetchedAt[e]]
    /\ ok' = [e \in Endpoints |-> IF e \in Updated THEN "ok"
                                  ELSE IF failures[e] # None THEN "failed" ELSE ok[e]]
    /\ failureLogged' = (failureLogged \ Updated)
                            \cup (IF Unreachable THEN {} ELSE Failed(Errors))

CycleDone ==
    /\ Settled
    /\ Failed({"access"}) = {}
    /\ ~WantsLater

\* UpdateFailed: the source is unreachable, or there is still nothing to show.
NothingToShow == Unreachable \/ (~HasData /\ Updated = {})

FinishFailed ==
    /\ CycleDone
    /\ NothingToShow
    /\ IF restricted
       THEN Boot
       ELSE /\ RecordCycle
            /\ EndCycle
            /\ lastUpdateSuccess' = FALSE
            /\ timer' \in Rearmed
            /\ UNCHANGED <<generation, disabled, data, restricted, requested>>
    /\ UNCHANGED <<accessIssue, firewall>>

\* The cycle's data replaces the fields that were read.  After the restricted
\* refresh the listeners of the platforms start the timer, and setup requests
\* the other endpoints.
FinishUpdate ==
    /\ CycleDone
    /\ ~NothingToShow
    /\ RecordCycle
    /\ data' = [e \in Endpoints |-> IF e \in Updated THEN updates[e] ELSE data[e]]
    /\ \E D \in SUBSET (Updated \cap MayDisable) : disabled' = disabled \cup D
    /\ accessIssue' = (accessIssue /\ Updated = {})
    /\ lastUpdateSuccess' = TRUE
    /\ restricted' = FALSE
    /\ requested' = (requested \/ restricted)
    /\ timer' \in Rearmed
    /\ EndCycle
    /\ UNCHANGED <<generation, firewall>>

------------------------------------------------------------------------------
\* The surroundings of a cycle.

\* async_schedule_refresh_endpoints: e is due again, and a cycle that is
\* running now may have read it too early.
Invalidate(e) ==
    /\ last' = [last EXCEPT ![e] = Never]
    /\ generation' = [generation EXCEPT ![e] = @ + 1]

ScheduleRefresh(e) ==
    /\ ~restricted
    /\ generation[e] < MaxGeneration
    /\ Invalidate(e)
    /\ requested' = TRUE
    /\ UNCHANGED <<fetchedAt, ok, failureLogged, disabled, data, lastUpdateSuccess,
                   restricted, timer, cycleVars, accessIssue, firewall>>

\* A request that meets a running refresh may be swallowed by the debouncer.
DropRequest ==
    /\ requested
    /\ phase # "idle"
    /\ requested' = FALSE
    /\ UNCHANGED <<endpointVars, lastUpdateSuccess, restricted, timer, cycleVars,
                   accessIssue, firewall>>

\* The timer fires while a cycle runs: the scheduled run waits for the lock.
TimerFires ==
    /\ timer = 0
    /\ phase # "idle"
    /\ timer' = Off
    /\ requested' = TRUE
    /\ UNCHANGED <<endpointVars, lastUpdateSuccess, restricted, cycleVars,
                   accessIssue, firewall>>

\* The entry is reloaded, or Home Assistant restarts, at any moment.
Reload == Boot /\ UNCHANGED <<accessIssue, firewall>>

\* Somebody changes the object on the firewall.
FirewallChanges(e) ==
    /\ e \in Changing /\ firewall[e] < MaxVersion
    /\ firewall' = [firewall EXCEPT ![e] = @ + 1]
    /\ UNCHANGED <<endpointVars, haVars, cycleVars, accessIssue>>

Older(age) == IF age = Never \/ age = Horizon THEN age ELSE age + 1

\* A run that is due starts at once; a cycle ends within MaxCycle.
Tick ==
    /\ ~(phase = "idle" /\ timer = 0)
    /\ phase # "idle" => elapsed < MaxCycle
    /\ last' = [e \in Endpoints |-> Older(last[e])]
    /\ fetchedAt' = [e \in Endpoints |-> Older(fetchedAt[e])]
    /\ elapsed' = IF phase = "idle" THEN elapsed ELSE elapsed + 1
    /\ timer' = IF timer > 0 THEN timer - 1 ELSE timer
    /\ UNCHANGED <<generation, ok, failureLogged, disabled, data, lastUpdateSuccess,
                   restricted, requested, phase, waiting, later, snapshot, updates,
                   failures, accessIssue, firewall>>

Run == ScheduledRun \/ RequestedRun \/ NothingDueRun

CycleGoesOn ==
    \/ \E e \in Endpoints : Answer(e) \/ \E error \in Errors : Fail(e, error)
    \/ RetryAuth \/ FetchLater

CycleEnds == AuthRejected \/ AccessDenied \/ FinishFailed \/ FinishUpdate

Next ==
    \/ Run
    \/ CycleGoesOn \/ CycleEnds
    \/ \E e \in Written : ScheduleRefresh(e)
    \/ \E e \in Endpoints : FirewallChanges(e)
    \/ DropRequest \/ TimerFires \/ Reload \/ Tick

Spec == Init /\ [][Next]_vars

\* The event loop runs every callback and every request ends, at the latest
\* with a timeout; a source that is asked again and again answers some time.
Fairness ==
    /\ WF_vars(Tick) /\ WF_vars(ScheduledRun) /\ WF_vars(RequestedRun)
    /\ WF_vars(NothingDueRun) /\ WF_vars(CycleGoesOn) /\ WF_vars(CycleEnds)
    /\ \A e \in Endpoints : SF_vars(Answer(e))

LiveSpec == Spec /\ Fairness

------------------------------------------------------------------------------
\* Properties.

\* Every variable keeps its type.
TypeOK ==
    /\ last \in [Endpoints -> Ages \cup {Never}]
    /\ fetchedAt \in [Endpoints -> Ages \cup {Never}]
    /\ generation \in [Endpoints -> Nat]
    /\ ok \in [Endpoints -> {"unset", "ok", "failed"}]
    /\ failureLogged \subseteq Endpoints
    /\ disabled \subseteq Endpoints
    /\ data \in [Endpoints -> Versions \cup {NoData}]
    /\ lastUpdateSuccess \in BOOLEAN
    /\ restricted \in BOOLEAN
    /\ timer \in 0..Base \cup {Off}
    /\ requested \in BOOLEAN
    /\ phase \in {"idle", "fetching", "retrying"}
    /\ waiting \subseteq Endpoints
    /\ later \subseteq Endpoints
    /\ snapshot \in [Endpoints -> Nat]
    /\ updates \in [Endpoints -> Versions \cup {NoData}]
    /\ failures \in [Endpoints -> Errors \cup {None}]
    /\ elapsed \in 0..MaxCycle
    /\ accessIssue \in BOOLEAN
    /\ firewall \in [Endpoints -> Versions]

\* An endpoint whose last fetch did not succeed is due, whatever happened to
\* the cycles in between: it is retried on the next run (coordinator.py:34).
FailedIsDue == \A e \in Enabled : ok[e] # "ok" => IsDue(e)

\* An endpoint that counts as available has data to show: entities never show
\* fabricated values (coordinator.py:32).
AvailableHasData == \A e \in Endpoints : ok[e] = "ok" => data[e] # NoData

\* A failure is on record as logged exactly while it lasts, unless the whole
\* source is down, which Home Assistant logs instead (coordinator.py:39).
FailuresLogged ==
    /\ \A e \in failureLogged : ok[e] = "failed"
    /\ lastUpdateSuccess => \A e \in Enabled : ok[e] = "failed" => e \in failureLogged

\* Twice the interval of an endpoint: one that is shorter than half the base, which the
\* options allow, says nothing, since it is read by every run all the same.
Span(e) == IF 2 * Interval[e] < Base THEN Base ELSE 2 * Interval[e]

\* What an available entity shows was fetched at most its tier interval, half a
\* base interval and two cycles ago: the run before was just too early for it.
NotStale ==
    \A e \in Enabled :
        Available(e) => 2 * last[e] < Span(e) + Base + 4 * MaxCycle

\* A source that was down comes back only in a cycle in which it answered
\* something, be it an API error: a run with nothing due must not revive it.
Revived == ~lastUpdateSuccess /\ lastUpdateSuccess' /\ ~Reload

NoFalseRecovery ==
    [][Revived => Updated \cup Failed(Errors \ {"connection"}) # {}]_vars

\* Every scheduled run reads all of the realtime tier, however early Home
\* Assistant starts it (TierScheduler's tolerance, coordinator.py:162).
Realtime == {e \in Enabled : Interval[e] <= Base}

RealtimeEveryRun ==
    [][timer = 0 /\ Run => Realtime \subseteq waiting']_vars

\* A failed endpoint is read again as long as the source answers now and then.
FailedRecovers == \A e \in Endpoints : ok[e] = "failed" ~> ok[e] # "failed"

\* Old data does not stay: a change on the firewall is shown some time, unless
\* polling was switched off for the session or a reload discards the data first.
OldDataGoes ==
    \A e \in Endpoints :
        data[e] \notin {NoData, firewall[e]}
            ~> data[e] \in {NoData, firewall[e]} \/ e \in disabled
=============================================================================
