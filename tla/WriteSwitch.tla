---------------------------- MODULE WriteSwitch ----------------------------
(***************************************************************************)
(* The switches of switch.py on top of the update cycle: a switch writes   *)
(* to the firewall, shows what it wrote (_optimistic) until its endpoint   *)
(* has been read again, and has the endpoint re-read in the background.    *)
(* A cycle that read the firewall before the write may end after it.       *)
(*                                                                         *)
(* The write itself is the firewall applying it, followed by the answer    *)
(* that confirms it; either may be missing.  Fetches of the cycle may fall *)
(* between the two: nothing excludes them for the IPsec switches, which    *)
(* read over SNMP and write over XML.                                      *)
(***************************************************************************)
EXTENDS Coordinator

CONSTANTS
    Switches,
    EndpointOf        \* the endpoint that reads the object of a switch

NoSwitch == "no switch"

ASSUME SwitchesAssumption ==
    /\ EndpointOf \in [Switches -> Written]
    /\ NoSwitch \notin Switches

VARIABLES
    optimistic,       \* _optimistic is not None
    writtenAt,        \* _written_at, as an age
    writer,           \* the switch in _write: PARALLEL_UPDATES = 1
    applied,          \* version its write has on the firewall, or NoData
    confirmed,        \* history: version of the last confirmed write
    invalidatedAt     \* history: age of the last invalidation of an endpoint

switchVars == <<optimistic, writtenAt, writer, applied, confirmed>>
allVars == <<vars, switchVars, invalidatedAt>>

------------------------------------------------------------------------------

SwitchInit ==
    /\ Init
    /\ optimistic = [s \in Switches |-> FALSE]
    /\ writtenAt = [s \in Switches |-> Never]
    /\ writer = NoSwitch /\ applied = NoData
    /\ confirmed = [s \in Switches |-> NoData]
    /\ invalidatedAt = Everywhere(Never)

\* A service call reaches a switch whose object has been read.  It need not be
\* available: Home Assistant looks at that before the call waits for its turn.
BeginWrite(s) ==
    /\ writer = NoSwitch
    /\ data[EndpointOf[s]] # NoData
    /\ generation[EndpointOf[s]] < MaxGeneration
    /\ writer' = s
    /\ UNCHANGED <<vars, optimistic, writtenAt, applied, confirmed, invalidatedAt>>

ApplyWrite(s) ==
    /\ writer = s /\ applied = NoData
    /\ firewall[EndpointOf[s]] < MaxVersion
    /\ applied' = firewall[EndpointOf[s]] + 1
    /\ firewall' = [firewall EXCEPT ![EndpointOf[s]] = @ + 1]
    /\ UNCHANGED <<endpointVars, haVars, cycleVars, accessIssue,
                   optimistic, writtenAt, writer, confirmed, invalidatedAt>>

\* _set, from the end of _write on: nothing else runs in between.
EndWrite(s) ==
    /\ writer = s
    /\ writer' = NoSwitch /\ applied' = NoData
    /\ ScheduleRefresh(EndpointOf[s])
    /\ invalidatedAt' = [invalidatedAt EXCEPT ![EndpointOf[s]] = 0]

ConfirmWrite(s) ==
    /\ applied # NoData
    /\ EndWrite(s)
    /\ optimistic' = [optimistic EXCEPT ![s] = TRUE]
    /\ writtenAt' = [writtenAt EXCEPT ![s] = 0]
    /\ confirmed' = [confirmed EXCEPT ![s] = applied]

\* The write failed, or its answer got lost after it had been applied.
FailWrite(s) ==
    /\ EndWrite(s)
    /\ UNCHANGED <<optimistic, writtenAt, confirmed>>

\* The call is cancelled, since a script is stopped: no SophosError, so _set ends where
\* it waits, and does not have the endpoint read again.  A request that is still under
\* way is carried out later, as FirewallChanges.
CancelWrite(s) ==
    /\ writer = s
    /\ writer' = NoSwitch /\ applied' = NoData
    /\ UNCHANGED <<vars, optimistic, writtenAt, confirmed, invalidatedAt>>

\* _handle_coordinator_update, called once the cycle's results are in place.
Reread(s) ==
    /\ writtenAt[s] # Never
    /\ fetchedAt'[EndpointOf[s]] # Never
    /\ fetchedAt'[EndpointOf[s]] < writtenAt[s]

Listen ==
    /\ optimistic' = [s \in Switches |-> optimistic[s] /\ ~Reread(s)]
    /\ writtenAt' = [s \in Switches |-> IF Reread(s) THEN Never ELSE writtenAt[s]]

\* A step of the coordinator no switch takes notice of.
Silently(step) == step /\ UNCHANGED <<switchVars, invalidatedAt>>

\* Listeners hear of every success, and of the first failure in a row.
Notifying(step) ==
    /\ step
    /\ IF lastUpdateSuccess \/ lastUpdateSuccess'
       THEN Listen ELSE UNCHANGED <<optimistic, writtenAt>>
    /\ UNCHANGED <<writer, applied, confirmed, invalidatedAt>>

\* A reload cancels a write in progress and creates the switches anew.
SwitchReload ==
    /\ Reload
    /\ optimistic' = [s \in Switches |-> FALSE]
    /\ writtenAt' = [s \in Switches |-> Never]
    /\ writer' = NoSwitch /\ applied' = NoData
    /\ invalidatedAt' = Everywhere(Never)
    /\ UNCHANGED confirmed

SwitchTick ==
    /\ Tick
    /\ writtenAt' = [s \in Switches |-> Older(writtenAt[s])]
    /\ invalidatedAt' = [e \in Endpoints |-> Older(invalidatedAt[e])]
    /\ UNCHANGED <<optimistic, writer, applied, confirmed>>

SwitchNext ==
    \/ \E s \in Switches :
        BeginWrite(s) \/ ApplyWrite(s) \/ ConfirmWrite(s) \/ FailWrite(s) \/ CancelWrite(s)
    \/ Silently(ScheduledRun \/ RequestedRun)
    \/ Silently(CycleGoesOn)
    \/ Notifying(NothingDueRun)
    \/ Notifying(CycleEnds)
    \/ Silently(DropRequest \/ TimerFires)
    \/ Silently(\E s \in Switches : FirewallChanges(EndpointOf[s]))
    \/ SwitchReload
    \/ SwitchTick

SwitchSpec == SwitchInit /\ [][SwitchNext]_allVars

\* The event loop and the source behave as in Coordinator; writes need not end.
SwitchFairness ==
    /\ WF_allVars(SwitchTick)
    /\ WF_allVars(Silently(ScheduledRun \/ RequestedRun))
    /\ WF_allVars(Notifying(NothingDueRun))
    /\ WF_allVars(Silently(CycleGoesOn))
    /\ WF_allVars(Notifying(CycleEnds))
    /\ \A e \in Endpoints : SF_allVars(Silently(Answer(e)))

SwitchLiveSpec == SwitchSpec /\ SwitchFairness

------------------------------------------------------------------------------
\* Properties.

\* Every variable keeps its type.
SwitchTypeOK ==
    /\ TypeOK
    /\ optimistic \in [Switches -> BOOLEAN]
    /\ writtenAt \in [Switches -> Ages \cup {Never}]
    /\ writer \in Switches \cup {NoSwitch}
    /\ applied \in Versions \cup {NoData}
    /\ confirmed \in [Switches -> Versions \cup {NoData}]
    /\ invalidatedAt \in [Endpoints -> Ages \cup {Never}]

\* A switch never flips back: once it no longer shows its own write, the data
\* it shows was read after that write, whichever cycles, reloads and other
\* writes came in between (coordinator.py:304).
NoFlipBack ==
    \A s \in Switches :
        ~optimistic[s] /\ data[EndpointOf[s]] # NoData
            => data[EndpointOf[s]] >= confirmed[s]

\* While a switch shows its own write, its endpoint is due: no cycle and no
\* swallowed request can leave it showing that for a tier interval.
OptimisticIsDue ==
    \A s \in Switches : optimistic[s] => last[EndpointOf[s]] = Never

\* After a write that was confirmed or failed, an endpoint that answers is read again
\* by the first run after it, however slow its tier (coordinator.py:301).  A write that
\* is cancelled asks for nothing: its endpoint waits for its tier (NotStale).
PromptReread ==
    \A e \in Enabled :
        Available(e) /\ last[e] = Never
            => invalidatedAt[e] <= Base + 2 * MaxCycle

\* A switch stops showing its own write some time.
OptimisticEnds == \A s \in Switches : optimistic[s] ~> ~optimistic[s]
=============================================================================
