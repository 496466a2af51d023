-------------------------- MODULE EntryLifecycle --------------------------
(***************************************************************************)
(* The life of the config entry of one firewall: how the flows of          *)
(* config_flow.py create and change it, how __init__.py sets it up, in     *)
(* steps with awaits in between, and unloads it, and how Home Assistant    *)
(* runs reloads one after another, disables and removes the entry, stops   *)
(* and starts.  Every setup opens an HTTP session of its own, which        *)
(* polling and the actions of services.py use.                             *)
(*                                                                         *)
(* "data" are the connection settings, of which the firewall accepts one   *)
(* value; "options" is the set of what the user has switched on: short     *)
(* polling intervals ("fast"), SNMP, write access.                         *)
(***************************************************************************)
EXTENDS Integers, FiniteSets

CONSTANTS
    Data,         \* connection settings a user may enter
    Options,      \* sets of options a user may choose
    Sessions,     \* identities of HTTP sessions
    Flows,        \* dialogs that may be open at the same time
    MaxReloads    \* bound on the reloads waiting for their turn

None == "none"

\* A new session is another one than the two that may still be in use.
ASSUME LifecycleAssumption ==
    /\ Options \subseteq SUBSET {"fast", "snmp", "write"}
    /\ MaxReloads \in Nat
    /\ None \notin Data \cup Sessions
    /\ \A a, b \in Sessions \cup {None} : \E s \in Sessions : s \notin {a, b}

VARIABLES
    state,      \* ConfigEntryState, or "absent"; "stopped": Home Assistant is not running
    step,       \* where setup is: "refresh", "snmp", "platforms"
    removing,   \* the running unload belongs to the removal of the entry
    entry,      \* what is stored: data, options, disabled
    used,       \* data and options as setup has read them, and whether SNMP is in use
    settings,   \* runtime_data.settings, while Running
    session,    \* the session of the last setup
    open,       \* sessions that are not closed
    polling,    \* the XML coordinator goes on polling
    issues,     \* repair issues of the entry
    reloads,    \* reloads that wait for the setup lock
    promised,   \* history: a flow has told the user that the entry is set up again
    flow,       \* of a dialog: kind, where it is, the data entered
    call,       \* session of a running action, or None
    accepted    \* connection settings the firewall accepts

vars == <<state, step, removing, entry, used, settings, session, open, polling, issues,
          reloads, promised, flow, call, accepted>>

entryVars == <<entry, reloads, promised, flow>>
setupVars == <<state, step, removing, used, settings, session, open>>

Idle == [kind |-> None, at |-> None, data |-> None]
NoEntry == [data |-> None, options |-> {}, disabled |-> FALSE]
NotRecorded == [data |-> None, options |-> {}]
NotUsed == [data |-> None, options |-> {}, snmp |-> FALSE]

\* Setup and unload hold the setup lock.
Unlocked == state \notin {"absent", "stopped", "setup_in_progress", "unload_in_progress"}

\* runtime_data is there, with coordinators that poll and an update listener.
Running == state \in {"loaded", "unload_in_progress"} \/ step = "platforms"

\* What a change of the entry's state leaves of its issues.
Told(left) == IF entry.disabled THEN {} ELSE left

Init ==
    /\ state = "absent" /\ step = None /\ removing = FALSE
    /\ accepted \in Data
    /\ entry = NoEntry /\ used = NotUsed /\ settings = NotRecorded
    /\ session = None
    /\ open = {} /\ polling = FALSE /\ issues = {}
    /\ reloads = 0 /\ promised = FALSE
    /\ flow = [f \in Flows |-> Idle]
    /\ call = None

------------------------------------------------------------------------------
(* Setup: __init__.py, async_setup_entry.                                  *)

\* Up to the first await: a new session, and a client and a coordinator with the
\* connection settings and the polling intervals of this moment.
BeginSetup(e, left) ==
    /\ state' = "setup_in_progress" /\ step' = "refresh"
    /\ session' = CHOOSE s \in Sessions : s \notin open \cup {call}
    /\ open' = left \cup {session'}
    /\ used' = [data |-> e.data, options |-> e.options \cap {"fast"}, snmp |-> FALSE]
    /\ settings' = NotRecorded
    /\ promised' = FALSE

\* Mutant of StillOpen: what setup registered with async_on_unload is not run.
StillOpenAll == open

\* The functions registered with async_on_unload have run, or setup has failed.
StillOpen == open \ {session}

\* The session is closed and runtime_data, client and coordinators are given up.
GiveUp ==
    /\ open' = StillOpen
    /\ session' = None
    /\ used' = NotUsed /\ settings' = NotRecorded
    /\ polling' = FALSE

\* The first refresh fails: the session is closed, and setup is tried again later,
\* or never with rejected credentials.
RefreshFails(next) ==
    /\ state = "setup_in_progress" /\ step = "refresh"
    /\ state' = next /\ step' = None
    /\ GiveUp
    /\ UNCHANGED <<removing, call, accepted, entryVars>>

Unreachable == RefreshFails("setup_retry") /\ issues' = Told(issues)

AccessDenied == RefreshFails("setup_retry") /\ issues' = Told(issues \cup {"api"})

Rejected ==
    /\ used.data # accepted
    /\ RefreshFails("setup_error")
    /\ issues' = Told(issues)

\* The options setup has used so far, with one that it reads now.
UsedWith(option) == used.options \cup (entry.options \cap {option})

\* Mutant of RunWith: the issue of an SNMP agent outlives the coordinator.
RunWithIssue(snmp, left) ==
    /\ step' = "platforms"
    /\ used' = [used EXCEPT !.snmp = snmp]
    /\ settings' = [data |-> entry.data, options |-> entry.options]
    /\ polling' = TRUE
    /\ issues' = left

\* runtime_data, the first refreshes in the background, and the update listener.
RunWith(snmp, left) ==
    /\ step' = "platforms"
    /\ used' = [used EXCEPT !.snmp = snmp]
    /\ settings' = [data |-> entry.data, options |-> entry.options]
    /\ polling' = TRUE
    /\ issues' = IF snmp THEN left ELSE left \ {"snmp"}

Refreshed ==
    /\ state = "setup_in_progress" /\ step = "refresh"
    /\ used.data = accepted
    /\ IF "snmp" \in entry.options
       THEN /\ step' = "snmp"
            /\ used' = [used EXCEPT !.options = UsedWith("snmp")]
            /\ issues' = issues \ {"api"}
            /\ UNCHANGED <<settings, polling>>
       ELSE RunWith(FALSE, issues \ {"api"})
    /\ UNCHANGED <<state, removing, session, open, call, accepted, entryVars>>

\* The SNMP client is prepared; a failure only costs the SNMP coordinator.
Preloaded(ok) ==
    /\ step = "snmp"
    /\ RunWith(ok, issues)
    /\ UNCHANGED <<state, removing, session, open, call, accepted, entryVars>>

\* The platforms look whether there is write access.
PlatformsReady ==
    /\ step = "platforms"
    /\ state' = "loaded" /\ step' = None
    /\ used' = [used EXCEPT !.options = UsedWith("write")]
    /\ issues' = Told(issues)
    /\ UNCHANGED <<removing, settings, session, open, polling, call, accepted, entryVars>>

\* The retry timer, which a reload cancels.
Retry ==
    /\ state = "setup_retry" /\ reloads = 0
    /\ BeginSetup(entry, open)
    /\ issues' = Told(issues)
    /\ UNCHANGED <<removing, polling, call, accepted, entry, reloads, flow>>

------------------------------------------------------------------------------
(* Reload, unload, disable, remove, stop.                                  *)

Unload(remove) ==
    /\ state' = "unload_in_progress"
    /\ removing' = remove
    /\ issues' = Told(issues)
    /\ UNCHANGED <<step, used, settings, session, open, promised>>

\* A reload gets the setup lock: it unloads a loaded entry, and any other one has
\* nothing to unload.
Reload ==
    /\ Unlocked
    /\ reloads > 0
    /\ reloads' = reloads - 1
    /\ \/ state = "loaded" /\ Unload(FALSE)
       \/ /\ state # "loaded"
          /\ issues' = Told(issues)
          /\ UNCHANGED removing
          /\ IF entry.disabled
             THEN /\ state' = "not_loaded" /\ promised' = FALSE
                  /\ UNCHANGED <<step, used, settings, session, open>>
             ELSE BeginSetup(entry, open)
    /\ UNCHANGED <<entry, polling, flow, call, accepted>>

\* The platforms are unloaded, the session closes, background tasks end; a reload
\* goes on with setup, unless the entry is disabled.
FinishUnload ==
    /\ state = "unload_in_progress" /\ ~removing
    /\ issues' = Told(issues)
    /\ IF entry.disabled
       THEN /\ state' = "not_loaded" /\ promised' = FALSE
            /\ GiveUp
            /\ UNCHANGED step
       ELSE BeginSetup(entry, StillOpen) /\ polling' = FALSE
    /\ UNCHANGED <<removing, entry, reloads, flow, call, accepted>>

\* The entry is gone, with its issues, and with the dialogs and reloads about it.
Forget ==
    /\ state' = "absent" /\ removing' = FALSE
    /\ issues' = {}
    /\ GiveUp
    /\ entry' = NoEntry
    /\ reloads' = 0 /\ promised' = FALSE
    /\ flow' = [f \in Flows |-> IF flow[f].kind = "user" THEN flow[f] ELSE Idle]

Remove ==
    /\ Unlocked
    /\ \/ /\ state = "loaded"
          /\ Unload(TRUE)
          /\ UNCHANGED <<entry, polling, reloads, flow>>
       \/ /\ state # "loaded"
          /\ Forget
          /\ UNCHANGED step
    /\ UNCHANGED <<call, accepted>>

FinishRemoval ==
    /\ state = "unload_in_progress" /\ removing
    /\ Forget
    /\ UNCHANGED <<step, call, accepted>>

\* The user disables or enables the entry: a reload follows.
SetDisabled ==
    /\ state \notin {"absent", "stopped"}
    /\ reloads < MaxReloads
    /\ entry' = [entry EXCEPT !.disabled = ~@]
    /\ reloads' = reloads + 1
    /\ UNCHANGED <<setupVars, polling, issues, promised, flow, call, accepted>>

\* Home Assistant stops: nothing is unloaded, the listener of the event closes the
\* session, and everything but the stored entry is lost.
Stop ==
    /\ state \notin {"absent", "stopped"}
    /\ state' = "stopped" /\ step' = None /\ removing' = FALSE
    /\ GiveUp
    /\ issues' = {}
    /\ reloads' = 0 /\ promised' = FALSE
    /\ flow' = [f \in Flows |-> Idle]
    /\ call' = None
    /\ UNCHANGED <<entry, accepted>>

Restart ==
    /\ state = "stopped"
    /\ IF entry.disabled
       THEN state' = "not_loaded" /\ UNCHANGED <<step, used, settings, session, open, promised>>
       ELSE BeginSetup(entry, open)
    /\ UNCHANGED <<removing, polling, issues, entry, reloads, flow, call, accepted>>

------------------------------------------------------------------------------
(* The flows: config_flow.py.                                              *)

\* The user submits settings in a dialog: the user flow, or "connection", which is the
\* reconfigure flow and the reauth flow.  The connection is tested, in a session of the
\* test's own.  A user flow ends here if there is an entry for the address.
Submit(f, kind, d) ==
    /\ flow[f] = Idle /\ state # "stopped"
    /\ kind = "user" <=> state = "absent"
    /\ flow' = [flow EXCEPT ![f] = [kind |-> kind, at |-> "test", data |-> d]]
    /\ UNCHANGED <<setupVars, entry, polling, issues, reloads, promised, call, accepted>>

Tested(f) == flow[f].at = "test" /\ flow[f].data = accepted

\* Mutant of Unique: the unique id is not looked at after the test.
UniqueAnyway(f) == TRUE

\* _abort_if_unique_id_configured, and no other flow in progress with this id.
Unique(f) == state = "absent" /\ \A g \in Flows : flow[g].at # "steps"

\* The user flow goes on with SNMP, write access and polling, or is aborted.
UserTested(f) ==
    /\ flow[f].kind = "user" /\ Tested(f)
    /\ flow' = [flow EXCEPT ![f] = IF Unique(f) THEN [@ EXCEPT !.at = "steps"] ELSE Idle]
    /\ UNCHANGED <<setupVars, entry, polling, issues, reloads, promised, call, accepted>>

\* The last step creates the entry, and Home Assistant sets it up.
CreateEntry(f, o) ==
    /\ flow[f].at = "steps"
    /\ LET new == [data |-> flow[f].data, options |-> o, disabled |-> FALSE]
       IN  entry' = new /\ BeginSetup(new, open)
    /\ flow' = [flow EXCEPT ![f] = Idle]
    /\ UNCHANGED <<removing, polling, issues, reloads, call, accepted>>

\* Mutant of Notified: the listener compares the connection settings only.
NotifiedData(e) == IF Running /\ e.data # settings.data THEN 1 ELSE 0

\* _async_update_listener, called for a change: the reloads it asks for.
Notified(e) ==
    IF Running /\ [data |-> e.data, options |-> e.options] # settings THEN 1 ELSE 0

\* Mutants of Scheduled: everything is left to the listener; an entry that is loaded
\* is; every entry is reloaded here.
ScheduledUnchanged(e) == IF e = entry THEN 1 ELSE 0
ScheduledUnlessLoaded(e) == IF state # "loaded" THEN 1 ELSE 0
ScheduledAlways(e) == 1

\* _async_update_and_finish: the reloads it schedules itself.
Scheduled(e) == IF state # "loaded" \/ e = entry THEN 1 ELSE 0

\* async_update_entry tells the listener of a change.
Stored(e, more) ==
    /\ entry' = e
    /\ reloads' = reloads + more + (IF e # entry THEN Notified(e) ELSE 0)

\* The reauth and reconfigure flows store the tested settings and finish.
UpdateAndFinish(f) ==
    /\ flow[f].kind = "connection" /\ Tested(f)
    /\ LET e == [entry EXCEPT !.data = flow[f].data] IN Stored(e, Scheduled(e))
    /\ reloads' <= MaxReloads
    /\ promised' = TRUE
    /\ flow' = [flow EXCEPT ![f] = Idle]
    /\ UNCHANGED <<setupVars, polling, issues, call, accepted>>

\* The options flow, which has tested SNMP if that is new, stores what was chosen.
SaveOptions(o) ==
    /\ state \notin {"absent", "stopped"}
    /\ Stored([entry EXCEPT !.options = o], 0)
    /\ reloads' <= MaxReloads
    /\ UNCHANGED <<setupVars, polling, issues, promised, flow, call, accepted>>

\* The test fails, or the user closes the dialog.
EndFlow(f) ==
    /\ flow[f] # Idle
    /\ flow' = [flow EXCEPT ![f] = Idle]
    /\ UNCHANGED <<setupVars, entry, polling, issues, reloads, promised, call, accepted>>

------------------------------------------------------------------------------
(* While the entry is loaded: polling, actions, and the firewall.          *)

\* Rejected credentials stop polling; a denied or answered request raises or
\* clears an issue, and so does SNMP, if it is in use.
PollRejected ==
    /\ Running /\ polling
    /\ used.data # accepted
    /\ polling' = FALSE
    /\ UNCHANGED <<setupVars, entryVars, issues, call, accepted>>

Poll(left) ==
    /\ Running
    /\ issues' = left
    /\ UNCHANGED <<setupVars, entryVars, polling, call, accepted>>

XmlPoll  == polling /\ \E left \in {issues \ {"api"}, issues \cup {"api"}} : Poll(left)
SnmpPoll == used.snmp /\ \E left \in {issues \ {"snmp"}, issues \cup {"snmp"}} : Poll(left)

\* services._client: which entries an action is let to.
MayWrite == state = "loaded" /\ "write" \in entry.options

\* An action takes the client of the entry, and keeps it for all its requests.
StartAction ==
    /\ call = None
    /\ MayWrite
    /\ call' = session
    /\ UNCHANGED <<setupVars, entryVars, polling, issues, accepted>>

\* It ends by itself, or because its session is closed.
EndAction ==
    /\ call # None
    /\ call' = None
    /\ UNCHANGED <<setupVars, entryVars, polling, issues, accepted>>

\* The administrator changes the password on the firewall.
ChangePassword ==
    /\ accepted' \in Data \ {accepted}
    /\ UNCHANGED <<setupVars, entryVars, polling, issues, call>>

------------------------------------------------------------------------------

FlowStep(f) ==
    \/ \E kind \in {"user", "connection"}, d \in Data : Submit(f, kind, d)
    \/ UserTested(f) \/ UpdateAndFinish(f) \/ EndFlow(f)
    \/ \E o \in Options : CreateEntry(f, o)

Setup ==
    \/ Unreachable \/ AccessDenied \/ Rejected \/ Refreshed
    \/ \E ok \in BOOLEAN : Preloaded(ok)
    \/ PlatformsReady

Next ==
    \/ Setup \/ Retry \/ Reload \/ FinishUnload \/ Remove \/ FinishRemoval
    \/ SetDisabled \/ Stop \/ Restart
    \/ \E f \in Flows : FlowStep(f)
    \/ \E o \in Options : SaveOptions(o)
    \/ PollRejected \/ XmlPoll \/ SnmpPoll
    \/ StartAction \/ EndAction \/ ChangePassword

Spec == Init /\ [][Next]_vars

------------------------------------------------------------------------------

TypeOK ==
    /\ state \in {"absent", "stopped", "not_loaded", "setup_in_progress", "setup_retry",
                  "setup_error", "loaded", "unload_in_progress"}
    /\ step \in {None, "refresh", "snmp", "platforms"}
    /\ step # None <=> state = "setup_in_progress"
    /\ removing \in BOOLEAN /\ polling \in BOOLEAN /\ promised \in BOOLEAN
    /\ entry \in [data : Data \cup {None}, options : SUBSET {"fast", "snmp", "write"}, disabled : BOOLEAN]
    /\ used \in [data : Data \cup {None}, options : SUBSET {"fast", "snmp", "write"}, snmp : BOOLEAN]
    /\ settings \in [data : Data \cup {None}, options : SUBSET {"fast", "snmp", "write"}]
    /\ session \in Sessions \cup {None} /\ open \subseteq Sessions
    /\ Running <=> settings.data # None
    /\ issues \subseteq {"api", "snmp"}
    /\ reloads \in 0..MaxReloads
    /\ flow \in [Flows -> [kind : {None, "user", "connection"},
                           at : {None, "test", "steps"}, data : Data \cup {None}]]
    /\ call \in Sessions \cup {None}
    /\ accepted \in Data

\* The dedicated session is open exactly while an entry uses it: whatever ends setup
\* or the entry closes it (__init__.py:116-120, session.py:28).
SessionsClosed ==
    open = IF state \in {"setup_in_progress", "loaded", "unload_in_progress"}
           THEN {session} ELSE {}

\* A loaded entry that nothing is about to reload uses the connection settings that
\* are stored, whenever a flow changed them (config_flow.py:404-413).
ConnectionCurrent ==
    state = "loaded" /\ reloads = 0 => used.data = entry.data

\* The same of the options, whenever during setup it has read them: the polling
\* intervals, SNMP and write access (__init__.py:78, 309).
OptionsCurrent ==
    state = "loaded" /\ reloads = 0 => used.options = entry.options

\* Write access that was withdrawn is withdrawn for running actions too, once the
\* entry is set up without it: none has a session left to write with.
RevokedIsOver ==
    call \in open /\ state = "loaded" /\ reloads = 0 => "write" \in entry.options

\* Issues speak of an entry that retries, and of an SNMP agent that is asked: none
\* outlives the disabling or removal of the entry, or the end of SNMP.
IssuesApply ==
    /\ state = "absent" => issues = {}
    /\ entry.disabled /\ reloads = 0 /\ Unlocked => issues = {}
    /\ state = "loaded" /\ "snmp" \in issues => used.snmp

\* A flow that ends while the entry is loaded reloads it once, by itself or through
\* the listener, with changed and with unchanged settings.
ReloadedOnce ==
    [][state = "loaded" /\ reloads = 0 /\ promised' /\ ~promised => reloads' = 1]_vars

\* Creating an entry never replaces one that is there.
NeverReplaced ==
    [][ \A f \in Flows : flow[f].at = "steps" /\ flow'[f] = Idle /\ step' = "refresh"
                         /\ step # "refresh" => state = "absent" ]_vars

\* A flow that was told the credentials work has the entry set up again: the reload is
\* on its way until it is, and polling that was stopped does not stay stopped.
PromiseKept == promised => reloads > 0 \/ state = "unload_in_progress"
=============================================================================
