------------------------ MODULE EntryLifecycleProofs ------------------------
(***************************************************************************)
(* Proofs about the life of a config entry, for any settings, dialogs and  *)
(* number of reloads.                                                      *)
(***************************************************************************)
EXTENDS EntryLifecycle, TLAPS

\* The entry has been set up with what runtime_data records.
SetUp == state = "loaded" \/ step = "platforms"

\* The session is the one of the setup that is under way or done.
SessionInv ==
    /\ SessionsClosed
    /\ state \in {"setup_in_progress", "loaded", "unload_in_progress"} =>
         session \in Sessions
    /\ state \notin {"setup_in_progress", "loaded", "unload_in_progress"} => session = None

\* Issues go with the entry, a disabled entry waits for its reload, and SNMP is in use
\* as long as its issue is there.
IssueInv ==
    /\ state \in {"absent", "stopped", "not_loaded"} => issues = {}
    /\ state = "absent" => ~entry.disabled
    /\ entry.disabled =>
         state \in {"stopped", "not_loaded", "unload_in_progress"} \/ reloads > 0
    /\ SetUp /\ "snmp" \in issues => used.snmp

\* What the clients were built from, and what the listener compares with, is what is
\* stored, unless a reload is on its way.
SettingsInv ==
    /\ state # "absent" => entry.data \in Data
    /\ SetUp => reloads > 0 \/ settings = [data |-> entry.data, options |-> entry.options]
    /\ SetUp => reloads > 0 \/ used.data = settings.data
    /\ step \in {"refresh", "snmp"} => reloads > 0 \/ used.data = entry.data

\* An action whose session is open belongs to the present setup, and was let to write.
CallInv ==
    /\ step # None => call \notin open
    /\ state = "loaded" /\ call \in open => reloads > 0 \/ "write" \in entry.options

\* One dialog at most is past the test of its connection, and only if there is no entry.
FlowInv ==
    \A f \in Flows :
        /\ flow[f].at # None => flow[f].data \in Data
        /\ flow[f].at = "steps" =>
             /\ state = "absent"
             /\ \A g \in Flows : flow[g].at = "steps" => f = g

Inv ==
    /\ TypeOK
    /\ SessionInv
    /\ IssueInv
    /\ SettingsInv
    /\ CallInv
    /\ FlowInv
    /\ PromiseKept
\* What stands for nothing is no setting and no session.
LEMMA NoneApart == None \notin Data /\ None \notin Sessions /\ MaxReloads \in Nat
  BY LifecycleAssumption DEF LifecycleAssumption

\* A new setup has a session that neither the last one nor an action uses.
LEMMA BeginSetupSession ==
  ASSUME TypeOK, SessionInv, NEW e, NEW left, BeginSetup(e, left)
  PROVE  session' \in Sessions /\ session' \notin open /\ session' # call
<1>1. \E s \in Sessions : s \notin {session, call}
  BY LifecycleAssumption DEF LifecycleAssumption, TypeOK
<1>2. open \subseteq {session}
  BY DEF SessionInv, SessionsClosed
<1>3. \E s \in Sessions : s \notin open \cup {call}
  BY <1>1, <1>2
<1>4. QED
  BY <1>3 DEF BeginSetup

EntryType == [data : Data \cup {None}, options : SUBSET {"fast", "snmp", "write"}, disabled : BOOLEAN]
UsedType == [data : Data \cup {None}, options : SUBSET {"fast", "snmp", "write"}, snmp : BOOLEAN]
SettingsType == [data : Data \cup {None}, options : SUBSET {"fast", "snmp", "write"}]

\* What setup and its end keep of the types.
SetupType ==
    /\ used \in UsedType /\ settings \in SettingsType
    /\ session \in Sessions \cup {None} /\ open \subseteq Sessions

\* A new setup records what it is built from, and no settings yet.
LEMMA BeginSetupTypes ==
  ASSUME Inv, NEW e \in EntryType, NEW left \in SUBSET Sessions, BeginSetup(e, left)
  PROVE  /\ SetupType' /\ used'.data = e.data /\ settings'.data = None
         /\ state' = "setup_in_progress" /\ step' = "refresh" /\ promised' = FALSE
         /\ session' \in Sessions /\ session' \notin open /\ session' # call
         /\ open' = left \cup {session'}
<1>1. session' \in Sessions /\ session' \notin open /\ session' # call
  BY BeginSetupSession DEF Inv
<1>2. used' \in UsedType /\ used'.data = e.data
  BY DEF BeginSetup, EntryType, UsedType
<1>3. settings' \in SettingsType /\ settings'.data = None
  BY DEF BeginSetup, NotRecorded, SettingsType
<1>4. QED
  BY <1>1, <1>2, <1>3 DEF BeginSetup, SetupType

\* The end of a setup, or of an entry, leaves nothing of it.
LEMMA GiveUpTypes ==
  ASSUME Inv, GiveUp
  PROVE  SetupType' /\ settings'.data = None /\ session' = None /\ polling' = FALSE
<1>1. open' \subseteq Sessions
  BY DEF Inv, TypeOK, GiveUp, StillOpen
<1>2. used' \in UsedType /\ settings' \in SettingsType /\ settings'.data = None
  BY DEF GiveUp, NotUsed, NotRecorded, UsedType, SettingsType
<1>3. QED
  BY <1>1, <1>2 DEF GiveUp, SetupType

\* The records of the entry and of its setup have these types.
LEMMA RecordTypes ==
  ASSUME Inv
  PROVE  entry \in EntryType /\ used \in UsedType /\ settings \in SettingsType
  BY DEF Inv, TypeOK, EntryType, UsedType, SettingsType

\* What setup reads of the options on its way.
LEMMA ReadTypes ==
  ASSUME Inv, NEW option \in {"snmp", "write"}, used' = [used EXCEPT !.options = UsedWith(option)]
  PROVE  used' \in UsedType /\ used'.data = used.data /\ used'.snmp = used.snmp
<1>1. entry \in EntryType /\ used \in UsedType
  BY RecordTypes
<1>2. UsedWith(option) \in SUBSET {"fast", "snmp", "write"}
  BY <1>1 DEF UsedWith, EntryType, UsedType
<1>3. QED
  BY <1>1, <1>2 DEF UsedType

\* A removed entry leaves nothing of it.
LEMMA ForgetTypes ==
  ASSUME Inv, Forget, state # "setup_in_progress", UNCHANGED <<step, call, accepted>>
  PROVE  TypeOK'
<1>1. SetupType' /\ settings'.data = None /\ polling' = FALSE
  BY GiveUpTypes DEF Forget
<1>2. flow' \in [Flows -> [kind : {None, "user", "connection"},
                          at : {None, "test", "steps"}, data : Data \cup {None}]]
  BY DEF Forget, Idle, Inv, TypeOK
<1>3. reloads' \in 0..MaxReloads /\ entry' \in EntryType
  BY NoneApart DEF Forget, NoEntry, EntryType
<1>4. QED
  BY <1>1, <1>2, <1>3 DEF Inv, None, TypeOK, Running, SetupType, UsedType, SettingsType, EntryType,
     Forget

------------------------------------------------------------------------------
\* The steps.

LEMMA SubmitKeeps ==
  ASSUME Inv, NEW f \in Flows, NEW kind \in {"user", "connection"}, NEW d \in Data, Submit(f, kind, d)
  PROVE  Inv'
<1>1. TypeOK'
  BY NoneApart DEF Inv, None, TypeOK, Running, Submit, setupVars, Idle
<1>2. SessionInv'
  BY NoneApart DEF Inv, None, TypeOK, SessionInv, SessionsClosed, Submit, setupVars, Idle
<1>3. IssueInv' /\ PromiseKept'
  BY NoneApart DEF Inv, None, TypeOK, IssueInv, PromiseKept, SetUp, Submit, setupVars, Idle
<1>4. SettingsInv' /\ CallInv'
  BY NoneApart DEF Inv, None, TypeOK, SettingsInv, CallInv, SetUp, SessionInv,
      SessionsClosed, Submit, setupVars, Idle
<1>5. FlowInv'
  BY NoneApart DEF Inv, None, TypeOK, FlowInv, Submit, setupVars, Idle
<1>6. QED
  BY <1>1, <1>2, <1>3, <1>4, <1>5 DEF Inv

LEMMA UserTestedKeeps ==
  ASSUME Inv, NEW f \in Flows, UserTested(f)
  PROVE  Inv'
<1>1. TypeOK'
  BY NoneApart DEF Inv, None, TypeOK, Running, UserTested, Tested, Unique, setupVars, Idle
<1>2. SessionInv'
  BY NoneApart DEF Inv, None, TypeOK, SessionInv, SessionsClosed, UserTested, Tested,
      Unique, setupVars, Idle
<1>3. IssueInv' /\ PromiseKept'
  BY NoneApart DEF Inv, None, TypeOK, IssueInv, PromiseKept, SetUp, UserTested, Tested,
      Unique, setupVars, Idle
<1>4. SettingsInv' /\ CallInv'
  BY NoneApart DEF Inv, None, TypeOK, SettingsInv, CallInv, SetUp, SessionInv,
      SessionsClosed, UserTested, Tested, Unique, setupVars, Idle
<1>5. FlowInv'
  BY NoneApart DEF Inv, None, TypeOK, FlowInv, UserTested, Tested, Unique, setupVars, Idle
<1>6. QED
  BY <1>1, <1>2, <1>3, <1>4, <1>5 DEF Inv

LEMMA EndFlowKeeps ==
  ASSUME Inv, NEW f \in Flows, EndFlow(f)
  PROVE  Inv'
<1>1. TypeOK'
  BY NoneApart DEF Inv, None, TypeOK, Running, EndFlow, setupVars, Idle
<1>2. SessionInv'
  BY NoneApart DEF Inv, None, TypeOK, SessionInv, SessionsClosed, EndFlow, setupVars, Idle
<1>3. IssueInv' /\ PromiseKept'
  BY NoneApart DEF Inv, None, TypeOK, IssueInv, PromiseKept, SetUp, EndFlow, setupVars,
      Idle
<1>4. SettingsInv' /\ CallInv'
  BY NoneApart DEF Inv, None, TypeOK, SettingsInv, CallInv, SetUp, SessionInv,
      SessionsClosed, EndFlow, setupVars, Idle
<1>5. FlowInv'
  BY NoneApart DEF Inv, None, TypeOK, FlowInv, EndFlow, setupVars, Idle
<1>6. QED
  BY <1>1, <1>2, <1>3, <1>4, <1>5 DEF Inv

LEMMA PollRejectedKeeps ==
  ASSUME Inv, PollRejected
  PROVE  Inv'
<1>1. TypeOK'
  BY NoneApart DEF Inv, None, TypeOK, Running, PollRejected, setupVars, entryVars
<1>2. SessionInv'
  BY NoneApart DEF Inv, None, TypeOK, SessionInv, SessionsClosed, PollRejected, setupVars,
      entryVars
<1>3. IssueInv' /\ PromiseKept'
  BY NoneApart DEF Inv, None, TypeOK, IssueInv, PromiseKept, SetUp, PollRejected,
      setupVars, entryVars
<1>4. SettingsInv' /\ CallInv'
  BY NoneApart DEF Inv, None, TypeOK, SettingsInv, CallInv, SetUp, SessionInv,
      SessionsClosed, PollRejected, setupVars, entryVars
<1>5. FlowInv'
  BY NoneApart DEF Inv, None, TypeOK, FlowInv, PollRejected, setupVars, entryVars
<1>6. QED
  BY <1>1, <1>2, <1>3, <1>4, <1>5 DEF Inv

LEMMA XmlPollKeeps ==
  ASSUME Inv, XmlPoll
  PROVE  Inv'
<1>1. TypeOK'
  BY NoneApart DEF Inv, None, TypeOK, Running, XmlPoll, Poll, Running, setupVars, entryVars
<1>2. SessionInv'
  BY NoneApart DEF Inv, None, TypeOK, SessionInv, SessionsClosed, XmlPoll, Poll, Running,
      setupVars, entryVars
<1>3. IssueInv' /\ PromiseKept'
  BY NoneApart DEF Inv, None, TypeOK, IssueInv, PromiseKept, SetUp, XmlPoll, Poll, Running,
      setupVars, entryVars
<1>4. SettingsInv' /\ CallInv'
  BY NoneApart DEF Inv, None, TypeOK, SettingsInv, CallInv, SetUp, SessionInv,
      SessionsClosed, XmlPoll, Poll, Running, setupVars, entryVars
<1>5. FlowInv'
  BY NoneApart DEF Inv, None, TypeOK, FlowInv, XmlPoll, Poll, Running, setupVars, entryVars
<1>6. QED
  BY <1>1, <1>2, <1>3, <1>4, <1>5 DEF Inv

LEMMA SnmpPollKeeps ==
  ASSUME Inv, SnmpPoll
  PROVE  Inv'
<1>1. TypeOK'
  BY NoneApart DEF Inv, None, TypeOK, Running, SnmpPoll, Poll, Running, setupVars,
      entryVars
<1>2. SessionInv'
  BY NoneApart DEF Inv, None, TypeOK, SessionInv, SessionsClosed, SnmpPoll, Poll, Running,
      setupVars, entryVars
<1>3. IssueInv' /\ PromiseKept'
  BY NoneApart DEF Inv, None, TypeOK, IssueInv, PromiseKept, SetUp, SnmpPoll, Poll,
      Running, setupVars, entryVars
<1>4. SettingsInv' /\ CallInv'
  BY NoneApart DEF Inv, None, TypeOK, SettingsInv, CallInv, SetUp, SessionInv,
      SessionsClosed, SnmpPoll, Poll, Running, setupVars, entryVars
<1>5. FlowInv'
  BY NoneApart DEF Inv, None, TypeOK, FlowInv, SnmpPoll, Poll, Running, setupVars,
      entryVars
<1>6. QED
  BY <1>1, <1>2, <1>3, <1>4, <1>5 DEF Inv

LEMMA StartActionKeeps ==
  ASSUME Inv, StartAction
  PROVE  Inv'
<1>1. TypeOK'
  BY NoneApart DEF Inv, None, TypeOK, Running, StartAction, MayWrite, setupVars, entryVars
<1>2. SessionInv'
  BY NoneApart DEF Inv, None, TypeOK, SessionInv, SessionsClosed, StartAction, MayWrite,
      setupVars, entryVars
<1>3. IssueInv' /\ PromiseKept'
  BY NoneApart DEF Inv, None, TypeOK, IssueInv, PromiseKept, SetUp, StartAction, MayWrite,
      setupVars, entryVars
<1>4. SettingsInv' /\ CallInv'
  BY NoneApart DEF Inv, None, TypeOK, SettingsInv, CallInv, SetUp, SessionInv,
      SessionsClosed, StartAction, MayWrite, setupVars, entryVars
<1>5. FlowInv'
  BY NoneApart DEF Inv, None, TypeOK, FlowInv, StartAction, MayWrite, setupVars, entryVars
<1>6. QED
  BY <1>1, <1>2, <1>3, <1>4, <1>5 DEF Inv

LEMMA EndActionKeeps ==
  ASSUME Inv, EndAction
  PROVE  Inv'
<1>1. TypeOK'
  BY NoneApart DEF Inv, None, TypeOK, Running, EndAction, setupVars, entryVars
<1>2. SessionInv'
  BY NoneApart DEF Inv, None, TypeOK, SessionInv, SessionsClosed, EndAction, setupVars,
      entryVars
<1>3. IssueInv' /\ PromiseKept'
  BY NoneApart DEF Inv, None, TypeOK, IssueInv, PromiseKept, SetUp, EndAction, setupVars,
      entryVars
<1>4. SettingsInv' /\ CallInv'
  BY NoneApart DEF Inv, None, TypeOK, SettingsInv, CallInv, SetUp, SessionInv,
      SessionsClosed, EndAction, setupVars, entryVars
<1>5. FlowInv'
  BY NoneApart DEF Inv, None, TypeOK, FlowInv, EndAction, setupVars, entryVars
<1>6. QED
  BY <1>1, <1>2, <1>3, <1>4, <1>5 DEF Inv

LEMMA ChangePasswordKeeps ==
  ASSUME Inv, ChangePassword
  PROVE  Inv'
<1>1. TypeOK'
  BY NoneApart DEF Inv, None, TypeOK, Running, ChangePassword, setupVars, entryVars
<1>2. SessionInv'
  BY NoneApart DEF Inv, None, TypeOK, SessionInv, SessionsClosed, ChangePassword,
      setupVars, entryVars
<1>3. IssueInv' /\ PromiseKept'
  BY NoneApart DEF Inv, None, TypeOK, IssueInv, PromiseKept, SetUp, ChangePassword,
      setupVars, entryVars
<1>4. SettingsInv' /\ CallInv'
  BY NoneApart DEF Inv, None, TypeOK, SettingsInv, CallInv, SetUp, SessionInv,
      SessionsClosed, ChangePassword, setupVars, entryVars
<1>5. FlowInv'
  BY NoneApart DEF Inv, None, TypeOK, FlowInv, ChangePassword, setupVars, entryVars
<1>6. QED
  BY <1>1, <1>2, <1>3, <1>4, <1>5 DEF Inv

LEMMA RefreshFailsKeeps ==
  ASSUME Inv, NEW next \in {"setup_retry", "setup_error"}, NEW left \in SUBSET {"api", "snmp"}, RefreshFails(next), issues' = Told(left)
  PROVE  Inv'
<1>1. TypeOK'
  BY NoneApart DEF Inv, None, TypeOK, Running, RefreshFails, GiveUp, StillOpen, Told,
      NotUsed, NotRecorded, entryVars
<1>2. SessionInv'
  BY NoneApart DEF Inv, None, TypeOK, SessionInv, SessionsClosed, RefreshFails, GiveUp,
      StillOpen, Told, NotUsed, NotRecorded, entryVars
<1>3. IssueInv' /\ PromiseKept'
  BY NoneApart DEF Inv, None, TypeOK, IssueInv, PromiseKept, SetUp, RefreshFails, GiveUp,
      StillOpen, Told, NotUsed, NotRecorded, entryVars
<1>4. SettingsInv' /\ CallInv'
  BY NoneApart DEF Inv, None, TypeOK, SettingsInv, CallInv, SetUp, SessionInv,
      SessionsClosed, RefreshFails, GiveUp, StillOpen, Told, NotUsed, NotRecorded,
      entryVars
<1>5. FlowInv'
  BY NoneApart DEF Inv, None, TypeOK, FlowInv, RefreshFails, GiveUp, StillOpen, Told,
      NotUsed, NotRecorded, entryVars
<1>6. QED
  BY <1>1, <1>2, <1>3, <1>4, <1>5 DEF Inv

LEMMA RefreshedKeeps ==
  ASSUME Inv, Refreshed
  PROVE  Inv'
<1>1. TypeOK'
  <2>1. CASE "snmp" \in entry.options
    <3>1. used' \in UsedType
      BY <2>1, ReadTypes DEF Refreshed
    <3>2. QED
      BY <2>1, <3>1, NoneApart DEF Inv, None, TypeOK, UsedType, Running, Refreshed, entryVars
  <2>2. CASE RunWith(FALSE, issues \ {"api"})
    <3>1. used' \in UsedType /\ settings' \in SettingsType /\ settings'.data = entry.data
      BY <2>2, RecordTypes DEF RunWith, UsedType, SettingsType, EntryType
    <3>2. entry.data # None
      BY NoneApart DEF Refreshed, Inv, SettingsInv
    <3>3. QED
      BY <2>2, <3>1, <3>2 DEF Inv, None, TypeOK, Running, SetupType, UsedType, SettingsType, EntryType, RunWith,
         Refreshed, entryVars
  <2>3. QED
    BY <2>1, <2>2 DEF Refreshed
<1>2. SessionInv'
  BY NoneApart DEF Inv, None, TypeOK, SessionInv, SessionsClosed, Refreshed, RunWith,
      entryVars
<1>3. IssueInv' /\ PromiseKept'
  BY NoneApart DEF Inv, None, TypeOK, IssueInv, PromiseKept, SetUp, Refreshed, RunWith,
      entryVars
<1>4. SettingsInv' /\ CallInv'
  BY NoneApart DEF Inv, None, TypeOK, SettingsInv, CallInv, SetUp, SessionInv,
      SessionsClosed, Refreshed, RunWith, entryVars
<1>5. FlowInv'
  BY NoneApart DEF Inv, None, TypeOK, FlowInv, Refreshed, RunWith, entryVars
<1>6. QED
  BY <1>1, <1>2, <1>3, <1>4, <1>5 DEF Inv

LEMMA PreloadedKeeps ==
  ASSUME Inv, NEW ok \in BOOLEAN, Preloaded(ok)
  PROVE  Inv'
<1>1. TypeOK'
  <2>1. used' \in UsedType /\ settings' \in SettingsType /\ settings'.data = entry.data
    BY RecordTypes DEF Preloaded, RunWith, UsedType, SettingsType, EntryType
  <2>2. entry.data # None
    BY NoneApart DEF Preloaded, Inv, None, TypeOK, SettingsInv
  <2>3. QED
    BY <2>1, <2>2 DEF Inv, None, TypeOK, Running, SetupType, UsedType, SettingsType, EntryType, Preloaded, RunWith,
       entryVars
<1>2. SessionInv'
  BY NoneApart DEF Inv, None, TypeOK, SessionInv, SessionsClosed, Preloaded, RunWith,
      entryVars
<1>3. IssueInv' /\ PromiseKept'
  BY NoneApart DEF Inv, None, TypeOK, IssueInv, PromiseKept, SetUp, Preloaded, RunWith,
      entryVars
<1>4. SettingsInv' /\ CallInv'
  BY NoneApart DEF Inv, None, TypeOK, SettingsInv, CallInv, SetUp, SessionInv,
      SessionsClosed, Preloaded, RunWith, entryVars
<1>5. FlowInv'
  BY NoneApart DEF Inv, None, TypeOK, FlowInv, Preloaded, RunWith, entryVars
<1>6. QED
  BY <1>1, <1>2, <1>3, <1>4, <1>5 DEF Inv

LEMMA PlatformsReadyKeeps ==
  ASSUME Inv, PlatformsReady
  PROVE  Inv'
<1>1. TypeOK'
  <2>1. used' \in UsedType
    BY ReadTypes DEF PlatformsReady
  <2>2. QED
    BY <2>1, NoneApart DEF Inv, None, TypeOK, UsedType, Running, PlatformsReady, Told, entryVars
<1>2. SessionInv'
  BY NoneApart DEF Inv, None, TypeOK, SessionInv, SessionsClosed, PlatformsReady, Told,
      entryVars
<1>3. IssueInv' /\ PromiseKept'
  BY NoneApart DEF Inv, None, TypeOK, IssueInv, PromiseKept, SetUp, PlatformsReady, Told,
      entryVars
<1>4. SettingsInv' /\ CallInv'
  BY NoneApart DEF Inv, None, TypeOK, SettingsInv, CallInv, SetUp, SessionInv,
      SessionsClosed, PlatformsReady, Told, entryVars
<1>5. FlowInv'
  BY NoneApart DEF Inv, None, TypeOK, FlowInv, PlatformsReady, Told, entryVars
<1>6. QED
  BY <1>1, <1>2, <1>3, <1>4, <1>5 DEF Inv

LEMMA RetryKeeps ==
  ASSUME Inv, Retry
  PROVE  Inv'
<1>1. TypeOK'
  BY NoneApart, BeginSetupSession DEF Inv, None, TypeOK, Running, Retry, BeginSetup, Told,
      NotRecorded
<1>2. SessionInv'
  BY NoneApart, BeginSetupSession DEF Inv, None, TypeOK, SessionInv, SessionsClosed, Retry,
      BeginSetup, Told, NotRecorded
<1>3. IssueInv' /\ PromiseKept'
  BY NoneApart, BeginSetupSession DEF Inv, None, TypeOK, IssueInv, PromiseKept, SetUp,
      Retry, BeginSetup, Told, NotRecorded
<1>4. SettingsInv' /\ CallInv'
  BY NoneApart, BeginSetupSession DEF Inv, None, TypeOK, SettingsInv, CallInv, SetUp,
      SessionInv, SessionsClosed, Retry, BeginSetup, Told, NotRecorded
<1>5. FlowInv'
  BY NoneApart, BeginSetupSession DEF Inv, None, TypeOK, FlowInv, Retry, BeginSetup, Told,
      NotRecorded
<1>6. QED
  BY <1>1, <1>2, <1>3, <1>4, <1>5 DEF Inv

LEMMA SetDisabledKeeps ==
  ASSUME Inv, SetDisabled
  PROVE  Inv'
<1>1. TypeOK'
  <2>1. entry' \in EntryType
    BY RecordTypes DEF SetDisabled, EntryType
  <2>2. reloads' \in 0..MaxReloads
    BY NoneApart DEF SetDisabled, Inv, TypeOK
  <2>3. QED
    BY <2>1, <2>2 DEF Inv, TypeOK, Running, EntryType, SetDisabled, setupVars
<1>2. SessionInv'
  BY NoneApart DEF Inv, None, TypeOK, SessionInv, SessionsClosed, SetDisabled, setupVars
<1>3. IssueInv' /\ PromiseKept'
  BY NoneApart DEF Inv, None, TypeOK, IssueInv, PromiseKept, SetUp, SetDisabled, setupVars
<1>4. SettingsInv' /\ CallInv'
  BY NoneApart DEF Inv, None, TypeOK, SettingsInv, CallInv, SetUp, SessionInv,
      SessionsClosed, SetDisabled, setupVars
<1>5. FlowInv'
  BY NoneApart DEF Inv, None, TypeOK, FlowInv, SetDisabled, setupVars
<1>6. QED
  BY <1>1, <1>2, <1>3, <1>4, <1>5 DEF Inv

LEMMA StopKeeps ==
  ASSUME Inv, Stop
  PROVE  Inv'
<1>1. TypeOK'
  <2>1. SetupType' /\ settings'.data = None /\ polling' = FALSE
    BY GiveUpTypes DEF Stop
  <2>2. flow' \in [Flows -> [kind : {None, "user", "connection"},
                            at : {None, "test", "steps"}, data : Data \cup {None}]]
    BY DEF Stop, Idle
  <2>3. reloads' \in 0..MaxReloads
    BY NoneApart DEF Stop
  <2>4. QED
    BY <2>1, <2>2, <2>3 DEF Inv, None, TypeOK, Running, SetupType, UsedType, SettingsType, EntryType, Stop
<1>2. SessionInv'
  BY NoneApart DEF Inv, None, TypeOK, SessionInv, SessionsClosed, Stop, GiveUp, StillOpen,
      NotUsed, NotRecorded, Idle
<1>3. IssueInv' /\ PromiseKept'
  BY NoneApart DEF Inv, None, TypeOK, IssueInv, PromiseKept, SetUp, Stop, GiveUp,
      StillOpen, NotUsed, NotRecorded, Idle
<1>4. SettingsInv' /\ CallInv'
  BY NoneApart DEF Inv, None, TypeOK, SettingsInv, CallInv, SetUp, SessionInv,
      SessionsClosed, Stop, GiveUp, StillOpen, NotUsed, NotRecorded, Idle
<1>5. FlowInv'
  BY NoneApart DEF Inv, None, TypeOK, FlowInv, Stop, GiveUp, StillOpen, NotUsed,
      NotRecorded, Idle
<1>6. QED
  BY <1>1, <1>2, <1>3, <1>4, <1>5 DEF Inv

LEMMA RestartKeeps ==
  ASSUME Inv, Restart
  PROVE  Inv'
<1>1. TypeOK'
  <2>1. CASE entry.disabled
    BY <2>1, NoneApart DEF Inv, None, TypeOK, Running, Restart
  <2>2. CASE BeginSetup(entry, open)
    <3>1. /\ SetupType' /\ settings'.data = None /\ promised' = FALSE
          /\ state' = "setup_in_progress" /\ step' = "refresh"
      BY <2>2, RecordTypes, BeginSetupTypes DEF Inv, TypeOK
    <3>2. QED
      BY <3>1 DEF Inv, None, TypeOK, Running, SetupType, UsedType, SettingsType, EntryType, Restart
  <2>3. QED
    BY <2>1, <2>2 DEF Restart
<1>2. SessionInv'
  BY NoneApart, BeginSetupSession DEF Inv, None, TypeOK, SessionInv, SessionsClosed,
      Restart, BeginSetup, NotRecorded
<1>3. IssueInv' /\ PromiseKept'
  BY NoneApart, BeginSetupSession DEF Inv, None, TypeOK, IssueInv, PromiseKept, SetUp,
      Restart, BeginSetup, NotRecorded
<1>4. SettingsInv' /\ CallInv'
  <2>1. CASE entry.disabled
    BY <2>1, NoneApart DEF Inv, None, TypeOK, SettingsInv, CallInv, SetUp, Restart
  <2>2. CASE BeginSetup(entry, open)
    <3>1. /\ used'.data = entry.data /\ step' = "refresh" /\ state' = "setup_in_progress"
          /\ session' # call /\ open' = open \cup {session'}
      BY <2>2, RecordTypes, BeginSetupTypes DEF Inv, TypeOK
    <3>2. open = {} /\ UNCHANGED <<entry, reloads, call>> /\ state = "stopped"
      BY DEF Restart, Inv, SessionInv, SessionsClosed
    <3>3. QED
      BY <3>1, <3>2 DEF Inv, None, SettingsInv, CallInv, SetUp
  <2>3. QED
    BY <2>1, <2>2 DEF Restart
<1>5. FlowInv'
  BY NoneApart, BeginSetupSession DEF Inv, None, TypeOK, FlowInv, Restart, BeginSetup,
      NotRecorded
<1>6. QED
  BY <1>1, <1>2, <1>3, <1>4, <1>5 DEF Inv

LEMMA ReloadKeeps ==
  ASSUME Inv, Reload
  PROVE  Inv'
<1>1. TypeOK'
  <2>1. reloads' \in 0..MaxReloads
    BY NoneApart DEF Reload, Inv, TypeOK
  <2>2. CASE state = "loaded" /\ Unload(FALSE)
    BY <2>1, <2>2, NoneApart DEF Inv, None, TypeOK, Running, Reload, Unload, Told
  <2>3. CASE state # "loaded" /\ entry.disabled
    BY <2>1, <2>3, NoneApart DEF Inv, None, TypeOK, Running, Reload, Unlocked, Told
  <2>4. CASE state # "loaded" /\ BeginSetup(entry, open)
    <3>1. /\ SetupType' /\ settings'.data = None /\ promised' = FALSE
          /\ state' = "setup_in_progress" /\ step' = "refresh"
      BY <2>4, RecordTypes, BeginSetupTypes DEF Inv, TypeOK
    <3>2. issues' = Told(issues) /\ UNCHANGED <<removing, entry, polling, flow, call, accepted>>
      BY <2>4 DEF Reload
    <3>3. QED
      BY <2>1, <3>1, <3>2 DEF Inv, None, TypeOK, Running, SetupType, UsedType, SettingsType, EntryType, Told
  <2>5. QED
    BY <2>2, <2>3, <2>4 DEF Reload
<1>2. SessionInv'
  BY NoneApart, BeginSetupSession DEF Inv, None, TypeOK, SessionInv, SessionsClosed,
      Reload, Unlocked, Unload, BeginSetup, Told, NotRecorded
<1>3. IssueInv' /\ PromiseKept'
  BY NoneApart, BeginSetupSession DEF Inv, None, TypeOK, IssueInv, PromiseKept, SetUp,
      Reload, Unlocked, Unload, BeginSetup, Told, NotRecorded
<1>4. SettingsInv' /\ CallInv'
  <2>1. CASE state = "loaded" /\ Unload(FALSE)
    BY <2>1, NoneApart DEF Inv, None, TypeOK, SettingsInv, CallInv, SetUp, Reload, Unload
  <2>2. CASE state # "loaded" /\ entry.disabled
    BY <2>2, NoneApart DEF Inv, None, TypeOK, SettingsInv, CallInv, SetUp, Reload, Unlocked
  <2>3. CASE state # "loaded" /\ BeginSetup(entry, open)
    <3>1. /\ used'.data = entry.data /\ step' = "refresh" /\ state' = "setup_in_progress"
          /\ session' # call /\ open' = open \cup {session'}
      BY <2>3, RecordTypes, BeginSetupTypes DEF Inv, TypeOK
    <3>2. open = {} /\ UNCHANGED <<entry, call>> /\ state # "absent"
      BY <2>3 DEF Reload, Unlocked, Inv, SessionInv, SessionsClosed
    <3>3. QED
      BY <3>1, <3>2 DEF Inv, None, SettingsInv, CallInv, SetUp
  <2>4. QED
    BY <2>1, <2>2, <2>3 DEF Reload
<1>5. FlowInv'
  BY NoneApart, BeginSetupSession DEF Inv, None, TypeOK, FlowInv, Reload, Unlocked, Unload,
      BeginSetup, Told, NotRecorded
<1>6. QED
  BY <1>1, <1>2, <1>3, <1>4, <1>5 DEF Inv

LEMMA FinishUnloadKeeps ==
  ASSUME Inv, FinishUnload
  PROVE  Inv'
<1>1. TypeOK'
  <2>1. CASE entry.disabled
    <3>1. /\ SetupType' /\ settings'.data = None /\ polling' = FALSE /\ promised' = FALSE
          /\ state' = "not_loaded" /\ step' = step
      BY <2>1, GiveUpTypes DEF FinishUnload
    <3>2. QED
      BY <3>1 DEF Inv, None, TypeOK, Running, SetupType, UsedType, SettingsType, EntryType, FinishUnload, Told
  <2>2. CASE BeginSetup(entry, StillOpen) /\ polling' = FALSE
    <3>1. StillOpen \in SUBSET Sessions
      BY DEF StillOpen, Inv, TypeOK
    <3>2. /\ SetupType' /\ settings'.data = None /\ promised' = FALSE
          /\ state' = "setup_in_progress" /\ step' = "refresh"
      BY <2>2, <3>1, RecordTypes, BeginSetupTypes
    <3>3. QED
      BY <2>2, <3>2 DEF Inv, None, TypeOK, Running, SetupType, UsedType, SettingsType, EntryType, FinishUnload, Told
  <2>3. QED
    BY <2>1, <2>2 DEF FinishUnload
<1>2. SessionInv'
  BY NoneApart, BeginSetupSession DEF Inv, None, TypeOK, SessionInv, SessionsClosed,
      FinishUnload, GiveUp, StillOpen, BeginSetup, Told, NotRecorded, NotUsed
<1>3. IssueInv' /\ PromiseKept'
  BY NoneApart, BeginSetupSession DEF Inv, None, TypeOK, IssueInv, PromiseKept, SetUp,
      FinishUnload, GiveUp, StillOpen, BeginSetup, Told, NotRecorded, NotUsed
<1>4. SettingsInv' /\ CallInv'
  <2>1. state = "unload_in_progress" /\ UNCHANGED <<entry, reloads, call>> /\ open = {session}
    BY DEF FinishUnload, Inv, SessionInv, SessionsClosed
  <2>2. CASE entry.disabled
    BY <2>1, <2>2, NoneApart
    DEF Inv, None, TypeOK, SettingsInv, CallInv, SetUp, FinishUnload
  <2>3. CASE BeginSetup(entry, StillOpen)
    <3>1. StillOpen = {}
      BY <2>1 DEF StillOpen
    <3>2. /\ used'.data = entry.data /\ step' = "refresh" /\ state' = "setup_in_progress"
          /\ session' # call /\ open' = {session'}
      BY <2>3, <3>1, RecordTypes, BeginSetupTypes
    <3>3. QED
      BY <2>1, <3>2 DEF Inv, None, SettingsInv, CallInv, SetUp
  <2>4. QED
    BY <2>2, <2>3 DEF FinishUnload
<1>5. FlowInv'
  BY NoneApart, BeginSetupSession DEF Inv, None, TypeOK, FlowInv, FinishUnload, GiveUp,
      StillOpen, BeginSetup, Told, NotRecorded, NotUsed
<1>6. QED
  BY <1>1, <1>2, <1>3, <1>4, <1>5 DEF Inv

LEMMA RemoveKeeps ==
  ASSUME Inv, Remove
  PROVE  Inv'
<1>1. TypeOK'
  <2>1. CASE state = "loaded" /\ Unload(TRUE) /\ UNCHANGED <<entry, polling, reloads, flow>>
    BY <2>1, NoneApart DEF Inv, None, TypeOK, Running, Remove, Unload, Told
  <2>2. CASE state # "loaded" /\ Forget /\ UNCHANGED step
    <3>1. state # "setup_in_progress"
      BY DEF Remove, Unlocked
    <3>2. QED
      BY <2>2, <3>1, ForgetTypes DEF Remove
  <2>3. QED
    BY <2>1, <2>2 DEF Remove
<1>2. SessionInv'
  BY NoneApart DEF Inv, None, TypeOK, SessionInv, SessionsClosed, Remove, Unlocked, Unload,
      Forget, GiveUp, StillOpen, NotRecorded, NotUsed, NoEntry, Told, Idle
<1>3. IssueInv' /\ PromiseKept'
  BY NoneApart DEF Inv, None, TypeOK, IssueInv, PromiseKept, SetUp, Remove, Unlocked,
      Unload, Forget, GiveUp, StillOpen, NotRecorded, NotUsed, NoEntry, Told, Idle
<1>4. SettingsInv' /\ CallInv'
  BY NoneApart DEF Inv, None, TypeOK, SettingsInv, CallInv, SetUp, SessionInv,
      SessionsClosed, Remove, Unlocked, Unload, Forget, GiveUp, StillOpen, NotRecorded,
      NotUsed, NoEntry, Told, Idle
<1>5. FlowInv'
  BY NoneApart DEF Inv, None, TypeOK, FlowInv, Remove, Unlocked, Unload, Forget, GiveUp,
      StillOpen, NotRecorded, NotUsed, NoEntry, Told, Idle
<1>6. QED
  BY <1>1, <1>2, <1>3, <1>4, <1>5 DEF Inv

LEMMA FinishRemovalKeeps ==
  ASSUME Inv, FinishRemoval
  PROVE  Inv'
<1>1. TypeOK'
  BY ForgetTypes DEF FinishRemoval, Inv, TypeOK
<1>2. SessionInv'
  BY NoneApart DEF Inv, None, TypeOK, SessionInv, SessionsClosed, FinishRemoval, Forget,
      GiveUp, StillOpen, NotRecorded, NotUsed, NoEntry, Told, Idle
<1>3. IssueInv' /\ PromiseKept'
  BY NoneApart DEF Inv, None, TypeOK, IssueInv, PromiseKept, SetUp, FinishRemoval, Forget,
      GiveUp, StillOpen, NotRecorded, NotUsed, NoEntry, Told, Idle
<1>4. SettingsInv' /\ CallInv'
  BY NoneApart DEF Inv, None, TypeOK, SettingsInv, CallInv, SetUp, SessionInv,
      SessionsClosed, FinishRemoval, Forget, GiveUp, StillOpen, NotRecorded, NotUsed,
      NoEntry, Told, Idle
<1>5. FlowInv'
  BY NoneApart DEF Inv, None, TypeOK, FlowInv, FinishRemoval, Forget, GiveUp, StillOpen,
      NotRecorded, NotUsed, NoEntry, Told, Idle
<1>6. QED
  BY <1>1, <1>2, <1>3, <1>4, <1>5 DEF Inv

LEMMA CreateEntryKeeps ==
  ASSUME Inv, NEW f \in Flows, NEW o \in Options, CreateEntry(f, o)
  PROVE  Inv'
<1>1. TypeOK'
  <2>1. PICK new \in EntryType : new = [data |-> flow[f].data, options |-> o, disabled |-> FALSE]
    BY LifecycleAssumption DEF EntryType, LifecycleAssumption, Inv, TypeOK
  <2>2. entry' = new /\ BeginSetup(new, open)
    BY <2>1 DEF CreateEntry
  <2>3. /\ SetupType' /\ settings'.data = None /\ promised' = FALSE
        /\ state' = "setup_in_progress" /\ step' = "refresh"
    BY <2>2, BeginSetupTypes DEF Inv, TypeOK
  <2>4. flow' \in [Flows -> [kind : {None, "user", "connection"},
                            at : {None, "test", "steps"}, data : Data \cup {None}]]
    BY DEF CreateEntry, Idle, Inv, TypeOK
  <2>5. QED
    BY <2>2, <2>3, <2>4 DEF Inv, None, TypeOK, Running, SetupType, UsedType, SettingsType, EntryType, CreateEntry
<1>2. SessionInv'
  <2>1. PICK new \in EntryType : BeginSetup(new, open)
    <3>1. [data |-> flow[f].data, options |-> o, disabled |-> FALSE] \in EntryType
      BY LifecycleAssumption DEF EntryType, LifecycleAssumption, Inv, TypeOK
    <3>2. QED
      BY <3>1 DEF CreateEntry
  <2>2. session' \in Sessions /\ open' = open \cup {session'} /\ state' = "setup_in_progress"
    BY <2>1, BeginSetupTypes DEF Inv, TypeOK
  <2>3. open = {}
    BY DEF CreateEntry, Inv, FlowInv, SessionInv, SessionsClosed
  <2>4. QED
    BY <2>2, <2>3 DEF SessionInv, SessionsClosed
<1>3. IssueInv' /\ PromiseKept'
  BY NoneApart, BeginSetupSession DEF Inv, None, TypeOK, IssueInv, PromiseKept, SetUp,
      CreateEntry, BeginSetup, NotRecorded, Idle
<1>4. SettingsInv' /\ CallInv'
  <2>1. PICK new \in EntryType :
            BeginSetup(new, open) /\ entry' = new /\ new.data = flow[f].data
    <3>1. [data |-> flow[f].data, options |-> o, disabled |-> FALSE] \in EntryType
      BY LifecycleAssumption DEF EntryType, LifecycleAssumption, Inv, TypeOK
    <3>2. QED
      BY <3>1 DEF CreateEntry
  <2>2. /\ used'.data = new.data /\ step' = "refresh" /\ state' = "setup_in_progress"
        /\ session' # call /\ open' = open \cup {session'}
    BY <2>1, BeginSetupTypes DEF Inv, TypeOK
  <2>3. open = {} /\ flow[f].data \in Data /\ call' = call
    BY DEF CreateEntry, Inv, None, FlowInv, SessionInv, SessionsClosed
  <2>4. QED
    BY <2>1, <2>2, <2>3 DEF Inv, None, SettingsInv, CallInv, SetUp
<1>5. FlowInv'
  BY NoneApart, BeginSetupSession DEF Inv, None, TypeOK, FlowInv, CreateEntry, BeginSetup,
      NotRecorded, Idle
<1>6. QED
  BY <1>1, <1>2, <1>3, <1>4, <1>5 DEF Inv

LEMMA UpdateAndFinishKeeps ==
  ASSUME Inv, NEW f \in Flows, UpdateAndFinish(f)
  PROVE  Inv'
<1>1. TypeOK'
  BY NoneApart DEF Inv, None, TypeOK, Running, UpdateAndFinish, Tested, Stored, Scheduled,
      Notified, Running, setupVars, Idle
<1>2. SessionInv'
  BY NoneApart DEF Inv, None, TypeOK, SessionInv, SessionsClosed, UpdateAndFinish, Tested,
      Stored, Scheduled, Notified, Running, setupVars, Idle
<1>3. IssueInv' /\ PromiseKept'
  <2>1. PICK e \in EntryType : /\ e = [entry EXCEPT !.data = flow[f].data]
                              /\ Stored(e, Scheduled(e))
    <3>1. [entry EXCEPT !.data = flow[f].data] \in EntryType
      BY RecordTypes DEF Inv, TypeOK, EntryType
    <3>2. QED
      BY <3>1 DEF UpdateAndFinish
  <2>2. e.disabled = entry.disabled /\ e.options = entry.options
    BY <2>1, RecordTypes DEF EntryType
  <2>3. Scheduled(e) \in {0, 1} /\ Notified(e) \in {0, 1} /\ reloads \in Nat
    BY NoneApart DEF Scheduled, Notified, Inv, TypeOK
  <2>4. reloads' \in Nat /\ reloads' >= reloads /\ entry' = e
    BY <2>1, <2>3 DEF Stored
  <2>5. reloads' > 0
    <3>1. CASE Scheduled(e) = 1
      BY <2>1, <2>3, <3>1 DEF Stored
    <3>2. CASE state = "loaded" /\ e # entry
      <4>1. SetUp /\ Running
        BY <3>2 DEF SetUp, Running
      <4>2. e.data # entry.data
        BY <2>2, <3>2, RecordTypes DEF EntryType
      <4>3. reloads > 0 \/ [data |-> e.data, options |-> e.options] # settings
        BY <4>1, <4>2 DEF Inv, SettingsInv
      <4>4. reloads > 0 \/ Notified(e) = 1
        BY <4>1, <4>3 DEF Notified
      <4>5. QED
        BY <2>1, <2>3, <3>2, <4>4 DEF Stored
    <3>3. QED
      BY <3>1, <3>2 DEF Scheduled
  <2>6. UNCHANGED <<state, step, used, issues>>
    BY DEF UpdateAndFinish, setupVars
  <2>7. IssueInv'
    BY <2>2, <2>4, <2>5, <2>6 DEF Inv, IssueInv, SetUp
  <2>8. PromiseKept'
    BY <2>5 DEF PromiseKept
  <2>9. QED
    BY <2>7, <2>8
<1>4. SettingsInv' /\ CallInv'
  BY NoneApart DEF Inv, None, TypeOK, SettingsInv, CallInv, SetUp, SessionInv,
      SessionsClosed, UpdateAndFinish, Tested, Stored, Scheduled, Notified, Running,
      setupVars, Idle
<1>5. FlowInv'
  BY NoneApart DEF Inv, None, TypeOK, FlowInv, UpdateAndFinish, Tested, Stored, Scheduled,
      Notified, Running, setupVars, Idle
<1>6. QED
  BY <1>1, <1>2, <1>3, <1>4, <1>5 DEF Inv

LEMMA SaveOptionsKeeps ==
  ASSUME Inv, NEW o \in Options, SaveOptions(o)
  PROVE  Inv'
<1>1. TypeOK'
  <2>1. [entry EXCEPT !.options = o] \in EntryType
    BY RecordTypes, LifecycleAssumption DEF EntryType, LifecycleAssumption
  <2>2. entry' \in EntryType /\ reloads' \in 0..MaxReloads
    BY <2>1, NoneApart DEF SaveOptions, Stored, Notified, Inv, TypeOK
  <2>3. QED
    BY <2>2 DEF Inv, TypeOK, Running, EntryType, SaveOptions, setupVars
<1>2. SessionInv'
  BY NoneApart DEF Inv, None, TypeOK, SessionInv, SessionsClosed, SaveOptions, Stored,
      Notified, Running, setupVars
<1>3. IssueInv' /\ PromiseKept'
  BY NoneApart DEF Inv, None, TypeOK, IssueInv, PromiseKept, SetUp, SaveOptions, Stored,
      Notified, Running, setupVars
<1>4. SettingsInv' /\ CallInv'
  BY NoneApart DEF Inv, None, TypeOK, SettingsInv, CallInv, SetUp, SessionInv,
      SessionsClosed, SaveOptions, Stored, Notified, Running, setupVars
<1>5. FlowInv'
  BY NoneApart DEF Inv, None, TypeOK, FlowInv, SaveOptions, Stored, Notified, Running,
      setupVars
<1>6. QED
  BY <1>1, <1>2, <1>3, <1>4, <1>5 DEF Inv

------------------------------------------------------------------------------
\* The invariant.

LEMMA InitInv == Init => Inv
<1> SUFFICES ASSUME Init PROVE Inv
  OBVIOUS
<1>1. TypeOK
  <2>1. entry \in EntryType /\ used \in UsedType /\ settings \in SettingsType
    BY DEF Init, NoEntry, NotUsed, NotRecorded, EntryType, UsedType, SettingsType
  <2>2. settings.data = None
    BY DEF Init, NotRecorded
  <2>3. flow \in [Flows -> [kind : {None, "user", "connection"},
                           at : {None, "test", "steps"}, data : Data \cup {None}]]
    BY DEF Init, Idle
  <2>4. reloads \in 0..MaxReloads
    <3>1. reloads = 0
      BY Zenon DEF Init
    <3>2. QED
      BY <3>1, NoneApart
  <2>5. QED
    BY <2>1, <2>2, <2>3, <2>4
    DEF Init, TypeOK, None, Running, EntryType, UsedType, SettingsType
<1>2. SessionInv /\ IssueInv /\ SettingsInv /\ CallInv /\ PromiseKept
  BY DEF Init, SessionInv, SessionsClosed, IssueInv, SettingsInv, CallInv, PromiseKept, SetUp,
     None, NoEntry
<1>3. FlowInv
  BY DEF Init, FlowInv, Idle, None
<1>4. QED
  BY <1>1, <1>2, <1>3 DEF Inv

LEMMA SetupKeeps ==
  ASSUME Inv, Setup
  PROVE  Inv'
<1>1. CASE Unreachable \/ Rejected
  <2>1. issues \in SUBSET {"api", "snmp"}
    BY DEF Inv, TypeOK
  <2>2. QED
    BY <1>1, <2>1, RefreshFailsKeeps DEF Unreachable, Rejected
<1>2. CASE AccessDenied
  <2>1. issues \cup {"api"} \in SUBSET {"api", "snmp"}
    BY DEF Inv, TypeOK
  <2>2. QED
    BY <1>2, <2>1, RefreshFailsKeeps DEF AccessDenied
<1>3. QED
  BY <1>1, <1>2, RefreshedKeeps, PreloadedKeeps, PlatformsReadyKeeps DEF Setup

LEMMA FlowStepKeeps ==
  ASSUME Inv, NEW f \in Flows, FlowStep(f)
  PROVE  Inv'
  BY SubmitKeeps, UserTestedKeeps, UpdateAndFinishKeeps, EndFlowKeeps, CreateEntryKeeps
  DEF FlowStep

LEMMA StutterKeeps ==
  ASSUME Inv, UNCHANGED vars
  PROVE  Inv'
<1>1. TypeOK'
  BY DEF Inv, TypeOK, Running, vars
<1>2. SessionInv' /\ IssueInv' /\ PromiseKept'
  BY DEF Inv, SessionInv, SessionsClosed, IssueInv, PromiseKept, SetUp, vars
<1>3. SettingsInv' /\ CallInv' /\ FlowInv'
  BY DEF Inv, SettingsInv, CallInv, FlowInv, SetUp, vars
<1>4. QED
  BY <1>1, <1>2, <1>3 DEF Inv

LEMMA InvStep == Inv /\ [Next]_vars => Inv'
<1> SUFFICES ASSUME Inv, [Next]_vars PROVE Inv'
  OBVIOUS
<1>1. CASE \E f \in Flows : FlowStep(f)
  BY <1>1, FlowStepKeeps
<1>2. CASE \E o \in Options : SaveOptions(o)
  BY <1>2, SaveOptionsKeeps
<1>3. CASE Setup \/ UNCHANGED vars
  BY <1>3, SetupKeeps, StutterKeeps
<1>4. CASE Retry \/ Reload \/ FinishUnload \/ Remove \/ FinishRemoval
  BY <1>4, RetryKeeps, ReloadKeeps, FinishUnloadKeeps, RemoveKeeps, FinishRemovalKeeps
<1>5. CASE SetDisabled \/ Stop \/ Restart
  BY <1>5, SetDisabledKeeps, StopKeeps, RestartKeeps
<1>6. CASE \/ PollRejected \/ XmlPoll \/ SnmpPoll \/ StartAction \/ EndAction \/ ChangePassword
  BY <1>6, PollRejectedKeeps, XmlPollKeeps, SnmpPollKeeps, StartActionKeeps, EndActionKeeps,
     ChangePasswordKeeps
<1>7. QED
  BY <1>1, <1>2, <1>3, <1>4, <1>5, <1>6 DEF Next

\* The invariant of the life of an entry: its session is that of its setup, its
\* settings are the stored ones unless a reload is waiting, and its issues go with it.
THEOREM InvCorrect == Spec => []Inv
<1>1. Init => Inv
  BY InitInv
<1>2. Inv /\ [Next]_vars => Inv'
  BY InvStep
<1>3. QED
  BY <1>1, <1>2, PTL DEF Spec

\* Every variable of the entry keeps its type.
THEOREM TypeCorrect == Spec => []TypeOK
<1>1. Inv => TypeOK
  BY DEF Inv
<1>2. QED
  BY <1>1, InvCorrect, PTL

\* Whatever ends a setup or the entry closes its session, and nothing closes the
\* session of the present one (__init__.py:116-120, session.py:28).
THEOREM SessionsClosedCorrect == Spec => []SessionsClosed
<1>1. Inv => SessionsClosed
  BY DEF Inv, SessionInv
<1>2. QED
  BY <1>1, InvCorrect, PTL

\* A loaded entry that nothing is about to reload uses the stored connection settings
\* (config_flow.py:404-413).
THEOREM ConnectionCurrentCorrect == Spec => []ConnectionCurrent
<1>1. Inv => ConnectionCurrent
  BY DEF Inv, TypeOK, SettingsInv, SetUp, ConnectionCurrent
<1>2. QED
  BY <1>1, InvCorrect, PTL

\* An action has a session to write with only while the entry allows it, or until the
\* reload that follows its withdrawal.
THEOREM RevokedIsOverCorrect == Spec => []RevokedIsOver
<1>1. Inv => RevokedIsOver
  BY DEF Inv, TypeOK, CallInv, RevokedIsOver
<1>2. QED
  BY <1>1, InvCorrect, PTL

\* No issue outlives the entry, its disabling, or the end of SNMP.
THEOREM IssuesApplyCorrect == Spec => []IssuesApply
<1>1. Inv => IssuesApply
  BY DEF Inv, TypeOK, IssueInv, SetUp, Unlocked, IssuesApply
<1>2. QED
  BY <1>1, InvCorrect, PTL

\* A flow that reported success is followed by a setup with what it stored.
THEOREM PromiseKeptCorrect == Spec => []PromiseKept
<1>1. Inv => PromiseKept
  BY DEF Inv
<1>2. QED
  BY <1>1, InvCorrect, PTL

\* Only the end of a connection flow makes a promise.
LEMMA PromisedBy ==
  ASSUME Inv, [Next]_vars, promised', ~promised
  PROVE  \E f \in Flows : UpdateAndFinish(f)
<1>1. CASE \E f \in Flows : FlowStep(f)
  BY <1>1 DEF FlowStep, Submit, UserTested, EndFlow, CreateEntry, BeginSetup
<1>2. CASE ~\E f \in Flows : FlowStep(f)
  BY <1>2 DEF Next, vars, Setup, Unreachable, AccessDenied, Rejected, RefreshFails, Refreshed,
     Preloaded, PlatformsReady, entryVars, Retry, Reload, Unload, FinishUnload, Remove, Forget,
     FinishRemoval, SetDisabled, Stop, Restart, BeginSetup, SaveOptions, PollRejected, XmlPoll,
     SnmpPoll, Poll, StartAction, EndAction, ChangePassword
<1>3. QED
  BY <1>1, <1>2

\* A flow that ends while the entry is loaded reloads it once, by itself or through the
\* listener (config_flow.py:404-413).
THEOREM ReloadedOnceCorrect == Spec => ReloadedOnce
<1>1. ASSUME Inv, [Next]_vars, state = "loaded", reloads = 0, promised', ~promised
      PROVE  reloads' = 1
  <2>1. PICK f \in Flows : UpdateAndFinish(f)
    BY <1>1, PromisedBy
  <2>2. PICK e \in EntryType : /\ e = [entry EXCEPT !.data = flow[f].data]
                              /\ Stored(e, Scheduled(e))
    <3>1. [entry EXCEPT !.data = flow[f].data] \in EntryType
      BY <1>1, RecordTypes DEF Inv, TypeOK, EntryType
    <3>2. QED
      BY <2>1, <3>1 DEF UpdateAndFinish
  <2>3. CASE e = entry
    BY <1>1, <2>2, <2>3 DEF Stored, Scheduled
  <2>4. CASE e # entry
    <3>1. settings = [data |-> entry.data, options |-> entry.options]
      BY <1>1 DEF Inv, SettingsInv, SetUp
    <3>2. e.data # entry.data
      BY <1>1, <2>2, <2>4, RecordTypes DEF EntryType
    <3>3. Notified(e) = 1 /\ Scheduled(e) = 0
      BY <1>1, <2>4, <3>1, <3>2 DEF Notified, Scheduled, Running
    <3>4. QED
      BY <1>1, <2>2, <2>4, <3>3 DEF Stored
  <2>5. QED
    BY <2>3, <2>4
<1>2. QED
  BY <1>1, InvCorrect, PTL DEF Spec, ReloadedOnce

\* A user flow never creates an entry where there is one (config_flow.py:281).
THEOREM NeverReplacedCorrect == Spec => NeverReplaced
<1>1. Inv => \A f \in Flows : flow[f].at = "steps" => state = "absent"
  BY DEF Inv, FlowInv
<1>2. Inv => [\A f \in Flows : flow[f].at = "steps" /\ flow'[f] = Idle /\ step' = "refresh"
                               /\ step # "refresh" => state = "absent"]_vars
  BY <1>1
<1>3. QED
  BY <1>2, InvCorrect, PTL DEF Spec, NeverReplaced
=============================================================================
