------------------------- MODULE CoordinatorProofs -------------------------
(***************************************************************************)
(* Proofs about the update cycle, for every endpoint table, every set of   *)
(* intervals and every schedule that Coordinator's assumptions admit.      *)
(***************************************************************************)
EXTENDS Coordinator, TLAPS

USE ConstantsAssumption DEF ConstantsAssumption, Never, Off, NoData, None

\* Every variable keeps its type: one step for each action of Next.
LEMMA TypeInit == Init => TypeOK
<1> SUFFICES ASSUME Init PROVE TypeOK
  OBVIOUS
<1> USE DEF Init, Everywhere
<1>1. restricted \in BOOLEAN /\ timer \in 0..Base \cup {Off} /\ elapsed \in 0..MaxCycle
  OBVIOUS
<1>2. /\ updates \in [Endpoints -> Versions \cup {NoData}]
      /\ failures \in [Endpoints -> Errors \cup {None}]
  OBVIOUS
<1>3. firewall \in [Endpoints -> Versions]
  BY DEF Versions
<1>4. QED
  BY <1>1, <1>2, <1>3 DEF TypeOK

\* A new coordinator is well-typed, next to the state that survives it.
LEMMA TypeBoot == TypeOK /\ Boot /\ accessIssue' \in BOOLEAN /\ UNCHANGED firewall => TypeOK'
  BY DEF Boot, EndCycle, TypeOK, Everywhere, Ages, Versions

\* The local variables of a cycle that ended are well-typed.
LEMMA TypeEndCycle ==
  EndCycle
    => /\ phase' \in {"idle", "fetching", "retrying"}
       /\ waiting' \subseteq Endpoints /\ later' \subseteq Endpoints
       /\ snapshot' \in [Endpoints -> Nat]
       /\ updates' \in [Endpoints -> Versions \cup {NoData}]
       /\ failures' \in [Endpoints -> Errors \cup {None}]
       /\ elapsed' \in 0..MaxCycle
  BY DEF EndCycle, Everywhere

\* RecordCycle keeps the types of what it assigns.
LEMMA TypeRecord ==
  TypeOK /\ RecordCycle
    => /\ last' \in [Endpoints -> Ages \cup {Never}]
       /\ fetchedAt' \in [Endpoints -> Ages \cup {Never}]
       /\ ok' \in [Endpoints -> {"unset", "ok", "failed"}]
       /\ failureLogged' \subseteq Endpoints
  BY DEF TypeOK, RecordCycle, Ages, Failed

\* Every step keeps every variable's type.
LEMMA TypeStep == TypeOK /\ [Next]_vars => TypeOK'
<1> SUFFICES ASSUME TypeOK, [Next]_vars PROVE TypeOK'
  OBVIOUS
<1>a. (Base - Early)..Base \subseteq 0..Base
  OBVIOUS
<1>1. CASE Run
  <2>1. CASE StartUpdate /\ timer' \in {timer, Off} /\ requested' \in BOOLEAN
    BY <2>1 DEF TypeOK, StartUpdate, endpointVars, Due, Enabled
  <2>2. CASE NothingDueRun
    BY <1>a, <2>2 DEF TypeOK, NothingDueRun, Rearmed, endpointVars, cycleVars
  <2>3. QED
    BY <1>1, <2>1, <2>2 DEF Run, ScheduledRun, RequestedRun, TypeOK
<1>2. CASE CycleGoesOn
  <2>1. ASSUME NEW e \in Endpoints, Answer(e) PROVE TypeOK'
    BY <2>1 DEF TypeOK, Answer, endpointVars, haVars
  <2>2. ASSUME NEW e \in Endpoints, NEW error \in Errors, Fail(e, error) PROVE TypeOK'
    BY <2>2 DEF TypeOK, Fail, endpointVars, haVars
  <2>3. CASE RetryAuth
    BY <2>3 DEF TypeOK, RetryAuth, Failed, endpointVars, haVars
  <2>4. CASE FetchLater
    BY <2>4 DEF TypeOK, FetchLater, endpointVars, haVars
  <2>5. QED
    BY <1>2, <2>1, <2>2, <2>3, <2>4 DEF CycleGoesOn
<1>3. CASE CycleEnds
  <2>1. ASSUME NEW times \in SUBSET (0..Base \cup {Off}), GiveUp(times),
               accessIssue' \in BOOLEAN, UNCHANGED firewall
        PROVE TypeOK'
    <3>1. CASE restricted
      BY <2>1, <3>1, TypeBoot DEF GiveUp
    <3>2. CASE ~restricted
      BY <2>1, <3>2, TypeEndCycle DEF GiveUp, TypeOK, endpointVars
    <3>3. QED
      BY <3>1, <3>2
  <2>2. CASE AuthRejected
    BY <2>1, <2>2 DEF AuthRejected, TypeOK
  <2>3. CASE AccessDenied
    BY <1>a, <2>1, <2>3 DEF AccessDenied, Rearmed
  <2>4. CASE FinishFailed
    <3>1. CASE restricted
      BY <2>4, <3>1, TypeBoot DEF FinishFailed, TypeOK
    <3>2. CASE ~restricted
      <4>1. timer' \in 0..Base \cup {Off}
        BY <1>a, <2>4, <3>2 DEF FinishFailed, Rearmed
      <4>2. QED
        BY <2>4, <3>2, <4>1, TypeRecord, TypeEndCycle DEF FinishFailed, TypeOK
    <3>3. QED
      BY <3>1, <3>2
  <2>5. CASE FinishUpdate
    <3>1. disabled' \subseteq Endpoints
      BY <2>5 DEF FinishUpdate, TypeOK
    <3>2. data' \in [Endpoints -> Versions \cup {NoData}]
      BY <2>5 DEF FinishUpdate, TypeOK
    <3>3. timer' \in 0..Base \cup {Off}
      BY <1>a, <2>5 DEF FinishUpdate, Rearmed
    <3>4. /\ accessIssue' \in BOOLEAN /\ requested' \in BOOLEAN
          /\ restricted' \in BOOLEAN /\ lastUpdateSuccess' \in BOOLEAN
      BY <2>5 DEF FinishUpdate, TypeOK
    <3>5. QED
      BY <2>5, <3>1, <3>2, <3>3, <3>4, TypeRecord, TypeEndCycle DEF FinishUpdate, TypeOK
  <2>6. QED
    BY <1>3, <2>2, <2>3, <2>4, <2>5 DEF CycleEnds
<1>4. ASSUME NEW e \in Endpoints, ScheduleRefresh(e) PROVE TypeOK'
  BY <1>4 DEF TypeOK, ScheduleRefresh, Invalidate, cycleVars
<1>5. ASSUME NEW e \in Endpoints, FirewallChanges(e) PROVE TypeOK'
  BY <1>5 DEF TypeOK, FirewallChanges, Versions, endpointVars, haVars, cycleVars
<1>6. CASE DropRequest \/ TimerFires
  BY <1>6 DEF TypeOK, DropRequest, TimerFires, endpointVars, cycleVars
<1>7. CASE Reload
  BY <1>7, TypeBoot DEF Reload, TypeOK
<1>8. CASE Tick
  <2>1. \A age \in Ages \cup {Never} : Older(age) \in Ages \cup {Never}
    BY DEF Older, Ages
  <2>2. QED
    BY <1>8, <2>1 DEF TypeOK, Tick
<1>9. CASE UNCHANGED vars
  BY <1>9 DEF TypeOK, vars, endpointVars, haVars, cycleVars
<1>10. QED
  BY <1>1, <1>2, <1>3, <1>4, <1>5, <1>6, <1>7, <1>8, <1>9 DEF Next

\* Every reachable state of the coordinator is well-typed.
THEOREM TypeCorrect == Spec => []TypeOK
  BY TypeInit, TypeStep, PTL DEF Spec

------------------------------------------------------------------------------
\* The inductive invariant behind the safety properties.

\* The endpoints the running cycle has asked for, or still will.
InCycle == waiting \cup later \cup Updated \cup Failed(Errors)

\* An endpoint is asked for at most once at a time, and has one result; the
\* cycle only deals with endpoints that are due; and unless it is the first
\* refresh of a setup it deals with every endpoint that had failed.
CycleInv ==
    /\ (phase = "idle") <=> (InCycle = {})
    /\ waiting \cap later = {}
    /\ \A e \in waiting \cup later : updates[e] = NoData /\ failures[e] = None
    /\ \A e \in Updated : failures[e] = None
    /\ \A e \in InCycle : e \in Enabled /\ IsDue(e)
    /\ restricted => lastUpdateSuccess /\ \A e \in Endpoints : ok[e] = "unset"
    /\ ~restricted => later = {}
    /\ phase # "idle" => \A e \in Enabled : ok[e] = "failed" => e \in InCycle

\* A source that is down has something due, which the next run asks for.
DownIsDue == ~lastUpdateSuccess => Due # {}

EndpointInv == FailedIsDue /\ AvailableHasData /\ FailuresLogged /\ DownIsDue

Inv == TypeOK /\ CycleInv /\ EndpointInv

\* A new coordinator has no cycle, nothing available, nothing logged.
LEMMA InvInit == Init => Inv
<1> SUFFICES ASSUME Init PROVE Inv
  OBVIOUS
<1>1. TypeOK
  BY TypeInit
<1>2. InCycle = {}
  BY DEF Init, Everywhere, InCycle, Updated, Failed
<1>3. CycleInv
  BY <1>2 DEF Init, CycleInv, Everywhere, Updated
<1>4. EndpointInv
  BY DEF Init, EndpointInv, FailedIsDue, AvailableHasData, FailuresLogged, DownIsDue,
         IsDue, Enabled, Everywhere
<1>5. QED
  BY <1>1, <1>3, <1>4 DEF Inv

\* A new coordinator satisfies the invariant, whatever the old one had done.
LEMMA InvBoot == TypeOK' /\ Boot => Inv'
<1> SUFFICES ASSUME TypeOK', Boot PROVE Inv'
  OBVIOUS
<1>1. InCycle' = {}
  BY DEF Boot, EndCycle, Everywhere, InCycle, Updated, Failed
<1>2. CycleInv'
  BY <1>1 DEF Boot, EndCycle, CycleInv, Everywhere, Updated
<1>3. EndpointInv'
  BY DEF Boot, EndpointInv, FailedIsDue, AvailableHasData, FailuresLogged, DownIsDue,
         IsDue, Enabled, Everywhere
<1>4. QED
  BY <1>2, <1>3 DEF Inv

\* The steps inside a cycle and before it leave what is recorded alone.
LEMMA InvSameEndpoints ==
  EndpointInv /\ UNCHANGED <<endpointVars, lastUpdateSuccess>> => EndpointInv'
  BY DEF EndpointInv, endpointVars, FailedIsDue, AvailableHasData, FailuresLogged,
         DownIsDue, IsDue, Enabled, Due

\* At the end of a cycle nothing is left of it.
LEMMA InvEndCycle ==
  ASSUME EndCycle, ~restricted'
  PROVE  CycleInv'
<1>1. InCycle' = {}
  BY DEF EndCycle, Everywhere, InCycle, Updated, Failed
<1>2. QED
  BY <1>1 DEF EndCycle, CycleInv, Everywhere, Updated

\* A run takes every endpoint that is due into its cycle.
LEMMA InvRun == Inv /\ TypeOK' /\ (ScheduledRun \/ RequestedRun) => Inv'
<1> SUFFICES ASSUME Inv, TypeOK', StartUpdate PROVE Inv'
  BY DEF ScheduledRun, RequestedRun
<1> USE DEF Inv
<1>1. EndpointInv'
  BY InvSameEndpoints DEF StartUpdate
<1>2. Updated' = {} /\ Failed(Errors)' = {}
  BY DEF StartUpdate, CycleInv, InCycle, Updated, Failed
<1>3. InCycle' = Due
  BY <1>2 DEF StartUpdate, InCycle
<1>4. UNCHANGED <<Due, Enabled>> /\ \A e \in Endpoints : IsDue(e)' = IsDue(e)
  BY DEF StartUpdate, endpointVars, Due, Enabled, IsDue
<1>5. \A e \in Enabled : ok[e] = "failed" => e \in Due
  BY DEF EndpointInv, FailedIsDue, Due
<1>6. \A e \in Endpoints : updates'[e] = NoData /\ failures'[e] = None
  BY <1>2 DEF Updated, Failed, TypeOK
<1>7. CycleInv'
  BY <1>2, <1>3, <1>4, <1>5, <1>6 DEF StartUpdate, CycleInv, endpointVars, TypeOK, Due, Enabled
<1>8. QED
  BY <1>1, <1>7

\* A step of a cycle moves endpoints around in it, and keeps them in it.
LEMMA InvCycleGoesOn == Inv /\ TypeOK' /\ CycleGoesOn => Inv'
<1> SUFFICES ASSUME Inv, TypeOK', CycleGoesOn PROVE Inv'
  OBVIOUS
<1> USE DEF Inv
<1>1. UNCHANGED <<endpointVars, lastUpdateSuccess, restricted>>
  BY DEF CycleGoesOn, Answer, Fail, RetryAuth, FetchLater, haVars
<1>2. EndpointInv'
  BY <1>1, InvSameEndpoints
<1>3. \A e \in Endpoints : (e \in Enabled /\ IsDue(e))' <=> (e \in Enabled /\ IsDue(e))
  BY <1>1 DEF endpointVars, Enabled, IsDue
<1>4. InCycle' = InCycle /\ CycleInv'
  <2>1. ASSUME NEW e \in Endpoints, Answer(e) PROVE InCycle' = InCycle /\ CycleInv'
    <3>1. Updated' = Updated \cup {e}
      BY <2>1 DEF Answer, Updated, TypeOK, Versions
    <3>2. InCycle' = InCycle
      BY <2>1, <3>1 DEF Answer, InCycle, Failed
    <3>3. QED
      BY <1>1, <1>3, <2>1, <3>1, <3>2 DEF Answer, CycleInv, endpointVars, TypeOK, Enabled
  <2>2. ASSUME NEW e \in Endpoints, NEW error \in Errors, Fail(e, error)
        PROVE  InCycle' = InCycle /\ CycleInv'
    <3>1. Failed(Errors)' = Failed(Errors) \cup {e} /\ Updated' = Updated
      BY <2>2 DEF Fail, Failed, Updated, TypeOK
    <3>2. InCycle' = InCycle
      BY <2>2, <3>1 DEF Fail, InCycle
    <3>3. QED
      BY <1>1, <1>3, <2>2, <3>1, <3>2 DEF Fail, CycleInv, endpointVars, TypeOK, Enabled, Updated
  <2>3. CASE RetryAuth
    <3>1. /\ Failed(Errors)' = Failed(Errors) \ Failed({"auth"})
          /\ Updated' = Updated /\ waiting = {} /\ waiting' = Failed({"auth"})
          /\ later' = later
      BY <2>3 DEF RetryAuth, RoundDone, Failed, Updated, TypeOK
    <3>2. Failed({"auth"}) \subseteq Failed(Errors)
      BY DEF Failed, TypeOK
    <3>3. InCycle' = InCycle
      BY <3>1, <3>2 DEF InCycle
    <3>4. \A e \in Failed({"auth"}) : updates[e] = NoData /\ failures'[e] = None
      BY <2>3 DEF RetryAuth, Failed, CycleInv, Updated, TypeOK
    <3>5. Failed({"auth"}) \cap later = {}
      BY DEF Failed, CycleInv
    <3>6. QED
      BY <1>1, <1>3, <2>3, <3>1, <3>3, <3>4, <3>5
      DEF RetryAuth, CycleInv, endpointVars, TypeOK, Enabled, Updated
  <2>4. CASE FetchLater
    <3>1. InCycle' = InCycle
      BY <2>4 DEF FetchLater, Settled, RoundDone, InCycle, Failed, Updated
    <3>2. QED
      BY <1>1, <1>3, <2>4, <3>1
      DEF FetchLater, Settled, RoundDone, CycleInv, endpointVars, TypeOK, Enabled, Updated
  <2>5. QED
    BY <2>1, <2>2, <2>3, <2>4 DEF CycleGoesOn
<1>5. QED
  BY <1>2, <1>4

\* What the end of a cycle rests on: every endpoint got one result, and those
\* that had failed before, or fail now, are due.
LEMMA InvCycleEnds == Inv /\ TypeOK' /\ CycleEnds => Inv'
<1> SUFFICES ASSUME Inv, TypeOK', CycleEnds PROVE Inv'
  OBVIOUS
<1> USE DEF Inv
<1>1. ASSUME NEW times, GiveUp(times), ~restricted, Failed(Errors) # {} PROVE Inv'
  <2>1. CycleInv'
    BY <1>1, InvEndCycle DEF GiveUp, TypeOK, endpointVars
  <2>2. Due # {}
    BY <1>1 DEF CycleInv, InCycle, Due, Enabled
  <2>3. EndpointInv'
    BY <1>1, <2>2 DEF GiveUp, endpointVars, EndpointInv, FailedIsDue, AvailableHasData,
       FailuresLogged, DownIsDue, IsDue, Enabled, Due
  <2>4. QED
    BY <2>1, <2>3
<1>2. CASE AuthRejected
  <2>1. Failed(Errors) # {}
    BY <1>2 DEF AuthRejected, Failed, TypeOK
  <2>2. QED
    BY <1>1, <1>2, <2>1, InvBoot DEF AuthRejected, GiveUp
<1>3. CASE AccessDenied
  <2>1. Failed(Errors) # {}
    BY <1>3 DEF AccessDenied, Failed, TypeOK
  <2>2. QED
    BY <1>1, <1>3, <2>1, InvBoot DEF AccessDenied, GiveUp
<1>4. ASSUME NEW e \in Endpoints, CycleDone, RecordCycle
      PROVE  /\ updates[e] # NoData => ok'[e] = "ok" /\ e \notin Failed(Errors)
             /\ failures[e] # None => ok'[e] = "failed" /\ last'[e] = last[e] /\ IsDue(e)
                                      /\ e \in Enabled
             /\ updates[e] = NoData /\ failures[e] = None
                  => /\ ok'[e] = ok[e] /\ last'[e] = last[e]
                     /\ e \in Enabled => ok'[e] # "failed" \/ restricted
  <2>1. updates[e] # NoData => e \in Updated /\ failures[e] = None
    BY DEF CycleInv, Updated
  <2>2. failures[e] # None => e \in Failed(Errors) /\ e \notin Updated /\ e \notin Fetched
    BY <2>1 DEF Failed, Fetched, Updated, TypeOK
  <2>3. failures[e] # None => IsDue(e) /\ e \in Enabled
    BY <2>2 DEF CycleInv, InCycle
  <2>4. updates[e] = NoData => e \notin Updated /\ e \notin Fetched
    BY DEF Updated, Fetched
  <2>5. waiting = {} /\ phase # "idle"
    BY <1>4 DEF CycleDone, Settled, RoundDone
  <2>6. updates[e] = NoData /\ failures[e] = None /\ ~restricted => e \notin InCycle
    BY <2>4, <2>5 DEF CycleInv, InCycle, Failed, TypeOK
  <2>7. e \in Enabled /\ e \notin InCycle => ok[e] # "failed"
    BY <2>5 DEF CycleInv
  <2>8. QED
    BY <1>4, <2>1, <2>2, <2>3, <2>4, <2>6, <2>7 DEF RecordCycle, Failed, TypeOK
<1>5. CASE FinishFailed
  <2>1. CASE restricted
    BY <1>5, <2>1, InvBoot DEF FinishFailed
  <2>2. CASE ~restricted
    <3>1. CycleDone /\ RecordCycle /\ EndCycle /\ UNCHANGED <<disabled, data, restricted>>
          /\ ~lastUpdateSuccess' /\ NothingToShow
      BY <1>5, <2>2 DEF FinishFailed
    <3>2. CycleInv'
      BY <2>2, <3>1, InvEndCycle DEF TypeOK
    <3>3. Updated = {}
      BY <3>1 DEF NothingToShow, Unreachable
    <3>4. PICK f \in Failed(Errors) : TRUE
      BY <2>2, <3>1, <3>3 DEF CycleDone, Settled, RoundDone, CycleInv, InCycle
    <3>5. failures[f] # None
      BY <3>4 DEF Failed
    <3>6. FailedIsDue'
      BY <1>4, <2>2, <3>1, <3>3 DEF FailedIsDue, EndpointInv, IsDue, Enabled, Updated
    <3>7. AvailableHasData'
      BY <1>4, <3>1, <3>3 DEF AvailableHasData, EndpointInv, Updated
    <3>8. FailuresLogged'
      BY <1>4, <3>1, <3>3
      DEF FailuresLogged, EndpointInv, RecordCycle, Failed, Updated, TypeOK
    <3>9. DownIsDue'
      BY <1>4, <3>1, <3>4, <3>5 DEF DownIsDue, Due, IsDue, Enabled, Failed
    <3>10. QED
      BY <3>2, <3>6, <3>7, <3>8, <3>9 DEF EndpointInv
  <2>3. QED
    BY <2>1, <2>2
<1>6. CASE FinishUpdate
  <2>1. /\ CycleDone /\ RecordCycle /\ EndCycle /\ ~NothingToShow /\ lastUpdateSuccess'
        /\ ~restricted' /\ disabled \subseteq disabled'
        /\ data' = [e \in Endpoints |-> IF e \in Updated THEN updates[e] ELSE data[e]]
    BY <1>6 DEF FinishUpdate
  <2>2. CycleInv'
    BY <2>1, InvEndCycle DEF TypeOK
  <2>3. FailedIsDue'
    BY <1>4, <2>1 DEF FailedIsDue, EndpointInv, IsDue, Enabled, TypeOK
  <2>4. AvailableHasData'
    BY <1>4, <2>1 DEF AvailableHasData, EndpointInv, Updated, TypeOK
  <2>5. \A e \in failureLogged' : ok'[e] = "failed"
    BY <1>4, <2>1 DEF FailuresLogged, EndpointInv, RecordCycle, Failed, Updated, TypeOK
  <2>6. ASSUME NEW e \in Enabled', ok'[e] = "failed" PROVE e \in failureLogged'
    <3>1. e \in Enabled /\ e \in Endpoints
      BY <2>1 DEF Enabled
    <3>2. failures[e] # None
      BY <1>4, <2>1, <2>6, <3>1 DEF CycleInv, TypeOK
    <3>3. QED
      BY <2>1, <3>1, <3>2 DEF RecordCycle, NothingToShow, Failed, TypeOK
  <2>7. QED
    BY <2>1, <2>2, <2>3, <2>4, <2>5, <2>6 DEF EndpointInv, FailuresLogged, DownIsDue
<1>7. QED
  BY <1>2, <1>3, <1>5, <1>6 DEF CycleEnds

\* The other steps: ages grow, so what is due stays due.
LEMMA InvOthers ==
  ASSUME Inv, TypeOK',
         \/ NothingDueRun \/ DropRequest \/ TimerFires \/ Tick \/ UNCHANGED vars
         \/ \E e \in Endpoints : ScheduleRefresh(e) \/ FirewallChanges(e)
  PROVE  Inv'
<1> USE DEF Inv
<1>1. ASSUME UNCHANGED <<phase, waiting, later, updates, failures, ok, disabled, restricted>>,
             \A e \in Endpoints : IsDue(e) => IsDue(e)'
      PROVE  (lastUpdateSuccess => lastUpdateSuccess') => CycleInv'
  <2>1. UNCHANGED <<InCycle, Updated, Enabled>>
    BY <1>1 DEF InCycle, Updated, Failed, Enabled
  <2>2. QED
    BY <1>1, <2>1 DEF CycleInv, InCycle, Failed, Updated, TypeOK
<1>2. ASSUME UNCHANGED <<ok, disabled, failureLogged, data, lastUpdateSuccess>>,
             \A e \in Endpoints : IsDue(e) => IsDue(e)'
      PROVE  EndpointInv'
  BY <1>2 DEF EndpointInv, FailedIsDue, AvailableHasData, FailuresLogged, DownIsDue,
              Due, Enabled
<1>3. CASE NothingDueRun
  <2>1. CycleInv'
    BY <1>1, <1>3 DEF NothingDueRun, cycleVars, endpointVars, IsDue
  <2>2. \A e \in Enabled : ok[e] # "failed"
    BY <1>3 DEF NothingDueRun, EndpointInv, FailedIsDue, Due
  <2>3. EndpointInv'
    BY <1>3, <2>2 DEF NothingDueRun, endpointVars, EndpointInv, FailedIsDue,
       AvailableHasData, FailuresLogged, DownIsDue, IsDue, Enabled
  <2>4. QED
    BY <2>1, <2>3
<1>4. CASE Tick
  <2>1. \A e \in Endpoints : IsDue(e) => IsDue(e)'
    BY <1>4 DEF Tick, IsDue, Older, TypeOK, Ages
  <2>2. QED
    BY <1>1, <1>2, <1>4, <2>1 DEF Tick
<1>5. ASSUME NEW e \in Endpoints, ScheduleRefresh(e) PROVE Inv'
  <2>1. \A f \in Endpoints : IsDue(f) => IsDue(f)'
    BY <1>5 DEF ScheduleRefresh, Invalidate, IsDue, TypeOK
  <2>2. QED
    BY <1>1, <1>2, <1>5, <2>1 DEF ScheduleRefresh, cycleVars
<1>6. CASE DropRequest \/ TimerFires \/ UNCHANGED vars \/ \E e \in Endpoints : FirewallChanges(e)
  BY <1>1, <1>2, <1>6
  DEF DropRequest, TimerFires, FirewallChanges, vars, cycleVars, endpointVars, haVars, IsDue
<1>7. QED
  BY <1>3, <1>4, <1>5, <1>6

\* The invariant is inductive.
LEMMA InvStep == Inv /\ [Next]_vars => Inv'
<1> SUFFICES ASSUME Inv, [Next]_vars PROVE Inv'
  OBVIOUS
<1>1. TypeOK'
  BY TypeStep DEF Inv
<1>2. CASE Reload
  BY <1>1, <1>2, InvBoot DEF Reload
<1>3. QED
  BY <1>1, <1>2, InvRun, InvCycleGoesOn, InvCycleEnds, InvOthers DEF Next, Run

\* What a cycle rests on holds in every reachable state.
THEOREM InvCorrect == Spec => []Inv
  BY InvInit, InvStep, PTL DEF Spec

\* An endpoint that did not answer is due, whatever cycles came in between.
THEOREM FailedIsDueCorrect == Spec => []FailedIsDue
<1>1. Inv => FailedIsDue
  BY DEF Inv, EndpointInv
<1>2. QED
  BY <1>1, InvCorrect, PTL

\* An available endpoint has data.
THEOREM AvailableHasDataCorrect == Spec => []AvailableHasData
<1>1. Inv => AvailableHasData
  BY DEF Inv, EndpointInv
<1>2. QED
  BY <1>1, InvCorrect, PTL

\* Failures are logged when they start and taken off the record when they end.
THEOREM FailuresLoggedCorrect == Spec => []FailuresLogged
<1>1. Inv => FailuresLogged
  BY DEF Inv, EndpointInv
<1>2. QED
  BY <1>1, InvCorrect, PTL

\* Only an answer revives a source that was down: while it is down something is
\* due, so no run can succeed for having nothing to do.
THEOREM NoFalseRecoveryCorrect == Spec => NoFalseRecovery
<1>1. Inv /\ [Next]_vars
        => [Revived => Updated \cup Failed(Errors \ {"connection"}) # {}]_vars
  <2> SUFFICES ASSUME Inv, Next, Revived
               PROVE  Updated \cup Failed(Errors \ {"connection"}) # {}
    BY DEF Revived, vars, haVars
  <2>1. ~NothingDueRun
    BY DEF Revived, NothingDueRun, Inv, EndpointInv, DownIsDue
  <2>2. ~restricted
    BY DEF Revived, Inv, CycleInv
  <2>3. CASE FinishUpdate
    BY <2>3 DEF FinishUpdate, NothingToShow, Unreachable
  <2>4. QED
    BY <2>1, <2>2, <2>3
    DEF Revived, Next, Run, ScheduledRun, RequestedRun, StartUpdate, CycleGoesOn, Answer,
        Fail, RetryAuth, FetchLater, haVars, CycleEnds, AuthRejected, AccessDenied, GiveUp,
        FinishFailed, ScheduleRefresh, FirewallChanges, DropRequest, TimerFires, Tick
<1>2. QED
  BY <1>1, InvCorrect, PTL DEF Spec, NoFalseRecovery

------------------------------------------------------------------------------
\* The realtime tier and the timer.

\* The timer cannot get ahead of the ages: when it has run down, an endpoint of
\* the realtime tier is old enough.  The restricted refresh runs without timer.
TimerInv ==
    /\ timer # Off =>
        \A e \in Endpoints :
            Interval[e] <= Base => IsDue(e) \/ last[e] + timer >= Base - Early
    /\ restricted => timer = Off \/ Enabled = {}

\* The first run of a coordinator is planned as TimerInv says.
LEMMA TimerInit == Init => TimerInv
<1> SUFFICES ASSUME Init PROVE TimerInv
  OBVIOUS
<1>1. \A e \in Endpoints : IsDue(e)
  BY DEF Init, IsDue, Everywhere
<1>2. restricted => timer = Off
  BY DEF Init
<1>3. QED
  BY <1>1, <1>2 DEF TimerInv

\* Ticks bring the run nearer and age the endpoints alike.
LEMMA TimerStep == Inv /\ TimerInv /\ [Next]_vars => TimerInv'
<1> SUFFICES ASSUME Inv, TimerInv, [Next]_vars PROVE TimerInv'
  OBVIOUS
<1>1. TypeOK /\ TypeOK'
  BY TypeStep DEF Inv
<1>2. ASSUME timer' \in Rearmed \cup {Off}, ~restricted' PROVE TimerInv'
  BY <1>1, <1>2 DEF TimerInv, Rearmed, IsDue, TypeOK, Ages
<1>3. CASE Boot
  BY <1>3 DEF Boot, TimerInv, IsDue, Everywhere
<1>4. ASSUME UNCHANGED <<restricted, disabled>>, timer' \in {timer, Off},
             \A e \in Endpoints : UNCHANGED last[e] \/ IsDue(e)'
      PROVE  TimerInv'
  BY <1>1, <1>4 DEF TimerInv, IsDue, Enabled
<1>5. CASE Run
  <2>1. CASE ScheduledRun \/ RequestedRun
    BY <1>4, <2>1 DEF ScheduledRun, RequestedRun, StartUpdate, endpointVars
  <2>2. CASE NothingDueRun
    <3>1. restricted => Enabled = {}
      BY <2>2 DEF NothingDueRun, Inv, CycleInv, EndpointInv, FailedIsDue, Due, Enabled
    <3>2. QED
      BY <1>1, <2>2, <3>1
      DEF NothingDueRun, TimerInv, Rearmed, IsDue, Enabled, endpointVars, TypeOK, Ages
  <2>3. QED
    BY <1>5, <2>1, <2>2 DEF Run
<1>6. CASE CycleGoesOn
  BY <1>4, <1>6 DEF CycleGoesOn, Answer, Fail, RetryAuth, FetchLater, endpointVars, haVars
<1>7. CASE CycleEnds
  BY <1>1, <1>2, <1>3, <1>7
  DEF CycleEnds, AuthRejected, AccessDenied, GiveUp, FinishFailed, FinishUpdate, TypeOK
<1>8. ASSUME NEW e \in Endpoints, ScheduleRefresh(e) \/ FirewallChanges(e) PROVE TimerInv'
  BY <1>1, <1>4, <1>8
  DEF ScheduleRefresh, Invalidate, FirewallChanges, IsDue, endpointVars, haVars, TypeOK
<1>9. CASE DropRequest \/ TimerFires \/ UNCHANGED vars
  BY <1>4, <1>9 DEF DropRequest, TimerFires, vars, endpointVars, haVars
<1>10. CASE Tick
  <2>1. ASSUME NEW e \in Endpoints, Interval[e] <= Base, timer' # Off
        PROVE  IsDue(e)' \/ last'[e] + timer' >= Base - Early
    BY <1>1, <1>10, <2>1 DEF Tick, TimerInv, IsDue, Older, TypeOK, Ages
  <2>2. QED
    BY <1>1, <1>10, <2>1 DEF Tick, TimerInv, Enabled, TypeOK
<1>11. QED
  BY <1>3, <1>5, <1>6, <1>7, <1>8, <1>9, <1>10 DEF Next, Reload

\* However early the timer fires, within the tolerance, a scheduled run reads
\* every endpoint of the realtime tier.
THEOREM RealtimeEveryRunCorrect == Spec => RealtimeEveryRun
<1>1. Inv /\ TimerInv /\ [Next]_vars => [timer = 0 /\ Run => Realtime \subseteq waiting']_vars
  <2> SUFFICES ASSUME Inv, TimerInv, timer = 0, Run, NEW e \in Realtime PROVE e \in waiting'
    OBVIOUS
  <2>1. e \in Due
    BY DEF Realtime, Due, Enabled, TimerInv, IsDue, Inv, TypeOK, Ages
  <2>2. ~restricted
    BY DEF Realtime, TimerInv
  <2>3. QED
    BY <2>1, <2>2 DEF Run, ScheduledRun, RequestedRun, NothingDueRun, StartUpdate
<1>2. QED
  BY <1>1, InvCorrect, TimerInit, InvInit, TimerStep, InvStep, PTL DEF Spec, RealtimeEveryRun

------------------------------------------------------------------------------
\* The age of what is shown.

\* A span is no shorter than the base, and what is older than it is due.
LEMMA SpanLong ==
  ASSUME NEW e \in Endpoints
  PROVE  /\ Span(e) \in Nat /\ Base <= Span(e)
         /\ Interval[e] \in Nat /\ 2 * Interval[e] <= Span(e)
  BY DEF Span

\* Between two cycles the timer leaves room for the age of what is available; in a cycle,
\* what it does not fetch was not due when it started, and what was invalidated since is
\* due again.
AgeInv ==
    /\ phase = "idle" =>
         /\ elapsed = 0
         /\ \A e \in Enabled : Available(e) =>
              timer # Off /\ 2 * (last[e] + timer) < Span(e) + Base + 2 * MaxCycle
    /\ phase # "idle" =>
         \A e \in Enabled :
           /\ Available(e) => 2 * (last[e] - elapsed) < Span(e) + Base + 2 * MaxCycle
           /\ e \notin InCycle =>
                last[e] = Never \/ 2 * (last[e] - elapsed) < Span(e) - Base
           /\ generation[e] = snapshot[e] \/ last[e] = Never

\* What a cycle that has ended leaves behind.
LEMMA AgeEndCycle ==
  ASSUME TypeOK, TypeOK', AgeInv, CycleDone, RecordCycle, EndCycle, CycleInv,
         lastUpdateSuccess', timer' \in Rearmed, Enabled' \subseteq Enabled
  PROVE  AgeInv'
<1>1. phase' = "idle" /\ elapsed' = 0 /\ timer' \in 0..Base
  BY DEF EndCycle, Rearmed
<1>2. phase # "idle" /\ waiting = {} /\ elapsed \in 0..MaxCycle
  BY DEF CycleDone, Settled, RoundDone, TypeOK
<1>3. ASSUME NEW e \in Enabled', ok'[e] = "ok"
      PROVE  2 * (last'[e] + timer') < Span(e) + Base + 2 * MaxCycle
  <2>1. e \in Enabled /\ e \in Endpoints /\ Base <= Span(e) /\ Span(e) \in Nat
    BY SpanLong DEF Enabled
  <2>2. CASE e \in Fetched
    BY <1>1, <2>1, <2>2 DEF RecordCycle
  <2>3. CASE e \in Updated \ Fetched
    <3>1. last[e] = Never
      BY <1>2, <2>1, <2>3 DEF AgeInv, Fetched
    <3>2. QED
      BY <1>1, <2>1, <2>3, <3>1 DEF RecordCycle
  <2>4. CASE e \notin Updated
    <3>1. failures[e] = None /\ ok[e] = "ok" /\ last'[e] = last[e]
      BY <1>3, <2>1, <2>4 DEF RecordCycle, Fetched
    <3>2. e \notin Failed(Errors) /\ e \notin later
      BY <3>1, <2>1 DEF Failed, CycleInv, TypeOK
    <3>3. e \notin InCycle
      BY <1>2, <2>4, <3>2 DEF InCycle
    <3>4. last[e] = Never \/ 2 * (last[e] - elapsed) < Span(e) - Base
      BY <1>2, <2>1, <3>3 DEF AgeInv
    <3>5. last[e] \in Ages \cup {Never}
      BY <2>1 DEF TypeOK
    <3>6. QED
      BY <1>1, <1>2, <2>1, <3>1, <3>4, <3>5 DEF Ages
  <2>5. QED
    BY <2>2, <2>3, <2>4 DEF Fetched
<1>4. QED
  BY <1>1, <1>3 DEF AgeInv, Available

\* A run that starts a cycle.
LEMMA AgeStart ==
  ASSUME Inv, AgeInv, TypeOK', ScheduledRun \/ RequestedRun
  PROVE  AgeInv'
<1>1. /\ StartUpdate /\ phase = "idle" /\ phase' = "fetching" /\ elapsed' = 0
      /\ snapshot' = generation /\ UNCHANGED <<endpointVars, lastUpdateSuccess>>
  BY DEF ScheduledRun, RequestedRun, StartUpdate, AgeInv
<1>2. Updated' = {} /\ Failed(Errors)' = {}
  BY <1>1 DEF StartUpdate, Inv, CycleInv, InCycle, Updated, Failed
<1>3. InCycle' = Due
  BY <1>1, <1>2 DEF StartUpdate, InCycle
<1>4. ASSUME NEW e \in Enabled
      PROVE  /\ Available(e) => 2 * last[e] < Span(e) + Base + 2 * MaxCycle
             /\ e \notin Due => 2 * last[e] < Span(e) - Base
  <2>1. /\ last[e] \in Int /\ timer \in 0..Base \cup {Off} /\ e \in Endpoints
        /\ Interval[e] \in Nat /\ Span(e) \in Nat /\ 2 * Interval[e] <= Span(e)
    BY <1>4, SpanLong DEF Inv, TypeOK, Ages, Enabled
  <2>2. Available(e) => timer # Off /\ 2 * (last[e] + timer) < Span(e) + Base + 2 * MaxCycle
    BY <1>1, <1>4 DEF AgeInv
  <2>3. e \notin Due => 2 * last[e] < 2 * Interval[e] - Base
    BY <1>4, <2>1 DEF Due, IsDue
  <2>4. QED
    BY <2>1, <2>2, <2>3
<1>5. UNCHANGED <<last, generation, Enabled>> /\ \A e \in Endpoints : Available(e)' = Available(e)
  BY <1>1 DEF endpointVars, Enabled, Available
<1>6. ASSUME NEW e \in Enabled PROVE last[e] \in Int /\ last'[e] - elapsed' = last[e]
  BY <1>1, <1>5, <1>6 DEF Inv, TypeOK, Ages, Enabled
<1>7. QED
  BY <1>1, <1>3, <1>4, <1>5, <1>6 DEF AgeInv, Enabled

LEMMA AgeStep == Inv /\ AgeInv /\ [Next]_vars => AgeInv'
<1> SUFFICES ASSUME Inv, AgeInv, [Next]_vars PROVE AgeInv'
  OBVIOUS
<1>1. TypeOK /\ TypeOK' /\ CycleInv
  BY TypeStep DEF Inv
<1>2. CASE Boot
  BY <1>2 DEF Boot, EndCycle, AgeInv, Available, Everywhere, Enabled
<1>3. CASE NothingDueRun
  <2>1. /\ phase = "idle" /\ Due = {} /\ timer' \in 0..Base /\ UNCHANGED <<endpointVars, cycleVars>>
    BY <1>3 DEF NothingDueRun, Rearmed
  <2>2. ASSUME NEW e \in Enabled PROVE 2 * last[e] < Span(e) - Base
    <3>1. /\ last[e] \in Int /\ e \in Endpoints
          /\ Interval[e] \in Nat /\ Span(e) \in Nat /\ 2 * Interval[e] <= Span(e)
      BY <1>1, <2>2, SpanLong DEF TypeOK, Ages, Enabled
    <3>2. 2 * last[e] < 2 * Interval[e] - Base
      BY <2>1, <2>2, <3>1 DEF Due, IsDue
    <3>3. QED
      BY <3>1, <3>2
  <2>3. ASSUME NEW e \in Enabled
        PROVE  2 * (last[e] + timer') < Span(e) + Base + 2 * MaxCycle
    <3>1. last[e] \in Int /\ Span(e) \in Nat
      BY <1>1, <2>3, SpanLong DEF TypeOK, Ages, Enabled
    <3>2. QED
      BY <2>1, <2>2, <3>1
  <2>4. QED
    BY <2>1, <2>3 DEF AgeInv, Enabled, endpointVars, cycleVars
<1>4. ASSUME CycleGoesOn PROVE AgeInv'
  <2>1. /\ UNCHANGED <<endpointVars, haVars, snapshot, elapsed>>
        /\ phase # "idle" /\ phase' # "idle"
    BY <1>1, <1>4 DEF CycleGoesOn, Answer, Fail, RetryAuth, FetchLater, Settled, RoundDone,
       CycleInv, InCycle
  <2>2. \A e \in Endpoints : e \in InCycle => e \in InCycle'
    <3>1. ASSUME NEW e \in Endpoints, Answer(e) PROVE InCycle \subseteq InCycle'
      BY <1>1, <3>1 DEF Answer, InCycle, Updated, Failed, TypeOK, Versions
    <3>2. ASSUME NEW e \in Endpoints, NEW error \in Errors, Fail(e, error)
          PROVE InCycle \subseteq InCycle'
      BY <1>1, <3>2 DEF Fail, InCycle, Updated, Failed, TypeOK
    <3>3. CASE RetryAuth
      BY <1>1, <3>3 DEF RetryAuth, RoundDone, InCycle, Updated, Failed, TypeOK
    <3>4. CASE FetchLater
      BY <3>4 DEF FetchLater, Settled, RoundDone, InCycle, Updated, Failed
    <3>5. QED
      BY <1>4, <3>1, <3>2, <3>3, <3>4 DEF CycleGoesOn
  <2>3. QED
    BY <2>1, <2>2 DEF AgeInv, Available, Enabled, endpointVars, haVars
<1>5. ASSUME NEW times, GiveUp(times), ~restricted PROVE AgeInv'
  BY <1>5 DEF GiveUp, EndCycle, AgeInv, Available
<1>6. CASE AuthRejected \/ AccessDenied
  BY <1>2, <1>5, <1>6 DEF AuthRejected, AccessDenied, GiveUp
<1>7. CASE FinishFailed
  BY <1>2, <1>7 DEF FinishFailed, EndCycle, AgeInv, Available
<1>8. CASE FinishUpdate
  BY <1>1, <1>8, AgeEndCycle DEF FinishUpdate, Enabled
<1>9. ASSUME NEW e \in Endpoints, ScheduleRefresh(e) PROVE AgeInv'
  <2>1. /\ UNCHANGED <<ok, disabled, lastUpdateSuccess, timer, cycleVars>>
        /\ last' = [last EXCEPT ![e] = Never]
        /\ \A f \in Endpoints \ {e} : generation'[f] = generation[f]
    BY <1>1, <1>9 DEF ScheduleRefresh, Invalidate, TypeOK
  <2>2. InCycle' = InCycle /\ Enabled' = Enabled
    BY <2>1 DEF cycleVars, InCycle, Updated, Failed, Enabled
  <2>3. \A f \in Endpoints : IF f = e THEN last'[f] = Never ELSE last'[f] = last[f]
    BY <1>1, <2>1 DEF TypeOK
  <2>4. \A f \in Endpoints : last[f] \in Ages \cup {Never} /\ Span(f) \in Nat
    BY <1>1, SpanLong DEF TypeOK
  <2>5. timer \in 0..Base \cup {Off} /\ elapsed \in 0..MaxCycle
    BY <1>1 DEF TypeOK
  <2>6. AgeInv' BY <2>1, <2>2, <2>3, <2>4, <2>5 DEF AgeInv, Available, Enabled, cycleVars, Ages
  <2>7. QED
    BY <2>6
<1>10. CASE DropRequest \/ TimerFires \/ UNCHANGED vars \/ \E e \in Endpoints : FirewallChanges(e)
  <2>1. /\ UNCHANGED <<endpointVars, cycleVars, lastUpdateSuccess>>
        /\ phase = "idle" => UNCHANGED timer
    BY <1>10 DEF DropRequest, TimerFires, FirewallChanges, vars, haVars
  <2>2. InCycle' = InCycle /\ Enabled' = Enabled
    BY <2>1 DEF cycleVars, endpointVars, InCycle, Updated, Failed, Enabled
  <2>3. QED
    BY <2>1, <2>2 DEF AgeInv, Available, endpointVars, cycleVars
<1>11. CASE Tick
  <2>1. /\ UNCHANGED <<ok, disabled, lastUpdateSuccess, generation, phase, waiting, later, snapshot,
                      updates, failures>>
        /\ timer' = IF timer > 0 THEN timer - 1 ELSE timer
        /\ elapsed' = IF phase = "idle" THEN elapsed ELSE elapsed + 1
        /\ ~(phase = "idle" /\ timer = 0)
    BY <1>11 DEF Tick
  <2>2. InCycle' = InCycle /\ Enabled' = Enabled
    BY <2>1 DEF InCycle, Updated, Failed, Enabled
  <2>3. \A e \in Endpoints : /\ last[e] \in Int /\ last'[e] \in {last[e], last[e] + 1}
                             /\ last[e] = Never => last'[e] = Never
                             /\ Span(e) \in Nat
    BY <1>1, <1>11, SpanLong DEF Tick, Older, TypeOK, Ages
  <2>4. timer \in 0..Base \cup {Off} /\ elapsed \in 0..MaxCycle
    BY <1>1 DEF TypeOK
  <2>5. CASE phase = "idle"
    BY <2>1, <2>2, <2>3, <2>4, <2>5 DEF AgeInv, Available, Enabled
  <2>6. CASE phase # "idle"
    BY <2>1, <2>2, <2>3, <2>4, <2>6 DEF AgeInv, Available, Enabled
  <2>7. QED
    BY <2>5, <2>6
<1>12. QED
  BY <1>1, <1>2, <1>3, <1>4, <1>6, <1>7, <1>8, <1>9, <1>10, <1>11, AgeStart
  DEF Next, Run, CycleEnds, Reload

\* What an available entity shows is no older than its tier, half a base interval and two
\* cycles, whatever errors, invalidations and requests came in between, and whatever
\* intervals the user has chosen (coordinator.py:161-169).
THEOREM NotStaleCorrect == Spec => []NotStale
<1>1. Init => AgeInv
  BY DEF Init, AgeInv, Available, Everywhere, Enabled
<1>2. Inv /\ AgeInv /\ [Next]_vars => AgeInv'
  BY AgeStep
<1>3. Inv /\ AgeInv => NotStale
  <2>1. SUFFICES ASSUME Inv, AgeInv, NEW e \in Enabled, Available(e)
                 PROVE  2 * last[e] < Span(e) + Base + 4 * MaxCycle
    BY DEF NotStale
  <2>2. /\ last[e] \in Int /\ timer \in 0..Base \cup {Off} /\ elapsed \in 0..MaxCycle
        /\ Span(e) \in Nat
    BY <2>1, SpanLong DEF Inv, TypeOK, Ages, Enabled
  <2>3. QED
    BY <2>1, <2>2 DEF AgeInv
<1>4. QED
  BY <1>1, <1>2, <1>3, InvCorrect, PTL DEF Spec
=============================================================================
