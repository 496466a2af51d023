------------------------- MODULE WriteSwitchProofs -------------------------
(***************************************************************************)
(* Proofs about the switches, for any number of switches, endpoints and    *)
(* writes: a switch never flips back, never stays on its own write with    *)
(* nothing due, and is read again promptly.                                *)
(***************************************************************************)
EXTENDS WriteSwitch, CoordinatorProofs

\* All the other proofs need to know of the switches.
LEMMA SwitchConstants == EndpointOf \in [Switches -> Endpoints] /\ NoSwitch \notin Switches
  BY ConstantsAssumption, SwitchesAssumption DEF ConstantsAssumption, SwitchesAssumption

USE ConstantsAssumption, SwitchConstants DEF ConstantsAssumption, Never, Off, NoData, None

\* Seen without the switches, every step is a step of the coordinator.
LEMMA SwitchStepIsCoordinatorStep == SwitchTypeOK /\ [SwitchNext]_allVars => [Next]_vars
<1> SUFFICES ASSUME SwitchTypeOK, [SwitchNext]_allVars PROVE [Next]_vars
  OBVIOUS
<1>1. ASSUME NEW s \in Switches, ApplyWrite(s) PROVE FirewallChanges(EndpointOf[s])
  BY <1>1, SwitchesAssumption DEF ApplyWrite, FirewallChanges, SwitchesAssumption
<1>2. ASSUME NEW s \in Switches, ConfirmWrite(s) \/ FailWrite(s)
      PROVE  ScheduleRefresh(EndpointOf[s])
  BY <1>2 DEF ConfirmWrite, FailWrite, EndWrite
<1>3. \A s \in Switches : EndpointOf[s] \in Endpoints /\ EndpointOf[s] \in Written
  BY SwitchesAssumption DEF SwitchesAssumption
<1>4. CASE \E s \in Switches : BeginWrite(s) \/ CancelWrite(s)
  BY <1>4 DEF BeginWrite, CancelWrite
<1>5. CASE \E s \in Switches : ApplyWrite(s) \/ ConfirmWrite(s) \/ FailWrite(s)
  BY <1>1, <1>2, <1>3, <1>5 DEF Next
<1>6. CASE Silently(ScheduledRun \/ RequestedRun) \/ Silently(CycleGoesOn)
           \/ Silently(DropRequest \/ TimerFires)
           \/ Silently(\E s \in Switches : FirewallChanges(EndpointOf[s]))
  BY <1>3, <1>6 DEF Silently, Next, Run
<1>7. CASE Notifying(NothingDueRun) \/ Notifying(CycleEnds) \/ SwitchReload \/ SwitchTick
  BY <1>7 DEF Notifying, SwitchReload, SwitchTick, Next, Run
<1>8. CASE UNCHANGED allVars
  BY <1>8 DEF allVars
<1>9. QED
  BY <1>4, <1>5, <1>6, <1>7, <1>8 DEF SwitchNext

\* Every step of the composition keeps its variables well-typed.
LEMMA SwitchTypeStep == SwitchTypeOK /\ [SwitchNext]_allVars => SwitchTypeOK'
<1> SUFFICES ASSUME SwitchTypeOK, [SwitchNext]_allVars PROVE SwitchTypeOK'
  OBVIOUS
<1>1. TypeOK'
  BY SwitchStepIsCoordinatorStep, TypeStep DEF SwitchTypeOK
<1> USE <1>1 DEF SwitchTypeOK
<1>2. ASSUME NEW s \in Switches, \/ BeginWrite(s) \/ ApplyWrite(s) \/ ConfirmWrite(s)
                                 \/ FailWrite(s) \/ CancelWrite(s)
      PROVE  SwitchTypeOK'
  <2>1. CASE BeginWrite(s)
    BY <2>1 DEF BeginWrite
  <2>2. CASE ApplyWrite(s)
    BY <2>2 DEF ApplyWrite, TypeOK, Versions
  <2>3. ASSUME EndWrite(s)
        PROVE  /\ writer' = NoSwitch /\ applied' = NoData
               /\ invalidatedAt' \in [Endpoints -> Ages \cup {Never}]
    BY <2>3 DEF EndWrite, Ages
  <2>4. CASE ConfirmWrite(s)
    BY <2>3, <2>4 DEF ConfirmWrite, Ages
  <2>5. CASE FailWrite(s)
    BY <2>3, <2>5 DEF FailWrite
  <2>6. CASE CancelWrite(s)
    BY <2>6 DEF CancelWrite
  <2>7. QED
    BY <1>2, <2>1, <2>2, <2>4, <2>5, <2>6
<1>3. ASSUME UNCHANGED <<switchVars, invalidatedAt>> PROVE SwitchTypeOK'
  BY <1>3 DEF switchVars
<1>4. ASSUME Listen \/ UNCHANGED <<optimistic, writtenAt>>,
             UNCHANGED <<writer, applied, confirmed, invalidatedAt>>
      PROVE  SwitchTypeOK'
  BY <1>4 DEF Listen
<1>5. CASE SwitchReload
  BY <1>5 DEF SwitchReload, Everywhere
<1>6. CASE SwitchTick
  BY <1>6 DEF SwitchTick, Older, Ages
<1>7. CASE UNCHANGED allVars
  BY <1>7 DEF allVars, switchVars
<1>8. QED
  BY <1>2, <1>3, <1>4, <1>5, <1>6, <1>7 DEF SwitchNext, Silently, Notifying

\* Every reachable state of the composition is well-typed.
THEOREM SwitchTypeCorrect == SwitchSpec => []SwitchTypeOK
<1>1. SwitchInit => SwitchTypeOK
  BY TypeInit DEF SwitchInit, SwitchTypeOK, Everywhere
<1>2. QED
  BY <1>1, SwitchTypeStep, PTL DEF SwitchSpec

\* The switches only add to the coordinator: what is proved of every behaviour
\* of the update cycle holds of its behaviours under concurrent writes.
THEOREM SwitchImplementsCoordinator == SwitchSpec => Spec
<1>1. SwitchInit => Init
  BY DEF SwitchInit
<1>2. QED
  BY <1>1, SwitchTypeCorrect, SwitchStepIsCoordinatorStep, PTL DEF SwitchSpec, Spec

------------------------------------------------------------------------------
\* The inductive invariant behind NoFlipBack and OptimisticIsDue.

\* What was read is no newer than the firewall, and never older than the data.
VersionsInv ==
    /\ \A e \in Endpoints :
        /\ data[e] <= firewall[e]
        /\ updates[e] # NoData => data[e] <= updates[e] /\ updates[e] <= firewall[e]
        /\ phase # "idle" => snapshot[e] <= generation[e]
    /\ phase = "idle" => elapsed = 0

\* A write is confirmed after the firewall applied it.
WriteInv ==
    /\ \A s \in Switches : confirmed[s] <= firewall[EndpointOf[s]]
    /\ \A s \in Switches : writer = s => applied <= firewall[EndpointOf[s]]
    /\ writer = NoSwitch => applied = NoData

\* A cycle that has read the firewall before the write of s was confirmed finds
\* its endpoint invalidated, and leaves s showing its own write.
OptimisticInv ==
    \A s \in Switches :
        LET e == EndpointOf[s] IN
        /\ updates[e] # NoData /\ (~optimistic[s] \/ generation[e] = snapshot[e])
             => updates[e] >= confirmed[s]
        /\ optimistic[s] =>
             /\ writtenAt[s] # Never
             /\ fetchedAt[e] = Never \/ fetchedAt[e] >= writtenAt[s]
             /\ last[e] = Never
             /\ elapsed > 0 /\ generation[e] = snapshot[e] => writtenAt[s] > 0

ShownInv == VersionsInv /\ WriteInv /\ OptimisticInv /\ NoFlipBack

\* The whole invariant: types, the update cycle's own part, and the switches'.
SwitchInv == SwitchTypeOK /\ Inv /\ ShownInv

\* Nothing has been read or written yet.
LEMMA SwitchInvInit == SwitchInit => SwitchInv
<1> SUFFICES ASSUME SwitchInit PROVE SwitchInv
  OBVIOUS
<1>1. SwitchTypeOK /\ Inv
  BY TypeInit, InvInit DEF SwitchInit, SwitchTypeOK, Everywhere
<1>2. ShownInv
  BY DEF SwitchInit, Init, ShownInv, VersionsInv, WriteInv, OptimisticInv, NoFlipBack, Everywhere
<1>3. QED
  BY <1>1, <1>2 DEF SwitchInv

\* A new coordinator shows nothing, so it cannot show anything old.
LEMMA ShownBoot ==
  ASSUME SwitchInv, SwitchTypeOK', Boot, UNCHANGED <<firewall, confirmed>>,
         (writer' = NoSwitch /\ applied' = NoData) \/ UNCHANGED <<writer, applied>>,
         \A s \in Switches : optimistic'[s] => optimistic[s] /\ writtenAt'[s] = writtenAt[s]
  PROVE  ShownInv'
<1> USE DEF SwitchInv, SwitchTypeOK, TypeOK, Versions, ShownInv
<1>1. /\ \A e \in Endpoints :
            /\ data'[e] = NoData /\ updates'[e] = NoData
            /\ last'[e] = Never /\ fetchedAt'[e] = Never
      /\ phase' = "idle" /\ elapsed' = 0
  BY DEF Boot, EndCycle, Everywhere
<1>2. VersionsInv'
  BY <1>1 DEF VersionsInv
<1>3. WriteInv'
  BY DEF WriteInv
<1>4. OptimisticInv'
  <2> SUFFICES ASSUME NEW s \in Switches, NEW e \in Endpoints, e = EndpointOf[s]
               PROVE  /\ updates'[e] = NoData
                      /\ optimistic'[s] => /\ writtenAt'[s] # Never
                                           /\ fetchedAt'[e] = Never
                                           /\ last'[e] = Never
                                           /\ elapsed' = 0
    BY DEF OptimisticInv
  <2>1. optimistic'[s] => writtenAt'[s] # Never
    BY DEF OptimisticInv
  <2>2. QED
    BY <1>1, <2>1
<1>5. NoFlipBack'
  BY <1>1 DEF NoFlipBack
<1>6. QED
  BY <1>2, <1>3, <1>4, <1>5

\* The end of a write, confirmed or not: the invalidation reaches the cycle that
\* is running now, and every switch that shares the endpoint.
LEMMA OptimisticEndWrite ==
  ASSUME SwitchInv, SwitchTypeOK', NEW s \in Switches, ConfirmWrite(s) \/ FailWrite(s)
  PROVE  OptimisticInv'
<1> USE DEF SwitchInv, SwitchTypeOK, TypeOK, Versions, Ages, ShownInv
<1>1. /\ UNCHANGED <<fetchedAt, phase, snapshot, updates, elapsed>>
      /\ last' = [last EXCEPT ![EndpointOf[s]] = Never]
      /\ generation' = [generation EXCEPT ![EndpointOf[s]] = @ + 1]
  BY DEF ConfirmWrite, FailWrite, EndWrite, ScheduleRefresh, Invalidate, cycleVars
<1>2. \A t \in Switches : \/ /\ optimistic'[t] = optimistic[t]
                            /\ writtenAt'[t] = writtenAt[t]
                            /\ confirmed'[t] = confirmed[t]
                         \/ /\ t = s /\ optimistic'[t] /\ writtenAt'[t] = 0
  BY DEF ConfirmWrite, FailWrite
<1>3. phase = "idle" => elapsed = 0 /\ \A e \in Endpoints : updates[e] = NoData
  BY DEF VersionsInv, Inv, CycleInv, InCycle, Updated
<1>4. ASSUME NEW t \in Switches, NEW e \in Endpoints, e = EndpointOf[t], e = EndpointOf[s]
      PROVE  /\ phase # "idle" => generation'[e] # snapshot'[e]
             /\ last'[e] = Never
  BY <1>1, <1>4 DEF VersionsInv
<1>5. ASSUME NEW t \in Switches, NEW e \in Endpoints, e = EndpointOf[t]
      PROVE  /\ updates'[e] # NoData /\ (~optimistic'[t] \/ generation'[e] = snapshot'[e])
                  => updates'[e] >= confirmed'[t]
             /\ optimistic'[t] =>
                  /\ writtenAt'[t] # Never
                  /\ fetchedAt'[e] = Never \/ fetchedAt'[e] >= writtenAt'[t]
                  /\ last'[e] = Never
                  /\ elapsed' > 0 /\ generation'[e] = snapshot'[e] => writtenAt'[t] > 0
  <2>1. \/ e = EndpointOf[s]
        \/ last'[e] = last[e] /\ generation'[e] = generation[e]
    BY <1>1
  <2>2. /\ updates[e] # NoData /\ (~optimistic[t] \/ generation[e] = snapshot[e])
             => updates[e] >= confirmed[t]
        /\ optimistic[t] =>
             /\ writtenAt[t] # Never
             /\ fetchedAt[e] = Never \/ fetchedAt[e] >= writtenAt[t]
             /\ last[e] = Never
             /\ elapsed > 0 /\ generation[e] = snapshot[e] => writtenAt[t] > 0
    BY <1>5 DEF OptimisticInv
  <2>3. CASE e = EndpointOf[s]
    <3>1. last'[e] = Never /\ (phase # "idle" => generation'[e] # snapshot'[e])
      BY <1>4, <1>5, <2>3
    <3>2. fetchedAt[e] = Never \/ fetchedAt[e] >= 0
      OBVIOUS
    <3>3. CASE t = s /\ optimistic'[t] /\ writtenAt'[t] = 0
      BY <1>1, <1>3, <3>1, <3>2, <3>3
    <3>4. CASE /\ optimistic'[t] = optimistic[t] /\ writtenAt'[t] = writtenAt[t]
               /\ confirmed'[t] = confirmed[t]
      BY <1>1, <1>3, <2>2, <3>1, <3>4
    <3>5. QED
      BY <1>2, <3>3, <3>4
  <2>4. CASE e # EndpointOf[s]
    <3>1. /\ optimistic'[t] = optimistic[t] /\ writtenAt'[t] = writtenAt[t]
          /\ confirmed'[t] = confirmed[t]
      BY <1>2, <1>5, <2>4
    <3>2. QED
      BY <1>1, <2>1, <2>2, <2>4, <3>1
  <2>5. QED
    BY <2>3, <2>4
<1>6. QED
  BY <1>5 DEF OptimisticInv

\* A write moves the firewall on before the switch says so.
LEMMA ShownWrite ==
  ASSUME SwitchInv, SwitchTypeOK', NEW s \in Switches,
         \/ BeginWrite(s) \/ ApplyWrite(s) \/ ConfirmWrite(s) \/ FailWrite(s)
         \/ CancelWrite(s)
  PROVE  ShownInv'
<1> USE DEF SwitchInv, SwitchTypeOK, TypeOK, Versions, Ages, ShownInv
<1>1. CASE BeginWrite(s)
  <2>1. /\ UNCHANGED <<endpointVars, cycleVars, firewall>>
        /\ UNCHANGED <<optimistic, writtenAt, applied, confirmed>>
        /\ writer = NoSwitch /\ writer' = s
    BY <1>1 DEF BeginWrite, vars
  <2>2. VersionsInv' /\ NoFlipBack'
    BY <2>1 DEF endpointVars, cycleVars, VersionsInv, NoFlipBack
  <2>3. WriteInv'
    BY <2>1 DEF WriteInv
  <2>4. OptimisticInv'
    BY <2>1 DEF endpointVars, cycleVars, OptimisticInv
  <2>5. QED
    BY <2>2, <2>3, <2>4
<1>2. CASE ApplyWrite(s)
  <2>1. \A e \in Endpoints : firewall[e] <= firewall'[e]
    BY <1>2 DEF ApplyWrite
  <2>2. VersionsInv'
    BY <1>2, <2>1 DEF ApplyWrite, VersionsInv, endpointVars, cycleVars
  <2>3. WriteInv'
    BY <1>2, <2>1 DEF ApplyWrite, WriteInv
  <2>4. OptimisticInv' /\ NoFlipBack'
    BY <1>2 DEF ApplyWrite, OptimisticInv, NoFlipBack, endpointVars, cycleVars
  <2>5. QED
    BY <2>2, <2>3, <2>4
<1>3. ASSUME EndWrite(s) PROVE VersionsInv'
  BY <1>3 DEF EndWrite, ScheduleRefresh, Invalidate, VersionsInv, cycleVars
<1>4. CASE ConfirmWrite(s)
  <2>1. VersionsInv'
    BY <1>3, <1>4 DEF ConfirmWrite
  <2>2. WriteInv'
    BY <1>4 DEF ConfirmWrite, EndWrite, ScheduleRefresh, WriteInv
  <2>3. NoFlipBack'
    BY <1>4 DEF ConfirmWrite, EndWrite, ScheduleRefresh, NoFlipBack
  <2>4. OptimisticInv'
    BY <1>4, OptimisticEndWrite
  <2>5. QED
    BY <2>1, <2>2, <2>3, <2>4
<1>5. CASE FailWrite(s)
  <2>1. VersionsInv'
    BY <1>3, <1>5 DEF FailWrite
  <2>2. WriteInv' /\ NoFlipBack'
    BY <1>5 DEF FailWrite, EndWrite, ScheduleRefresh, WriteInv, NoFlipBack
  <2>3. OptimisticInv'
    BY <1>5, OptimisticEndWrite
  <2>4. QED
    BY <2>1, <2>2, <2>3
<1>6. CASE CancelWrite(s)
  BY <1>6 DEF CancelWrite, vars, endpointVars, cycleVars, VersionsInv, WriteInv,
     OptimisticInv, NoFlipBack
<1>7. QED
  BY <1>1, <1>2, <1>4, <1>5, <1>6

\* Steps that read and ask, but record nothing.
LEMMA ShownSilent ==
  ASSUME SwitchInv, SwitchTypeOK', Inv', UNCHANGED switchVars,
         \/ ScheduledRun \/ RequestedRun \/ CycleGoesOn \/ DropRequest \/ TimerFires
         \/ \E s \in Switches : FirewallChanges(EndpointOf[s])
  PROVE  ShownInv'
<1> USE DEF SwitchInv, SwitchTypeOK, TypeOK, Versions, Ages, ShownInv, switchVars
<1>1. CASE ScheduledRun \/ RequestedRun
  <2>1. StartUpdate
    BY <1>1 DEF ScheduledRun, RequestedRun
  <2>2. \A e \in Endpoints : updates[e] = NoData
    BY <2>1 DEF StartUpdate, Inv, CycleInv, InCycle, Updated
  <2>3. QED
    BY <2>1, <2>2
    DEF StartUpdate, VersionsInv, WriteInv, OptimisticInv, NoFlipBack, endpointVars
<1>2. ASSUME NEW e \in Endpoints, Answer(e) PROVE ShownInv'
  <2>1. phase # "idle"
    BY <1>2 DEF Answer, Inv, CycleInv, InCycle
  <2>2. VersionsInv' /\ WriteInv' /\ NoFlipBack'
    BY <1>2 DEF Answer, VersionsInv, WriteInv, NoFlipBack, endpointVars
  <2>3. OptimisticInv'
    BY <1>2 DEF Answer, WriteInv, OptimisticInv, endpointVars
  <2>4. QED
    BY <2>2, <2>3
<1>3. CASE \/ \E e \in Endpoints, error \in Errors : Fail(e, error)
           \/ RetryAuth \/ FetchLater \/ DropRequest \/ TimerFires
  <2>1. /\ UNCHANGED <<endpointVars, snapshot, updates, elapsed, firewall>>
        /\ phase' # "idle" => phase # "idle"
        /\ phase' = "idle" => phase = "idle"
    BY <1>3 DEF Fail, RetryAuth, FetchLater, Settled, RoundDone, DropRequest, TimerFires,
       cycleVars
  <2>2. QED
    BY <2>1 DEF VersionsInv, WriteInv, OptimisticInv, NoFlipBack, endpointVars
<1>4. ASSUME NEW s \in Switches, FirewallChanges(EndpointOf[s]) PROVE ShownInv'
  <2>1. \A e \in Endpoints : firewall[e] <= firewall'[e]
    BY <1>4 DEF FirewallChanges
  <2>2. UNCHANGED <<endpointVars, cycleVars>>
    BY <1>4 DEF FirewallChanges
  <2>3. VersionsInv'
    BY <2>1, <2>2 DEF VersionsInv, endpointVars, cycleVars
  <2>4. WriteInv'
    BY <2>1 DEF WriteInv
  <2>5. OptimisticInv' /\ NoFlipBack'
    BY <2>2 DEF OptimisticInv, NoFlipBack, endpointVars, cycleVars
  <2>6. QED
    BY <2>3, <2>4, <2>5
<1>5. CASE CycleGoesOn
  BY <1>2, <1>3, <1>5 DEF CycleGoesOn
<1>6. QED
  BY <1>1, <1>3, <1>4, <1>5

\* The end of a cycle, where data, time stamps and optimistic states change.
LEMMA ShownCycleEnd ==
  ASSUME SwitchInv, SwitchTypeOK', Notifying(NothingDueRun) \/ Notifying(CycleEnds)
  PROVE  ShownInv'
<1> USE DEF SwitchInv, SwitchTypeOK, TypeOK, Versions, Ages, ShownInv
<1>1. /\ UNCHANGED <<writer, applied, confirmed>>
      /\ \A s \in Switches :
            /\ optimistic'[s] => optimistic[s] /\ writtenAt'[s] = writtenAt[s]
            /\ optimistic[s] /\ ~optimistic'[s] => Reread(s)
            /\ lastUpdateSuccess' /\ optimistic'[s] => ~Reread(s)
  BY DEF Notifying, Listen
<1>2. ASSUME UNCHANGED <<last, fetchedAt, generation, data, firewall>>,
             EndCycle \/ UNCHANGED cycleVars
      PROVE  ShownInv'
  <2>1. \A s \in Switches : optimistic[s] => ~Reread(s)
    BY <1>2 DEF Reread, OptimisticInv
  <2>2. \A s \in Switches : optimistic'[s] = optimistic[s]
    BY <1>1, <2>1
  <2>3. VersionsInv'
    BY <1>2 DEF EndCycle, cycleVars, Everywhere, VersionsInv
  <2>4. WriteInv'
    BY <1>1, <1>2 DEF WriteInv
  <2>5. OptimisticInv'
    BY <1>1, <1>2, <2>2 DEF EndCycle, cycleVars, Everywhere, OptimisticInv
  <2>6. NoFlipBack'
    BY <1>1, <1>2, <2>2 DEF NoFlipBack
  <2>7. QED
    BY <2>3, <2>4, <2>5, <2>6
<1>3. CASE NothingDueRun
  BY <1>2, <1>3 DEF NothingDueRun, endpointVars
<1>4. CASE Boot /\ UNCHANGED firewall
  BY <1>1, <1>4, ShownBoot
<1>5. CASE AuthRejected \/ AccessDenied
  BY <1>2, <1>4, <1>5 DEF AuthRejected, AccessDenied, GiveUp, endpointVars
<1>6. CASE FinishFailed
  <2>1. CASE restricted
    BY <1>4, <1>6, <2>1 DEF FinishFailed
  <2>2. CASE ~restricted
    <3>1. Fetched = {}
      BY <1>6 DEF FinishFailed, NothingToShow, Unreachable, Fetched
    <3>2. UNCHANGED <<last, fetchedAt>>
      BY <1>6, <2>2, <3>1 DEF FinishFailed, RecordCycle
    <3>3. QED
      BY <1>2, <1>6, <2>2, <3>2 DEF FinishFailed
  <2>3. QED
    BY <2>1, <2>2
<1>7. CASE FinishUpdate
  <2>1. /\ EndCycle /\ elapsed > 0 /\ lastUpdateSuccess' /\ UNCHANGED <<generation, firewall>>
        /\ \A e \in Endpoints :
              /\ data'[e] = IF updates[e] # NoData THEN updates[e] ELSE data[e]
              /\ IF updates[e] # NoData /\ generation[e] = snapshot[e]
                 THEN last'[e] = 0 /\ fetchedAt'[e] = 0
                 ELSE last'[e] = last[e] /\ fetchedAt'[e] = fetchedAt[e]
    BY <1>7 DEF FinishUpdate, CycleDone, Settled, RoundDone, RecordCycle, Fetched, Updated
  <2>2. VersionsInv'
    BY <2>1 DEF EndCycle, Everywhere, VersionsInv
  <2>3. WriteInv'
    BY <1>1, <2>1 DEF WriteInv
  <2>4. ASSUME NEW s \in Switches, optimistic[s], NEW e \in Endpoints, e = EndpointOf[s]
        PROVE  Reread(s) <=> updates[e] # NoData /\ generation[e] = snapshot[e]
    BY <2>1, <2>4 DEF Reread, OptimisticInv
  <2>5. OptimisticInv'
    BY <1>1, <2>1, <2>4 DEF EndCycle, Everywhere, OptimisticInv
  <2>6. NoFlipBack'
    BY <1>1, <2>1, <2>4 DEF NoFlipBack, OptimisticInv, VersionsInv
  <2>7. QED
    BY <2>2, <2>3, <2>5, <2>6
<1>8. QED
  BY <1>3, <1>5, <1>6, <1>7 DEF Notifying, CycleEnds

\* Writes and fetches age together.
LEMMA ShownTick == SwitchInv /\ SwitchTypeOK' /\ SwitchTick => ShownInv'
<1> SUFFICES ASSUME SwitchInv, SwitchTypeOK', SwitchTick PROVE ShownInv'
  OBVIOUS
<1> USE DEF SwitchInv, SwitchTypeOK, TypeOK, Versions, Ages, ShownInv, SwitchTick, Tick
<1>1. VersionsInv' /\ WriteInv' /\ NoFlipBack'
  BY DEF VersionsInv, WriteInv, NoFlipBack
<1>2. OptimisticInv'
  BY DEF OptimisticInv, Older
<1>3. QED
  BY <1>1, <1>2

\* Every step of the composition keeps the invariant.
LEMMA SwitchInvStep == SwitchInv /\ [SwitchNext]_allVars => SwitchInv'
<1> SUFFICES ASSUME SwitchInv, [SwitchNext]_allVars PROVE SwitchInv'
  OBVIOUS
<1>1. SwitchTypeOK' /\ Inv'
  BY SwitchTypeStep, SwitchStepIsCoordinatorStep, InvStep DEF SwitchInv
<1>2. CASE SwitchReload
  <2>1. ShownInv'
    BY <1>1, <1>2, ShownBoot DEF SwitchReload, Reload
  <2>2. QED
    BY <1>1, <2>1 DEF SwitchInv
<1>3. CASE UNCHANGED allVars
  <2>1. ShownInv'
    BY <1>3 DEF allVars, vars, endpointVars, haVars, cycleVars, switchVars, SwitchInv,
       ShownInv, VersionsInv, WriteInv, OptimisticInv, NoFlipBack
  <2>2. QED
    BY <1>1, <2>1 DEF SwitchInv
<1>4. QED
  BY <1>1, <1>2, <1>3, ShownWrite, ShownSilent, ShownCycleEnd, ShownTick
  DEF SwitchNext, Silently, SwitchInv

\* A switch never flips back behind a write the firewall confirmed.
THEOREM NoFlipBackCorrect == SwitchSpec => []NoFlipBack
<1>1. SwitchInv => NoFlipBack
  BY DEF SwitchInv, ShownInv
<1>2. QED
  BY <1>1, SwitchInvInit, SwitchInvStep, PTL DEF SwitchSpec

\* While a switch shows its own write, its endpoint is due.
THEOREM OptimisticIsDueCorrect == SwitchSpec => []OptimisticIsDue
<1>1. SwitchInv => OptimisticIsDue
  BY DEF SwitchInv, ShownInv, OptimisticInv, OptimisticIsDue
<1>2. QED
  BY <1>1, SwitchInvInit, SwitchInvStep, PTL DEF SwitchSpec

------------------------------------------------------------------------------
\* The invariant behind PromptReread.

\* Between two cycles the timer leaves room for the age of an invalidation; a cycle
\* fetches what was due when it started, and what it does not record as fetched was
\* invalidated since.
PromptInv ==
    /\ phase = "idle" =>
         /\ elapsed = 0
         /\ \A e \in Enabled : Available(e) =>
              /\ timer # Off
              /\ last[e] = Never => invalidatedAt[e] + timer <= Base + MaxCycle
    /\ phase # "idle" =>
         \A e \in Enabled :
           /\ Available(e) /\ last[e] = Never => invalidatedAt[e] <= Base + MaxCycle + elapsed
           /\ e \notin InCycle /\ last[e] = Never => invalidatedAt[e] <= elapsed
           /\ generation[e] # snapshot[e] => invalidatedAt[e] <= elapsed

\* What a cycle that has ended leaves behind.
LEMMA PromptEndCycle ==
  ASSUME SwitchTypeOK, SwitchTypeOK', PromptInv, CycleDone, RecordCycle, EndCycle, CycleInv,
         lastUpdateSuccess', timer' \in Rearmed, Enabled' \subseteq Enabled,
         UNCHANGED invalidatedAt
  PROVE  PromptInv'
<1>1. phase' = "idle" /\ elapsed' = 0 /\ timer' \in 0..Base
  BY DEF EndCycle, Rearmed
<1>2. phase # "idle" /\ waiting = {} /\ elapsed \in 0..MaxCycle
  BY DEF CycleDone, Settled, RoundDone, SwitchTypeOK, TypeOK
<1>3. ASSUME NEW e \in Enabled', ok'[e] = "ok", last'[e] = Never
      PROVE  invalidatedAt'[e] + timer' <= Base + MaxCycle
  <2>1. e \in Enabled /\ e \in Endpoints /\ invalidatedAt[e] \in Int
    BY DEF Enabled, SwitchTypeOK, Ages
  <2>2. e \notin Fetched
    BY <1>3, <2>1 DEF RecordCycle
  <2>3. CASE e \in Updated
    BY <1>1, <1>2, <2>1, <2>2, <2>3 DEF PromptInv, Fetched
  <2>4. CASE e \notin Updated
    <3>1. failures[e] = None /\ last[e] = Never
      BY <1>3, <2>1, <2>2, <2>4 DEF RecordCycle
    <3>2. e \notin Failed(Errors) /\ e \notin later
      BY <1>3, <3>1, <2>1, <2>4 DEF Failed, CycleInv, SwitchTypeOK, TypeOK, RecordCycle
    <3>3. e \notin InCycle
      BY <1>2, <2>4, <3>2 DEF InCycle
    <3>4. QED
      BY <1>1, <1>2, <2>1, <3>1, <3>3 DEF PromptInv
  <2>5. QED
    BY <2>3, <2>4
<1>4. QED
  BY <1>1, <1>3 DEF PromptInv, Available

\* A run that starts a cycle.
LEMMA PromptStart ==
  ASSUME SwitchInv, PromptInv, SwitchTypeOK', ScheduledRun \/ RequestedRun,
         UNCHANGED invalidatedAt
  PROVE  PromptInv'
<1>1. /\ StartUpdate /\ phase = "idle" /\ phase' = "fetching" /\ elapsed' = 0
      /\ snapshot' = generation /\ UNCHANGED <<endpointVars, lastUpdateSuccess>>
  BY DEF ScheduledRun, RequestedRun, StartUpdate, PromptInv
<1>2. Updated' = {} /\ Failed(Errors)' = {}
  BY <1>1 DEF StartUpdate, SwitchInv, Inv, CycleInv, InCycle, Updated, Failed
<1>3. InCycle' = Due
  BY <1>1, <1>2 DEF StartUpdate, InCycle
<1>4. ASSUME NEW e \in Enabled
      PROVE  /\ Available(e) /\ last[e] = Never => invalidatedAt[e] <= Base + MaxCycle
             /\ last[e] = Never => e \in Due
  BY <1>1, <1>4 DEF PromptInv, Due, IsDue, SwitchInv, SwitchTypeOK, TypeOK, Ages, Enabled
<1>5. UNCHANGED <<last, generation, Enabled>> /\ \A e \in Endpoints : Available(e)' = Available(e)
  BY <1>1 DEF endpointVars, Enabled, Available
<1>6. QED
  BY <1>1, <1>3, <1>4, <1>5 DEF PromptInv, Enabled

\* Steps of the coordinator by themselves: no write ends, no time passes.
LEMMA PromptCycle ==
  ASSUME SwitchInv, SwitchTypeOK', PromptInv, UNCHANGED invalidatedAt,
         \/ Run \/ CycleGoesOn \/ CycleEnds \/ DropRequest \/ TimerFires \/ Boot
         \/ UNCHANGED vars \/ \E e \in Endpoints : FirewallChanges(e)
  PROVE  PromptInv'
<1>1. SwitchTypeOK /\ TypeOK /\ TypeOK' /\ CycleInv
  BY DEF SwitchInv, SwitchTypeOK, Inv
<1>2. CASE Boot
  BY <1>2 DEF Boot, EndCycle, PromptInv, Available, Everywhere, Enabled
<1>3. CASE NothingDueRun
  <2>1. /\ phase = "idle" /\ Due = {} /\ timer' \in 0..Base /\ UNCHANGED <<endpointVars, cycleVars>>
    BY <1>3 DEF NothingDueRun, Rearmed
  <2>2. \A e \in Enabled : last[e] # Never
    BY <2>1 DEF Due, IsDue
  <2>3. QED
    BY <2>1, <2>2 DEF PromptInv, Enabled, endpointVars, cycleVars
<1>4. ASSUME CycleGoesOn PROVE PromptInv'
  <2>1. /\ UNCHANGED <<endpointVars, haVars, snapshot, elapsed>>
        /\ phase # "idle" /\ phase' # "idle"
    BY <1>1, <1>4 DEF CycleGoesOn, Answer, Fail, RetryAuth, FetchLater, Settled, RoundDone,
       CycleInv, InCycle
  <2>2. \A e \in Endpoints : e \in InCycle => e \in InCycle'
    <3>1. ASSUME NEW e \in Endpoints, Answer(e) PROVE InCycle \subseteq InCycle'
      BY <1>1, <3>1 DEF Answer, InCycle, Updated, Failed, TypeOK, Versions
    <3>2. ASSUME NEW e \in Endpoints, NEW error \in Errors, Fail(e, error)
          PROVE InCycle \subseteq InCycle'
      BY <1>1, <3>2 DEF Fail, InCycle, Updated, Failed, TypeOK
    <3>3. CASE RetryAuth
      BY <1>1, <3>3 DEF RetryAuth, RoundDone, InCycle, Updated, Failed, TypeOK
    <3>4. CASE FetchLater
      BY <3>4 DEF FetchLater, Settled, RoundDone, InCycle, Updated, Failed
    <3>5. QED
      BY <1>4, <3>1, <3>2, <3>3, <3>4 DEF CycleGoesOn
  <2>3. QED
    BY <2>1, <2>2 DEF PromptInv, Available, Enabled, endpointVars, haVars
<1>5. ASSUME NEW times, GiveUp(times), ~restricted PROVE PromptInv'
  BY <1>5 DEF GiveUp, EndCycle, PromptInv, Available
<1>6. CASE AuthRejected \/ AccessDenied
  BY <1>2, <1>5, <1>6 DEF AuthRejected, AccessDenied, GiveUp
<1>7. CASE FinishFailed
  BY <1>2, <1>7 DEF FinishFailed, EndCycle, PromptInv, Available
<1>8. CASE FinishUpdate
  BY <1>1, <1>8, PromptEndCycle DEF FinishUpdate, Enabled
<1>9. CASE DropRequest \/ TimerFires \/ UNCHANGED vars \/ \E e \in Endpoints : FirewallChanges(e)
  <2>1. /\ UNCHANGED <<endpointVars, cycleVars, lastUpdateSuccess>>
        /\ phase = "idle" => UNCHANGED timer
    BY <1>9 DEF DropRequest, TimerFires, FirewallChanges, vars, haVars
  <2>2. InCycle' = InCycle /\ Enabled' = Enabled
    BY <2>1 DEF cycleVars, endpointVars, InCycle, Updated, Failed, Enabled
  <2>3. QED
    BY <2>1, <2>2 DEF PromptInv, Available, endpointVars, cycleVars
<1>10. QED
  BY <1>2, <1>3, <1>4, <1>6, <1>7, <1>8, <1>9, PromptStart DEF Run, CycleEnds

\* The end of a write: its endpoint is due, from this moment on.
LEMMA PromptEndWrite ==
  ASSUME SwitchInv, SwitchTypeOK', PromptInv, NEW s \in Switches, EndWrite(s)
  PROVE  PromptInv'
<1> DEFINE e == EndpointOf[s]
<1>1. /\ UNCHANGED <<ok, disabled, lastUpdateSuccess, timer, cycleVars>>
      /\ last' = [last EXCEPT ![e] = Never] /\ invalidatedAt' = [invalidatedAt EXCEPT ![e] = 0]
      /\ \A f \in Endpoints \ {e} : generation'[f] = generation[f]
  BY DEF EndWrite, ScheduleRefresh, Invalidate, SwitchInv, SwitchTypeOK, TypeOK
<1>2. InCycle' = InCycle /\ Enabled' = Enabled
  BY <1>1 DEF cycleVars, InCycle, Updated, Failed, Enabled
<1>3. \A f \in Endpoints : IF f = e THEN last'[f] = Never /\ invalidatedAt'[f] = 0
                           ELSE last'[f] = last[f] /\ invalidatedAt'[f] = invalidatedAt[f]
  BY <1>1 DEF SwitchInv, SwitchTypeOK, TypeOK
<1>4. timer \in 0..Base \cup {Off} /\ elapsed \in 0..MaxCycle
  BY DEF SwitchInv, SwitchTypeOK, TypeOK
<1> HIDE DEF e
<1>5. QED
  BY <1>1, <1>2, <1>3, <1>4 DEF PromptInv, Available, Enabled, cycleVars

\* Invalidations age with the timer and the cycle.
LEMMA PromptTick ==
  ASSUME SwitchInv, SwitchTypeOK', PromptInv, SwitchTick
  PROVE  PromptInv'
<1>1. /\ UNCHANGED <<ok, disabled, lastUpdateSuccess, generation, phase, waiting, later, snapshot,
                    updates, failures>>
      /\ timer' = IF timer > 0 THEN timer - 1 ELSE timer
      /\ elapsed' = IF phase = "idle" THEN elapsed ELSE elapsed + 1
      /\ ~(phase = "idle" /\ timer = 0)
  BY DEF SwitchTick, Tick
<1>2. InCycle' = InCycle /\ Enabled' = Enabled
  BY <1>1 DEF InCycle, Updated, Failed, Enabled
<1>3. \A e \in Endpoints : /\ invalidatedAt[e] \in Int
                           /\ invalidatedAt'[e] \in {invalidatedAt[e], invalidatedAt[e] + 1}
                           /\ last'[e] = Never <=> last[e] = Never
  BY DEF SwitchTick, Tick, Older, SwitchInv, SwitchTypeOK, TypeOK, Ages
<1>4. timer \in 0..Base \cup {Off} /\ elapsed \in 0..MaxCycle
  BY DEF SwitchInv, SwitchTypeOK, TypeOK
<1>5. CASE phase = "idle"
  BY <1>1, <1>2, <1>3, <1>4, <1>5 DEF PromptInv, Available, Enabled
<1>6. CASE phase # "idle"
  BY <1>1, <1>2, <1>3, <1>4, <1>6 DEF PromptInv, Available, Enabled
<1>7. QED
  BY <1>5, <1>6

LEMMA PromptStep == SwitchInv /\ PromptInv /\ [SwitchNext]_allVars => PromptInv'
<1> SUFFICES ASSUME SwitchInv, PromptInv, [SwitchNext]_allVars PROVE PromptInv'
  OBVIOUS
<1>1. SwitchTypeOK'
  BY SwitchTypeStep DEF SwitchInv
<1>2. CASE \E s \in Switches : BeginWrite(s) \/ ApplyWrite(s) \/ CancelWrite(s)
  <2>1. UNCHANGED <<endpointVars, haVars, cycleVars, invalidatedAt>>
    BY <1>2 DEF BeginWrite, ApplyWrite, CancelWrite, vars
  <2>2. QED
    BY <2>1 DEF PromptInv, Available, Enabled, InCycle, Updated, Failed, endpointVars, haVars,
       cycleVars
<1>3. CASE \E s \in Switches : ConfirmWrite(s) \/ FailWrite(s)
  BY <1>1, <1>3, PromptEndWrite DEF ConfirmWrite, FailWrite
<1>4. CASE SwitchReload
  BY <1>4 DEF SwitchReload, Reload, Boot, EndCycle, PromptInv, Available, Everywhere, Enabled
<1>5. CASE SwitchTick
  BY <1>1, <1>5, PromptTick
<1>6. CASE UNCHANGED allVars
  BY <1>1, <1>6, PromptCycle DEF allVars
<1>7. \A s \in Switches : EndpointOf[s] \in Endpoints
  OBVIOUS
<1>8. CASE \/ Silently(ScheduledRun \/ RequestedRun) \/ Silently(CycleGoesOn)
           \/ Silently(DropRequest \/ TimerFires)
           \/ Silently(\E s \in Switches : FirewallChanges(EndpointOf[s]))
           \/ Notifying(NothingDueRun) \/ Notifying(CycleEnds)
  BY <1>1, <1>7, <1>8, PromptCycle DEF Silently, Notifying, Run
<1>9. QED
  BY <1>2, <1>3, <1>4, <1>5, <1>6, <1>8 DEF SwitchNext

\* After a write that was confirmed or failed, an endpoint that answers is read again by
\* the first run after it, however slow its tier and whichever cycle the write overtook (coordinator.py:301).
THEOREM PromptRereadCorrect == SwitchSpec => []PromptReread
<1>1. SwitchInit => PromptInv
  BY DEF SwitchInit, Init, PromptInv, Available, Everywhere, Enabled
<1>2. SwitchInv /\ PromptInv => PromptReread
  <2>1. SUFFICES ASSUME SwitchInv, PromptInv, NEW e \in Enabled, Available(e), last[e] = Never
                 PROVE  invalidatedAt[e] <= Base + 2 * MaxCycle
    BY DEF PromptReread
  <2>2. /\ invalidatedAt[e] \in Int /\ timer \in 0..Base \cup {Off}
        /\ elapsed \in 0..MaxCycle
    BY <2>1 DEF SwitchInv, SwitchTypeOK, TypeOK, Ages, Enabled
  <2>3. QED
    BY <2>1, <2>2 DEF PromptInv
<1>3. QED
  BY <1>1, <1>2, SwitchInvInit, SwitchInvStep, PromptStep, PTL DEF SwitchSpec
=============================================================================
