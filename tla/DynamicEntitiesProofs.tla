----------------------- MODULE DynamicEntitiesProofs -----------------------
(***************************************************************************)
(* Proofs about the dynamic entities, for any number of families and       *)
(* objects and every assignment of options to families in which no family  *)
(* that trusts empty tables has an endpoint that writes invalidate.        *)
(***************************************************************************)
EXTENDS DynamicEntities, TLAPS

\* The combinations of options that the platforms use, but for the tables of the
\* tunnels, where a trusted empty table may raise (see entities_skipped).
TrustedUnwritten == TrustEmpty \cap Written = {}

USE FamiliesAssumption DEF FamiliesAssumption, Families, NoObjects, NoStreaks

\* A count stays a count.
LEMMA CountedType == \A n \in 0..Confirmations : Counted(n) \in 0..Confirmations
  BY DEF Counted

LEMMA TypeInit == Init => TypeOK
  BY DEF Init, TypeOK

LEMMA TypeSetup == TypeOK /\ Setup => TypeOK'
  BY DEF Setup, TypeOK

\* What _sync assigns is well-typed.
LEMMA TypeSync ==
  ASSUME TypeOK, items' \in [Families -> SUBSET Objects],
         NEW freshE \in SUBSET Families, NEW freshM \in SUBSET Families,
         Sync(freshE, freshM)
  PROVE  /\ emptyStreak' \in [Families -> 0..Confirmations]
         /\ missingStreak' \in [Families -> [Objects -> 0..Confirmations]]
         /\ freshEmpty' \subseteq Families /\ freshMissing' \subseteq Families
         /\ known' \in [Families -> SUBSET Objects]
         /\ registry' \in [Families -> SUBSET Objects]
         /\ entities' \in [Families -> SUBSET Objects]
<1>1. \A f \in Families : EmptyStreak(f, freshE) \in 0..Confirmations
  BY CountedType DEF TypeOK, EmptyStreak
<1>2. \A f \in Families, o \in Objects : MissingStreak(f, o, freshM) \in 0..Confirmations
  <2>1. \A f \in Families, o \in Objects : missingStreak[f][o] \in 0..Confirmations
    BY DEF TypeOK
  <2>2. QED
    BY <2>1, CountedType DEF MissingStreak
<1>3. /\ emptyStreak' \in [Families -> 0..Confirmations]
      /\ missingStreak' \in [Families -> [Objects -> 0..Confirmations]]
  <2>1. emptyStreak' \in [Families -> 0..Confirmations]
    BY <1>1 DEF Sync, TypeOK
  <2>2. missingStreak' \in [Families -> [Objects -> 0..Confirmations]]
    BY <1>2 DEF Sync, TypeOK
  <2>3. QED
    BY <2>1, <2>2
<1>4. freshEmpty' \subseteq Families /\ freshMissing' \subseteq Families
  BY DEF Sync
<1>5. \A f \in Families : Stale(f) \subseteq Objects
  BY DEF Stale, TypeOK
<1>6. /\ known' \in [Families -> SUBSET Objects]
      /\ registry' \in [Families -> SUBSET Objects]
      /\ entities' \in [Families -> SUBSET Objects]
  BY <1>5 DEF Sync, TypeOK, KnownAfter
<1>7. QED
  BY <1>3, <1>4, <1>6

\* An update keeps every variable's type.
LEMMA TypeUpdate ==
  ASSUME TypeOK, NEW fetched \in SUBSET configured, Updates(fetched)
  PROVE  TypeOK'
<1>1. PICK overtaken \in SUBSET Written, failed \in SUBSET configured :
        /\ overtaken \cap fetched = {} /\ failed \cap (fetched \cup overtaken) = {}
        /\ \E result \in [fetched \cup overtaken -> SUBSET Objects] :
             Update(fetched, overtaken, failed, result)
  <2>1. PICK over \in SUBSET (Written \ fetched) :
          \E failed \in SUBSET (configured \ (fetched \cup over)) :
          \E result \in [fetched \cup over -> SUBSET Objects] :
             Update(fetched, over, failed, result)
    BY DEF Updates
  <2>2. QED
    BY <2>1
<1>r. PICK result \in [fetched \cup overtaken -> SUBSET Objects] :
        Update(fetched, overtaken, failed, result)
  BY <1>1
<1>2. /\ configured' \subseteq Families
      /\ available' \subseteq Families /\ read' \subseteq Families
      /\ items' \in [Families -> SUBSET Objects]
  BY <1>1, <1>r DEF Update, TypeOK
<1>3. absentFor' \in [Families -> [Objects -> 0..Confirmations]]
  <2>1. \A f \in Families, o \in Objects : Counted(absentFor[f][o]) \in 0..Confirmations
    BY CountedType DEF TypeOK
  <2>2. QED
    BY <1>1, <1>r, <2>1 DEF Update, TypeOK
<1>4. Sync(freshEmpty \cup fetched, freshMissing \cup fetched)
  BY <1>r DEF Update
<1>5. freshEmpty \cup fetched \in SUBSET Families /\ freshMissing \cup fetched \in SUBSET Families
  BY DEF TypeOK
<1>6. QED
  BY <1>2, <1>3, <1>4, <1>5, TypeSync DEF TypeOK

LEMMA TypeStep == TypeOK /\ [Next]_vars => TypeOK'
<1>1. ASSUME TypeOK, UNCHANGED vars PROVE TypeOK'
  BY <1>1 DEF TypeOK, vars
<1>2. QED
  BY <1>1, TypeSetup, TypeUpdate DEF Next

\* Every variable keeps its type.
THEOREM TypeCorrect == Spec => []TypeOK
  BY TypeInit, TypeStep, PTL DEF Spec

------------------------------------------------------------------------------
\* The inductive invariant: counts never run ahead of the fetches they count.

EntitiesInv ==
    \A f \in Families :
        /\ known[f] = entities[f] /\ known[f] \subseteq registry[f]
        /\ known[f] # {} => f \in configured
        /\ f \in available => f \in configured /\ f \in read /\ items[f] \subseteq known[f]

EmptyInv ==
    \A f \in Families :
        /\ f \in TrustEmpty /\ f \in available /\ items[f] = {}
              => f \notin freshEmpty /\ emptyStreak[f] > 0
        /\ f \notin RemoveStale => emptyStreak[f] = 0
        /\ \A o \in Objects : emptyStreak[f] <= absentFor[f][o]

MissingInv ==
    \A f \in ConfirmMissing :
        /\ f \notin freshMissing
        /\ \A o \in Objects : missingStreak[f][o] <= absentFor[f][o]

Inv == TypeOK /\ EntitiesInv /\ EmptyInv /\ MissingInv

LEMMA InvInit == Init => Inv
<1>1. Init => EntitiesInv /\ EmptyInv /\ MissingInv
  BY DEF Init, EntitiesInv, EmptyInv, MissingInv
<1>2. QED
  BY <1>1, TypeInit DEF Inv

LEMMA InvSetup == Inv /\ Setup => Inv'
<1>1. Setup => EntitiesInv' /\ EmptyInv' /\ MissingInv'
  BY DEF Setup, EntitiesInv, EmptyInv, MissingInv
<1>2. QED
  BY <1>1, TypeSetup DEF Inv

\* The cases of what _sync counts and removes.
LEMMA EmptyStreakCases ==
  ASSUME NEW f, NEW fresh
  PROVE  /\ ~TrustedEmpty(f) => EmptyStreak(f, fresh) = 0
         /\ TrustedEmpty(f) /\ f \in fresh => EmptyStreak(f, fresh) = Counted(emptyStreak[f])
         /\ TrustedEmpty(f) /\ f \notin fresh => EmptyStreak(f, fresh) = emptyStreak[f]
  BY DEF EmptyStreak

LEMMA MissingStreakCases ==
  ASSUME NEW f, NEW o, NEW fresh
  PROVE  /\ o \in items'[f] => MissingStreak(f, o, fresh) = 0
         /\ o \notin items'[f] =>
              MissingStreak(f, o, fresh) \in
                {missingStreak[f][o]}
                  \cup (IF f \in fresh THEN {Counted(missingStreak[f][o])} ELSE {})
  BY DEF MissingStreak

LEMMA StaleCases ==
  ASSUME NEW f
  PROVE  /\ Stale(f) \cap items'[f] = {} /\ Stale(f) \subseteq registry[f]
         /\ \/ Stale(f) = {}
            \/ /\ TrustedEmpty(f) /\ emptyStreak'[f] >= Confirmations
               /\ f \in RemoveStale
            \/ /\ items'[f] \cup StillConfirming(f) # {}
               /\ Stale(f) = registry[f] \ (items'[f] \cup StillConfirming(f))
<1>1. CASE f \notin RemoveStale
  <2>1. Stale(f) = {}
    BY <1>1 DEF Stale
  <2>2. QED
    BY <2>1
<1>2. CASE f \in RemoveStale /\ TrustedEmpty(f) /\ emptyStreak'[f] >= Confirmations
  <2>1. Stale(f) = registry[f]
    BY <1>2 DEF Stale
  <2>2. items'[f] = {}
    BY <1>2 DEF TrustedEmpty
  <2>3. QED
    BY <1>2, <2>1, <2>2
<1>3. CASE /\ f \in RemoveStale /\ ~(TrustedEmpty(f) /\ emptyStreak'[f] >= Confirmations)
           /\ items'[f] \cup StillConfirming(f) = {}
  <2>1. Stale(f) = {}
    BY <1>3 DEF Stale
  <2>2. QED
    BY <2>1
<1>4. CASE /\ f \in RemoveStale /\ ~(TrustedEmpty(f) /\ emptyStreak'[f] >= Confirmations)
           /\ items'[f] \cup StillConfirming(f) # {}
  <2>1. Stale(f) = registry[f] \ (items'[f] \cup StillConfirming(f))
    BY <1>4 DEF Stale
  <2>2. QED
    BY <1>4, <2>1
<1>5. QED
  BY <1>1, <1>2, <1>3, <1>4

\* An update as the invariant sees it: which families it reads, and that _sync gets
\* to its end.
LEMMA NoLookupFails ==
  ASSUME Inv, TrustedUnwritten,
         NEW fetched \in SUBSET configured, NEW overtaken \in SUBSET Written,
         NEW failed, NEW result, Update(fetched, overtaken, failed, result)
  PROVE  \A f \in Families : ~LookupFails(f, freshEmpty \cup fetched)
<1> SUFFICES ASSUME NEW f \in Families, LookupFails(f, freshEmpty \cup fetched)
             PROVE  FALSE
  OBVIOUS
<1>1. f \in TrustEmpty /\ f \in available' /\ items'[f] = {}
  BY DEF LookupFails, TrustedEmpty, Handled
<1>2. f \notin fetched \cup overtaken
  BY <1>1 DEF LookupFails, TrustedUnwritten
<1>3. f \in available /\ items[f] = {}
  BY <1>1, <1>2 DEF Update
<1>4. emptyStreak[f] > 0
  BY <1>1, <1>3 DEF Inv, EmptyInv
<1>5. QED
  BY <1>4 DEF LookupFails

\* What _sync does to one family.
LEMMA SyncOne ==
  ASSUME Inv, NEW freshE, NEW freshM, Sync(freshE, freshM),
         \A f \in Families : ~LookupFails(f, freshE),
         NEW f \in Families
  PROVE  /\ Handled(f) =>
              /\ f \in RemoveStale => emptyStreak'[f] = EmptyStreak(f, freshE)
              /\ TrustedEmpty(f) => f \notin freshEmpty'
              /\ f \in ConfirmMissing =>
                   /\ f \notin freshMissing'
                   /\ \A o \in Objects : missingStreak'[f][o] = MissingStreak(f, o, freshM)
              /\ known'[f] = (known[f] \cup items'[f]) \ Stale(f)
              /\ entities'[f] = (entities[f] \ Stale(f)) \cup (items'[f] \ known[f])
              /\ registry'[f] = (registry[f] \ Stale(f)) \cup (items'[f] \ known[f])
         /\ ~Handled(f) =>
              /\ emptyStreak'[f] = emptyStreak[f]
              /\ \A o \in Objects : missingStreak'[f][o] = missingStreak[f][o]
              /\ known'[f] = known[f] /\ entities'[f] = entities[f]
              /\ registry'[f] = registry[f]
         /\ f \notin RemoveStale => emptyStreak'[f] = emptyStreak[f]
         /\ f \in freshEmpty' => f \in freshE
         /\ f \in freshMissing' => f \in freshM
<1>1. Synced(freshE) = {g \in Families : Handled(g)}
  BY DEF Synced
<1>2. f \in Synced(freshE) <=> Handled(f)
  BY <1>1
<1>3. QED
  BY <1>2 DEF Sync, KnownAfter

\* An update keeps the invariant.
LEMMA InvUpdate ==
  ASSUME Inv, TrustedUnwritten, NEW fetched \in SUBSET configured, Updates(fetched)
  PROVE  Inv'
<1>1. PICK overtaken \in SUBSET Written, failed \in SUBSET configured :
        /\ overtaken \cap fetched = {} /\ failed \cap (fetched \cup overtaken) = {}
        /\ \E result \in [fetched \cup overtaken -> SUBSET Objects] :
             Update(fetched, overtaken, failed, result)
  <2>1. PICK over \in SUBSET (Written \ fetched) :
          \E failed \in SUBSET (configured \ (fetched \cup over)) :
          \E result \in [fetched \cup over -> SUBSET Objects] :
             Update(fetched, over, failed, result)
    BY DEF Updates
  <2>2. QED
    BY <2>1
<1>2. PICK result \in [fetched \cup overtaken -> SUBSET Objects] :
        Update(fetched, overtaken, failed, result)
  BY <1>1
<1> DEFINE updated == fetched \cup overtaken
           freshE == freshEmpty \cup fetched
           freshM == freshMissing \cup fetched
<1>3. TypeOK'
  BY TypeUpdate DEF Inv
<1>4. \A f \in Families : ~LookupFails(f, freshE)
  BY <1>2, NoLookupFails
<1>5. Sync(freshE, freshM)
  BY <1>2 DEF Update
<1>6. ASSUME NEW f \in Families
      PROVE  /\ f \in available' => f \in configured' /\ f \in read'
             /\ Handled(f) <=> f \in available'
             /\ f \in updated => f \in available'
             /\ f \in available' /\ f \notin updated => f \in available
             /\ f \notin updated => items'[f] = items[f]
             /\ \A o \in Objects : f \notin updated => absentFor'[f][o] = absentFor[f][o]
             /\ \A o \in Objects : f \in updated /\ o \notin items'[f]
                                     => absentFor'[f][o] = Counted(absentFor[f][o])
  <2>1. f \in overtaken => f \in configured
    BY <1>2 DEF Update, Inv, EntitiesInv
  <2>2. f \in available => f \in configured /\ f \in read
    BY DEF Inv, EntitiesInv
  <2>3. f \in available' => f \in configured' /\ f \in read'
    BY <1>2, <2>1, <2>2 DEF Update
  <2>4. Handled(f) <=> f \in available'
    BY <2>3, <1>2 DEF Handled, Update
  <2>5. QED
    BY <1>1, <1>2, <2>3, <2>4 DEF Update
<1>7. EntitiesInv'
  <2> SUFFICES ASSUME NEW f \in Families
               PROVE  /\ known'[f] = entities'[f] /\ known'[f] \subseteq registry'[f]
                      /\ known'[f] # {} => f \in configured'
                      /\ f \in available' =>
                            f \in configured' /\ f \in read' /\ items'[f] \subseteq known'[f]
    BY DEF EntitiesInv
  <2>1. /\ known[f] = entities[f] /\ known[f] \subseteq registry[f]
        /\ known[f] # {} => f \in configured
        /\ f \in available => items[f] \subseteq known[f]
    BY DEF Inv, EntitiesInv
  <2>2. configured' = configured
    BY <1>2 DEF Update
  <2>3. Stale(f) \cap items'[f] = {}
    BY StaleCases
  <2>4. CASE Handled(f)
    <3>1. /\ known'[f] = (known[f] \cup items'[f]) \ Stale(f)
          /\ entities'[f] = (entities[f] \ Stale(f)) \cup (items'[f] \ known[f])
          /\ registry'[f] = (registry[f] \ Stale(f)) \cup (items'[f] \ known[f])
      BY <1>4, <1>5, <2>4, SyncOne
    <3>2. QED
      BY <1>6, <2>1, <2>2, <2>3, <2>4, <3>1
  <2>5. CASE ~Handled(f)
    <3>1. known'[f] = known[f] /\ entities'[f] = entities[f] /\ registry'[f] = registry[f]
      BY <1>4, <1>5, <2>5, SyncOne
    <3>2. QED
      BY <1>6, <2>1, <2>2, <2>5, <3>1
  <2>6. QED
    BY <2>4, <2>5
<1>8. EmptyInv'
  <2> SUFFICES ASSUME NEW f \in Families
               PROVE  /\ f \in TrustEmpty /\ f \in available' /\ items'[f] = {}
                            => f \notin freshEmpty' /\ emptyStreak'[f] > 0
                      /\ f \notin RemoveStale => emptyStreak'[f] = 0
                      /\ \A o \in Objects : emptyStreak'[f] <= absentFor'[f][o]
    BY DEF EmptyInv
  <2>0. /\ emptyStreak[f] \in 0..Confirmations /\ emptyStreak'[f] \in 0..Confirmations
        /\ \A o \in Objects : /\ absentFor[f][o] \in 0..Confirmations
                               /\ absentFor'[f][o] \in 0..Confirmations
    BY <1>3 DEF Inv, TypeOK
  <2>1. /\ f \in TrustEmpty /\ f \in available /\ items[f] = {}
              => f \notin freshEmpty /\ emptyStreak[f] > 0
        /\ f \notin RemoveStale => emptyStreak[f] = 0
        /\ \A o \in Objects : emptyStreak[f] <= absentFor[f][o]
    BY DEF Inv, EmptyInv
  <2>2. CASE Handled(f) /\ TrustedEmpty(f) /\ f \in fetched
    <3>1. emptyStreak'[f] = Counted(emptyStreak[f]) /\ f \notin freshEmpty'
      BY <1>4, <1>5, <2>2, SyncOne, EmptyStreakCases DEF TrustedEmpty
    <3>2. ASSUME NEW o \in Objects PROVE absentFor'[f][o] = Counted(absentFor[f][o])
      BY <1>6, <2>2 DEF TrustedEmpty
    <3>3. QED
      BY <2>0, <2>1, <2>2, <3>1, <3>2 DEF Counted, TrustedEmpty
  <2>3. CASE Handled(f) /\ TrustedEmpty(f) /\ f \notin fetched
    <3>1. f \notin updated /\ f \in available /\ items[f] = {}
      BY <1>6, <2>3 DEF TrustedUnwritten, TrustedEmpty
    <3>2. f \notin freshEmpty /\ emptyStreak[f] > 0
      BY <2>1, <2>3, <3>1 DEF TrustedEmpty
    <3>3. emptyStreak'[f] = emptyStreak[f] /\ f \notin freshEmpty'
      BY <1>4, <1>5, <2>3, <3>2, SyncOne, EmptyStreakCases DEF TrustedEmpty
    <3>4. \A o \in Objects : absentFor'[f][o] = absentFor[f][o]
      BY <1>6, <3>1
    <3>5. QED
      BY <2>1, <2>3, <3>2, <3>3, <3>4 DEF TrustedEmpty
  <2>4. CASE Handled(f) /\ ~TrustedEmpty(f)
    <3>1. emptyStreak'[f] = 0
      BY <1>4, <1>5, <2>1, <2>4, SyncOne, EmptyStreakCases
    <3>2. QED
      BY <2>0, <2>4, <3>1, <1>6 DEF TrustedEmpty
  <2>5. CASE ~Handled(f)
    <3>1. emptyStreak'[f] = emptyStreak[f]
      BY <1>4, <1>5, <2>5, SyncOne
    <3>2. f \notin available' /\ f \notin updated
      BY <1>6, <2>5
    <3>3. \A o \in Objects : absentFor'[f][o] = absentFor[f][o]
      BY <1>6, <3>2
    <3>4. QED
      BY <2>1, <3>1, <3>2, <3>3
  <2>6. QED
    BY <2>2, <2>3, <2>4, <2>5
<1>9. MissingInv'
  <2> SUFFICES ASSUME NEW f \in ConfirmMissing
               PROVE  /\ f \notin freshMissing'
                      /\ \A o \in Objects : missingStreak'[f][o] <= absentFor'[f][o]
    BY DEF MissingInv
  <2>0. f \in Families
    OBVIOUS
  <2>1. f \notin freshMissing
    BY DEF Inv, MissingInv
  <2>2. f \notin freshMissing'
    BY <1>4, <1>5, <1>6, <2>0, <2>1, SyncOne
  <2>3. ASSUME NEW o \in Objects PROVE missingStreak'[f][o] <= absentFor'[f][o]
    <3>0. /\ missingStreak[f][o] \in 0..Confirmations /\ absentFor[f][o] \in 0..Confirmations
          /\ absentFor'[f][o] \in 0..Confirmations /\ missingStreak[f][o] <= absentFor[f][o]
      BY <1>3, <2>0 DEF Inv, TypeOK, MissingInv
    <3>1. CASE ~Handled(f)
      BY <1>4, <1>5, <1>6, <2>0, <3>0, <3>1, SyncOne
    <3>2. CASE Handled(f) /\ o \in items'[f]
      <4>1. missingStreak'[f][o] = 0
        BY <1>4, <1>5, <2>0, <3>2, SyncOne, MissingStreakCases
      <4>2. QED
        BY <3>0, <4>1
    <3>3. CASE Handled(f) /\ o \notin items'[f] /\ f \in updated
      <4>1. absentFor'[f][o] = Counted(absentFor[f][o])
        BY <1>6, <2>0, <3>3
      <4>2. missingStreak'[f][o] \in {missingStreak[f][o], Counted(missingStreak[f][o])}
        BY <1>4, <1>5, <2>0, <3>3, SyncOne, MissingStreakCases
      <4>3. QED
        BY <3>0, <4>1, <4>2 DEF Counted
    <3>4. CASE Handled(f) /\ o \notin items'[f] /\ f \notin updated
      <4>1. absentFor'[f][o] = absentFor[f][o] /\ f \notin freshM
        BY <1>6, <2>0, <2>1, <3>4
      <4>2. missingStreak'[f][o] = missingStreak[f][o]
        BY <1>4, <1>5, <2>0, <3>4, <4>1, SyncOne, MissingStreakCases
      <4>3. QED
        BY <3>0, <4>1, <4>2
    <3>5. QED
      BY <3>1, <3>2, <3>3, <3>4
  <2>4. QED
    BY <2>2, <2>3
<1>10. QED
  BY <1>3, <1>7, <1>8, <1>9 DEF Inv

LEMMA InvStep == TrustedUnwritten /\ Inv /\ [Next]_vars => Inv'
<1>1. ASSUME Inv, UNCHANGED vars PROVE Inv'
  BY <1>1 DEF Inv, TypeOK, EntitiesInv, EmptyInv, MissingInv, vars
<1>2. QED
  BY <1>1, InvSetup, InvUpdate DEF Next

\* The inductive invariant holds in every reachable state: entities are registered and
\* follow what is known, and no count exceeds the fetches that lacked the object.
THEOREM InvCorrect == ASSUME TrustedUnwritten PROVE Spec => []Inv
<1>1. Inv /\ [Next]_vars => Inv'
  BY InvStep
<1>2. QED
  BY <1>1, InvInit, PTL DEF Spec

\* Each object of an available family has an entity (entity.py:247).
THEOREM ObjectsShownCorrect == ASSUME TrustedUnwritten PROVE Spec => []ObjectsShown
<1>1. Inv => ObjectsShown
  BY DEF Inv, EntitiesInv, ObjectsShown, TypeOK
<1>2. QED
  BY <1>1, InvCorrect, PTL

\* What an update does to the registry entry of an object that is not removed for
\* the whole family.
LEMMA RemovedConfirmed ==
  ASSUME Inv, TrustedUnwritten, NEW fetched \in SUBSET configured, Updates(fetched)
  PROVE  \A f \in Families :
           /\ registry[f] # {} /\ registry'[f] = {} =>
                f \in TrustEmpty /\ \A o \in Objects : absentFor'[f][o] = Confirmations
           /\ f \in ConfirmMissing =>
                \A o \in registry[f] \ registry'[f] : absentFor'[f][o] = Confirmations
<1> SUFFICES ASSUME NEW f \in Families
             PROVE  /\ registry[f] # {} /\ registry'[f] = {} =>
                         f \in TrustEmpty /\ \A o \in Objects : absentFor'[f][o] = Confirmations
                    /\ f \in ConfirmMissing =>
                         \A o \in registry[f] \ registry'[f] : absentFor'[f][o] = Confirmations
  OBVIOUS
<1>0. PICK overtaken \in SUBSET Written : \E failed, result :
        Update(fetched, overtaken, failed, result)
  BY DEF Updates
<1>1. PICK failed, result : Update(fetched, overtaken, failed, result)
  BY <1>0
<1>2. Inv'
  BY InvUpdate
<1>3. \A g \in Families : ~LookupFails(g, freshEmpty \cup fetched)
  BY <1>1, NoLookupFails
<1>4. Sync(freshEmpty \cup fetched, freshMissing \cup fetched)
  BY <1>1 DEF Update
<1>5. CASE ~Handled(f)
  BY <1>3, <1>4, <1>5, SyncOne
<1>6. CASE Handled(f)
  <2>1. registry'[f] = (registry[f] \ Stale(f)) \cup (items'[f] \ known[f])
    BY <1>3, <1>4, <1>6, SyncOne
  <2>2. /\ emptyStreak'[f] \in 0..Confirmations
        /\ \A o \in Objects : /\ absentFor'[f][o] \in 0..Confirmations
                               /\ missingStreak'[f][o] \in 0..Confirmations
                               /\ emptyStreak'[f] <= absentFor'[f][o]
        /\ registry[f] \subseteq Objects
    BY <1>2 DEF Inv, TypeOK, EmptyInv
  <2>3. f \in ConfirmMissing => \A o \in Objects : missingStreak'[f][o] <= absentFor'[f][o]
    BY <1>2 DEF Inv, MissingInv
  <2>4. known[f] \subseteq registry[f]
    BY DEF Inv, EntitiesInv
  <2>5. CASE Stale(f) = {}
    BY <2>1, <2>5
  <2>6. CASE TrustedEmpty(f) /\ emptyStreak'[f] >= Confirmations
    BY <2>2, <2>6 DEF TrustedEmpty
  <2>7. CASE /\ items'[f] \cup StillConfirming(f) # {}
             /\ Stale(f) = registry[f] \ (items'[f] \cup StillConfirming(f))
    <3>1. registry'[f] # {}
      <4>1. StillConfirming(f) \subseteq registry[f]
        BY DEF StillConfirming
      <4>2. QED
        BY <2>1, <2>4, <2>7, <4>1
    <3>2. ASSUME f \in ConfirmMissing, NEW o \in registry[f] \ registry'[f]
          PROVE  absentFor'[f][o] = Confirmations
      <4>1. o \in Stale(f)
        BY <2>1, <3>2
      <4>2. missingStreak'[f][o] >= Confirmations
        BY <2>2, <2>7, <3>2, <4>1 DEF StillConfirming
      <4>3. QED
        BY <2>2, <2>3, <3>2, <4>2
    <3>3. QED
      BY <3>1, <3>2
  <2>8. QED
    BY <2>5, <2>6, <2>7, StaleCases
<1>7. QED
  BY <1>5, <1>6

\* A setup removes nothing of a family that is switched on.
LEMMA SetupKeeps == Inv /\ Setup => \A f \in configured' : registry'[f] = registry[f]
  BY DEF Setup, Inv, TypeOK

\* The last entity of a family goes only after enough empty fetches (entity.py:186).
THEOREM LastEntityConfirmedCorrect ==
  ASSUME TrustedUnwritten PROVE Spec => LastEntityConfirmed
<1> DEFINE Confirmed ==
      \A f \in configured' :
          registry[f] # {} /\ registry'[f] = {} =>
              f \in TrustEmpty /\ \A o \in Objects : absentFor'[f][o] = Confirmations
<1>1. Inv /\ [Next]_vars => [Confirmed]_vars
  <2> SUFFICES ASSUME Inv, Next PROVE Confirmed
    OBVIOUS
  <2>1. CASE Setup
    BY <2>1, SetupKeeps
  <2>2. ASSUME NEW fetched \in SUBSET configured, Updates(fetched) PROVE Confirmed
    <3>1. configured' \subseteq Families
      BY <2>2, InvUpdate DEF Inv, TypeOK
    <3>2. QED
      BY <2>2, <3>1, RemovedConfirmed
  <2>3. QED
    BY <2>1, <2>2 DEF Next
<1>2. QED
  BY <1>1, InvCorrect, PTL DEF Spec, LastEntityConfirmed

\* With confirm_missing an entity goes only after enough fetches that lack its object
\* (entity.py:195).
THEOREM MissingConfirmedCorrect ==
  ASSUME TrustedUnwritten PROVE Spec => MissingConfirmed
<1> DEFINE Confirmed ==
      \A f \in ConfirmMissing \cap configured' :
          \A o \in registry[f] \ registry'[f] : absentFor'[f][o] = Confirmations
<1>1. Inv /\ [Next]_vars => [Confirmed]_vars
  <2> SUFFICES ASSUME Inv, Next PROVE Confirmed
    OBVIOUS
  <2>1. CASE Setup
    BY <2>1, SetupKeeps
  <2>2. ASSUME NEW fetched \in SUBSET configured, Updates(fetched) PROVE Confirmed
    BY <2>2, RemovedConfirmed
  <2>3. QED
    BY <2>1, <2>2 DEF Next
<1>2. QED
  BY <1>1, InvCorrect, PTL DEF Spec, MissingConfirmed
=============================================================================
