-------------------------- MODULE DynamicEntities --------------------------
(***************************************************************************)
(* The entities a platform creates per firewall object (entity.py): after  *)
(* every update of the coordinator, _sync adds entities for new objects    *)
(* and removes those of objects that vanished, but only after a confirmed  *)
(* absence, since removing the registry entry of an entity discards what   *)
(* the user has made of it.                                                *)
(*                                                                         *)
(* The families of one call of async_setup_dynamic_entities, each with an  *)
(* endpoint of its own, are numbered in the order _sync handles them.  Of  *)
(* fetched_at only its change matters: a fetch is fresh until it has been  *)
(* counted.  A count stops at Confirmations; a key that is missing from    *)
(* one of the dictionaries of counts is the count 0.                       *)
(***************************************************************************)
EXTENDS Integers

CONSTANTS
    FamilyCount,
    Objects,          \* names of firewall objects
    RemoveStale,      \* families with remove_stale
    TrustEmpty,       \* families with trust_empty
    ConfirmMissing,   \* families with confirm_missing
    Written,          \* families whose endpoint writes may invalidate
    Confirmations     \* EMPTY_CONFIRMATIONS

Families == 1..FamilyCount

ASSUME FamiliesAssumption ==
    /\ FamilyCount \in Nat \ {0}
    /\ RemoveStale \subseteq Families /\ Written \subseteq Families
    /\ TrustEmpty \subseteq RemoveStale /\ ConfirmMissing \subseteq RemoveStale
    /\ Confirmations \in Nat \ {0}

VARIABLES
    configured,       \* families whose source the options switch on
    available,        \* families whose endpoint's last fetch succeeded
    read,             \* families whose field of the data is not None
    items,            \* objects of the last result of each family
    registry,         \* entity registry: outlives reloads and restarts
    entities,         \* objects that have an entity in this session
    known,            \* known, by family
    emptyStreak,      \* empty_streak
    freshEmpty,       \* families with fetched_at # last_fetch
    missingStreak,    \* missing_streak
    freshMissing,     \* families with fetched_at # last_missing_fetch
    absentFor         \* history: consecutive successful fetches without it

vars == <<configured, available, read, items, registry, entities, known, emptyStreak,
          freshEmpty, missingStreak, freshMissing, absentFor>>

NoObjects == [f \in Families |-> {}]
NoStreaks == [f \in Families |-> [o \in Objects |-> 0]]

Counted(streak) == IF streak < Confirmations THEN streak + 1 ELSE streak

------------------------------------------------------------------------------

Init ==
    /\ configured \in SUBSET Families
    /\ available = {} /\ read = {} /\ items = NoObjects
    /\ registry = NoObjects
    /\ entities = NoObjects /\ known = NoObjects
    /\ emptyStreak = [f \in Families |-> 0] /\ missingStreak = NoStreaks
    /\ freshEmpty = {} /\ freshMissing = {}
    /\ absentFor = NoStreaks

\* async_setup_dynamic_entities of a reloaded entry or a restarted Home
\* Assistant: families that are switched off lose their registry entries.
Setup ==
    /\ configured' \in SUBSET Families
    /\ registry' = [f \in Families |-> IF f \in configured' THEN registry[f] ELSE {}]
    /\ available' = {} /\ read' = {} /\ items' = NoObjects
    /\ entities' = NoObjects /\ known' = NoObjects
    /\ emptyStreak' = [f \in Families |-> 0] /\ missingStreak' = NoStreaks
    /\ freshEmpty' = {} /\ freshMissing' = {}
    /\ absentFor' = NoStreaks

------------------------------------------------------------------------------
\* _sync, called with the results of the update in place.

Handled(f) == f \in configured /\ f \in available' /\ f \in read'

\* The branch of trust_empty: the table is empty, and that means something.
TrustedEmpty(f) == f \in TrustEmpty /\ items'[f] = {}

\* The count of empty fetches is looked up although nothing ever counted one.
LookupFails(f, fresh) ==
    Handled(f) /\ TrustedEmpty(f) /\ f \notin fresh /\ emptyStreak[f] = 0

\* An exception ends the call: families from the failing one on are left out.
Synced(fresh) ==
    {f \in Families : Handled(f) /\ \A g \in Families : LookupFails(g, fresh) => f < g}

\* Mutant of EmptyStreak: the table need not be empty at every fetch in a row.
EmptyStreakNoReset(f, fresh) ==
    IF TrustedEmpty(f) /\ f \in fresh THEN Counted(emptyStreak[f]) ELSE emptyStreak[f]

\* Each fetch is counted once.
EmptyStreak(f, fresh) ==
    IF ~TrustedEmpty(f) THEN 0
    ELSE IF f \in fresh THEN Counted(emptyStreak[f]) ELSE emptyStreak[f]

\* Mutants of MissingStreak: an object that is back keeps its count; fetches are
\* never taken for new.
MissingStreakNoReset(f, o, fresh) ==
    IF o \in registry[f] \ items'[f] /\ f \in fresh
    THEN Counted(missingStreak[f][o]) ELSE missingStreak[f][o]
MissingStreakNeverNew(f, o, fresh) ==
    IF o \in items'[f] THEN 0 ELSE missingStreak[f][o]

\* _still_confirming: only objects that are registered are counted as missing.
MissingStreak(f, o, fresh) ==
    IF o \in items'[f] THEN 0
    ELSE IF o \in registry[f] /\ f \in fresh THEN Counted(missingStreak[f][o])
    ELSE missingStreak[f][o]

StillConfirming(f) ==
    {o \in registry[f] \ items'[f] :
        f \in ConfirmMissing /\ missingStreak'[f][o] < Confirmations}

\* async_remove_stale_entities: nothing left to keep is no reason to remove all.
Stale(f) ==
    LET current == items'[f] \cup StillConfirming(f)
        remove_all == TrustedEmpty(f) /\ emptyStreak'[f] >= Confirmations
    IN  IF f \notin RemoveStale THEN {}
        ELSE IF remove_all THEN registry[f]
        ELSE IF current = {} THEN {}
        ELSE registry[f] \ current

\* Mutant of KnownAfter: the objects of removed entities stay known.
KnownAfterAll(f) == known[f] \cup items'[f]

KnownAfter(f) == (known[f] \cup items'[f]) \ Stale(f)

\* New entities are added at the end of the call, if it gets there.
Sync(freshE, freshM) ==
    LET done == Synced(freshE)
        returns == \A f \in Families : ~LookupFails(f, freshE)
        new(f) == IF returns THEN items'[f] \ known[f] ELSE {}
        trusted == {f \in done : TrustedEmpty(f)}
    IN  /\ emptyStreak' = [f \in Families |->
              IF f \in done \cap RemoveStale THEN EmptyStreak(f, freshE) ELSE emptyStreak[f]]
        /\ freshEmpty' = freshE \ trusted
        /\ missingStreak' = [f \in Families |-> [o \in Objects |->
              IF f \in done \cap ConfirmMissing
              THEN MissingStreak(f, o, freshM) ELSE missingStreak[f][o]]]
        /\ freshMissing' = freshM \ (done \cap ConfirmMissing)
        /\ known' = [f \in Families |-> IF f \in done THEN KnownAfter(f) ELSE known[f]]
        /\ registry' = [f \in Families |->
              IF f \in done THEN (registry[f] \ Stale(f)) \cup new(f) ELSE registry[f]]
        /\ entities' = [f \in Families |->
              IF f \in done THEN (entities[f] \ Stale(f)) \cup new(f) ELSE entities[f]]

\* An update of the coordinator: endpoints that were fetched, that a write
\* invalidated while they were fetched, and that failed; the others were not due.
\* A write needs a switch, hence an object of that family.
Update(fetched, overtaken, failed, result) ==
    LET updated == fetched \cup overtaken
    IN  /\ overtaken \subseteq {f \in Written : known[f] # {}}
        /\ available' = (available \cup updated) \ failed
        /\ read' = read \cup updated
        /\ items' = [f \in Families |-> IF f \in updated THEN result[f] ELSE items[f]]
        /\ absentFor' = [f \in Families |-> [o \in Objects |->
              IF f \notin updated THEN absentFor[f][o]
              ELSE IF o \in items'[f] THEN 0
              ELSE Counted(absentFor[f][o])]]
        /\ UNCHANGED configured
        /\ Sync(freshEmpty \cup fetched, freshMissing \cup fetched)

Updates(fetched) ==
    \E overtaken \in SUBSET (Written \ fetched) :
    \E failed \in SUBSET (configured \ (fetched \cup overtaken)) :
    \E result \in [fetched \cup overtaken -> SUBSET Objects] :
        Update(fetched, overtaken, failed, result)

Next ==
    \/ Setup
    \/ \E fetched \in SUBSET configured : Updates(fetched)

Spec == Init /\ [][Next]_vars

\* A source that is asked again and again answers some time.
Fairness ==
    \A f \in Families :
        WF_vars(\E fetched \in SUBSET configured : f \in fetched /\ Updates(fetched))

LiveSpec == Spec /\ Fairness

------------------------------------------------------------------------------
\* Properties.

\* Every variable keeps its type.
TypeOK ==
    /\ configured \subseteq Families
    /\ available \subseteq Families /\ read \subseteq Families
    /\ items \in [Families -> SUBSET Objects]
    /\ registry \in [Families -> SUBSET Objects]
    /\ entities \in [Families -> SUBSET Objects]
    /\ known \in [Families -> SUBSET Objects]
    /\ emptyStreak \in [Families -> 0..Confirmations]
    /\ freshEmpty \subseteq Families /\ freshMissing \subseteq Families
    /\ missingStreak \in [Families -> [Objects -> 0..Confirmations]]
    /\ absentFor \in [Families -> [Objects -> 0..Confirmations]]

\* After every update, each object of an available family has an entity, also
\* one that was gone before, whatever became of its old entity (entity.py:247).
ObjectsShown ==
    \A f \in configured \cap available \cap read : items[f] \subseteq entities[f]

\* The last entity of a family that is switched on goes only where empty tables
\* are trusted, and after enough consecutive empty fetches (entity.py:186).
LastEntityConfirmed ==
    [][\A f \in configured' :
          registry[f] # {} /\ registry'[f] = {} =>
              f \in TrustEmpty /\ \A o \in Objects : absentFor'[f][o] = Confirmations]_vars

\* With confirm_missing an entity goes only after its object was absent from
\* enough consecutive fetches, however often the listeners run in between, and
\* although a fetch that a write overtook can bring it back (entity.py:195).
MissingConfirmed ==
    [][\A f \in ConfirmMissing \cap configured' :
          \A o \in registry[f] \ registry'[f] : absentFor'[f][o] = Confirmations]_vars

\* The entity of an object that stays away while others are there goes some time.
StaleGoes ==
    \A f \in RemoveStale, o \in Objects :
        /\ <>[][~Setup]_vars
        /\ <>[](f \in configured \cap available /\ items[f] # {} /\ o \notin items[f])
        => <>[](o \notin registry[f])
=============================================================================
