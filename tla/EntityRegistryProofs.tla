------------------------ MODULE EntityRegistryProofs ------------------------
(***************************************************************************)
(* Proofs about the entities that the registry keeps, for any set of       *)
(* families: however often Home Assistant stops between its saves, and     *)
(* whatever the options and the firewall do.                               *)
(***************************************************************************)
EXTENDS EntityRegistry, FiniteSetTheorems, WellFoundedInduction, TLAPS

------------------------------------------------------------------------------
\* Induction along a plan.

\* Sets of numbers have a least one.
LEMMA LeastNumber ==
  ASSUME NEW T \in SUBSET Nat, T # {}
  PROVE  \E m \in T : \A k \in T : m <= k
<1> DEFINE L == OpToRel(<, Nat)
<1>1. IsWellFoundedOn(L, Nat)
  BY NatLessThanWellFounded, Zenon
<1>2. \A k, m \in Nat : k < m => <<k, m>> \in L
  BY DEF OpToRel
<1> HIDE DEF L
<1>3. \E m \in T : \A k \in T : ~ (<<k, m>> \in L)
  BY <1>1, WFMin
<1>4. PICK m \in T : \A k \in T : ~ (k < m)
  BY <1>2, <1>3
<1>5. \A k \in T : m <= k
  BY <1>4
<1>6. QED
  BY <1>5

\* What holds at the start and goes from each number to the next one holds up to the end.
LEMMA UpTo ==
  ASSUME NEW n \in Nat, NEW S \in SUBSET (0..n), 0 \in S,
         \A k \in 1..n : k - 1 \in S => k \in S
  PROVE  S = 0..n
<1> SUFFICES ASSUME (0..n) \ S # {} PROVE FALSE
  OBVIOUS
<1>1. PICK m \in (0..n) \ S : \A k \in (0..n) \ S : m <= k
  <2>1. (0..n) \ S \in SUBSET Nat
    OBVIOUS
  <2>2. QED
    BY <2>1, LeastNumber
<1>2. m \in 1..n /\ m - 1 \in 0..n /\ ~(m <= m - 1)
  BY <1>1
<1>3. m - 1 \in S
  BY <1>1, <1>2
<1>4. QED
  BY <1>1, <1>2, <1>3

Steps(f, k, R, plan) == f = [i \in 0..k |-> IF i = 0 THEN R ELSE Moved(f[i - 1], plan[i])]

\* The steps of a plan are defined by recursion.
LEMMA StepsExist ==
  ASSUME NEW R, NEW plan, NEW n \in Nat
  PROVE  \E f : Steps(f, n, R, plan)
<1> DEFINE S == {k \in 0..n : \E f : Steps(f, k, R, plan)}
<1>1. 0 \in S
  <2>1. Steps([i \in 0..0 |-> R], 0, R, plan)
    BY DEF Steps
  <2>2. QED
    BY <2>1
<1>2. ASSUME NEW k \in 1..n, k - 1 \in S PROVE k \in S
  <2>1. PICK f : Steps(f, k - 1, R, plan)
    BY <1>2
  <2> DEFINE g == [i \in 0..k |-> IF i = k THEN Moved(f[k - 1], plan[k]) ELSE f[i]]
  <2>2. \A i \in 0..k : g[i] = IF i = 0 THEN R ELSE Moved(g[i - 1], plan[i])
    <3> SUFFICES ASSUME NEW i \in 0..k PROVE g[i] = IF i = 0 THEN R ELSE Moved(g[i - 1], plan[i])
      OBVIOUS
    <3>1. CASE i = k
      <4>1. g[i - 1] = f[k - 1] /\ g[i] = Moved(f[k - 1], plan[k]) /\ i # 0
        BY <3>1
      <4>2. QED
        BY <3>1, <4>1
    <3>2. CASE i # k
      <4>1. i \in 0..(k - 1) /\ g[i] = f[i]
        BY <3>2
      <4>2. f[i] = IF i = 0 THEN R ELSE Moved(f[i - 1], plan[i])
        BY <2>1, <4>1 DEF Steps
      <4>3. i # 0 => g[i - 1] = f[i - 1]
        BY <4>1
      <4>4. QED
        BY <4>1, <4>2, <4>3
    <3>3. QED
      BY <3>1, <3>2
  <2>3. g = [i \in 0..k |-> g[i]]
    OBVIOUS
  <2> HIDE DEF g
  <2>4. Steps(g, k, R, plan)
    BY <2>2, <2>3 DEF Steps
  <2>5. QED
    BY <2>4
<1> HIDE DEF S
<1>3. S = 0..n
  <2>1. S \in SUBSET (0..n)
    BY DEF S
  <2>2. QED
    BY <1>1, <1>2, <2>1, UpTo
<1>4. QED
  BY <1>3 DEF S

LEMMA AppliedSteps ==
  ASSUME NEW R, NEW plan, Len(plan) \in Nat
  PROVE  \E f : Steps(f, Len(plan), R, plan) /\ Applied(R, plan) = f[Len(plan)]
<1> DEFINE f == CHOOSE after : Steps(after, Len(plan), R, plan)
<1>1. Steps(f, Len(plan), R, plan)
  <2>1. \E g : Steps(g, Len(plan), R, plan)
    BY StepsExist
  <2>2. QED
    BY <2>1, Zenon
<1>2. Applied(R, plan) = f[Len(plan)]
  BY Zenon DEF Applied, Steps
<1> HIDE DEF f
<1>3. QED
  BY <1>1, <1>2

------------------------------------------------------------------------------
\* Plans and what they do.

\* A plan holds each entity that is to be moved, once, those of the current address first.
LEMMA PlanFacts ==
  ASSUME NEW R, IsFiniteSet(R), NEW plan \in Plans(R)
  PROVE  /\ Len(plan) \in Nat
         /\ \A i \in 1..Len(plan) : plan[i] \in R /\ plan[i].form \in {"current", "earlier"}
         /\ \A e \in R : e.form \in {"current", "earlier"} =>
               \E i \in 1..Len(plan) : plan[i] = e
         /\ \A i, j \in 1..Len(plan) : plan[i] = plan[j] => i = j
         /\ \A i, j \in 1..Len(plan) :
               plan[i].form = "earlier" /\ plan[j].form = "current" => j < i
<1> DEFINE S == {e \in R : e.form \in {"current", "earlier"}}
           n == Cardinality(S)
<1>1. IsFiniteSet(S) /\ n \in Nat
  BY FS_Subset, FS_CardinalityType
<1>2. /\ plan \in [1..n -> S]
      /\ \A i, j \in 1..n : i # j => plan[i] # plan[j]
      /\ \A i, j \in DOMAIN plan :
            plan[i].form = "earlier" /\ plan[j].form = "current" => j < i
  BY Zenon DEF Plans, SetToSeqs
<1> HIDE DEF n
<1>3. Len(plan) = n /\ DOMAIN plan = 1..n
  BY <1>1, <1>2
<1>4. plan \in Injection(1..n, S)
  BY <1>2 DEF Injection, IsInjective
<1>5. IsFiniteSet(1..n) /\ Cardinality(1..n) = n
  BY <1>1, FS_Interval
<1>6. plan \in Surjection(1..n, S)
  BY <1>1, <1>4, <1>5, FS_Injection DEF n
<1>7. \A e \in S : \E i \in 1..n : plan[i] = e
  BY <1>6 DEF Surjection
<1>8. QED
  BY <1>1, <1>2, <1>3, <1>7

Live(e) == e.form \in {"current", "new"}

\* Of the entities of an object at most one is or was at the current address, and none
\* is disabled that should not be.
Sound(R) ==
    /\ R \subseteq Entities /\ IsFiniteSet(R)
    /\ \A e, x \in R : Live(e) /\ Live(x) => e = x
    /\ \A e \in R : listed /\ e.origin = "polled" => e.enabled

\* After i steps of a plan for R the registry A has the entities of the steps to come, and
\* for what it had at the current address one with the same origin.
Left(R, plan, i, A) ==
    /\ Sound(A)
    /\ \A e \in A : e.form # "new" => \E j \in (i + 1)..Len(plan) : plan[j] = e
    /\ \A j \in (i + 1)..Len(plan) : plan[j] \in A
    /\ \A e \in R : Live(e) => \E x \in A : Live(x) /\ x.origin = e.origin
    /\ R # {} => A # {}

\* A step of a plan.
LEMMA MovedLeft ==
  ASSUME NEW R, NEW plan, NEW A, NEW k \in 1..Len(plan), Len(plan) \in Nat,
         \A i \in 1..Len(plan) : plan[i].form \in {"current", "earlier"},
         \A i, j \in 1..Len(plan) : plan[i] = plan[j] => i = j,
         \A i, j \in 1..Len(plan) :
            plan[i].form = "earlier" /\ plan[j].form = "current" => j < i,
         Left(R, plan, k - 1, A)
  PROVE  Left(R, plan, k, Moved(A, plan[k]))
<1> DEFINE p == plan[k]
           q == [p EXCEPT !.form = "new"]
           B == Moved(A, p)
<1>1. /\ Sound(A)
      /\ \A e \in A : e.form # "new" => \E j \in k..Len(plan) : plan[j] = e
      /\ \A j \in k..Len(plan) : plan[j] \in A
      /\ \A e \in R : Live(e) => \E x \in A : Live(x) /\ x.origin = e.origin
  BY DEF Left
<1>2. p \in A /\ p \in Entities /\ p.form \in {"current", "earlier"}
  BY <1>1 DEF Sound
<1>3. /\ q \in Entities /\ q.form = "new" /\ q.origin = p.origin /\ q.enabled = p.enabled
  BY <1>2 DEF Entities
<1>4. \A j \in (k + 1)..Len(plan) : plan[j] \in A /\ plan[j] # p
  BY <1>1
<1>5. \A e \in A : e.form # "new" /\ e # p => \E j \in (k + 1)..Len(plan) : plan[j] = e
  <2> SUFFICES ASSUME NEW e \in A, e.form # "new", e # p
               PROVE  \E j \in (k + 1)..Len(plan) : plan[j] = e
    OBVIOUS
  <2>1. PICK j \in k..Len(plan) : plan[j] = e
    BY <1>1
  <2>2. j # k
    BY <2>1
  <2>3. QED
    BY <2>1, <2>2
<1>6. \A e \in A : e.form = "current" /\ e # p => p.form = "current"
  <2> SUFFICES ASSUME NEW e \in A, e.form = "current", e # p, p.form = "earlier"
               PROVE  FALSE
    BY <1>2
  <2>1. PICK j \in (k + 1)..Len(plan) : plan[j] = e
    BY <1>5
  <2>2. j < k
    BY <2>1
  <2>3. QED
    BY <2>2
<1> HIDE DEF p, q
<1>7. CASE \E x \in A : x.form = "new"
  <2>1. B = A \ {p}
    BY <1>7 DEF Moved
  <2>2. PICK x \in A : x.form = "new"
    BY <1>7
  <2>3. x \in B /\ ~Live(p)
    BY <1>1, <1>2, <2>1, <2>2 DEF Sound, Live
  <2>4. Sound(B)
    BY <1>1, <2>1, FS_RemoveElement DEF Sound
  <2>5. \A e \in R : Live(e) => \E y \in B : Live(y) /\ y.origin = e.origin
    BY <1>1, <2>1, <2>3
  <2> HIDE DEF B
  <2>6. QED
    BY <1>4, <1>5, <2>1, <2>3, <2>4, <2>5 DEF Left, B, p
<1>8. CASE \A x \in A : x.form # "new"
  <2>1. B = (A \ {p}) \cup {q}
    BY <1>8 DEF Moved, q
  <2>2. \A x \in A : Live(x) => x = p
    BY <1>1, <1>2, <1>6, <1>8 DEF Sound, Live
  <2>3. Sound(B)
    <3>1. IsFiniteSet(B)
      <4>1. IsFiniteSet(A \ {p})
        BY <1>1, FS_RemoveElement DEF Sound
      <4>2. QED
        BY <2>1, <4>1, FS_AddElement
    <3>2. \A x \in B : Live(x) => x = q
      BY <2>1, <2>2
    <3>3. B \subseteq Entities
      BY <1>1, <1>3, <2>1 DEF Sound
    <3>4. \A e \in B : listed /\ e.origin = "polled" => e.enabled
      BY <1>1, <1>2, <1>3, <2>1 DEF Sound
    <3>5. QED
      BY <3>1, <3>2, <3>3, <3>4 DEF Sound
  <2>4. \A e \in R : Live(e) => \E y \in B : Live(y) /\ y.origin = e.origin
    <3> SUFFICES ASSUME NEW e \in R, Live(e) PROVE Live(q) /\ q \in B /\ q.origin = e.origin
      OBVIOUS
    <3>1. PICK x \in A : Live(x) /\ x.origin = e.origin
      BY <1>1
    <3>2. QED
      BY <1>3, <2>1, <2>2, <3>1 DEF Live
  <2>5. \A e \in B : e.form # "new" => \E j \in (k + 1)..Len(plan) : plan[j] = e
    BY <1>3, <1>5, <2>1
  <2>6. \A j \in (k + 1)..Len(plan) : plan[j] \in B
    BY <1>4, <2>1
  <2>7. B # {}
    BY <2>1
  <2> HIDE DEF B
  <2>8. QED
    BY <2>3, <2>4, <2>5, <2>6, <2>7 DEF Left, B, p
<1>9. QED
  BY <1>7, <1>8

\* What a migration leaves.
LEMMA MigratedSound ==
  ASSUME NEW R, Sound(R), NEW R2 \in Migrated(R)
  PROVE  /\ Sound(R2)
         /\ \A e \in R2 : e.form = "new"
         /\ \A e \in R : Live(e) => \E x \in R2 : x.origin = e.origin
         /\ (\E e \in R : e.form # "other") => R2 # {}
<1> DEFINE Q == {e \in R : e.form # "other"}
<1>1. PICK plan \in Plans(R) : R2 = Applied(Q, plan)
  BY DEF Migrated
<1>2. IsFiniteSet(R) /\ R \subseteq Entities
  BY DEF Sound
<1>3. IsFiniteSet(Q)
  BY <1>2, FS_Subset
<1>4. /\ Len(plan) \in Nat
      /\ \A i \in 1..Len(plan) : plan[i] \in R /\ plan[i].form \in {"current", "earlier"}
      /\ \A e \in R : e.form \in {"current", "earlier"} => \E i \in 1..Len(plan) : plan[i] = e
      /\ \A i, j \in 1..Len(plan) : plan[i] = plan[j] => i = j
      /\ \A i, j \in 1..Len(plan) :
            plan[i].form = "earlier" /\ plan[j].form = "current" => j < i
  BY <1>2, PlanFacts
<1> HIDE DEF Q
<1>5. Len(plan) \in Nat
  BY <1>4
<1>6. PICK f : Steps(f, Len(plan), Q, plan) /\ Applied(Q, plan) = f[Len(plan)]
  BY <1>5, AppliedSteps
<1>7. \A i \in 0..Len(plan) : f[i] = IF i = 0 THEN Q ELSE Moved(f[i - 1], plan[i])
  BY <1>6 DEF Steps
<1> DEFINE T == {i \in 0..Len(plan) : Left(Q, plan, i, f[i])}
<1>8. 0 \in T
  <2>1. f[0] = Q
    BY <1>5, <1>7
  <2>2. Sound(Q)
    BY <1>3 DEF Sound, Q
  <2>3. \A e \in Q : e.form # "new" => \E j \in 1..Len(plan) : plan[j] = e
    <3>1. \A e \in Q : e.form # "new" => e.form \in {"current", "earlier"}
      BY <1>2 DEF Entities, OldForms, Q
    <3>2. QED
      BY <1>4, <3>1 DEF Q
  <2>4. \A j \in 1..Len(plan) : plan[j] \in Q
    BY <1>4 DEF Q
  <2>5. Left(Q, plan, 0, Q)
    BY <2>2, <2>3, <2>4 DEF Left
  <2>6. QED
    BY <1>4, <2>1, <2>5
<1>9. ASSUME NEW k \in 1..Len(plan), k - 1 \in T PROVE k \in T
  <2>1. f[k] = Moved(f[k - 1], plan[k]) /\ k \in 0..Len(plan)
    BY <1>5, <1>7
  <2>2. Left(Q, plan, k - 1, f[k - 1])
    BY <1>9
  <2>3. Left(Q, plan, k, Moved(f[k - 1], plan[k]))
    BY <1>4, <2>2, MovedLeft
  <2>4. QED
    BY <2>1, <2>3
<1>10. Len(plan) \in T
  <2>1. T \in SUBSET (0..Len(plan))
    OBVIOUS
  <2> HIDE DEF T
  <2>2. T = 0..Len(plan)
    BY <1>4, <1>8, <1>9, <2>1, UpTo
  <2>3. QED
    BY <1>4, <2>2
<1>11. Left(Q, plan, Len(plan), R2)
  BY <1>1, <1>6, <1>10
<1>12. \A e \in R2 : e.form = "new"
  BY <1>4, <1>11 DEF Left
<1>13. \A e \in R : Live(e) => e \in Q
  BY DEF Live, Q
<1>14. (\E e \in R : e.form # "other") => Q # {}
  BY DEF Q
<1>15. QED
  BY <1>11, <1>12, <1>13, <1>14 DEF Left

------------------------------------------------------------------------------
\* The inductive invariant, and the types.

\* Both registries are sound, and that of a running entry is migrated.
Inv ==
    /\ family \in Followed
    /\ listed \in BOOLEAN /\ (listed => family = "traffic_")
    /\ Sound(registry) /\ Sound(saved)
    /\ running => \A e \in registry : e.form = "new"

\* A registry of v1 is sound.
LEMMA OldSound == \A R \in SUBSET OldEntities : Sound(R)
<1> SUFFICES ASSUME NEW R \in SUBSET OldEntities PROVE Sound(R)
  OBVIOUS
<1>1. IsFiniteSet(OldEntities)
  <2> DEFINE a == Old("current", "current")  b == Old("earlier", "earlier")
             c == Old("earlier", "earliest") d == Old("other", "other")
  <2>1. IsFiniteSet({} \cup {a})
    BY FS_EmptySet, FS_AddElement
  <2>2. IsFiniteSet(({} \cup {a}) \cup {b})
    BY <2>1, FS_AddElement
  <2>3. IsFiniteSet((({} \cup {a}) \cup {b}) \cup {c})
    BY <2>2, FS_AddElement
  <2>4. IsFiniteSet(((({} \cup {a}) \cup {b}) \cup {c}) \cup {d})
    BY <2>3, FS_AddElement
  <2>5. OldEntities = ((({} \cup {a}) \cup {b}) \cup {c}) \cup {d}
    BY DEF OldEntities
  <2>6. QED
    BY <2>4, <2>5
<1>2. IsFiniteSet(R)
  BY <1>1, FS_Subset
<1>3. \A e \in OldEntities : /\ e \in Entities /\ e.enabled
                             /\ Live(e) => e = Old("current", "current")
  <2>1. \A form \in OldForms, origin \in Origins :
           Old(form, origin) \in Entities /\ Old(form, origin).enabled
           /\ Old(form, origin).form = form
    BY DEF Old, Entities
  <2>2. ASSUME NEW e \in OldEntities
        PROVE  \E form \in OldForms, origin \in Origins :
                  e = Old(form, origin) /\ (form = "current" <=> origin = "current")
    BY DEF OldEntities, OldForms, Origins
  <2>3. \A form \in OldForms : form # "new" /\ (form \in {"current", "new"} => form = "current")
    BY DEF OldForms
  <2>4. QED
    BY <2>1, <2>2, <2>3 DEF Live
<1>4. QED
  BY <1>2, <1>3 DEF Sound

\* Adding an entity to a migrated registry; one of a listed interface only when the list
\* is known, if it is polled.
LEMMA AddedSound ==
  ASSUME NEW R, Sound(R), \A e \in R : e.form = "new",
         listed /\ "interfaces" \in options => known
  PROVE  Sound(Added(R)) /\ (\A e \in Added(R) : e.form = "new")
         /\ R \subseteq Added(R) /\ Added(R) # {}
<1> DEFINE a == [form |-> "new", enabled |-> family # "traffic_" \/ CreatedEnabled,
                 origin |-> IF "interfaces" \in options THEN "polled" ELSE "unpolled"]
<1>1. CASE \E x \in R : x.form = "new"
  BY <1>1 DEF Added
<1>2. CASE R = {}
  <2>1. Added(R) = R \cup {a}
    BY <1>2 DEF Added
  <2>2. a \in Entities /\ a.form = "new"
    BY DEF Entities, Origins
  <2>3. listed /\ a.origin = "polled" => a.enabled
    BY DEF CreatedEnabled
  <2>4. IsFiniteSet(R \cup {a})
    <3> HIDE DEF a
    <3>1. QED
      BY FS_AddElement DEF Sound
  <2> HIDE DEF a
  <2>5. QED
    BY <1>2, <2>1, <2>2, <2>3, <2>4 DEF Sound
<1>3. QED
  BY <1>1, <1>2

\* What setup leaves of a registry.
LEMMA SetupSound ==
  ASSUME Inv, Setup
  PROVE  Sound(registry') /\ \A e \in registry' : e.form = "new"
<1>1. PICK R \in Migrated(registry) :
         registry' = IF SwitchedOff(ready') THEN {}
                     ELSE IF family \in Static /\ Fed(ready') THEN Added(R) ELSE R
  BY Zenon DEF Setup
<1>2. Sound(R) /\ \A e \in R : e.form = "new"
  BY MigratedSound DEF Inv
<1>3. Sound({})
  BY FS_EmptySet DEF Sound
<1>4. CASE family \in Static
  <2>1. ~listed
    BY <1>4 DEF Inv, Static
  <2>2. Sound(Added(R)) /\ \A e \in Added(R) : e.form = "new"
    BY <1>2, <2>1, AddedSound
  <2>3. QED
    BY <1>1, <1>2, <1>3, <2>2
<1>5. CASE family \notin Static
  BY <1>1, <1>2, <1>3, <1>5
<1>6. QED
  BY <1>4, <1>5

LEMMA InvInit == Init => Inv
<1> SUFFICES ASSUME Init PROVE Inv
  OBVIOUS
<1>1. registry \in SUBSET OldEntities
  BY DEF Init
<1>2. QED
  BY <1>1, OldSound DEF Init, Inv

LEMMA InvStep == Inv /\ [Next]_vars => Inv'
<1> SUFFICES ASSUME Inv, [Next]_vars PROVE Inv'
  OBVIOUS
<1>1. /\ family' = family /\ listed' = listed
      /\ family \in Followed /\ listed \in BOOLEAN /\ (listed => family = "traffic_")
  BY Zenon DEF Inv, Next, SetupFails, Setup, Add, RemoveStale, InterfacesRead, Change,
        ChangeOptions, SaveEntry, SaveRegistry, Crash, vars
<1>2. SUFFICES /\ Sound(registry') /\ Sound(saved')
               /\ running' => \A e \in registry' : e.form = "new"
  BY <1>1 DEF Inv, Sound
<1>3. Sound(registry) /\ Sound(saved) /\ (running => \A e \in registry : e.form = "new")
  BY DEF Inv
<1>4. CASE SetupFails
  BY <1>3, <1>4, MigratedSound DEF SetupFails
<1>5. CASE Setup
  BY <1>3, <1>5, SetupSound DEF Setup
<1>6. CASE Add
  <2>1. listed /\ "interfaces" \in options => known
    BY <1>1, <1>6 DEF Add, Found
  <2>2. /\ registry' = Added(registry) /\ saved' = saved
        /\ \A e \in registry : e.form = "new"
    BY <1>3, <1>6 DEF Add
  <2>3. QED
    BY <1>3, <2>1, <2>2, AddedSound
<1>7. CASE RemoveStale
  <2>1. /\ registry' = {e \in registry : e.form # "new"} /\ saved' = saved
        /\ running' = running
    BY <1>7 DEF RemoveStale
  <2>2. IsFiniteSet(registry')
    BY <1>3, <2>1, FS_Subset DEF Sound
  <2>3. QED
    BY <1>3, <2>1, <2>2 DEF Sound
<1>8. CASE Crash
  BY <1>3, <1>8 DEF Crash
<1>9. CASE SaveRegistry
  BY <1>3, <1>9 DEF SaveRegistry
<1>10. CASE InterfacesRead \/ Change \/ ChangeOptions \/ SaveEntry \/ UNCHANGED vars
  BY <1>3, <1>10 DEF InterfacesRead, Change, ChangeOptions, SaveEntry, vars
<1>11. QED
  BY <1>4, <1>5, <1>6, <1>7, <1>8, <1>9, <1>10 DEF Next

\* The inductive invariant holds, for any families followed.
THEOREM InvCorrect == Spec => []Inv
<1>1. QED
  BY InvInit, InvStep, PTL DEF Spec

\* The variables keep their types, and no entity of an object is there twice with the id
\* of now.
THEOREM TypeCorrect == Spec => []TypeOK
<1> DEFINE Flags == /\ present \in BOOLEAN /\ options \in OptionSets
                    /\ version \in {1, 2} /\ savedVersion \in {1, 2}
                    /\ running \in BOOLEAN /\ ready \in BOOLEAN /\ known \in BOOLEAN
<1>1. Init => Flags
  BY DEF Init
<1>2. ASSUME Flags, [Next]_vars PROVE Flags'
  <2>1. options' \in OptionSets /\ family' = family
    BY <1>2, Zenon DEF Next, SetupFails, Setup, Add, RemoveStale, InterfacesRead, Change,
          ChangeOptions, SaveEntry, SaveRegistry, Crash, vars
  <2>2. /\ present' \in BOOLEAN /\ running' \in BOOLEAN
        /\ ready' \in BOOLEAN /\ known' \in BOOLEAN
    BY <1>2 DEF Next, SetupFails, Setup, Add, RemoveStale, InterfacesRead, Change,
          ChangeOptions, SaveEntry, SaveRegistry, Crash, vars
  <2>3. version' \in {1, 2} /\ savedVersion' \in {1, 2}
    BY <1>2 DEF Next, SetupFails, Setup, Add, RemoveStale, InterfacesRead, Change,
          ChangeOptions, SaveEntry, SaveRegistry, Crash, vars
  <2>4. QED
    BY <2>1, <2>2, <2>3 DEF OptionSets
<1>3. ASSUME Inv, Flags PROVE TypeOK
  <2> DEFINE N == {e \in registry : e.form = "new"}
  <2>1. IsFiniteSet(N) /\ \A e, x \in N : e = x
    BY <1>3, FS_Subset DEF Inv, Sound, Live
  <2>2. N = {} \/ \E e : N = {e}
    BY <2>1
  <2> HIDE DEF N
  <2>3. Cardinality(N) \in {0, 1}
    BY <2>2, FS_EmptySet, FS_Singleton
  <2>4. Cardinality(N) <= 1
    BY <2>3
  <2>5. QED
    BY <1>3, <2>4 DEF TypeOK, Inv, Sound, N
<1>4. QED
  BY <1>1, <1>2, <1>3, InvCorrect, PTL DEF Spec

------------------------------------------------------------------------------
\* What runs check.

\* However often Home Assistant stopped between the saves of the entry and of the registry,
\* the migration at setup (__init__.py:234-266) leaves a running entry one entity of an
\* object, with the unique id of now.
THEOREM OneIdentityCorrect == Spec => []OneIdentity
<1>1. Inv => OneIdentity
  BY DEF Inv, OneIdentity, Sound, Live
<1>2. QED
  BY <1>1, InvCorrect, PTL

\* A traffic entity of an interface that the XML API lists is created enabled, whichever of
\* SNMP and XML answers first (sensor.py:354-368, 475-482).
THEOREM CreatedRightCorrect == Spec => []CreatedRight
<1>1. Inv => CreatedRight
  BY DEF Inv, CreatedRight, Sound
<1>2. QED
  BY <1>1, InvCorrect, PTL

------------------------------------------------------------------------------
\* Entities that stay.

\* The one way in which a platform removes entities that the user wants: the switches of
\* IPsec connections at a setup without a usable SNMP client (switch.py:70).
IpsecWithoutSnmp == Setup /\ family = "switch_ipsec_" /\ ~ready'

\* Any other setup keeps what the user wants.
LEMMA SetupKeeps ==
  ASSUME Inv, Setup, Wanted, ~IpsecWithoutSnmp
  PROVE  \E R \in Migrated(registry) : R \subseteq registry'
<1>1. ~SwitchedOff(ready')
  BY Zenon DEF SwitchedOff, Wanted, Fed, IpsecWithoutSnmp
<1>2. PICK R \in Migrated(registry) :
         registry' = IF SwitchedOff(ready') THEN {}
                     ELSE IF family \in Static /\ Fed(ready') THEN Added(R) ELSE R
  BY Zenon DEF Setup
<1>3. R \subseteq Added(R)
  BY DEF Added
<1>4. QED
  BY <1>1, <1>2, <1>3

\* A step that is neither that nor a crash, while the user wants the object and the firewall
\* has it, keeps the registry, adds to it or migrates it.
LEMMA StepKeeps ==
  ASSUME Inv, [Next]_vars, ~Crash, ~IpsecWithoutSnmp, Wanted, present
  PROVE  \/ registry \subseteq registry'
         \/ \E R \in Migrated(registry) : R \subseteq registry'
<1>1. CASE SetupFails
  BY <1>1 DEF SetupFails
<1>2. CASE Setup
  BY <1>2, SetupKeeps
<1>3. CASE Add
  BY <1>3 DEF Add, Added
<1>4. CASE RemoveStale
  BY <1>4 DEF RemoveStale
<1>5. CASE \/ InterfacesRead \/ Change \/ ChangeOptions \/ SaveEntry \/ SaveRegistry
           \/ UNCHANGED vars
  BY <1>5 DEF InterfacesRead, Change, ChangeOptions, SaveEntry, SaveRegistry, vars
<1>6. QED
  BY <1>1, <1>2, <1>3, <1>4, <1>5 DEF Next

\* What such a step does to the entities of the object.
LEMMA EntitiesKept ==
  ASSUME Inv, [Next]_vars, ~Crash, ~IpsecWithoutSnmp, Wanted, present
  PROVE  /\ \A e \in registry : e.form = "current" \/ e.form = "new" =>
               \E x \in registry' : x.origin = e.origin
         /\ (\E e \in registry : e.form # "other") => registry' # {}
<1>1. CASE registry \subseteq registry'
  BY <1>1
<1>2. CASE \E R \in Migrated(registry) : R \subseteq registry'
  <2>1. PICK R \in Migrated(registry) : R \subseteq registry'
    BY <1>2
  <2>2. Sound(registry)
    BY DEF Inv
  <2>3. /\ \A e \in registry : Live(e) => \E x \in R : x.origin = e.origin
        /\ (\E e \in registry : e.form # "other") => R # {}
    BY <2>2, MigratedSound
  <2>4. QED
    BY <2>1, <2>3 DEF Live
<1>3. QED
  BY <1>1, <1>2, StepKeeps

\* No other step than a crash or a setup of IPsec switches without SNMP loses an entity of the
\* current address, or all that an object has, while its source is on and the object there.
LossExplained ==
    [][ ~Crash /\ ~IpsecWithoutSnmp /\ Wanted /\ present =>
          /\ \A e \in registry : e.form = "current" \/ e.form = "new" =>
                \E x \in registry' : x.origin = e.origin
          /\ (\E e \in registry : e.form # "other") => registry' # {} ]_vars

\* The switches of IPsec connections are the only exception from what the next two theorems
\* say: sensors stay when SNMP cannot be used (sensor.py:435), these go (switch.py:70).
THEOREM LossExplainedCorrect == Spec => LossExplained
<1>1. Inv /\ [Next]_vars =>
         [ ~Crash /\ ~IpsecWithoutSnmp /\ Wanted /\ present =>
             /\ \A e \in registry : e.form = "current" \/ e.form = "new" =>
                   \E x \in registry' : x.origin = e.origin
             /\ (\E e \in registry : e.form # "other") => registry' # {} ]_vars
  BY EntitiesKept
<1>2. QED
  BY <1>1, InvCorrect, PTL DEF Spec, LossExplained

\* An entity of the current address is lost only when its source is switched off or its
\* object is gone: an SNMP client that cannot be used is no reason (sensor.py:435), nor are
\* leftovers of earlier addresses (__init__.py:258-266).
THEOREM OnlyTheUserCorrect ==
  ASSUME "switch_ipsec_" \notin Followed
  PROVE  Spec => OnlyTheUser
<1>1. Inv => ~IpsecWithoutSnmp
  BY DEF Inv, IpsecWithoutSnmp
<1>2. Inv /\ [Next]_vars =>
         [ ~Crash /\ Wanted /\ present =>
             \A e \in registry : e.form = "current" \/ e.form = "new" =>
                 \E x \in registry' : x.origin = e.origin ]_vars
  BY <1>1, EntitiesKept
<1>3. QED
  BY <1>2, InvCorrect, PTL DEF Spec, OnlyTheUser

\* An orphan of an earlier address is restored unless the object has an entity: what had an
\* entity of a known format keeps one (__init__.py:258-266).
THEOREM OrphanRestoredCorrect ==
  ASSUME "switch_ipsec_" \notin Followed
  PROVE  Spec => OrphanRestored
<1>1. Inv => ~IpsecWithoutSnmp
  BY DEF Inv, IpsecWithoutSnmp
<1>2. Inv /\ [Next]_vars =>
         [ ~Crash /\ Wanted /\ present /\ (\E e \in registry : e.form # "other")
             => registry' # {} ]_vars
  BY <1>1, EntitiesKept
<1>3. QED
  BY <1>2, InvCorrect, PTL DEF Spec, OrphanRestored
=============================================================================
