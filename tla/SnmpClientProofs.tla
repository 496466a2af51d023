-------------------------- MODULE SnmpClientProofs --------------------------
(***************************************************************************)
(* Proofs about the operations of the SNMP client, for any operations,     *)
(* columns, tables, bulk sizes, number of attempts and of places in flight.*)
(* That an operation ends (OperationsEnd) is left to the model checker.    *)
(***************************************************************************)
EXTENDS SnmpClient, FiniteSetTheorems, WellFoundedInduction, TLAPS

\* The part of the types that the proofs need.
Typed ==
    /\ status \in [Operations -> {"idle", "running", "unwinding"}]
    /\ walk \in [Walks -> {"off", "queued", "sent", "done"}]
    /\ column = [w \in Walks |-> column[w]]
    /\ attempt = [w \in Walks |-> attempt[w]]
    /\ IsFiniteSet(inFlight)

\* A walk that is off holds nothing, and all walks of an idle operation are off.
OffIsClean ==
    /\ \A w \in Walks : walk[w] = "off" => column[w] = Nothing
    /\ \A w \in Walks : status[w[1]] = "idle" => walk[w] = "off"

Inv == Typed /\ OffIsClean /\ SocketsInFlight

LEMMA WalkParts ==
  /\ \A w \in Walks : w[1] \in Operations /\ w \in WalksOf(w[1])
  /\ \A o \in Operations : \A w \in WalksOf(o) : w \in Walks /\ w[1] = o
  BY DEF Walks, WalksOf

------------------------------------------------------------------------------
\* The sockets and the places in flight.

\* Closing the socket of a walk leaves those of the others.
LEMMA SocketsClosed ==
  ASSUME NEW F, NEW f, NEW g, NEW w,
         \A v \in F \ {w} : g[v] = f[v]
  PROVE  {s \in {<<v, f[v]>> : v \in F} : s[1] # w} = {<<v, g[v]>> : v \in F \ {w}}
  OBVIOUS

\* A request that is over has given back its socket and its place.
LEMMA PlaceFreed ==
  ASSUME Inv, NEW w \in Walks, NEW why, Closed(w, why),
         walk'[w] # "sent", \A v \in Walks \ {w} : walk'[v] = walk[v] /\ attempt'[v] = attempt[v]
  PROVE  SocketsInFlight' /\ IsFiniteSet(inFlight')
<1>1. inFlight' = inFlight \ {w} /\ sockets' = {s \in sockets : s[1] # w}
  BY DEF Closed
<1>2. inFlight \subseteq Walks
  BY DEF Inv, SocketsInFlight
<1>3. inFlight' = {v \in Walks : walk'[v] = "sent"}
  BY <1>1 DEF Inv, SocketsInFlight
<1>4. sockets' = {<<v, attempt'[v]>> : v \in inFlight'}
  <2>1. \A v \in inFlight \ {w} : attempt'[v] = attempt[v]
    BY <1>2
  <2>2. {s \in {<<v, attempt[v]>> : v \in inFlight} : s[1] # w}
           = {<<v, attempt'[v]>> : v \in inFlight \ {w}}
    BY <2>1, SocketsClosed
  <2>3. QED
    BY <1>1, <2>2 DEF Inv, SocketsInFlight
<1>5. IsFiniteSet(inFlight') /\ Cardinality(inFlight') <= Cardinality(inFlight)
  BY <1>1, FS_Subset DEF Inv, Typed
<1>6. Cardinality(inFlight') <= MaxConcurrent
  BY <1>5, FS_CardinalityType, SnmpAssumption DEF Inv, Typed, SocketsInFlight, SnmpAssumption
<1>7. QED
  BY <1>3, <1>4, <1>5, <1>6 DEF SocketsInFlight

\* A step that neither sends nor ends a request.
LEMMA PlacesKept ==
  ASSUME Inv, UNCHANGED <<inFlight, sockets, attempt>>,
         \A w \in Walks : walk'[w] = "sent" <=> walk[w] = "sent"
  PROVE  SocketsInFlight' /\ IsFiniteSet(inFlight')
  BY DEF Inv, Typed, SocketsInFlight

------------------------------------------------------------------------------

LEMMA StartKeeps ==
  ASSUME Inv, NEW o \in Operations, Start(o)
  PROVE  Inv'
<1>1. \A w \in Walks : /\ w[1] = o => walk[w] = "off" /\ walk'[w] = "queued"
                       /\ w[1] # o => walk'[w] = walk[w]
  BY WalkParts DEF Start, Inv, Typed, OffIsClean
<1>2. \A w \in Walks : walk'[w] = "sent" <=> walk[w] = "sent"
  BY <1>1
<1>3. SocketsInFlight' /\ IsFiniteSet(inFlight')
  BY <1>2, PlacesKept DEF Start
<1>4. Typed'
  BY <1>3 DEF Start, Inv, Typed
<1>5. OffIsClean'
  BY <1>1, WalkParts DEF Start, Inv, Typed, OffIsClean
<1>6. QED
  BY <1>3, <1>4, <1>5 DEF Inv

LEMMA SendKeeps ==
  ASSUME Inv, NEW w \in Walks, Send(w)
  PROVE  Inv'
<1>1. /\ inFlight' = inFlight \cup {w} /\ sockets' = sockets \cup {<<w, 1>>}
      /\ walk' = [walk EXCEPT ![w] = "sent"] /\ attempt' = [attempt EXCEPT ![w] = 1]
      /\ UNCHANGED <<status, column>>
      /\ walk[w] = "queued" /\ status[w[1]] = "running"
  BY DEF Send
<1>2. \A v \in Walks \ {w} : walk'[v] = walk[v] /\ attempt'[v] = attempt[v]
  BY <1>1 DEF Inv, Typed
<1>3. walk'[w] = "sent" /\ attempt'[w] = 1
  BY <1>1 DEF Inv, Typed
<1>4. inFlight' = {v \in Walks : walk'[v] = "sent"} /\ w \notin inFlight
  BY <1>1, <1>2, <1>3 DEF Inv, SocketsInFlight
<1>5. sockets' = {<<v, attempt'[v]>> : v \in inFlight'}
  <2>1. \A v \in inFlight : attempt'[v] = attempt[v]
    BY <1>2, <1>4 DEF Inv, SocketsInFlight
  <2>2. sockets = {<<v, attempt'[v]>> : v \in inFlight}
    BY <2>1 DEF Inv, SocketsInFlight
  <2>3. QED
    BY <1>1, <1>3, <2>2
<1>6. IsFiniteSet(inFlight') /\ Cardinality(inFlight') = Cardinality(inFlight) + 1
  BY <1>1, <1>4, FS_AddElement DEF Inv, Typed
<1>7. Cardinality(inFlight') <= MaxConcurrent
  BY <1>6, FS_CardinalityType, SnmpAssumption DEF Send, Inv, Typed, SnmpAssumption
<1>8. Typed'
  BY <1>1, <1>6 DEF Inv, Typed
<1>9. OffIsClean'
  BY <1>1, <1>2, <1>3 DEF Inv, OffIsClean
<1>10. QED
  BY <1>4, <1>5, <1>7, <1>8, <1>9 DEF Inv, SocketsInFlight

LEMMA AnsweredKeeps ==
  ASSUME Inv, NEW w \in Walks, Answered(w)
  PROVE  Inv'
<1>1. /\ Closed(w, "answer") /\ UNCHANGED status /\ walk[w] = "sent"
      /\ attempt' = [attempt EXCEPT ![w] = 0]
      /\ \E next \in {"done", "queued"} : walk' = [walk EXCEPT ![w] = next]
  BY DEF Answered
<1>2. /\ walk'[w] \in {"done", "queued"}
      /\ \A v \in Walks \ {w} : walk'[v] = walk[v] /\ attempt'[v] = attempt[v]
      /\ walk' \in [Walks -> {"off", "queued", "sent", "done"}]
      /\ attempt' = [v \in Walks |-> attempt'[v]]
  BY <1>1 DEF Inv, Typed
<1>3. SocketsInFlight' /\ IsFiniteSet(inFlight')
  BY <1>1, <1>2, PlaceFreed
<1>4. /\ column' = [v \in Walks |-> column'[v]]
      /\ \A v \in Walks \ {w} : column'[v] = column[v]
  BY DEF Answered, Inv, Typed
<1>5. Typed'
  BY <1>1, <1>2, <1>3, <1>4 DEF Inv, Typed
<1>6. OffIsClean'
  BY <1>1, <1>2, <1>4 DEF Inv, OffIsClean
<1>7. QED
  BY <1>3, <1>5, <1>6 DEF Inv

LEMMA RetryKeeps ==
  ASSUME Inv, NEW w \in Walks, Retry(w)
  PROVE  Inv'
<1> DEFINE next == attempt[w] + 1
<1>1. /\ walk[w] = "sent" /\ UNCHANGED <<walk, status, column, inFlight>>
      /\ attempt' = [attempt EXCEPT ![w] = next]
      /\ sockets' = {s \in sockets : s[1] # w} \cup {<<w, next>>}
  BY DEF Retry
<1>2. w \in inFlight /\ inFlight \subseteq Walks /\ attempt'[w] = next
  BY <1>1 DEF Inv, Typed, SocketsInFlight
<1>3. \A v \in inFlight \ {w} : attempt'[v] = attempt[v]
  BY <1>1, <1>2 DEF Inv, Typed
<1>4. {s \in sockets : s[1] # w} = {<<v, attempt'[v]>> : v \in inFlight \ {w}}
  <2>1. sockets = {<<v, attempt[v]>> : v \in inFlight}
    BY DEF Inv, SocketsInFlight
  <2>2. QED
    BY <1>3, <2>1, SocketsClosed
<1>5. sockets' = {<<v, attempt'[v]>> : v \in inFlight'}
  <2>1. inFlight' = (inFlight \ {w}) \cup {w}
    BY <1>1, <1>2
  <2>2. QED
    BY <1>1, <1>2, <1>4, <2>1
<1>6. SocketsInFlight'
  BY <1>1, <1>5 DEF Inv, SocketsInFlight
<1>7. QED
  BY <1>1, <1>6 DEF Inv, Typed, OffIsClean

\* What a walk leaves behind when it stops, whatever stopped it.
LEMMA StoppedKeeps ==
  ASSUME Inv, NEW w \in Walks, NEW why, Stopped(w, why),
         status' \in [Operations -> {"idle", "running", "unwinding"}],
         \A o \in Operations : status'[o] = "idle" => status[o] = "idle"
  PROVE  Inv'
<1>1. /\ walk' = [walk EXCEPT ![w] = "off"] /\ column' = [column EXCEPT ![w] = Nothing]
      /\ attempt' = [attempt EXCEPT ![w] = 0] /\ Closed(w, why)
  BY DEF Stopped
<1>2. /\ walk'[w] = "off" /\ column'[w] = Nothing
      /\ \A v \in Walks \ {w} : /\ walk'[v] = walk[v] /\ column'[v] = column[v]
                                /\ attempt'[v] = attempt[v]
      /\ walk' \in [Walks -> {"off", "queued", "sent", "done"}]
      /\ column' = [v \in Walks |-> column'[v]] /\ attempt' = [v \in Walks |-> attempt'[v]]
  BY <1>1 DEF Inv, Typed
<1>3. SocketsInFlight' /\ IsFiniteSet(inFlight')
  BY <1>1, <1>2, PlaceFreed
<1>4. OffIsClean'
  BY <1>2, WalkParts DEF Inv, OffIsClean
<1>5. QED
  BY <1>2, <1>3, <1>4 DEF Inv, Typed

LEMMA FinishKeeps ==
  ASSUME Inv, NEW o \in Operations, Finish(o)
  PROVE  Inv'
<1>1. /\ walk' = [w \in Walks |-> IF w \in WalksOf(o) THEN "off" ELSE walk[w]]
      /\ column' = [w \in Walks |-> IF w \in WalksOf(o) THEN Nothing ELSE column[w]]
      /\ status' = [status EXCEPT ![o] = "idle"]
      /\ UNCHANGED <<attempt, inFlight, sockets>>
      /\ \A w \in WalksOf(o) : walk[w] = "done"
  BY DEF Finish, Complete
<1>2. \A w \in Walks :
         /\ w[1] = o => walk[w] = "done" /\ walk'[w] = "off" /\ column'[w] = Nothing
         /\ w[1] # o => walk'[w] = walk[w] /\ column'[w] = column[w]
                        /\ status'[w[1]] = status[w[1]]
  BY <1>1, WalkParts DEF Inv, Typed
<1>3. SocketsInFlight' /\ IsFiniteSet(inFlight')
  <2>1. \A w \in Walks : walk'[w] = "sent" <=> walk[w] = "sent"
    BY <1>2
  <2>2. QED
    BY <1>1, <2>1, PlacesKept
<1>4. Typed'
  BY <1>1, <1>3 DEF Inv, Typed
<1>5. OffIsClean'
  BY <1>2 DEF Inv, OffIsClean
<1>6. QED
  BY <1>3, <1>4, <1>5 DEF Inv

\* Steps that change nothing but the state of an operation.
LEMMA StatusKeeps ==
  ASSUME Inv, UNCHANGED <<walk, column, attempt, inFlight, sockets>>,
         status' \in [Operations -> {"idle", "running", "unwinding"}],
         \A o \in Operations : status'[o] = "idle" => status[o] = "idle" \/ Unwound(o)
  PROVE  Inv'
  BY WalkParts DEF Inv, Typed, OffIsClean, SocketsInFlight, Unwound

LEMMA InvStep == Inv /\ [Next]_vars => Inv'
<1> SUFFICES ASSUME Inv, [Next]_vars PROVE Inv'
  OBVIOUS
<1> USE WalkParts
<1>1. ASSUME NEW o \in Operations, Expires(o) PROVE Inv'
  BY <1>1, StatusKeeps DEF Expires, Inv, Typed
<1>2. ASSUME NEW o \in Operations, Raise(o) PROVE Inv'
  BY <1>2, StatusKeeps DEF Raise, Inv, Typed
<1>3. CASE TableChanges \/ UNCHANGED vars
  BY <1>3, StatusKeeps DEF TableChanges, vars, Inv, Typed
<1>4. ASSUME NEW w \in Walks, Fails(w) PROVE Inv'
  BY <1>4, StoppedKeeps DEF Fails, Inv, Typed
<1>5. ASSUME NEW w \in Walks, Unwind(w) PROVE Inv'
  BY <1>5, StoppedKeeps DEF Unwind, Inv, Typed
<1>6. QED
  BY <1>1, <1>2, <1>3, <1>4, <1>5, StartKeeps, FinishKeeps, SendKeeps, AnsweredKeeps, RetryKeeps
  DEF Next

LEMMA InvInit == Init => Inv
<1> SUFFICES ASSUME Init PROVE Inv
  OBVIOUS
<1>1. IsFiniteSet(inFlight) /\ Cardinality(inFlight) = 0
  BY FS_EmptySet DEF Init
<1>2. QED
  BY <1>1, WalkParts, SnmpAssumption
  DEF Init, Inv, Typed, OffIsClean, SocketsInFlight, SnmpAssumption

LEMMA InvCorrect == Spec => []Inv
  BY InvInit, InvStep, PTL DEF Spec

\* Only requests in flight have a socket, each that of its current attempt, and no more of
\* them than there are places (snmp_client.py:281).
THEOREM SocketsInFlightCorrect == Spec => []SocketsInFlight
<1>1. Inv => SocketsInFlight
  BY DEF Inv
<1>2. QED
  BY <1>1, InvCorrect, PTL

\* An operation that has ended leaves no walk, socket, place or row behind, whether it
\* returned, failed, ran out of its budget or was cancelled (snmp_client.py:308).
THEOREM NothingLeaksCorrect == Spec => []NothingLeaks
<1>1. Inv => NothingLeaks
  <2>1. SUFFICES ASSUME Inv, NEW o \in Operations, status[o] = "idle", NEW w \in WalksOf(o)
                 PROVE  /\ walk[w] = "off" /\ w \notin inFlight
                        /\ column[w] = Nothing
                        /\ \A s \in sockets : s[1] # w
    BY DEF NothingLeaks
  <2>2. w \in Walks /\ walk[w] = "off" /\ column[w] = Nothing
    BY <2>1, WalkParts DEF Inv, OffIsClean
  <2>3. w \notin inFlight
    BY <2>1, <2>2 DEF Inv, SocketsInFlight
  <2>4. \A s \in sockets : s[1] \in inFlight
    BY <2>1 DEF Inv, SocketsInFlight
  <2>5. QED
    BY <2>2, <2>3, <2>4
<1>2. QED
  BY <1>1, InvCorrect, PTL

------------------------------------------------------------------------------
\* What an answer brings.

\* Sets of numbers have a least one.
LEMMA LeastNumber ==
  ASSUME NEW T \in SUBSET Nat, T # {}
  PROVE  \E m \in T : \A k \in T : m <= k
<1> DEFINE R == OpToRel(<, Nat)
<1>1. IsWellFoundedOn(R, Nat)
  BY NatLessThanWellFounded, Zenon
<1>2. \A k, m \in Nat : k < m => <<k, m>> \in R
  BY DEF OpToRel
<1> HIDE DEF R
<1>3. \E m \in T : \A k \in T : ~ (<<k, m>> \in R)
  BY <1>1, WFMin
<1>4. PICK m \in T : \A k \in T : ~ (k < m)
  BY <1>2, <1>3
<1>5. \A k \in T : m <= k
  BY <1>4
<1>6. QED
  BY <1>5

LEMMA GreatestNumber ==
  ASSUME NEW S \in SUBSET Nat, IsFiniteSet(S), S # {}
  PROVE  \E m \in S : \A k \in S : k <= m
<1> DEFINE Above(i) == {k \in S : k > i}
           T == {Cardinality(Above(i)) : i \in S}
<1>1. \A i \in S : IsFiniteSet(Above(i)) /\ Cardinality(Above(i)) \in Nat
  <2>1. \A i \in S : Above(i) \subseteq S
    OBVIOUS
  <2> HIDE DEF Above
  <2>2. QED
    BY <2>1, FS_Subset, FS_CardinalityType
<1>2. PICK m \in S : \A i \in S : Cardinality(Above(m)) <= Cardinality(Above(i))
  <2> HIDE DEF Above
  <2>1. T \in SUBSET Nat /\ T # {}
    BY <1>1
  <2>2. PICK t \in T : \A u \in T : t <= u
    BY <2>1, LeastNumber
  <2>3. QED
    BY <2>2
<1>3. ASSUME NEW k \in S, k > m PROVE FALSE
  <2>1. Above(k) \subseteq Above(m) /\ k \in Above(m) /\ k \notin Above(k)
    <3>1. k \in Int /\ m \in Int /\ \A j \in S : j \in Int
      OBVIOUS
    <3>2. \A j \in S : j > k => j > m
      BY <1>3, <3>1
    <3>3. ~(k > k)
      BY <3>1
    <3>4. QED
      BY <1>3, <3>2, <3>3
  <2>2. Above(k) # Above(m)
    BY <2>1
  <2> HIDE DEF Above
  <2>3. Cardinality(Above(k)) < Cardinality(Above(m))
    BY <1>1, <2>1, <2>2, FS_Subset
  <2>4. QED
    BY <1>1, <1>2, <2>3
<1>4. QED
  BY <1>3

\* The rows of one answer.
FirstOf(left) == {i \in left : Cardinality({j \in left : j <= i}) <= Bulk}

\* They are the first of those that are left, and all of them unless there are Bulk of them.
LEMMA FirstRows ==
  ASSUME NEW left \in SUBSET Indexes, NEW read, read = FirstOf(left)
  PROVE  /\ \A i \in read : \A j \in left : j <= i => j \in read
         /\ Cardinality(read) < Bulk => read = left
         /\ Cardinality(read) = Bulk => \E i \in read : \A j \in read : j <= i
<1> DEFINE UpTo(i) == {j \in left : j <= i}
<1>1. /\ Indexes \subseteq Nat /\ IsFiniteSet(Indexes) /\ Bulk \in Nat \ {0}
      /\ left \subseteq Nat /\ \A i \in left : i \in Int
  BY SnmpAssumption DEF SnmpAssumption
<1>2. \A S \in SUBSET left : IsFiniteSet(S) /\ Cardinality(S) \in Nat
  BY <1>1, FS_Subset, FS_CardinalityType
<1>3. \A i, j \in left : j <= i => Cardinality(UpTo(j)) <= Cardinality(UpTo(i))
  <2> SUFFICES ASSUME NEW i \in left, NEW j \in left, j <= i
               PROVE  Cardinality(UpTo(j)) <= Cardinality(UpTo(i))
    OBVIOUS
  <2>1. UpTo(j) \subseteq UpTo(i)
    <3> SUFFICES ASSUME NEW k \in left, k <= j PROVE k <= i
      OBVIOUS
    <3>1. k \in Int /\ i \in Int /\ j \in Int
      BY <1>1
    <3>2. QED
      BY <3>1
  <2>2. IsFiniteSet(UpTo(i))
    BY <1>2
  <2> HIDE DEF UpTo
  <2>3. QED
    BY <2>1, <2>2, FS_Subset
<1>4. \A i \in left : Cardinality(UpTo(i)) \in Nat
  BY <1>2
<1>5. read = {i \in left : Cardinality(UpTo(i)) <= Bulk}
  BY DEF FirstOf
<1> HIDE DEF UpTo
<1>6. ASSUME NEW i \in read, NEW j \in left, j <= i PROVE j \in read
  BY <1>1, <1>3, <1>4, <1>5, <1>6
<1>7. ASSUME Cardinality(read) < Bulk PROVE read = left
  <2> SUFFICES ASSUME left \ read # {} PROVE FALSE
    BY <1>5
  <2>1. PICK i \in left \ read : \A k \in left \ read : i <= k
    BY <1>1, LeastNumber
  <2>2. \A j \in left : j \in read <=> j < i
    BY <1>1, <1>6, <2>1
  <2>3. UpTo(i) = read \cup {i} /\ i \notin read
    <3>1. \A j \in left : j <= i <=> j \in read \/ j = i
      BY <1>1, <2>2
    <3>2. read \subseteq left /\ i \in left /\ i \notin read
      BY <1>5
    <3>3. QED
      BY <3>1, <3>2 DEF UpTo
  <2>4. Cardinality(UpTo(i)) = Cardinality(read) + 1
    BY <1>2, <1>5, <2>3, FS_AddElement
  <2>5. Cardinality(UpTo(i)) > Bulk
    BY <1>1, <1>4, <1>5, <2>1
  <2>6. Cardinality(read) \in Nat
    BY <1>2, <1>5
  <2>7. QED
    BY <1>1, <1>7, <2>4, <2>5, <2>6
<1>8. ASSUME Cardinality(read) = Bulk PROVE \E i \in read : \A j \in read : j <= i
  <2>1. read # {}
    BY <1>1, <1>8, FS_EmptySet
  <2>2. QED
    BY <1>1, <1>2, <1>5, <2>1, GreatestNumber
<1>9. QED
  BY <1>6, <1>7, <1>8

------------------------------------------------------------------------------
\* What an operation returns.

\* The rows of the table up to an index.
RowsUpTo(last) == [i \in Indexes |-> IF i <= last THEN table[i] ELSE NoObject]

Intact(o) == status[o] = "running" /\ o \notin changed

\* While the table does not change, a walk has read it up to its position, and a walk that is
\* done has read all of it.
WalkInv ==
    /\ table \in [Indexes -> Objects \cup {NoObject}]
    /\ position \in [Walks -> Indexes \cup {Before}]
    /\ \A w \in Walks : walk[w] \in {"off", "done"} => position[w] = Before
    /\ \A w \in Walks : Intact(w[1]) =>
          /\ walk[w] \in {"queued", "sent"} => column[w] = RowsUpTo(position[w])
          /\ walk[w] = "done" => column[w] = table

\* An answer extends what has been read by the next rows.
LEMMA AnswerExtends ==
  ASSUME Inv, WalkInv, NEW w \in Walks, Answered(w), Intact(w[1])
  PROVE  /\ walk'[w] = "queued" => column'[w] = RowsUpTo(position'[w])
         /\ walk'[w] = "done" => column'[w] = table
<1> DEFINE left == {i \in Indexes : i > position[w] /\ table[i] # NoObject}
           read == FirstOf(left)
<1>1. /\ column' = [column EXCEPT ![w] = [i \in Indexes |-> IF i \in read THEN table[i] ELSE @[i]]]
      /\ \/ /\ Cardinality(read) < Bulk
            /\ walk' = [walk EXCEPT ![w] = "done"]
         \/ /\ Cardinality(read) = Bulk
            /\ walk' = [walk EXCEPT ![w] = "queued"]
            /\ position' = [position EXCEPT ![w] = CHOOSE i \in read : \A j \in read : j <= i]
      /\ walk[w] = "sent"
  BY DEF Answered, FirstOf
<1>2. left \in SUBSET Indexes
  OBVIOUS
<1>3. /\ \A i \in read : \A j \in left : j <= i => j \in read
      /\ Cardinality(read) < Bulk => read = left
      /\ Cardinality(read) = Bulk => \E i \in read : \A j \in read : j <= i
  <2> HIDE DEF left
  <2>1. QED
    BY <1>2, FirstRows
<1>4. column[w] = RowsUpTo(position[w])
  BY <1>1 DEF WalkInv
<1>5. read \subseteq left
  BY DEF FirstOf
<1>6. \A i \in Indexes : i \in left <=> i > position[w] /\ table[i] # NoObject
  OBVIOUS
<1> HIDE DEF read, left
<1>7. column'[w] = [i \in Indexes |-> IF i \in read \/ i <= position[w] THEN table[i] ELSE NoObject]
  <2>1. column'[w] = [i \in Indexes |-> IF i \in read THEN table[i] ELSE column[w][i]]
    BY <1>1 DEF Inv, Typed
  <2>2. QED
    BY <1>4, <2>1 DEF RowsUpTo
<1>8. \A i \in Indexes : i \in Int /\ position[w] \in Int
  <2>1. Indexes \subseteq Nat
    BY SnmpAssumption DEF SnmpAssumption
  <2>2. Before \in Int
    BY DEF Before
  <2>3. position[w] \in Indexes \cup {Before}
    BY DEF WalkInv
  <2>4. \A i \in Indexes \cup {Before} : i \in Int
    BY <2>1, <2>2
  <2>5. QED
    BY <2>3, <2>4
<1>9. CASE Cardinality(read) < Bulk
  <2>1. \A i \in Indexes : i \in read \/ i <= position[w] \/ table[i] = NoObject
    BY <1>3, <1>6, <1>8, <1>9
  <2>2. column'[w] = [i \in Indexes |-> table[i]]
    BY <1>7, <2>1
  <2>3. table = [i \in Indexes |-> table[i]]
    BY DEF WalkInv
  <2>4. column'[w] = table
    BY <2>2, <2>3
  <2>5. walk'[w] = "done" \/ Cardinality(read) = Bulk
    BY <1>1 DEF Inv, Typed
  <2>6. Cardinality(read) # Bulk
    BY <1>9, SnmpAssumption DEF SnmpAssumption
  <2>7. QED
    BY <2>4, <2>5, <2>6
<1>10. CASE Cardinality(read) = Bulk
  <2>1. ~(Cardinality(read) < Bulk)
    BY <1>10, SnmpAssumption DEF SnmpAssumption
  <2>2. /\ walk'[w] = "queued"
        /\ position'[w] = CHOOSE i \in read : \A j \in read : j <= i
    BY <1>1, <2>1 DEF Inv, Typed, WalkInv
  <2>3. position'[w] \in read /\ \A j \in read : j <= position'[w]
    BY <1>3, <1>10, <2>2
  <2>4. \A i \in Indexes : i <= position'[w] =>
             i \in read \/ i <= position[w] \/ table[i] = NoObject
    BY <1>3, <1>6, <1>8, <2>3
  <2>5. \A i \in Indexes : i \in read \/ i <= position[w] => i <= position'[w]
    <3>1. position'[w] > position[w] /\ position'[w] \in Int
      BY <1>5, <1>6, <1>8, <2>3 DEF left
    <3>2. QED
      BY <1>8, <2>3, <3>1
  <2>6. column'[w] = RowsUpTo(position'[w])
    BY <1>7, <2>4, <2>5 DEF RowsUpTo
  <2>7. QED
    BY <2>2, <2>6
<1>11. QED
  BY <1>1, <1>9, <1>10

LEMMA AnswerPosition ==
  ASSUME Inv, WalkInv, NEW w \in Walks, Answered(w)
  PROVE  position' \in [Walks -> Indexes \cup {Before}]
<1> DEFINE left == {i \in Indexes : i > position[w] /\ table[i] # NoObject}
           read == FirstOf(left)
           last == CHOOSE i \in read : \A j \in read : j <= i
<1>1. \/ position' = [position EXCEPT ![w] = Before]
      \/ Cardinality(read) = Bulk /\ position' = [position EXCEPT ![w] = last]
  BY DEF Answered, FirstOf
<1>2. Cardinality(read) = Bulk => \E i \in read : \A j \in read : j <= i
  <2>1. left \in SUBSET Indexes
    OBVIOUS
  <2> HIDE DEF left
  <2>2. QED
    BY <2>1, FirstRows
<1>3. read \subseteq Indexes
  BY DEF FirstOf
<1> HIDE DEF read
<1>4. Cardinality(read) = Bulk => last \in Indexes
  BY <1>2, <1>3
<1>5. QED
  BY <1>1, <1>4 DEF WalkInv

\* Steps that leave alone what a walk has read.
LEMMA WalkUntouched ==
  ASSUME Inv, WalkInv, NEW w \in Walks, UNCHANGED <<table, walk[w], position[w], column[w]>>,
         Intact(w[1])' => Intact(w[1])
  PROVE  /\ walk'[w] \in {"off", "done"} => position'[w] = Before
         /\ Intact(w[1])' =>
              /\ walk'[w] \in {"queued", "sent"} => column'[w] = RowsUpTo(position[w])'
              /\ walk'[w] = "done" => column'[w] = table'
  BY DEF WalkInv, RowsUpTo

LEMMA WalkStep == Inv /\ WalkInv /\ [Next]_vars => WalkInv'
<1> SUFFICES ASSUME Inv, WalkInv, [Next]_vars PROVE WalkInv'
  OBVIOUS
<1> DEFINE Good(w) == /\ walk'[w] \in {"off", "done"} => position'[w] = Before
                      /\ Intact(w[1])' =>
                           /\ walk'[w] \in {"queued", "sent"} =>
                                column'[w] = RowsUpTo(position[w])'
                           /\ walk'[w] = "done" => column'[w] = table'
<1>1. SUFFICES /\ table' \in [Indexes -> Objects \cup {NoObject}]
               /\ position' \in [Walks -> Indexes \cup {Before}]
               /\ \A w \in Walks : Good(w)
  BY DEF WalkInv
<1> USE WalkParts
<1>2. ASSUME NEW o \in Operations, Start(o) PROVE <1>1!1
  <2>1. UNCHANGED <<table, position, column>>
    BY <1>2 DEF Start
  <2>2. ASSUME NEW w \in Walks, w[1] = o PROVE Good(w)
    <3>1. walk[w] = "off" /\ walk'[w] = "queued" /\ position[w] = Before /\ column[w] = Nothing
      BY <1>2, <2>2 DEF Start, Inv, OffIsClean, WalkInv
    <3>2. RowsUpTo(position[w])' = Nothing
      BY <2>1, <3>1, SnmpAssumption DEF RowsUpTo, Nothing, Before, SnmpAssumption
    <3>3. QED
      BY <2>1, <3>1, <3>2
  <2>3. ASSUME NEW w \in Walks, w[1] # o PROVE Good(w)
    <3>1. walk'[w] = walk[w] /\ (Intact(w[1])' => Intact(w[1]))
      BY <1>2, <2>3 DEF Start, Intact, Inv, Typed
    <3>2. QED
      BY <2>1, <3>1, WalkUntouched
  <2>4. QED
    BY <2>1, <2>2, <2>3 DEF WalkInv
<1>3. ASSUME NEW o \in Operations, Expires(o) \/ Raise(o) PROVE <1>1!1
  <2>1. /\ UNCHANGED <<table, walk, position, column>>
        /\ \A v \in Operations : Intact(v)' => Intact(v)
    BY <1>3 DEF Expires, Raise, Intact, Inv, Typed
  <2>2. QED
    BY <2>1, WalkUntouched DEF WalkInv
<1>4. ASSUME NEW o \in Operations, Finish(o) PROVE <1>1!1
  <2>1. UNCHANGED <<table, position>>
    BY <1>4 DEF Finish
  <2>2. ASSUME NEW w \in Walks, w[1] = o PROVE Good(w)
    <3>1. walk'[w] = "off" /\ ~Intact(w[1])'
      BY <1>4, <2>2 DEF Finish, Intact, Inv, Typed
    <3>2. position[w] = Before
      BY <1>4, <2>2 DEF Finish, Complete, WalkInv
    <3>3. QED
      BY <2>1, <3>1, <3>2
  <2>3. ASSUME NEW w \in Walks, w[1] # o PROVE Good(w)
    <3>1. walk'[w] = walk[w] /\ column'[w] = column[w] /\ (Intact(w[1])' => Intact(w[1]))
      BY <1>4, <2>3 DEF Finish, Intact, Inv, Typed
    <3>2. QED
      BY <2>1, <3>1, WalkUntouched
  <2>4. QED
    BY <2>1, <2>2, <2>3 DEF WalkInv
<1>5. ASSUME NEW v \in Walks, Send(v) \/ Retry(v) PROVE <1>1!1
  <2>1. UNCHANGED <<table, position, column, status, changed>>
    BY <1>5 DEF Send, Retry
  <2>2. Good(v)
    <3>1. walk[v] \in {"queued", "sent"} /\ walk'[v] = "sent"
      BY <1>5 DEF Send, Retry, Inv, Typed
    <3>2. QED
      BY <2>1, <3>1 DEF WalkInv, Intact, RowsUpTo
  <2>3. ASSUME NEW w \in Walks \ {v} PROVE Good(w)
    <3>1. walk'[w] = walk[w]
      BY <1>5 DEF Send, Retry, Inv, Typed
    <3>2. QED
      BY <2>1, <3>1, WalkUntouched DEF Intact
  <2>4. QED
    BY <2>1, <2>2, <2>3 DEF WalkInv
<1>6. ASSUME NEW v \in Walks, Answered(v) PROVE <1>1!1
  <2>1. UNCHANGED <<table, status, changed>> /\ walk'[v] \in {"queued", "done"}
    BY <1>6 DEF Answered, Inv, Typed
  <2>2. position' \in [Walks -> Indexes \cup {Before}]
    BY <1>6, AnswerPosition
  <2>3. Good(v)
    <3>1. Intact(v[1])' = Intact(v[1]) /\ RowsUpTo(position[v])' = RowsUpTo(position'[v])
      BY <2>1 DEF Intact, RowsUpTo
    <3>2. walk'[v] = "done" => position'[v] = Before
      BY <1>6 DEF Answered, Inv, Typed, WalkInv
    <3>3. QED
      BY <1>6, <2>1, <3>1, <3>2, AnswerExtends
  <2>4. ASSUME NEW w \in Walks \ {v} PROVE Good(w)
    <3>1. walk'[w] = walk[w] /\ column'[w] = column[w]
      BY <1>6 DEF Answered, Inv, Typed
    <3>2. position'[w] = position[w]
      <4>1. \E last : position' = [position EXCEPT ![v] = last]
        BY <1>6 DEF Answered
      <4>2. QED
        BY <4>1 DEF WalkInv
    <3>3. QED
      BY <2>1, <3>1, <3>2, WalkUntouched DEF Intact
  <2>5. QED
    BY <2>1, <2>2, <2>3, <2>4 DEF WalkInv
<1>7. ASSUME NEW v \in Walks, Fails(v) \/ Unwind(v) PROVE <1>1!1
  <2>1. /\ UNCHANGED <<table, changed>>
        /\ walk' = [walk EXCEPT ![v] = "off"] /\ position' = [position EXCEPT ![v] = Before]
        /\ column' = [column EXCEPT ![v] = Nothing]
        /\ \A o \in Operations : Intact(o)' => Intact(o)
    BY <1>7 DEF Fails, Unwind, Stopped, Intact, Inv, Typed
  <2>2. Good(v)
    BY <2>1 DEF Inv, Typed, WalkInv
  <2>3. ASSUME NEW w \in Walks \ {v} PROVE Good(w)
    <3>1. walk'[w] = walk[w] /\ column'[w] = column[w] /\ position'[w] = position[w]
      BY <2>1 DEF Inv, Typed, WalkInv
    <3>2. QED
      BY <2>1, <3>1, WalkUntouched
  <2>4. QED
    BY <2>1, <2>2, <2>3 DEF WalkInv
<1>8. CASE TableChanges
  <2>1. /\ UNCHANGED <<status, walk, position, column>>
        /\ table' \in [Indexes -> Objects \cup {NoObject}]
        /\ \A o \in Operations : ~Intact(o)'
    BY <1>8, SnmpAssumption DEF TableChanges, Intact, SnmpAssumption
  <2>2. QED
    BY <2>1 DEF WalkInv
<1>9. CASE UNCHANGED vars
  <2>1. UNCHANGED <<table, walk, position, column, status, changed>>
    BY <1>9 DEF vars
  <2>2. QED
    BY <2>1, WalkUntouched DEF WalkInv, Intact
<1>10. QED
  BY <1>2, <1>3, <1>4, <1>5, <1>6, <1>7, <1>8, <1>9 DEF Next

LEMMA WalkInit == Init => WalkInv
  BY SnmpAssumption, WalkParts DEF Init, WalkInv, Intact, SnmpAssumption

\* From complete columns the operation makes the table by name.
LEMMA KeyedTable ==
  ASSUME table \in [Indexes -> Objects \cup {NoObject}]
  PROVE  Keyed(table, table) = Expected
<1> DEFINE named == {i \in Indexes : table[i] # NoObject /\ NameOf[table[i]] # Unnamed}
           rows == [name \in {NameOf[table[i]] : i \in named} |->
                       {i \in named : NameOf[table[i]] = name}]
           of(name) == {i \in Indexes : table[i] # NoObject /\ NameOf[table[i]] = name}
           names == {name \in {NameOf[x] : x \in Objects} \ {Unnamed} : of(name) # {}}
<1>1. DOMAIN rows = names
  OBVIOUS
<1>2. \A name \in names : rows[name] = of(name)
  OBVIOUS
<1>3. Keyed(table, table) = [name \in DOMAIN rows |-> table[FirstRow(rows, name)]]
  BY DEF Keyed
<1>4. Expected = [name \in names |->
                    table[CHOOSE i \in of(name) : \A j \in of(name) : i <= j]]
  BY DEF Expected
<1> HIDE DEF rows, names, of
<1>5. \A name \in names :
         FirstRow(rows, name) = CHOOSE i \in of(name) : \A j \in of(name) : i <= j
  BY <1>2 DEF FirstRow
<1>6. QED
  BY <1>1, <1>3, <1>4, <1>5

\* What an operation returns is the whole table, with the first row of each name, unless the
\* table changed while it was read: for any bulk size, any order in which the columns are read
\* and any retries in between (snmp_client.py:466).
THEOREM WholeTableCorrect == Spec => WholeTable
<1> DEFINE Whole == \A o \in Operations :
                       status[o] = "running" /\ status'[o] = "idle" /\ o \notin changed
                          => answer' = Expected
<1>1. ASSUME Inv, WalkInv, Next, NEW o \in Operations,
             status[o] = "running", status'[o] = "idle", o \notin changed
      PROVE  answer' = Expected
  <2>1. Finish(o)
    <3>1. ASSUME NEW v \in Operations, Start(v) \/ Expires(v) \/ Raise(v) PROVE FALSE
      BY <1>1, <3>1 DEF Start, Expires, Raise, Inv, Typed
    <3>2. ASSUME NEW v \in Operations, Finish(v) PROVE v = o
      BY <1>1, <3>2 DEF Finish, Inv, Typed
    <3>3. ASSUME NEW w \in Walks, Send(w) \/ Answered(w) \/ Retry(w) \/ Unwind(w) PROVE FALSE
      BY <1>1, <3>3 DEF Send, Answered, Retry, Unwind
    <3>4. ASSUME NEW w \in Walks, Fails(w) PROVE FALSE
      BY <1>1, <3>4, WalkParts DEF Fails, Inv, Typed
    <3>5. ~TableChanges
      BY <1>1 DEF TableChanges
    <3>6. QED
      BY <1>1, <3>1, <3>2, <3>3, <3>4, <3>5 DEF Next
  <2>2. \A w \in WalksOf(o) : column[w] = table
    BY <1>1, <2>1, WalkParts DEF Finish, Complete, WalkInv, Intact
  <2>3. \A name \in ColumnsOf[o] : Read(o, name) = table
    BY <2>2 DEF WalksOf, Read
  <2>4. answer' = Keyed(table, table)
    BY <2>1, <2>3, SnmpAssumption DEF Finish, SnmpAssumption
  <2>5. QED
    BY <1>1, <2>4, KeyedTable DEF WalkInv
<1>2. Inv /\ WalkInv /\ [Next]_vars => [Whole]_vars
  BY <1>1
<1>3. Spec => [](Inv /\ WalkInv)
  BY InvInit, InvStep, WalkInit, WalkStep, PTL DEF Spec
<1>4. QED
  BY <1>2, <1>3, PTL DEF Spec, WholeTable

------------------------------------------------------------------------------
\* The types.

Rows == [Indexes -> Objects \cup {NoObject}]

\* What InvStep and WalkStep leave open of the types.
TypeInv ==
    /\ table \in Tables /\ changes \in 0..MaxChanges /\ changed \subseteq Operations
    /\ column \in [Walks -> Rows]
    /\ attempt \in [Walks -> 0..Attempts]
    /\ \A w \in Walks : walk[w] = "sent" => attempt[w] >= 1

LEMMA TypeStep == Inv /\ WalkInv /\ TypeInv /\ [Next]_vars => TypeInv'
<1> SUFFICES ASSUME Inv, WalkInv, TypeInv, [Next]_vars PROVE TypeInv'
  OBVIOUS
<1>1. Attempts \in Nat \ {0} /\ MaxChanges \in Nat /\ table \in Rows /\ Nothing \in Rows
  BY SnmpAssumption DEF SnmpAssumption, WalkInv, Rows, Nothing
<1>2. ASSUME NEW o \in Operations, Start(o) \/ Expires(o) \/ Raise(o) PROVE TypeInv'
  BY <1>2 DEF TypeInv, Start, Expires, Raise, Inv, Typed
<1>3. ASSUME NEW o \in Operations, Finish(o) PROVE TypeInv'
  <2>1. column' \in [Walks -> Rows]
    BY <1>1, <1>3 DEF TypeInv, Finish
  <2>2. \A w \in Walks : walk'[w] = "sent" => walk[w] = "sent"
    BY <1>3 DEF Finish
  <2>3. QED
    BY <1>3, <2>1, <2>2 DEF TypeInv, Finish
<1>4. ASSUME NEW w \in Walks, Send(w) PROVE TypeInv'
  BY <1>1, <1>4 DEF TypeInv, Send, Inv, Typed
<1>5. ASSUME NEW w \in Walks, Retry(w) PROVE TypeInv'
  BY <1>1, <1>5 DEF TypeInv, Retry, MoreAttempts, Inv, Typed
<1>6. ASSUME NEW w \in Walks, Answered(w) PROVE TypeInv'
  <2>1. \E read : column' = [column EXCEPT ![w] = [i \in Indexes |-> IF i \in read THEN table[i]
                                                                      ELSE column[w][i]]]
    BY <1>6 DEF Answered
  <2>2. column' \in [Walks -> Rows]
    BY <1>1, <2>1 DEF TypeInv, Rows
  <2>3. \A v \in Walks : walk'[v] = "sent" => walk[v] = "sent" /\ v # w
    BY <1>6 DEF Answered, Inv, Typed
  <2>4. attempt' = [attempt EXCEPT ![w] = 0] /\ UNCHANGED <<table, changes, changed>>
    BY <1>6 DEF Answered
  <2>5. QED
    BY <1>1, <2>2, <2>3, <2>4 DEF TypeInv
<1>7. ASSUME NEW w \in Walks, Fails(w) \/ Unwind(w) PROVE TypeInv'
  <2>1. /\ walk' = [walk EXCEPT ![w] = "off"] /\ column' = [column EXCEPT ![w] = Nothing]
        /\ attempt' = [attempt EXCEPT ![w] = 0] /\ UNCHANGED <<table, changes, changed>>
    BY <1>7 DEF Fails, Unwind, Stopped
  <2>2. QED
    BY <1>1, <2>1 DEF TypeInv, Inv, Typed
<1>8. CASE TableChanges
  BY <1>1, <1>8 DEF TypeInv, TableChanges
<1>9. CASE UNCHANGED vars
  BY <1>9 DEF TypeInv, vars
<1>10. QED
  BY <1>2, <1>3, <1>4, <1>5, <1>6, <1>7, <1>8, <1>9 DEF Next

\* Every variable of the client keeps its type, for any table and any number of operations.
THEOREM TypeCorrect == Spec => []TypeOK
<1>1. Init => TypeInv
  BY SnmpAssumption DEF Init, TypeInv, Rows, Nothing, SnmpAssumption
<1>2. Inv /\ WalkInv /\ TypeInv => TypeOK
  <2> SUFFICES ASSUME Inv, WalkInv, TypeInv PROVE TypeOK
    OBVIOUS
  <2>1. inFlight \subseteq Walks /\ sockets = {<<w, attempt[w]>> : w \in inFlight}
    BY DEF Inv, SocketsInFlight
  <2>2. \A w \in inFlight : attempt[w] \in 1..Attempts
    BY SnmpAssumption DEF Inv, SocketsInFlight, TypeInv, SnmpAssumption
  <2>3. sockets \subseteq Walks \X (1..Attempts)
    BY <2>1, <2>2
  <2>4. QED
    BY <2>1, <2>3 DEF TypeOK, Inv, Typed, WalkInv, TypeInv, Rows
<1>3. QED
  BY <1>1, <1>2, InvInit, InvStep, WalkInit, WalkStep, TypeStep, PTL DEF Spec
=============================================================================
