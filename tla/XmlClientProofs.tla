-------------------------- MODULE XmlClientProofs --------------------------
(***************************************************************************)
(* Proofs about the write operations of the XML client, for any callers,   *)
(* addresses, hosts and contents of the object: type correctness, the slot,*)
(* one host per address, and the refinement of ObjectUpdate.               *)
(***************************************************************************)
EXTENDS XmlClient, TLAPS

\* What the kind of an operation tells of its other fields.
LEMMA OperationCases ==
  ASSUME NEW o \in Writes \cup {Poll, NoOperation}
  PROVE  /\ o.kind \in {"none", "poll", "block", "unblock", "add url", "remove url", "field",
                        "switch"}
         /\ o \in Writes <=> o.kind \notin {"none", "poll"}
         /\ o = Poll <=> o.kind = "poll"
         /\ o = NoOperation <=> o.kind = "none"
         /\ o.kind = "block" => o.address \in Addresses /\ o.name \in HostNames
         /\ o.kind = "unblock" => o.address \in Addresses
         /\ o.kind \in {"add url", "remove url"} => o.url \in Urls
         /\ o.kind \in {"field", "switch"} => o.value \in Values
<1>1. ASSUME o \in Blocks
      PROVE  o.kind = "block" /\ o.address \in Addresses /\ o.name \in HostNames
  BY <1>1 DEF Blocks
<1>2. ASSUME o \in Unblocks PROVE o.kind = "unblock" /\ o.address \in Addresses
  BY <1>2 DEF Unblocks
<1>3. ASSUME o \in UrlCalls PROVE o.kind \in {"add url", "remove url"} /\ o.url \in Urls
  BY <1>3 DEF UrlCalls
<1>4. ASSUME o \in Updates PROVE o.kind \in {"field", "switch"} /\ o.value \in Values
  BY <1>4 DEF Updates
<1>5. Poll.kind = "poll" /\ NoOperation.kind = "none"
  BY DEF Poll, NoOperation
<1>6. QED
  BY <1>1, <1>2, <1>3, <1>4, <1>5 DEF Writes

\* The two placeholders are no contents, and differ.
LEMMA ContentCases == /\ Missing \notin Contents /\ Live \notin Contents /\ Missing # Live
<1>1. Missing.rest = -1 /\ Live.rest = -2
  BY DEF Missing, Live
<1>2. \A content \in Contents : content.rest \in 0..MaxEdits
  BY DEF Contents
<1>3. -1 \notin 0..MaxEdits /\ -2 \notin 0..MaxEdits
  BY EditsAssumption DEF EditsAssumption
<1>4. QED
  BY <1>1, <1>2, <1>3

EffectType == [add : SUBSET Entries, drop : SUBSET Entries]

\* A change keeps the object a content.
LEMMA PutType ==
  ASSUME NEW content \in Contents, NEW effect \in EffectType
  PROVE  Put(content, effect) \in Contents
  BY DEF Put, Contents, EffectType

\* Changes of entries are effects, and a pair of choices has its changes.
LEMMA EffectsTyped ==
  /\ \A a, d \in SUBSET Entries : [add |-> a, drop |-> d] \in EffectType
  /\ \A A, D : \A a \in A, d \in D : [add |-> a, drop |-> d] \in [add : A, drop : D]
  /\ HostNames \subseteq Entries /\ Urls \subseteq Entries /\ Values \subseteq Entries
  BY DEF EffectType, Entries

\* The effect of a call, and that it is one its operation may have.
LEMMA EffectOf ==
  ASSUME NEW t \in Tasks, operation[t] \in Writes, chosen[t] \subseteq HostNames,
         operation[t].kind = "block" => \E host \in HostNames : chosen[t] = {host}
  PROVE  Effect(t) \in EffectType /\ Effect(t) \in Effects(operation[t])
<1>0. operation[t] \in Writes \cup {Poll, NoOperation}
  OBVIOUS
<1>1. CASE operation[t].kind = "block"
  <2>1. Effect(t) = [add |-> chosen[t], drop |-> {}]
    BY <1>1, Zenon DEF Effect
  <2>2. Effects(operation[t]) = [add : {{host} : host \in HostNames}, drop : {{}}]
    BY <1>1, Zenon DEF Effects
  <2>3. QED
    BY <1>1, <2>1, <2>2, EffectsTyped
<1>2. CASE operation[t].kind = "unblock"
  <2>1. Effect(t) = [add |-> {}, drop |-> chosen[t]]
    BY <1>2, Zenon DEF Effect
  <2>2. Effects(operation[t]) = [add : {{}}, drop : SUBSET HostNames]
    BY <1>2, Zenon DEF Effects
  <2>3. QED
    BY <2>1, <2>2, EffectsTyped
<1>3. CASE operation[t].kind = "add url"
  <2>1. Effect(t) = [add |-> {operation[t].url}, drop |-> {}]
    BY <1>3, Zenon DEF Effect
  <2>2. Effects(operation[t]) = [add : {{operation[t].url}}, drop : {{}}]
    BY <1>3, Zenon DEF Effects
  <2>3. operation[t].url \in Urls
    BY <1>0, <1>3, OperationCases, Zenon
  <2>4. {operation[t].url} \in SUBSET Entries
    BY <2>3, EffectsTyped
  <2>5. QED
    BY <2>1, <2>2, <2>4, EffectsTyped
<1>4. CASE operation[t].kind = "remove url"
  <2>1. Effect(t) = [add |-> {}, drop |-> {operation[t].url}]
    BY <1>4, Zenon DEF Effect
  <2>2. Effects(operation[t]) = [add : {{}}, drop : {{operation[t].url}}]
    BY <1>4, Zenon DEF Effects
  <2>3. operation[t].url \in Urls
    BY <1>0, <1>4, OperationCases, Zenon
  <2>4. {operation[t].url} \in SUBSET Entries
    BY <2>3, EffectsTyped
  <2>5. QED
    BY <2>1, <2>2, <2>4, EffectsTyped
<1>5. CASE operation[t].kind \in {"field", "switch"}
  <2>1. Effect(t) = [add |-> {operation[t].value}, drop |-> Entries]
    BY <1>5, Zenon DEF Effect
  <2>2. Effects(operation[t]) = [add : {{operation[t].value}}, drop : {Entries}]
    BY <1>5, Zenon DEF Effects
  <2>3. operation[t].value \in Values
    BY <1>0, <1>5, OperationCases, Zenon
  <2>4. {operation[t].value} \in SUBSET Entries
    BY <2>3, EffectsTyped
  <2>5. QED
    BY <2>1, <2>2, <2>4, EffectsTyped
<1>6. QED
  BY <1>0, <1>1, <1>2, <1>3, <1>4, <1>5, OperationCases

------------------------------------------------------------------------------
\* The inductive invariant.

\* The object is watched for the task's call.
Writing(t) == t \in holders /\ operation[t] # Poll

\* Steps at which the client has decided what to write.
Decided == {"read", "set", "confirm", "read back"}

\* What the step of a call tells of the rest of it.
CallOf(t) ==
    /\ t \in holders <=> step[t] \notin {"idle", "waiting"}
    /\ step[t] = "idle" <=> operation[t] = NoOperation
    /\ step[t] = "get" => operation[t] = Poll
    /\ step[t] = "check group" => operation[t].kind = "block"
    /\ step[t] = "list hosts" => operation[t].kind \in {"block", "unblock"}
    /\ step[t] = "add host" =>
         operation[t].kind = "block" /\ chosen[t] = {operation[t].name}
    /\ step[t] \in Decided =>
         /\ operation[t] \in Writes
         /\ operation[t].kind = "block" => \E host \in HostNames : chosen[t] = {host}
    /\ step[t] \notin {"confirm", "read back"} => ~applied[t]

\* A call has seen the object as it is, and as it read it.
SeenBy(t) ==
    /\ Writing(t) => record \in seen[t]
    /\ ~Writing(t) => seen[t] = {}
    /\ \/ step[t] = "list hosts" /\ operation[t].kind = "block"
       \/ step[t] = "set" /\ operation[t].kind # "switch"
       => copy[t] \in seen[t] \ {Missing}

\* A host is added for an address that has none, as far as the client can know.
AddsFirst(t) ==
    step[t] = "add host" =>
        HostsOf(operation[t].address) = {} \/ operation[t].address \in foreign

Exclusive == \A t, u \in holders : t = u

Inv ==
    /\ TypeOK
    /\ Exclusive
    /\ \A t \in Tasks : CallOf(t) /\ SeenBy(t) /\ AddsFirst(t)
    /\ OneHostPerAddress

\* Every operation asked of the client is one of the writes, or a poll.
LEMMA OperationsTyped ==
  ASSUME NEW kind \in ObjectKinds
  PROVE  OperationsOn(kind) \subseteq Writes
<1>1. kind \in {"host group", "url group", "rule", "network"}
  BY TasksAssumption DEF TasksAssumption
<1>2. CASE kind = "host group"
  BY <1>2 DEF OperationsOn, Writes
<1>3. CASE kind = "url group"
  BY <1>3 DEF OperationsOn, Writes
<1>4. CASE kind = "rule"
  BY <1>4 DEF OperationsOn, Writes, Updates
<1>5. CASE kind = "network"
  BY <1>5 DEF OperationsOn, Writes, Updates
<1>6. QED
  BY <1>1, <1>2, <1>3, <1>4, <1>5

\* What an object of a kind may have is a set of entries.
LEMMA EntriesTyped ==
  ASSUME NEW kind
  PROVE  EntriesOf(kind) \subseteq SUBSET Entries
<1>1. CASE kind = "host group"
  BY <1>1 DEF EntriesOf, Entries
<1>2. CASE kind = "url group"
  BY <1>2 DEF EntriesOf, Entries
<1>3. CASE kind \notin {"host group", "url group"}
  BY <1>3 DEF EntriesOf, Entries
<1>4. QED
  BY <1>1, <1>2, <1>3

\* A write is no poll and no placeholder.
LEMMA WriteCases ==
  /\ Poll # NoOperation
  /\ \A o \in Writes : o # Poll /\ o # NoOperation
<1>1. Poll.kind = "poll" /\ NoOperation.kind = "none"
  BY DEF Poll, NoOperation
<1>2. \A o \in Writes : o.kind # "poll" /\ o.kind # "none"
  BY OperationCases, <1>1
<1>3. QED
  BY <1>1, <1>2

THEOREM InitInv == Init => Inv
<1> SUFFICES ASSUME Init PROVE Inv
  OBVIOUS
<1>1. TypeOK
  <2>1. record \in Objects
    <3>1. CASE record = Missing
      BY <3>1 DEF Objects
    <3>2. CASE record \in [entries : EntriesOf(objectKind), rest : {0}]
      BY <3>2, EntriesTyped, EditsAssumption DEF Objects, Contents, EditsAssumption
    <3>3. QED
      BY <3>1, <3>2 DEF Init
  <2>2. hosts \in [HostNames -> Addresses \cup {NoAddress}]
    <3>1. CASE objectKind = "host group"
      BY <3>1 DEF Init
    <3>2. CASE objectKind # "host group"
      BY <3>2 DEF Init
    <3>3. QED
      BY <3>1, <3>2
  <2>3. readOnly \in BOOLEAN
    BY DEF Init
  <2>4. edits \in 0..MaxEdits
    <3>1. edits = 0
      BY Zenon DEF Init
    <3>2. QED
      BY <3>1, EditsAssumption DEF EditsAssumption
  <2>5. copy \in [Tasks -> Objects]
    BY DEF Init, Objects
  <2>6. step \in [Tasks -> Steps] /\ reply \in Outcomes
    BY DEF Init, Steps, Outcomes
  <2>7. QED
    BY <2>1, <2>2, <2>3, <2>4, <2>5, <2>6 DEF Init, TypeOK
<1>2. Exclusive
  BY DEF Init, Exclusive
<1>3. ASSUME NEW t \in Tasks PROVE CallOf(t) /\ SeenBy(t) /\ AddsFirst(t)
  BY DEF Init, CallOf, SeenBy, AddsFirst, Writing, Decided
<1>4. OneHostPerAddress
  BY DEF Init, OneHostPerAddress
<1>5. QED
  BY <1>1, <1>2, <1>3, <1>4 DEF Inv

------------------------------------------------------------------------------
\* A call goes on, or ends.

\* What the firewall keeps has its type.
FirewallType ==
    /\ record \in Objects
    /\ hosts \in [HostNames -> Addresses \cup {NoAddress}]
    /\ late \subseteq [base : Contents \cup {Live},
                       effect : [add : SUBSET Entries, drop : SUBSET Entries]]
    /\ lateHosts \subseteq HostNames \X Addresses

\* The end of a call keeps the types.
LEMMA FinishTypes ==
  ASSUME TypeOK, NEW t \in Tasks, NEW outcome \in Outcomes, Finish(t, outcome), FirewallType'
  PROVE  TypeOK'
  BY DEF TypeOK, Finish, Release, FirewallType, Steps, Objects

\* No other task is at a request while a call has the slot.
LEMMA OthersWait ==
  ASSUME Inv, NEW t \in holders, NEW u \in Tasks \ {t}
  PROVE  u \notin holders /\ step[u] \in {"idle", "waiting"} /\ seen[u] = {}
  BY DEF Inv, Exclusive, CallOf, SeenBy, Writing

\* The end of a call leaves its task idle and every other task as it is.
LEMMA FinishCalls ==
  ASSUME Inv, NEW t \in Tasks, NEW outcome \in Outcomes, Finish(t, outcome),
         t \in holders \/ (step[t] = "waiting" /\ UNCHANGED hosts)
  PROVE  Exclusive' /\ \A u \in Tasks : CallOf(u)' /\ SeenBy(u)' /\ AddsFirst(u)'
<1>1. Exclusive'
  BY DEF Inv, Exclusive, Finish, Release
<1>2. CallOf(t)' /\ SeenBy(t)' /\ AddsFirst(t)'
  BY DEF Inv, TypeOK, Finish, Release, CallOf, SeenBy, AddsFirst, Writing, Decided
<1>3. ASSUME NEW u \in Tasks \ {t} PROVE CallOf(u)' /\ SeenBy(u)' /\ AddsFirst(u)'
  <2>1. /\ u \in holders' <=> u \in holders
        /\ operation'[u] = operation[u] /\ step'[u] = step[u] /\ chosen'[u] = chosen[u]
        /\ copy'[u] = copy[u] /\ seen'[u] = seen[u] /\ applied'[u] = applied[u]
        /\ record' = record /\ foreign' = foreign
    BY DEF Inv, TypeOK, Finish, Release
  <2>2. CallOf(u) /\ SeenBy(u) /\ AddsFirst(u)
    BY DEF Inv
  <2>3. CallOf(u)'
    BY <2>1, <2>2 DEF CallOf
  <2>4. SeenBy(u)'
    BY <2>1, <2>2 DEF SeenBy, Writing
  <2>5. AddsFirst(u)'
    <3>1. CASE t \in holders
      BY <2>1, <3>1, OthersWait DEF AddsFirst
    <3>2. CASE UNCHANGED hosts
      BY <2>1, <2>2, <3>2 DEF AddsFirst, HostsOf
    <3>3. QED
      BY <3>1, <3>2
  <2>6. QED
    BY <2>3, <2>4, <2>5
<1>4. QED
  BY <1>1, <1>2, <1>3

\* The variables of a call other than its step change for one task at most.
Frame(t) ==
    \A u \in Tasks \ {t} :
        /\ chosen'[u] = chosen[u]
        /\ copy'[u] = copy[u]
        /\ seen'[u] = seen[u]
        /\ applied'[u] = applied[u]

\* A call that goes on keeps the types, if the variables it sets have theirs.
LEMMA GoOnTypes ==
  ASSUME TypeOK, NEW t \in Tasks, NEW request \in Steps, GoOn(t, request), FirewallType',
         chosen' \in [Tasks -> SUBSET HostNames], copy' \in [Tasks -> Objects],
         seen' \in [Tasks -> SUBSET Objects], applied' \in [Tasks -> BOOLEAN]
  PROVE  TypeOK'
  BY DEF TypeOK, GoOn, FirewallType, Outcomes

\* A call that goes on leaves the slot and the other tasks as they are.
LEMMA GoOnOthers ==
  ASSUME Inv, NEW t \in holders, NEW request, GoOn(t, request), Frame(t)
  PROVE  Exclusive' /\ \A u \in Tasks \ {t} : CallOf(u)' /\ SeenBy(u)' /\ AddsFirst(u)'
<1>1. Exclusive'
  BY DEF Inv, Exclusive, GoOn
<1>2. ASSUME NEW u \in Tasks \ {t} PROVE CallOf(u)' /\ SeenBy(u)' /\ AddsFirst(u)'
  <2>1. /\ u \in holders' <=> u \in holders
        /\ operation'[u] = operation[u] /\ step'[u] = step[u] /\ chosen'[u] = chosen[u]
        /\ copy'[u] = copy[u] /\ seen'[u] = seen[u] /\ applied'[u] = applied[u]
    BY DEF Inv, TypeOK, GoOn, Frame
  <2>2. CallOf(u) /\ SeenBy(u) /\ u \notin holders /\ step[u] \in {"idle", "waiting"}
    BY OthersWait DEF Inv
  <2>3. CallOf(u)'
    BY <2>1, <2>2 DEF CallOf
  <2>4. SeenBy(u)' /\ AddsFirst(u)'
    BY <2>1, <2>2 DEF SeenBy, AddsFirst, Writing
  <2>5. QED
    BY <2>3, <2>4
<1>3. QED
  BY <1>1, <1>2

------------------------------------------------------------------------------
\* The steps of a task.

\* What a step keeps for every task, and for the table of hosts.
Keeps == TypeOK' /\ Exclusive' /\ \A u \in Tasks : CallOf(u)' /\ SeenBy(u)' /\ AddsFirst(u)'

\* A step that ends a call.
LEMMA FinishKeeps ==
  ASSUME Inv, NEW t \in Tasks, NEW outcome \in Outcomes, Finish(t, outcome),
         UNCHANGED <<hosts, late, lateHosts>>, t \in holders \/ step[t] = "waiting"
  PROVE  Keeps
<1>1. FirewallType'
  BY DEF Inv, TypeOK, FirewallType, Finish
<1>2. TypeOK'
  BY <1>1, FinishTypes DEF Inv
<1>3. QED
  BY <1>2, FinishCalls DEF Keeps

\* A step with which a call goes on without a change of the object.
LEMMA GoOnKeeps ==
  ASSUME Inv, NEW t \in holders, NEW request \in Steps, GoOn(t, request), FirewallType',
         UNCHANGED <<record, seen, applied>>,
         NEW hs \in SUBSET HostNames, chosen' = [chosen EXCEPT ![t] = hs],
         NEW object \in Objects, copy' = [copy EXCEPT ![t] = object],
         CallOf(t)', SeenBy(t)', AddsFirst(t)'
  PROVE  Keeps
<1>1. TypeOK'
  <2>1. chosen' \in [Tasks -> SUBSET HostNames] /\ copy' \in [Tasks -> Objects]
    BY DEF Inv, TypeOK
  <2>2. seen' \in [Tasks -> SUBSET Objects] /\ applied' \in [Tasks -> BOOLEAN]
    BY DEF Inv, TypeOK
  <2>3. QED
    BY <2>1, <2>2, GoOnTypes DEF Inv, TypeOK
<1>2. Frame(t)
  BY DEF Inv, TypeOK, Frame
<1>3. QED
  BY <1>1, <1>2, GoOnOthers DEF Keeps

LEMMA CallKeeps ==
  ASSUME Inv, NEW t \in Tasks, Call(t)
  PROVE  Keeps
<1>1. PICK o \in OperationsOn(objectKind) \cup {Poll} : operation' = [operation EXCEPT ![t] = o]
  BY DEF Call
<1>2. o \in Writes \cup {Poll} /\ o # NoOperation
  BY OperationsTyped, WriteCases DEF Inv, TypeOK
<1>3. TypeOK'
  BY <1>1, <1>2 DEF Inv, TypeOK, Call, firewallVars, historyVars, Steps, Outcomes
<1>4. t \notin holders /\ step[t] = "idle" /\ ~applied[t] /\ seen[t] = {}
  BY DEF Inv, CallOf, SeenBy, Writing, Call
<1>5. CallOf(t)' /\ SeenBy(t)' /\ AddsFirst(t)'
  BY <1>1, <1>2, <1>4
  DEF Inv, TypeOK, Call, historyVars, CallOf, SeenBy, AddsFirst, Writing, Decided
<1>6. ASSUME NEW u \in Tasks \ {t} PROVE CallOf(u)' /\ SeenBy(u)' /\ AddsFirst(u)'
  <2>1. /\ holders' = holders /\ operation'[u] = operation[u] /\ step'[u] = step[u]
        /\ chosen' = chosen /\ copy' = copy /\ seen' = seen /\ applied' = applied
        /\ record' = record /\ hosts' = hosts /\ foreign' = foreign
    BY <1>1 DEF Inv, TypeOK, Call, firewallVars, historyVars
  <2>2. CallOf(u) /\ SeenBy(u) /\ AddsFirst(u)
    BY DEF Inv
  <2>3. CallOf(u)'
    BY <2>1, <2>2 DEF CallOf
  <2>4. SeenBy(u)' /\ AddsFirst(u)'
    BY <2>1, <2>2 DEF SeenBy, AddsFirst, Writing, HostsOf
  <2>5. QED
    BY <2>3, <2>4
<1>7. Exclusive'
  BY DEF Inv, Exclusive, Call
<1>8. QED
  BY <1>3, <1>5, <1>6, <1>7 DEF Keeps

\* The first request of a call.
LEMMA FirstSteps ==
  ASSUME NEW o \in Writes \cup {Poll}
  PROVE  /\ FirstStep(o) \in {"get", "check group", "list hosts", "set", "read"}
         /\ FirstStep(o) = "get" => o = Poll
         /\ FirstStep(o) = "check group" => o.kind = "block"
         /\ FirstStep(o) = "list hosts" => o.kind = "unblock"
         /\ FirstStep(o) = "set" => o \in Writes /\ o.kind = "switch"
         /\ FirstStep(o) = "read" => o \in Writes /\ o.kind # "block"
<1>1. CASE o.kind = "poll"
  BY <1>1, OperationCases DEF FirstStep
<1>2. CASE o.kind = "block"
  BY <1>2, OperationCases DEF FirstStep
<1>3. CASE o.kind = "unblock"
  BY <1>3, OperationCases DEF FirstStep
<1>4. CASE o.kind = "switch"
  BY <1>4, OperationCases DEF FirstStep
<1>5. CASE o.kind \notin {"poll", "block", "unblock", "switch"}
  BY <1>5, OperationCases DEF FirstStep
<1>6. QED
  BY <1>1, <1>2, <1>3, <1>4, <1>5

LEMMA AcquireKeeps ==
  ASSUME Inv, NEW t \in Tasks, Acquire(t)
  PROVE  Keeps
<1>1. /\ holders = {} /\ step[t] = "waiting" /\ ~applied[t] /\ holders' = {t}
      /\ operation[t] # NoOperation
  BY DEF Inv, CallOf, Acquire, SlotFree
<1>2. operation[t] \in Writes \cup {Poll}
  BY <1>1 DEF Inv, TypeOK
<1>3. FirstStep(operation[t]) \in {"get", "check group", "list hosts", "set", "read"}
  BY <1>2, FirstSteps
<1>4. TypeOK'
  <2>1. step' \in [Tasks -> Steps]
    BY <1>3 DEF Inv, TypeOK, Acquire, Steps
  <2>2. seen' \in [Tasks -> SUBSET Objects]
    BY DEF Inv, TypeOK, Acquire
  <2>3. QED
    BY <1>1, <2>1, <2>2 DEF Inv, TypeOK, Acquire, firewallVars, Outcomes
<1>5. /\ operation' = operation /\ step'[t] = FirstStep(operation[t]) /\ applied' = applied
      /\ record' = record /\ chosen' = chosen /\ copy' = copy
      /\ seen'[t] = IF operation[t] = Poll THEN {} ELSE {record}
  BY DEF Inv, TypeOK, Acquire, firewallVars
<1>6. CallOf(t)'
  BY <1>1, <1>2, <1>3, <1>5, FirstSteps DEF CallOf, Decided
<1>7. SeenBy(t)' /\ AddsFirst(t)'
  BY <1>1, <1>2, <1>3, <1>5, FirstSteps, OperationCases DEF SeenBy, AddsFirst, Writing
<1>8. ASSUME NEW u \in Tasks \ {t} PROVE CallOf(u)' /\ SeenBy(u)' /\ AddsFirst(u)'
  <2>1. u \notin holders' /\ step'[u] = step[u] /\ seen'[u] = seen[u]
    BY <1>1 DEF Inv, TypeOK, Acquire
  <2>2. CallOf(u) /\ SeenBy(u) /\ u \notin holders
    BY <1>1 DEF Inv
  <2>3. CallOf(u)'
    BY <1>5, <2>1, <2>2 DEF CallOf
  <2>4. SeenBy(u)' /\ AddsFirst(u)'
    BY <2>1, <2>2 DEF CallOf, SeenBy, AddsFirst, Writing
  <2>5. QED
    BY <2>3, <2>4
<1>9. QED
  BY <1>1, <1>4, <1>6, <1>7, <1>8 DEF Keeps, Exclusive

\* A holder's operation, and what it has seen of the object.
LEMMA Holding ==
  ASSUME Inv, NEW t \in holders
  PROVE  /\ t \in Tasks
         /\ operation[t] \in Writes \cup {Poll}
         /\ operation[t] \in Writes => record \in seen[t] /\ seen[t] \subseteq Objects
         /\ step[t] \notin {"idle", "waiting"}
<1>1. t \in Tasks /\ step[t] \notin {"idle", "waiting"} /\ operation[t] # NoOperation
  BY DEF Inv, TypeOK, CallOf
<1>2. operation[t] \in Writes \cup {Poll}
  BY <1>1 DEF Inv, TypeOK
<1>3. ASSUME operation[t] \in Writes PROVE record \in seen[t] /\ seen[t] \subseteq Objects
  BY <1>1, <1>3, WriteCases DEF Inv, SeenBy, Writing, TypeOK
<1>4. QED
  BY <1>1, <1>2, <1>3

\* At these requests the call is a write.
LEMMA WritingAt ==
  ASSUME Inv, NEW t \in holders,
         step[t] \in {"check group", "list hosts", "add host"} \cup Decided
  PROVE  operation[t] \in Writes
<1>1. operation[t] \in Writes \cup {Poll}
  BY Holding
<1>2. CASE step[t] \in Decided
  BY <1>2, Holding DEF Inv, CallOf
<1>3. CASE step[t] \in {"check group", "list hosts", "add host"}
  BY <1>1, <1>3, Holding, OperationCases DEF Inv, CallOf
<1>4. QED
  BY <1>2, <1>3

LEMMA GetRecordsKeeps ==
  ASSUME Inv, NEW t \in Tasks, GetRecords(t)
  PROVE  Keeps
  BY FinishKeeps DEF GetRecords, At, Outcomes

LEMMA ReadErrors == ReadError \in {"none", "not found", "not editable"} /\
                    (ReadError = "not found" => record = Missing) /\
                    (ReadError = "none" => record # Missing)
  BY DEF ReadError

LEMMA CheckGroupKeeps ==
  ASSUME Inv, NEW t \in Tasks, CheckGroup(t)
  PROVE  Keeps
<1>1. t \in holders /\ step[t] = "check group" /\ UNCHANGED <<hosts, late, lateHosts>>
  BY DEF CheckGroup, At
<1>2. CASE ReadError # "none" /\ Finish(t, ReadError)
  BY <1>1, <1>2, ReadErrors, FinishKeeps DEF Outcomes
<1>3. CASE /\ ReadError = "none" /\ GoOn(t, "list hosts")
           /\ copy' = [copy EXCEPT ![t] = record]
           /\ UNCHANGED <<record, chosen, seen, applied>>
  <2>1. operation[t].kind = "block" /\ operation[t] \in Writes /\ record \in seen[t] \ {Missing}
    BY <1>1, <1>3, Holding, WritingAt, ReadErrors DEF Inv, CallOf
  <2>2. /\ step'[t] = "list hosts" /\ operation' = operation /\ holders' = holders
        /\ applied' = applied /\ seen' = seen /\ record' = record /\ copy'[t] = record
    BY <1>3 DEF Inv, TypeOK, GoOn
  <2>3. CallOf(t)'
    BY <1>1, <2>1, <2>2, WriteCases DEF Inv, CallOf, Decided
  <2>4. SeenBy(t)' /\ AddsFirst(t)'
    BY <1>1, <2>1, <2>2, WriteCases DEF SeenBy, AddsFirst, Writing
  <2>5. FirewallType'
    BY <1>1, <1>3 DEF Inv, TypeOK, FirewallType
  <2>6. chosen' = [chosen EXCEPT ![t] = chosen[t]] /\ chosen[t] \in SUBSET HostNames
    BY <1>3 DEF Inv, TypeOK
  <2>7. record \in Objects /\ "list hosts" \in Steps
    BY DEF Inv, TypeOK, Steps
  <2>8. QED
    BY <1>1, <1>3, <2>3, <2>4, <2>5, <2>6, <2>7, GoOnKeeps
<1>4. QED
  BY <1>2, <1>3 DEF CheckGroup

\* A step with which a call goes on, and chooses its hosts at most.
LEMMA ChooseKeeps ==
  ASSUME Inv, NEW t \in holders, NEW request \in Steps, GoOn(t, request),
         UNCHANGED <<record, hosts, late, lateHosts, copy, seen, applied>>,
         NEW hs \in SUBSET HostNames, chosen' = [chosen EXCEPT ![t] = hs],
         CallOf(t)', request \notin {"list hosts", "set"}, AddsFirst(t)'
  PROVE  Keeps
<1>1. FirewallType'
  BY DEF Inv, TypeOK, FirewallType
<1>2. copy' = [copy EXCEPT ![t] = copy[t]] /\ copy[t] \in Objects /\ t \in Tasks
  BY DEF Inv, TypeOK
<1>3. step'[t] = request /\ operation' = operation /\ holders' = holders
  BY <1>2 DEF Inv, TypeOK, GoOn
<1>4. SeenBy(t)'
  BY <1>2, <1>3 DEF Inv, SeenBy, Writing
<1>5. QED
  BY <1>1, <1>2, <1>4, GoOnKeeps

LEMMA ListHostsToBlockKeeps ==
  ASSUME Inv, NEW t \in Tasks, ListHostsToBlock(t)
  PROVE  Keeps
<1>1. /\ t \in holders /\ step[t] = "list hosts" /\ operation[t].kind = "block"
      /\ operation[t] \in Writes /\ UNCHANGED <<hosts, late, lateHosts>> /\ ~applied[t]
  BY WritingAt DEF ListHostsToBlock, At, Inv, CallOf
<1>2. operation[t].address \in Addresses /\ operation[t].name \in HostNames
  BY <1>1, OperationCases
<1>3. CASE Finish(t, "already blocked")
  BY <1>1, <1>3, FinishKeeps DEF Outcomes
<1>4. ASSUME NEW host \in Reused(t), chosen' = [chosen EXCEPT ![t] = {host}],
             GoOn(t, "read"), UNCHANGED <<record, copy, seen, applied>>
      PROVE  Keeps
  <2>1. host \in HostNames
    BY DEF Reused, HostsOf
  <2>2. /\ step'[t] = "read" /\ operation' = operation /\ holders' = holders
        /\ applied' = applied /\ chosen'[t] = {host}
    BY <1>4 DEF Inv, TypeOK, GoOn
  <2>3. CallOf(t)' /\ AddsFirst(t)'
    BY <1>1, <2>1, <2>2, WriteCases DEF CallOf, AddsFirst, Decided
  <2>4. {host} \in SUBSET HostNames /\ "read" \in Steps \ {"list hosts", "set"}
    BY <2>1 DEF Steps
  <2>5. UNCHANGED <<record, hosts, late, lateHosts, copy, seen, applied>>
    BY <1>1, <1>4
  <2>6. QED
    BY <1>1, <1>4, <2>3, <2>4, <2>5, ChooseKeeps, Zenon
<1>5. ASSUME Reused(t) = {}, chosen' = [chosen EXCEPT ![t] = {operation[t].name}],
             GoOn(t, "add host"), UNCHANGED <<record, copy, seen, applied>>
      PROVE  Keeps
  <2>1. /\ step'[t] = "add host" /\ operation' = operation /\ holders' = holders
        /\ applied' = applied /\ chosen'[t] = {operation[t].name}
    BY <1>5 DEF Inv, TypeOK, GoOn
  <2>2. CallOf(t)'
    BY <1>1, <2>1, WriteCases DEF CallOf, Decided
  <2>3. AddsFirst(t)'
    BY <1>1, <1>5, <2>1 DEF AddsFirst, Reused, HostsOf
  <2>4. {operation[t].name} \in SUBSET HostNames /\ "add host" \in Steps \ {"list hosts", "set"}
    BY <1>2 DEF Steps
  <2>5. UNCHANGED <<record, hosts, late, lateHosts, copy, seen, applied>>
    BY <1>1, <1>5
  <2>6. QED
    BY <1>1, <1>5, <2>2, <2>3, <2>4, <2>5, ChooseKeeps, Zenon
<1>6. QED
  BY <1>3, <1>4, <1>5 DEF ListHostsToBlock

LEMMA ListHostsToUnblockKeeps ==
  ASSUME Inv, NEW t \in Tasks, ListHostsToUnblock(t)
  PROVE  Keeps
<1>1. /\ t \in holders /\ step[t] = "list hosts" /\ operation[t].kind = "unblock"
      /\ operation[t] \in Writes /\ GoOn(t, "read") /\ ~applied[t]
      /\ UNCHANGED <<record, hosts, late, lateHosts, copy, seen, applied>>
      /\ chosen' = [chosen EXCEPT ![t] = HostsOf(operation[t].address)]
  BY WritingAt DEF ListHostsToUnblock, At, Inv, CallOf
<1>2. HostsOf(operation[t].address) \in SUBSET HostNames
  BY DEF HostsOf
<1>3. step'[t] = "read" /\ operation' = operation /\ holders' = holders /\ applied' = applied
  BY <1>1 DEF Inv, TypeOK, GoOn
<1>4. CallOf(t)' /\ AddsFirst(t)'
  BY <1>1, <1>3, WriteCases DEF CallOf, AddsFirst, Decided
<1>5. QED
  BY <1>1, <1>2, <1>4, ChooseKeeps DEF Steps

LEMMA ReadRecordKeeps ==
  ASSUME Inv, NEW t \in Tasks, ReadRecord(t)
  PROVE  Keeps
<1>1. /\ t \in holders /\ step[t] = "read" /\ UNCHANGED <<hosts, late, lateHosts>>
      /\ ~applied[t] /\ operation[t] \in Writes
      /\ operation[t].kind = "block" => \E host \in HostNames : chosen[t] = {host}
  BY WritingAt DEF ReadRecord, At, Inv, CallOf, Decided
<1>2. CASE ReadError # "none" /\ Finish(t, ReadError)
  BY <1>1, <1>2, ReadErrors, FinishKeeps DEF Outcomes
<1>3. CASE Finish(t, IF operation[t].kind = "block" THEN "changed" ELSE "unchanged")
  BY <1>1, <1>3, FinishKeeps DEF Outcomes
<1>4. CASE /\ ReadError = "none" /\ GoOn(t, "set")
           /\ copy' = [copy EXCEPT ![t] = record]
           /\ UNCHANGED <<record, chosen, seen, applied>>
  <2>1. record \in seen[t] \ {Missing}
    BY <1>1, <1>4, Holding, ReadErrors
  <2>2. /\ step'[t] = "set" /\ operation' = operation /\ holders' = holders
        /\ applied' = applied /\ seen' = seen /\ record' = record /\ copy'[t] = record
        /\ chosen' = chosen
    BY <1>4 DEF Inv, TypeOK, GoOn
  <2>3. CallOf(t)'
    BY <1>1, <2>2, WriteCases DEF CallOf, Decided
  <2>4. SeenBy(t)' /\ AddsFirst(t)'
    BY <1>1, <2>1, <2>2, WriteCases DEF SeenBy, AddsFirst, Writing
  <2>5. FirewallType'
    BY <1>1, <1>4 DEF Inv, TypeOK, FirewallType
  <2>6. chosen' = [chosen EXCEPT ![t] = chosen[t]] /\ chosen[t] \in SUBSET HostNames
    BY <1>4 DEF Inv, TypeOK
  <2>7. record \in Objects /\ "set" \in Steps
    BY DEF Inv, TypeOK, Steps
  <2>8. QED
    BY <1>1, <1>4, <2>3, <2>4, <2>5, <2>6, <2>7, GoOnKeeps
<1>5. QED
  BY <1>2, <1>3, <1>4 DEF ReadRecord

LEMMA AddHostKeeps ==
  ASSUME Inv, NEW t \in Tasks, AddHost(t)
  PROVE  Keeps
<1>1. /\ t \in holders /\ step[t] = "add host" /\ UNCHANGED <<late, lateHosts>>
      /\ ~applied[t] /\ operation[t] \in Writes /\ operation[t].kind = "block"
      /\ chosen[t] = {operation[t].name}
  BY WritingAt DEF AddHost, At, Inv, CallOf
<1>2. operation[t].address \in Addresses /\ operation[t].name \in HostNames
  BY <1>1, OperationCases
<1>3. CASE UNCHANGED hosts /\ Finish(t, "name taken")
  BY <1>1, <1>3, FinishKeeps DEF Outcomes
<1>4. ASSUME hosts' = [hosts EXCEPT ![operation[t].name] = operation[t].address]
      PROVE  hosts' \in [HostNames -> Addresses \cup {NoAddress}]
  BY <1>2, <1>4 DEF Inv, TypeOK
<1>5. CASE /\ hosts' = [hosts EXCEPT ![operation[t].name] = operation[t].address]
           /\ Finish(t, "error")
  <2>1. FirewallType'
    BY <1>1, <1>4, <1>5 DEF Inv, TypeOK, FirewallType, Finish
  <2>2. TypeOK'
    BY <1>5, <2>1, FinishTypes DEF Inv, Outcomes
  <2>3. Exclusive' /\ \A u \in Tasks : CallOf(u)' /\ SeenBy(u)' /\ AddsFirst(u)'
    <3>1. t \in holders /\ Finish(t, "error") /\ "error" \in Outcomes
      BY <1>1, <1>5 DEF Outcomes
    <3>2. QED
      BY <3>1, FinishCalls, Zenon
  <2>4. QED
    BY <2>2, <2>3 DEF Keeps
<1>6. CASE /\ hosts' = [hosts EXCEPT ![operation[t].name] = operation[t].address]
           /\ GoOn(t, "read") /\ UNCHANGED <<record, chosen, copy, seen, applied>>
  <2>1. FirewallType'
    BY <1>1, <1>4, <1>6 DEF Inv, TypeOK, FirewallType
  <2>2. /\ step'[t] = "read" /\ operation' = operation /\ holders' = holders
        /\ applied' = applied /\ seen' = seen /\ record' = record /\ chosen' = chosen
    BY <1>6 DEF Inv, TypeOK, GoOn
  <2>3. CallOf(t)' /\ AddsFirst(t)'
    BY <1>1, <1>2, <2>2, WriteCases DEF CallOf, AddsFirst, Decided
  <2>4. SeenBy(t)'
    BY <1>1, <2>2 DEF Inv, SeenBy, Writing
  <2>5. /\ chosen' = [chosen EXCEPT ![t] = chosen[t]] /\ chosen[t] \in SUBSET HostNames
        /\ copy' = [copy EXCEPT ![t] = copy[t]] /\ copy[t] \in Objects
    BY <1>6 DEF Inv, TypeOK
  <2>6. QED
    BY <1>1, <1>6, <2>1, <2>3, <2>4, <2>5, GoOnKeeps DEF Steps
<1>7. QED
  BY <1>3, <1>5, <1>6 DEF AddHost

\* What a Set may start from, and the effect of a call that has decided.
LEMMA SetBaseOf ==
  ASSUME Inv, NEW t \in holders, step[t] = "set"
  PROVE  /\ SetBase(t) \in Contents \cup {Live}
         /\ Effect(t) \in EffectType /\ Effect(t) \in Effects(operation[t])
         /\ SetBase(t) = Live \/ SetBase(t) \in seen[t] \ {Missing}
<1>1. operation[t] \in Writes /\ t \in Tasks
  BY WritingAt, Holding DEF Decided
<1>2. chosen[t] \subseteq HostNames
  BY <1>1 DEF Inv, TypeOK
<1>3. operation[t].kind = "block" => \E host \in HostNames : chosen[t] = {host}
  BY <1>1 DEF Inv, CallOf, Decided
<1>4. Effect(t) \in EffectType /\ Effect(t) \in Effects(operation[t])
  BY <1>1, <1>2, <1>3, EffectOf
<1>5. CASE operation[t].kind = "switch"
  BY <1>4, <1>5 DEF SetBase
<1>6. CASE operation[t].kind # "switch"
  <2>1. copy[t] \in seen[t] \ {Missing}
    BY <1>1, <1>6 DEF Inv, SeenBy
  <2>2. copy[t] \in Contents
    BY <1>1, <2>1 DEF Inv, TypeOK, Objects
  <2>3. QED
    BY <1>4, <1>6, <2>1, <2>2 DEF SetBase
<1>7. QED
  BY <1>5, <1>6

\* What the object was and becomes is noted for the task that watches it.
LEMMA WatchedBy ==
  ASSUME Inv, NEW object \in Objects
  PROVE  /\ Watched(object) \in [Tasks -> SUBSET Objects]
         /\ \A u \in Tasks : Watched(object)[u] =
                IF Writing(u) THEN seen[u] \cup {object} ELSE seen[u]
  BY DEF Inv, TypeOK, Watched, Writing

LEMMA ApplySetKeeps ==
  ASSUME Inv, NEW t \in Tasks, ApplySet(t)
  PROVE  Keeps
<1>1. /\ t \in holders /\ step[t] = "set" /\ record # Missing
      /\ record' = Put(Based(SetBase(t)), Effect(t)) /\ seen' = Watched(record')
      /\ applied' = [applied EXCEPT ![t] = TRUE] /\ GoOn(t, "confirm")
      /\ UNCHANGED <<hosts, late, lateHosts, chosen, copy>>
  BY DEF ApplySet, At
<1>2. operation[t] \in Writes
  BY <1>1, WritingAt DEF Decided
<1>3. record' \in Objects
  <2>1. Based(SetBase(t)) \in Contents
    BY <1>1, SetBaseOf DEF Based, Inv, TypeOK, Objects
  <2>2. QED
    BY <1>1, <2>1, SetBaseOf, PutType DEF Objects
<1>4. FirewallType' /\ applied' \in [Tasks -> BOOLEAN] /\ "confirm" \in Steps
  BY <1>1, <1>3 DEF Inv, TypeOK, FirewallType, Steps
<1>5. seen' \in [Tasks -> SUBSET Objects]
  BY <1>1, <1>3, WatchedBy
<1>6. TypeOK'
  BY <1>1, <1>4, <1>5, GoOnTypes DEF Inv, TypeOK
<1>7. Frame(t)
  BY <1>1, <1>3, WatchedBy, OthersWait DEF Frame, Writing, Inv, TypeOK
<1>8. /\ step'[t] = "confirm" /\ operation' = operation /\ holders' = holders
      /\ chosen' = chosen
  BY <1>1 DEF Inv, TypeOK, GoOn
<1>9. CallOf(t)'
  BY <1>1, <1>2, <1>8, WriteCases DEF Inv, CallOf, Decided
<1>10. SeenBy(t)' /\ AddsFirst(t)'
  BY <1>1, <1>2, <1>3, <1>8, WatchedBy, WriteCases DEF SeenBy, AddsFirst, Writing
<1>11. Exclusive' /\ \A u \in Tasks \ {t} : CallOf(u)' /\ SeenBy(u)' /\ AddsFirst(u)'
  BY <1>1, <1>7, GoOnOthers
<1>12. QED
  BY <1>6, <1>9, <1>10, <1>11 DEF Keeps

\* A step with which a call goes on, and only its step changes.
LEMMA StepKeeps ==
  ASSUME Inv, NEW t \in holders, NEW request \in {"confirm", "read back"}, GoOn(t, request),
         UNCHANGED <<record, hosts, late, lateHosts, chosen, copy, seen, applied>>,
         step[t] \in Decided
  PROVE  Keeps
<1>1. t \in Tasks /\ operation[t] \in Writes
  BY WritingAt, Holding
<1>2. step'[t] = request /\ operation' = operation /\ holders' = holders
  BY <1>1 DEF Inv, TypeOK, GoOn
<1>3. chosen' = [chosen EXCEPT ![t] = chosen[t]] /\ chosen[t] \in SUBSET HostNames
  BY <1>1 DEF Inv, TypeOK
<1>4. CallOf(t)' /\ AddsFirst(t)'
  BY <1>1, <1>2, WriteCases DEF Inv, CallOf, AddsFirst, Decided
<1>5. request \in Steps /\ request \notin {"list hosts", "set"}
  BY DEF Steps
<1>6. QED
  BY <1>3, <1>4, <1>5, ChooseKeeps

LEMMA FalseConfirmationKeeps ==
  ASSUME Inv, NEW t \in Tasks, FalseConfirmation(t)
  PROVE  Keeps
  BY StepKeeps DEF FalseConfirmation, At, Decided

LEMMA ConfirmKeeps ==
  ASSUME Inv, NEW t \in Tasks, Confirm(t)
  PROVE  Keeps
<1>1. t \in holders /\ step[t] = "confirm" /\ UNCHANGED <<hosts, late, lateHosts>>
  BY DEF Confirm, At
<1>2. CASE GoOn(t, "read back") /\ UNCHANGED <<record, chosen, copy, seen, applied>>
  BY <1>1, <1>2, StepKeeps DEF Decided
<1>3. CASE Finish(t, "changed")
  BY <1>1, <1>3, FinishKeeps DEF Outcomes
<1>4. QED
  BY <1>2, <1>3 DEF Confirm

LEMMA ReadBackKeeps ==
  ASSUME Inv, NEW t \in Tasks, ReadBack(t)
  PROVE  Keeps
<1>1. t \in holders /\ UNCHANGED <<hosts, late, lateHosts>>
  BY DEF ReadBack, At
<1>2. CASE Finish(t, "unverified")
  BY <1>1, <1>2, FinishKeeps DEF Outcomes
<1>3. CASE Finish(t, IF Visible(t) THEN "changed" ELSE "not applied")
  BY <1>1, <1>3, FinishKeeps DEF Outcomes
<1>4. QED
  BY <1>2, <1>3 DEF ReadBack

LEMMA RequestFailsKeeps ==
  ASSUME Inv, NEW t \in Tasks, RequestFails(t)
  PROVE  Keeps
  BY FinishKeeps DEF RequestFails, Outcomes

LEMMA CancelKeeps ==
  ASSUME Inv, NEW t \in Tasks, Cancel(t)
  PROVE  Keeps
<1>1. t \in holders \/ step[t] = "waiting"
  BY DEF Cancel, Inv, CallOf
<1>2. QED
  BY <1>1, FinishKeeps DEF Cancel, Outcomes

LEMMA GiveUpKeeps ==
  ASSUME Inv, NEW t \in Tasks, GiveUp(t)
  PROVE  Keeps
<1>1. t \in holders /\ Finish(t, "error") /\ UNCHANGED hosts /\ "error" \in Outcomes
  BY DEF GiveUp, Outcomes
<1>2. FirewallType'
  <2>1. CASE /\ step[t] = "set"
             /\ late' = late \cup {[base |-> SetBase(t), effect |-> Effect(t)]}
             /\ UNCHANGED lateHosts
    <3>1. [base |-> SetBase(t), effect |-> Effect(t)]
            \in [base : Contents \cup {Live}, effect : EffectType]
      BY <1>1, <2>1, SetBaseOf
    <3>2. QED
      BY <1>1, <2>1, <3>1 DEF Inv, TypeOK, FirewallType, Finish, EffectType
  <2>2. CASE /\ step[t] = "add host"
             /\ lateHosts' = lateHosts \cup {<<operation[t].name, operation[t].address>>}
             /\ UNCHANGED late
    <3>1. operation[t] \in Writes /\ operation[t].kind = "block"
      BY <1>1, <2>2, WritingAt DEF Inv, CallOf
    <3>2. operation[t].name \in HostNames /\ operation[t].address \in Addresses
      BY <3>1, OperationCases
    <3>3. lateHosts' \subseteq HostNames \X Addresses
      <4>1. <<operation[t].name, operation[t].address>> \in HostNames \X Addresses
        BY <3>2
      <4>2. lateHosts \subseteq HostNames \X Addresses
        BY DEF Inv, TypeOK
      <4>3. QED
        BY <2>2, <4>1, <4>2, Zenon
    <3>4. record' = record /\ late' = late /\ hosts' = hosts
      BY <1>1, <2>2 DEF Finish
    <3>5. QED
      BY <3>3, <3>4 DEF Inv, TypeOK, FirewallType
  <2>3. QED
    BY <2>1, <2>2 DEF GiveUp
<1>3. TypeOK'
  BY <1>1, <1>2, FinishTypes DEF Inv
<1>4. Exclusive' /\ \A u \in Tasks : CallOf(u)' /\ SeenBy(u)' /\ AddsFirst(u)'
  BY <1>1, FinishCalls, Zenon
<1>5. QED
  BY <1>3, <1>4 DEF Keeps

------------------------------------------------------------------------------
\* The steps of the firewall.

\* A step of the firewall leaves the calls as they are.
LEMMA FirewallCalls ==
  ASSUME Inv, UNCHANGED <<holders, callVars, applied>>, record' \in Objects,
         UNCHANGED <<record, seen>> \/ seen' = Watched(record')
  PROVE  Exclusive' /\ \A u \in Tasks : CallOf(u)' /\ SeenBy(u)'
<1>1. Exclusive'
  BY DEF Inv, Exclusive
<1>2. ASSUME NEW u \in Tasks PROVE CallOf(u)'
  BY DEF Inv, CallOf, callVars
<1>3. ASSUME NEW u \in Tasks PROVE SeenBy(u)'
  <2>1. /\ record' \in seen'[u] \/ ~Writing(u) \/ UNCHANGED <<record, seen>>
        /\ seen[u] \subseteq seen'[u]
        /\ ~Writing(u) => seen'[u] = seen[u]
    <3>1. CASE UNCHANGED <<record, seen>>
      BY <3>1
    <3>2. CASE seen' = Watched(record')
      BY <3>2, WatchedBy
    <3>3. QED
      BY <3>1, <3>2
  <2>2. SeenBy(u)
    BY DEF Inv
  <2>3. UNCHANGED <<holders, operation, step, copy>>
    BY DEF callVars
  <2>4. QED
    BY <2>1, <2>2, <2>3 DEF SeenBy, Writing
<1>4. QED
  BY <1>1, <1>2, <1>3

\* The hosts of a request stay as they are, or somebody else names their address.
LEMMA FirewallHosts ==
  ASSUME Inv, UNCHANGED <<operation, step>>, foreign \subseteq foreign',
         NEW host, NEW address \in Addresses \cup {NoAddress},
         hosts' \in {hosts, [hosts EXCEPT ![host] = address]},
         hosts' = hosts \/ address \in foreign' \cup {NoAddress}
  PROVE  (\A u \in Tasks : AddsFirst(u)') /\ OneHostPerAddress'
<1>1. \A other \in Addresses \ foreign' : \A g \in HostNames :
          hosts'[g] = other => hosts[g] = other
  BY AddressesAssumption DEF Inv, TypeOK, AddressesAssumption
<1>2. OneHostPerAddress'
  BY <1>1 DEF Inv, OneHostPerAddress, HostsOf
<1>3. ASSUME NEW u \in Tasks, step[u] = "add host"
      PROVE  HostsOf(operation[u].address)' = {} \/ operation[u].address \in foreign'
  <2>1. u \in holders
    BY <1>3 DEF Inv, CallOf
  <2>2. operation[u] \in Writes /\ operation[u].kind = "block"
    BY <1>3, <2>1, WritingAt DEF Inv, CallOf
  <2>3. operation[u].address \in Addresses
    BY <2>2, OperationCases
  <2>4. HostsOf(operation[u].address) = {} \/ operation[u].address \in foreign
    BY <1>3 DEF Inv, AddsFirst
  <2>5. QED
    BY <1>1, <2>3, <2>4 DEF HostsOf
<1>4. QED
  BY <1>2, <1>3 DEF AddsFirst

LEMMA LateSetType ==
  ASSUME Inv, NEW change \in late,
         record' = LET changed == Put(Based(change.base), change.effect)
                   IN  IF record # Missing /\ Acceptable(changed) THEN changed ELSE record
  PROVE  record' \in Objects
<1>1. change.base \in Contents \cup {Live} /\ change.effect \in EffectType
  BY DEF Inv, TypeOK, EffectType
<1>2. CASE record # Missing
  <2>1. Based(change.base) \in Contents
    BY <1>1, <1>2 DEF Based, Inv, TypeOK, Objects
  <2>2. Put(Based(change.base), change.effect) \in Contents
    BY <1>1, <2>1, PutType
  <2>3. QED
    BY <2>2 DEF Inv, TypeOK, Objects
<1>3. QED
  BY <1>2 DEF Inv, TypeOK

LEMMA LateSetKeeps ==
  ASSUME Inv, LateSet
  PROVE  Keeps /\ OneHostPerAddress'
<1>1. record' \in Objects
  BY LateSetType DEF LateSet
<1>2. seen' \in [Tasks -> SUBSET Objects]
  BY <1>1, WatchedBy DEF LateSet
<1>3. TypeOK'
  BY <1>1, <1>2 DEF LateSet, Inv, TypeOK, callVars, Outcomes
<1>4. Exclusive' /\ \A u \in Tasks : CallOf(u)' /\ SeenBy(u)'
  BY <1>1, FirewallCalls DEF LateSet
<1>5. \A u \in Tasks : AddsFirst(u)'
  BY DEF LateSet, Inv, AddsFirst, HostsOf, callVars
<1>6. OneHostPerAddress'
  BY DEF LateSet, Inv, OneHostPerAddress, HostsOf
<1>7. QED
  BY <1>3, <1>4, <1>5, <1>6 DEF Keeps

LEMMA LateAddHostKeeps ==
  ASSUME Inv, LateAddHost
  PROVE  Keeps /\ OneHostPerAddress'
<1>1. PICK add \in lateHosts :
          /\ lateHosts' = lateHosts \ {add}
          /\ hosts' = IF HasName(add[1]) THEN hosts ELSE [hosts EXCEPT ![add[1]] = add[2]]
          /\ foreign' = foreign \cup {add[2]}
  BY DEF LateAddHost
<1>2. add[1] \in HostNames /\ add[2] \in Addresses
  BY DEF Inv, TypeOK
<1>3. hosts' \in [HostNames -> Addresses \cup {NoAddress}]
  BY <1>1, <1>2 DEF Inv, TypeOK
<1>4. TypeOK'
  BY <1>1, <1>2, <1>3 DEF LateAddHost, Inv, TypeOK, callVars, Outcomes
<1>5. Exclusive' /\ \A u \in Tasks : CallOf(u)' /\ SeenBy(u)'
  BY FirewallCalls DEF LateAddHost, Inv, TypeOK
<1>6. (\A u \in Tasks : AddsFirst(u)') /\ OneHostPerAddress'
  <2>1. hosts' \in {hosts, [hosts EXCEPT ![add[1]] = add[2]]} /\ add[2] \in foreign'
        /\ foreign \subseteq foreign' /\ UNCHANGED <<operation, step>>
    BY <1>1 DEF LateAddHost, callVars
  <2>2. QED
    BY <1>2, <2>1, FirewallHosts
<1>7. QED
  BY <1>4, <1>5, <1>6 DEF Keeps

LEMMA AdminEditKeeps ==
  ASSUME Inv, AdminEdit
  PROVE  Keeps /\ OneHostPerAddress'
<1>1. edits + 1 \in 0..MaxEdits
  BY EditsAssumption DEF AdminEdit, Inv, TypeOK, EditsAssumption
<1>2. record' \in Objects
  BY <1>1, EntriesTyped DEF AdminEdit, Objects, Contents
<1>3. seen' \in [Tasks -> SUBSET Objects]
  BY <1>2, WatchedBy DEF AdminEdit
<1>4. TypeOK'
  BY <1>1, <1>2, <1>3 DEF AdminEdit, Inv, TypeOK, callVars, Outcomes
<1>5. Exclusive' /\ \A u \in Tasks : CallOf(u)' /\ SeenBy(u)'
  BY <1>2, FirewallCalls DEF AdminEdit
<1>6. \A u \in Tasks : AddsFirst(u)'
  BY DEF AdminEdit, Inv, AddsFirst, HostsOf, callVars
<1>7. OneHostPerAddress'
  BY DEF AdminEdit, Inv, OneHostPerAddress, HostsOf
<1>8. QED
  BY <1>4, <1>5, <1>6, <1>7 DEF Keeps

LEMMA AdminEditsHostKeeps ==
  ASSUME Inv, NEW host \in HostNames, AdminEditsHost(host)
  PROVE  Keeps /\ OneHostPerAddress'
<1>1. PICK address \in Addresses \cup {NoAddress} :
          /\ hosts' = [hosts EXCEPT ![host] = address]
          /\ foreign' = foreign \cup ({address} \ {NoAddress})
  BY DEF AdminEditsHost
<1>2. edits + 1 \in 0..MaxEdits
  <2>1. edits \in 0..MaxEdits /\ edits < MaxEdits
    BY DEF AdminEditsHost, Inv, TypeOK
  <2>2. QED
    BY <2>1, EditsAssumption DEF EditsAssumption
<1>3. hosts' \in [HostNames -> Addresses \cup {NoAddress}]
  BY <1>1 DEF Inv, TypeOK
<1>4. TypeOK'
  BY <1>1, <1>2, <1>3 DEF AdminEditsHost, Inv, TypeOK, callVars, Outcomes
<1>5. Exclusive' /\ \A u \in Tasks : CallOf(u)' /\ SeenBy(u)'
  BY FirewallCalls DEF AdminEditsHost, Inv, TypeOK
<1>6. (\A u \in Tasks : AddsFirst(u)') /\ OneHostPerAddress'
  <2>1. hosts' \in {hosts, [hosts EXCEPT ![host] = address]}
        /\ address \in foreign' \cup {NoAddress}
        /\ foreign \subseteq foreign' /\ UNCHANGED <<operation, step>>
    BY <1>1 DEF AdminEditsHost, callVars
  <2>2. QED
    BY <2>1, FirewallHosts
<1>7. QED
  BY <1>4, <1>5, <1>6 DEF Keeps

------------------------------------------------------------------------------
\* The invariant.

LEMMA TaskKeeps ==
  ASSUME Inv, NEW t \in Tasks, Call(t) \/ Acquire(t) \/ Request(t) \/ GiveUp(t) \/ Cancel(t)
  PROVE  Keeps
<1>1. CASE Request(t)
  BY <1>1, GetRecordsKeeps, CheckGroupKeeps, ListHostsToBlockKeeps, ListHostsToUnblockKeeps,
     ReadRecordKeeps, AddHostKeeps, ApplySetKeeps, FalseConfirmationKeeps, ConfirmKeeps,
     ReadBackKeeps, RequestFailsKeeps DEF Request
<1>2. QED
  BY <1>1, CallKeeps, AcquireKeeps, GiveUpKeeps, CancelKeeps

\* Only the Add of a block makes a host, for an address that has none.
LEMMA TaskKeepsHosts ==
  ASSUME Inv, NEW t \in Tasks, Call(t) \/ Acquire(t) \/ Request(t) \/ GiveUp(t) \/ Cancel(t)
  PROVE  OneHostPerAddress'
<1>1. foreign' = foreign
  BY DEF Call, Acquire, Request, GetRecords, CheckGroup, ListHostsToBlock,
     ListHostsToUnblock, ReadRecord, AddHost, ApplySet, FalseConfirmation, Confirm, ReadBack,
     RequestFails, GiveUp, Cancel, Finish, GoOn, historyVars
<1>2. CASE AddHost(t)
  <2>1. t \in holders /\ step[t] = "add host"
    BY <1>2 DEF AddHost, At
  <2>2. operation[t].address \in Addresses /\ operation[t].name \in HostNames
    BY <2>1, WritingAt, OperationCases DEF Inv, CallOf
  <2>3. HostsOf(operation[t].address) = {} \/ operation[t].address \in foreign
    BY <2>1 DEF Inv, AddsFirst
  <2>4. hosts' = hosts \/ hosts' = [hosts EXCEPT ![operation[t].name] = operation[t].address]
    BY <1>2 DEF AddHost
  <2>5. ASSUME NEW address \in Addresses \ foreign,
               NEW g \in HostNames, NEW h \in HostNames,
               hosts'[g] = address, hosts'[h] = address
        PROVE  g = h
    <3>1. CASE hosts' = hosts \/ address # operation[t].address
      BY <2>2, <2>4, <2>5, <3>1 DEF Inv, TypeOK, OneHostPerAddress, HostsOf
    <3>2. CASE address = operation[t].address /\
               hosts' = [hosts EXCEPT ![operation[t].name] = operation[t].address]
      <4>1. \A host \in HostNames : hosts[host] # address
        BY <2>3, <3>2 DEF HostsOf
      <4>2. QED
        BY <2>5, <3>2, <4>1 DEF Inv, TypeOK
    <3>3. QED
      BY <2>4, <3>1, <3>2
  <2>6. QED
    BY <1>1, <2>5 DEF OneHostPerAddress, HostsOf
<1>3. CASE ~AddHost(t)
  <2>1. hosts' = hosts
    BY <1>3 DEF Call, Acquire, Request, GetRecords, CheckGroup, ListHostsToBlock,
       ListHostsToUnblock, ReadRecord, ApplySet, FalseConfirmation, Confirm, ReadBack,
       RequestFails, GiveUp, Cancel, firewallVars
  <2>2. QED
    BY <1>1, <2>1 DEF Inv, OneHostPerAddress, HostsOf
<1>4. QED
  BY <1>2, <1>3

LEMMA InvStep == Inv /\ [Next]_vars => Inv'
<1> SUFFICES ASSUME Inv, [Next]_vars PROVE Inv'
  OBVIOUS
<1>1. ASSUME NEW t \in Tasks, Call(t) \/ Acquire(t) \/ Request(t) \/ GiveUp(t) \/ Cancel(t)
      PROVE  Inv'
  BY <1>1, TaskKeeps, TaskKeepsHosts DEF Keeps, Inv
<1>2. CASE LateSet
  BY <1>2, LateSetKeeps DEF Keeps, Inv
<1>3. CASE LateAddHost
  BY <1>3, LateAddHostKeeps DEF Keeps, Inv
<1>4. CASE AdminEdit
  BY <1>4, AdminEditKeeps DEF Keeps, Inv
<1>5. ASSUME NEW host \in HostNames, AdminEditsHost(host) PROVE Inv'
  BY <1>5, AdminEditsHostKeeps DEF Keeps, Inv
<1>6. CASE UNCHANGED vars
  <2>1. /\ UNCHANGED <<objectKind, readOnly, record, hosts, edits, late, lateHosts, holders>>
        /\ UNCHANGED <<operation, step, chosen, copy, reply, seen, applied, foreign>>
    BY <1>6 DEF vars, firewallVars, callVars, historyVars
  <2>2. TypeOK' /\ Exclusive' /\ OneHostPerAddress'
    BY <2>1 DEF Inv, TypeOK, Exclusive, OneHostPerAddress, HostsOf
  <2>3. ASSUME NEW t \in Tasks PROVE CallOf(t)' /\ SeenBy(t)' /\ AddsFirst(t)'
    <3>1. CallOf(t) /\ SeenBy(t) /\ AddsFirst(t)
      BY DEF Inv
    <3>2. CallOf(t)'
      BY <2>1, <3>1 DEF CallOf
    <3>3. SeenBy(t)' /\ AddsFirst(t)'
      BY <2>1, <3>1 DEF SeenBy, AddsFirst, Writing, HostsOf
    <3>4. QED
      BY <3>2, <3>3
  <2>4. QED
    BY <2>2, <2>3 DEF Inv
<1>7. QED
  BY <1>1, <1>2, <1>3, <1>4, <1>5, <1>6 DEF Next

\* The invariant of the client: one call in the slot, which has seen every
\* state of its object since, and adds a host only for an address without one.
THEOREM InvCorrect == Spec => []Inv
<1>1. Init => Inv
  BY InitInv
<1>2. Inv /\ [Next]_vars => Inv'
  BY InvStep
<1>3. QED
  BY <1>1, <1>2, PTL DEF Spec

\* Every variable of the client keeps its type, whatever is asked, fails, is
\* given up or edited (sophos_client.py:542).
THEOREM TypeCorrect == Spec => []TypeOK
<1>1. Inv => TypeOK
  BY DEF Inv
<1>2. QED
  BY <1>1, InvCorrect, PTL

\* Whatever fails or is cancelled, the slot is free unless a call at a request
\* holds it (sophos_client.py:366).
THEOREM SlotNotLeakedCorrect == Spec => []SlotNotLeaked
<1>1. Inv => SlotNotLeaked
  BY DEF Inv, TypeOK, CallOf, SlotNotLeaked
<1>2. QED
  BY <1>1, InvCorrect, PTL

\* The client makes no second host for an address nobody else, and no request
\* given up, has named (sophos_client.py:704).
THEOREM OneHostPerAddressCorrect == Spec => []OneHostPerAddress
<1>1. Inv => OneHostPerAddress
  BY DEF Inv
<1>2. QED
  BY <1>1, InvCorrect, PTL

------------------------------------------------------------------------------
\* What calls report.

\* A call ends only by the step of its task.
LEMMA EndsBy ==
  ASSUME Inv, [Next]_vars, NEW t \in Tasks, step[t] # "idle", step'[t] = "idle"
  PROVE  Request(t) \/ GiveUp(t) \/ Cancel(t)
<1>1. step' # step
  OBVIOUS
<1>2. PICK u \in Tasks : Call(u) \/ Acquire(u) \/ Request(u) \/ GiveUp(u) \/ Cancel(u)
  BY <1>1 DEF Next, vars, callVars, LateSet, LateAddHost, AdminEdit, AdminEditsHost
<1>3. \E request : step' = [step EXCEPT ![u] = request]
  BY <1>2 DEF Call, Acquire, Request, GetRecords, CheckGroup, ListHostsToBlock,
     ListHostsToUnblock, ReadRecord, AddHost, ApplySet, FalseConfirmation, Confirm, ReadBack,
     RequestFails, GiveUp, Cancel, Finish, GoOn
<1>4. u = t
  BY <1>3 DEF Inv, TypeOK
<1>5. ~Call(t)
  BY DEF Call, Inv, TypeOK, Steps
<1>6. ~Acquire(t)
  <2>1. SUFFICES ASSUME Acquire(t) PROVE FALSE
    OBVIOUS
  <2>2. operation[t] \in Writes \cup {Poll}
    BY <2>1 DEF Acquire, Inv, TypeOK, CallOf
  <2>3. step'[t] = FirstStep(operation[t])
    BY <2>1 DEF Acquire, Inv, TypeOK
  <2>4. QED
    BY <2>2, <2>3, FirstSteps
<1>7. QED
  BY <1>2, <1>4, <1>5, <1>6

\* The reports of the ends of a call, and what they stand for.
Report(t) ==
    /\ reply' = "changed" /\ ReadsBack(t) =>
         \E object \in seen[t] \ {Missing} : Done(t, object)
    /\ reply' = "unchanged" => \E object \in seen[t] \ {Missing} : Done(t, object)
    /\ reply' = "already blocked" =>
         \E object \in seen[t] \ {Missing} :
             HostsOf(operation[t].address) \cap object.entries # {}
    /\ reply' = "not applied" => \E object \in seen[t] \ {Missing} : ~Done(t, object)
    /\ reply' = "not found" => Missing \in seen[t]

LEMMA EndReports ==
  ASSUME Inv, NEW t \in Tasks, Request(t) \/ GiveUp(t) \/ Cancel(t), step'[t] = "idle"
  PROVE  Report(t)
<1>1. CASE reply' \in {"error", "read", "unverified", "name taken", "not editable", "none"}
  BY <1>1 DEF Report
<1>2. CASE GetRecords(t) \/ RequestFails(t) \/ GiveUp(t) \/ Cancel(t) \/ AddHost(t)
  BY <1>1, <1>2 DEF GetRecords, RequestFails, GiveUp, Cancel, AddHost, Finish, GoOn
<1>3. CASE \E request \in Steps : GoOn(t, request)
  BY <1>1, <1>3 DEF GoOn
<1>4. CASE \/ ListHostsToUnblock(t) \/ ApplySet(t) \/ FalseConfirmation(t)
  BY <1>3, <1>4 DEF ListHostsToUnblock, ApplySet, FalseConfirmation, Steps
<1>5. CASE CheckGroup(t)
  <2>1. t \in holders /\ operation[t] \in Writes
    BY <1>5, WritingAt DEF CheckGroup, At
  <2>2. CASE ReadError # "none" /\ Finish(t, ReadError)
    BY <1>1, <2>1, <2>2, ReadErrors, Holding DEF Report, Finish
  <2>3. QED
    BY <1>3, <1>5, <2>2 DEF CheckGroup, Steps
<1>6. CASE ListHostsToBlock(t)
  <2>1. t \in holders /\ step[t] = "list hosts" /\ operation[t].kind = "block"
    BY <1>6 DEF ListHostsToBlock, At
  <2>2. copy[t] \in seen[t] \ {Missing}
    BY <2>1 DEF Inv, SeenBy
  <2>3. CASE Reused(t) \cap copy[t].entries # {} /\ Finish(t, "already blocked")
    BY <2>2, <2>3 DEF Report, Finish, Reused
  <2>4. QED
    BY <1>3, <1>6, <2>3 DEF ListHostsToBlock, Steps
<1>7. CASE ReadRecord(t)
  <2>1. t \in holders /\ operation[t] \in Writes
    BY <1>7, WritingAt DEF ReadRecord, At, Decided
  <2>2. record \in seen[t]
    BY <2>1, Holding
  <2>3. CASE ReadError # "none" /\ Finish(t, ReadError)
    BY <1>1, <2>2, <2>3, ReadErrors DEF Report, Finish
  <2>4. CASE /\ ReadError = "none" /\ Unneeded(t, record)
             /\ Finish(t, IF operation[t].kind = "block" THEN "changed" ELSE "unchanged")
    BY <2>2, <2>4, ReadErrors DEF Report, Finish, Unneeded
  <2>5. QED
    BY <1>3, <1>7, <2>3, <2>4 DEF ReadRecord, Steps
<1>8. CASE Confirm(t)
  <2>1. CASE ~ReadsBack(t) /\ Finish(t, "changed")
    BY <2>1 DEF Report, Finish
  <2>2. QED
    BY <1>3, <1>8, <2>1 DEF Confirm, Steps
<1>9. CASE ReadBack(t)
  <2>1. t \in holders /\ operation[t] \in Writes
    BY <1>9, WritingAt DEF ReadBack, At, Decided
  <2>2. record \in seen[t]
    BY <2>1, Holding
  <2>3. CASE Finish(t, "unverified")
    BY <1>1, <2>3 DEF Finish
  <2>4. CASE record # Missing /\ Finish(t, IF Visible(t) THEN "changed" ELSE "not applied")
    BY <2>2, <2>4 DEF Report, Finish, Visible
  <2>5. QED
    BY <1>9, <2>3, <2>4 DEF ReadBack
<1>10. QED
  BY <1>2, <1>4, <1>5, <1>6, <1>7, <1>8, <1>9 DEF Request

\* A call that reports a state of its object has seen it in that state while it
\* had the slot: also when an answer of 200 confirms nothing
\* (sophos_client.py:553).
THEOREM TruthfulCorrect == Spec => Truthful
<1>1. ASSUME Inv, [Next]_vars, NEW t \in Tasks, step[t] # "idle", step'[t] = "idle"
      PROVE  Report(t)
  BY <1>1, EndsBy, EndReports
<1>2. Inv /\ [Next]_vars =>
      \A t \in Tasks :
          /\ Ends(t, {"changed"}) /\ ReadsBack(t) =>
               \E object \in seen[t] \ {Missing} : Done(t, object)
          /\ Ends(t, {"unchanged"}) => \E object \in seen[t] \ {Missing} : Done(t, object)
          /\ Ends(t, {"already blocked"}) =>
               \E object \in seen[t] \ {Missing} :
                   HostsOf(operation[t].address) \cap object.entries # {}
          /\ Ends(t, {"not applied"}) => \E object \in seen[t] \ {Missing} : ~Done(t, object)
          /\ Ends(t, {"not found"}) => Missing \in seen[t]
  BY <1>1 DEF Ends, Report
<1>3. QED
  BY <1>2, InvCorrect, PTL DEF Spec, Truthful, SomeSeen

------------------------------------------------------------------------------
\* The client implements ObjectUpdate.

\* What the mapping hides is empty anyway.
LEMMA Mapped == Inv => SeenInSlot = seen /\ AppliedInSlot = applied
<1> SUFFICES ASSUME Inv PROVE SeenInSlot = seen /\ AppliedInSlot = applied
  OBVIOUS
<1>1. seen \in [Tasks -> SUBSET Objects] /\ applied \in [Tasks -> BOOLEAN]
  BY DEF Inv, TypeOK
<1>2. \A t \in Tasks : t \notin holders => seen[t] = {} /\ ~applied[t]
  BY DEF Inv, SeenBy, CallOf, Writing
<1>3. SeenInSlot = seen
  BY <1>1, <1>2 DEF SeenInSlot
<1>4. AppliedInSlot = applied
  BY <1>1, <1>2 DEF AppliedInSlot
<1>5. QED
  BY <1>3, <1>4

\* The steps of the abstract specification, on the client's own variables.
AskStep(t) ==
    /\ operation[t] = NoOperation
    /\ \E o \in Writes \cup {Poll} : operation' = [operation EXCEPT ![t] = o]
    /\ UNCHANGED <<record, seen, applied, late>>

OpenStep(t) ==
    /\ operation[t] \in Writes
    /\ \A u \in Tasks : seen[u] = {}
    /\ seen' = [seen EXCEPT ![t] = {record}]
    /\ UNCHANGED <<record, operation, applied, late>>

WatchedToo(object) ==
    [t \in Tasks |-> IF seen[t] = {} THEN {} ELSE seen[t] \cup {object}]

UpdateStep(t) ==
    /\ seen[t] # {} /\ ~applied[t]
    /\ \E base \in seen[t] \ {Missing}, effect \in Effects(operation[t]) :
        record' = Put(base, effect)
    /\ seen' = WatchedToo(record')
    /\ applied' = [applied EXCEPT ![t] = TRUE]
    /\ UNCHANGED <<operation, late>>

CloseStep(t) ==
    /\ seen[t] # {}
    /\ seen' = [seen EXCEPT ![t] = {}]
    /\ applied' = [applied EXCEPT ![t] = FALSE]
    /\ \/ UNCHANGED late
       \/ /\ ~applied[t]
          /\ \E base \in (seen[t] \cup {Live}) \ {Missing},
                effect \in Effects(operation[t]) :
                late' = late \cup {[base |-> base, effect |-> effect]}
    /\ operation' = [operation EXCEPT ![t] = NoOperation]
    /\ UNCHANGED record

LeaveStep(t) ==
    /\ seen[t] = {}
    /\ operation' = [operation EXCEPT ![t] = NoOperation]
    /\ UNCHANGED <<record, seen, applied, late>>

LateStep ==
    \E change \in late :
        /\ late' = late \ {change}
        /\ record' \in {record, Put(Based(change.base), change.effect)}
        /\ seen' = WatchedToo(record')
        /\ UNCHANGED <<operation, applied>>

EditStep ==
    /\ record' \in Objects
    /\ seen' = WatchedToo(record')
    /\ UNCHANGED <<operation, applied, late>>

Quiet == UNCHANGED <<record, operation, seen, applied, late>>

\* The data of ObjectUpdate are those of the client.
LEMMA AbstractData ==
  /\ Atomic!Writes = Writes /\ Atomic!Poll = Poll /\ Atomic!NoOperation = NoOperation
  /\ Atomic!Objects = Objects /\ Atomic!Missing = Missing /\ Atomic!Live = Live
  /\ \A operation_ : Atomic!Effects(operation_) = Effects(operation_)
  /\ \A content, effect : Atomic!Put(content, effect) = Put(content, effect)
  BY Zenon DEF Writes, Blocks, Unblocks, UrlCalls, Updates, Poll, NoOperation, Objects, Contents,
     Missing, Live, Entries, Effects, Put,
     Atomic!Writes, Atomic!Blocks, Atomic!Unblocks, Atomic!UrlCalls, Atomic!Updates, Atomic!Poll,
     Atomic!NoOperation, Atomic!Objects, Atomic!Contents, Atomic!Missing, Atomic!Live,
     Atomic!Entries, Atomic!Effects, Atomic!Put

\* They are the steps of ObjectUpdate.
LEMMA AbstractSteps ==
  ASSUME Inv, Inv',
         \/ \E t \in Tasks : \/ AskStep(t) \/ OpenStep(t) \/ UpdateStep(t) \/ CloseStep(t)
                             \/ LeaveStep(t)
         \/ LateStep \/ EditStep \/ Quiet
  PROVE  [Atomic!Next]_Atomic!vars
<1>1. SeenInSlot = seen /\ AppliedInSlot = applied
  BY Mapped
<1>2. SeenInSlot' = seen' /\ AppliedInSlot' = applied'
  <2>1. (Inv => SeenInSlot = seen /\ AppliedInSlot = applied)'
    BY Mapped, PTL
  <2>2. QED
    BY <2>1
<1>3. ASSUME NEW t \in Tasks, AskStep(t) PROVE Atomic!Ask(t)
  BY <1>1, <1>2, <1>3, AbstractData DEF AskStep, Atomic!Ask
<1>4. ASSUME NEW t \in Tasks, OpenStep(t) PROVE Atomic!Open(t)
  BY <1>1, <1>2, <1>4, AbstractData DEF OpenStep, Atomic!Open
<1>5. ASSUME NEW t \in Tasks, UpdateStep(t) PROVE Atomic!Update(t)
  BY <1>1, <1>2, <1>5, AbstractData DEF UpdateStep, WatchedToo, Atomic!Update, Atomic!Watched
<1>6. ASSUME NEW t \in Tasks, CloseStep(t) PROVE Atomic!Close(t)
  BY <1>1, <1>2, <1>6, AbstractData DEF CloseStep, Atomic!Close
<1>7. ASSUME NEW t \in Tasks, LeaveStep(t) PROVE Atomic!Leave(t)
  BY <1>1, <1>2, <1>7, AbstractData DEF LeaveStep, Atomic!Leave
<1>8. ASSUME LateStep PROVE Atomic!LateUpdate
  BY <1>1, <1>2, <1>8, AbstractData
  DEF LateStep, WatchedToo, Based, Atomic!LateUpdate, Atomic!Watched, Atomic!Based
<1>9. ASSUME EditStep PROVE Atomic!AdminEdit
  BY <1>1, <1>2, <1>9, AbstractData DEF EditStep, WatchedToo, Atomic!AdminEdit, Atomic!Watched
<1>10. ASSUME Quiet PROVE UNCHANGED Atomic!vars
  BY <1>1, <1>2, <1>10, AbstractData DEF Quiet, Atomic!vars
<1>11. QED
  BY <1>3, <1>4, <1>5, <1>6, <1>7, <1>8, <1>9, <1>10 DEF Atomic!Next

\* The end of a call closes it, or it leaves without having been open.
LEMMA FinishCloses ==
  ASSUME Inv, NEW t \in Tasks, NEW outcome, Finish(t, outcome), UNCHANGED late
  PROVE  CloseStep(t) \/ LeaveStep(t)
<1>1. CASE seen[t] # {}
  BY <1>1 DEF Finish, CloseStep
<1>2. CASE seen[t] = {}
  <2>1. ~applied[t]
    BY <1>2, WriteCases DEF Inv, SeenBy, CallOf, Writing, Decided
  <2>2. seen' = seen /\ applied' = applied
    BY <1>2, <2>1 DEF Finish, Inv, TypeOK
  <2>3. QED
    BY <1>2, <2>2 DEF Finish, LeaveStep
<1>3. QED
  BY <1>1, <1>2

\* The firewall's note of a state is the one ObjectUpdate makes.
LEMMA WatchedIsToo ==
  ASSUME Inv, NEW object
  PROVE  Watched(object) = WatchedToo(object)
<1>1. \A t \in Tasks : seen[t] = {} <=> ~Writing(t)
  BY DEF Inv, SeenBy
<1>2. QED
  BY <1>1 DEF Watched, WatchedToo, Writing

LEMMA ApplySetUpdates ==
  ASSUME Inv, NEW t \in Tasks, ApplySet(t)
  PROVE  UpdateStep(t)
<1>1. /\ t \in holders /\ step[t] = "set" /\ record # Missing
      /\ record' = Put(Based(SetBase(t)), Effect(t)) /\ seen' = Watched(record')
      /\ applied' = [applied EXCEPT ![t] = TRUE] /\ UNCHANGED <<operation, late>>
  BY DEF ApplySet, At, GoOn
<1>2. record \in seen[t] /\ ~applied[t]
  BY <1>1, WritingAt, Holding DEF Inv, CallOf, Decided
<1>3. Based(SetBase(t)) \in seen[t] \ {Missing}
  <2>1. Live \notin Objects
    BY ContentCases DEF Objects
  <2>2. SetBase(t) = Live \/ SetBase(t) \in seen[t] \ {Missing}
    BY <1>1, SetBaseOf
  <2>3. seen[t] \subseteq Objects
    BY DEF Inv, TypeOK
  <2>4. QED
    BY <1>1, <1>2, <2>1, <2>2, <2>3 DEF Based
<1>4. Effect(t) \in Effects(operation[t])
  BY <1>1, SetBaseOf
<1>5. seen' = WatchedToo(record')
  BY <1>1, WatchedIsToo
<1>6. \E base \in seen[t] \ {Missing}, effect \in Effects(operation[t]) :
          record' = Put(base, effect)
  BY <1>1, <1>3, <1>4
<1>7. QED
  BY <1>1, <1>2, <1>5, <1>6 DEF UpdateStep

LEMMA GiveUpCloses ==
  ASSUME Inv, NEW t \in Tasks, GiveUp(t)
  PROVE  CloseStep(t) \/ LeaveStep(t)
<1>1. t \in holders /\ Finish(t, "error")
  BY DEF GiveUp
<1>2. CASE UNCHANGED late
  BY <1>1, <1>2, FinishCloses
<1>3. CASE /\ step[t] = "set"
           /\ late' = late \cup {[base |-> SetBase(t), effect |-> Effect(t)]}
  <2>1. operation[t] \in Writes /\ ~applied[t] /\ seen[t] # {}
    BY <1>1, <1>3, WritingAt, Holding DEF Inv, CallOf, Decided
  <2>2. /\ SetBase(t) \in (seen[t] \cup {Live}) \ {Missing}
        /\ Effect(t) \in Effects(operation[t])
    BY <1>1, <1>3, SetBaseOf, ContentCases
  <2>3. \E base \in (seen[t] \cup {Live}) \ {Missing}, effect \in Effects(operation[t]) :
            late' = late \cup {[base |-> base, effect |-> effect]}
    BY <1>3, <2>2
  <2>4. QED
    BY <1>1, <2>1, <2>3 DEF Finish, CloseStep
<1>4. QED
  BY <1>2, <1>3 DEF GiveUp

LEMMA RequestRefines ==
  ASSUME Inv, NEW t \in Tasks, Request(t)
  PROVE  UpdateStep(t) \/ CloseStep(t) \/ LeaveStep(t) \/ Quiet
<1>1. CASE ApplySet(t)
  BY <1>1, ApplySetUpdates
<1>2. CASE (\E outcome \in Outcomes : Finish(t, outcome)) /\ UNCHANGED late
  BY <1>2, FinishCloses
<1>3. CASE (\E request \in Steps : GoOn(t, request)) /\ UNCHANGED <<record, seen, applied, late>>
  BY <1>3 DEF GoOn, Quiet
<1>4. CASE GetRecords(t) \/ RequestFails(t)
  BY <1>2, <1>4 DEF GetRecords, RequestFails, Outcomes
<1>5. CASE CheckGroup(t)
  BY <1>2, <1>3, <1>5, ReadErrors DEF CheckGroup, Outcomes, Steps
<1>6. CASE ListHostsToBlock(t)
  BY <1>2, <1>3, <1>6 DEF ListHostsToBlock, Outcomes, Steps
<1>7. CASE ListHostsToUnblock(t)
  BY <1>3, <1>7 DEF ListHostsToUnblock, Steps
<1>8. CASE ReadRecord(t)
  <2>1. ReadError \in Outcomes
        /\ (IF operation[t].kind = "block" THEN "changed" ELSE "unchanged") \in Outcomes
    BY ReadErrors DEF Outcomes
  <2>2. QED
    BY <1>2, <1>3, <1>8, <2>1 DEF ReadRecord, Steps
<1>9. CASE AddHost(t)
  BY <1>2, <1>3, <1>9 DEF AddHost, Outcomes, Steps
<1>10. CASE FalseConfirmation(t)
  BY <1>3, <1>10 DEF FalseConfirmation, Steps
<1>11. CASE Confirm(t)
  BY <1>2, <1>3, <1>11 DEF Confirm, Outcomes, Steps
<1>12. CASE ReadBack(t)
  <2>1. /\ "unverified" \in Outcomes
        /\ (IF Visible(t) THEN "changed" ELSE "not applied") \in Outcomes
    BY DEF Outcomes
  <2>2. QED
    BY <1>2, <1>12, <2>1 DEF ReadBack
<1>13. QED
  BY <1>1, <1>4, <1>5, <1>6, <1>7, <1>8, <1>9, <1>10, <1>11, <1>12 DEF Request

LEMMA CallRefines ==
  ASSUME Inv, NEW t \in Tasks, Call(t)
  PROVE  AskStep(t)
<1>1. operation[t] = NoOperation
  BY DEF Call, Inv, CallOf
<1>2. \E o \in Writes \cup {Poll} : operation' = [operation EXCEPT ![t] = o]
  BY OperationsTyped DEF Call, Inv, TypeOK
<1>3. QED
  BY <1>1, <1>2 DEF Call, AskStep, firewallVars, historyVars

LEMMA AcquireRefines ==
  ASSUME Inv, NEW t \in Tasks, Acquire(t)
  PROVE  OpenStep(t) \/ Quiet
<1>1. holders = {} /\ operation[t] \in Writes \cup {Poll} /\ \A u \in Tasks : seen[u] = {}
  BY DEF Acquire, SlotFree, Inv, TypeOK, CallOf, SeenBy, Writing
<1>2. CASE operation[t] = Poll
  <2>1. seen' = seen
    BY <1>1, <1>2 DEF Acquire, Inv, TypeOK
  <2>2. QED
    BY <2>1 DEF Acquire, Quiet, firewallVars
<1>3. CASE operation[t] # Poll
  BY <1>1, <1>3 DEF Acquire, OpenStep, firewallVars
<1>4. QED
  BY <1>2, <1>3

LEMMA LateSetRefines ==
  ASSUME Inv, LateSet
  PROVE  LateStep
<1>1. PICK change \in late :
          /\ late' = late \ {change}
          /\ record' \in {record, Put(Based(change.base), change.effect)}
  BY DEF LateSet
<1>2. seen' = WatchedToo(record') /\ UNCHANGED <<operation, applied>>
  BY WatchedIsToo DEF LateSet, callVars
<1>3. QED
  BY <1>1, <1>2 DEF LateStep

LEMMA AdminEditRefines ==
  ASSUME Inv, AdminEdit
  PROVE  EditStep
<1>1. record' \in Objects
  BY AdminEditKeeps DEF Keeps, TypeOK
<1>2. QED
  BY <1>1, WatchedIsToo DEF AdminEdit, EditStep, callVars

LEMMA NextRefines ==
  ASSUME Inv, Inv', [Next]_vars
  PROVE  [Atomic!Next]_Atomic!vars
<1>1. ASSUME NEW t \in Tasks, Call(t) \/ Acquire(t) \/ Request(t) \/ GiveUp(t) \/ Cancel(t)
      PROVE  \/ AskStep(t) \/ OpenStep(t) \/ UpdateStep(t) \/ CloseStep(t) \/ LeaveStep(t)
             \/ Quiet
  <2>1. CASE Cancel(t)
    BY <2>1, FinishCloses DEF Cancel
  <2>2. QED
    BY <1>1, <2>1, CallRefines, AcquireRefines, RequestRefines, GiveUpCloses
<1>2. CASE LateSet
  BY <1>2, LateSetRefines, AbstractSteps
<1>3. CASE LateAddHost
  BY <1>3, AbstractSteps DEF LateAddHost, Quiet, callVars
<1>4. CASE AdminEdit
  BY <1>4, AdminEditRefines, AbstractSteps
<1>5. ASSUME NEW host \in HostNames, AdminEditsHost(host) PROVE [Atomic!Next]_Atomic!vars
  BY <1>5, AbstractSteps DEF AdminEditsHost, Quiet, callVars
<1>6. CASE UNCHANGED vars
  BY <1>6, AbstractSteps DEF vars, firewallVars, callVars, historyVars, Quiet
<1>7. QED
  BY <1>1, <1>2, <1>3, <1>4, <1>5, <1>6, AbstractSteps DEF Next

LEMMA InitRefines == Init => Atomic!Init
<1> SUFFICES ASSUME Init PROVE Atomic!Init
  OBVIOUS
<1>1. Inv
  BY InitInv
<1>2. SeenInSlot = seen /\ AppliedInSlot = applied
  BY <1>1, Mapped
<1>3. record \in Atomic!Objects
  BY <1>1, AbstractData DEF Inv, TypeOK
<1>4. QED
  BY <1>2, <1>3, AbstractData DEF Init, Atomic!Init

\* The calls of the client implement ObjectUpdate: each changes its object at
\* most once, by its own effect, from a state it had while the call was in the
\* slot (sophos_client.py:542).
THEOREM AtomicUpdatesCorrect == Spec => AtomicUpdates
<1>1. Init => Atomic!Init
  BY InitRefines
<1>2. Inv /\ Inv' /\ [Next]_vars => [Atomic!Next]_Atomic!vars
  BY NextRefines
<1>3. QED
  BY <1>1, <1>2, InvCorrect, PTL DEF Spec, AtomicUpdates, Atomic!Spec
=============================================================================
