------------------------- MODULE OfflineSyncProofs --------------------------
(***************************************************************************)
(* Theorems about OfflineSync for every number of tabs, edits, rows and    *)
(* faults, whatever the conflict rules.  The invariants TypeOK, AtMostOnce *)
(* and NoEditLost follow from the inductive invariant IndInv.  With one    *)
(* tab, the queue implements EditLedger but for late copies.               *)
(***************************************************************************)
EXTENDS OfflineSync, WellFoundedInduction, TLAPS

-----------------------------------------------------------------------------
(* What the operators of Tables, and Min, return. *)

(* A non-empty set of naturals has a least element, and Min returns it:    *)
(* the head of a flush's snapshot.                                         *)
LEMMA MinIsElement ==
    ASSUME NEW S, S \subseteq Nat, S # {}
    PROVE  Min(S) \in S /\ \A y \in S : Min(S) <= y
<1>1. PICK x \in S : \A y \in S : ~(<<y, x>> \in OpToRel(<, Nat))
  BY NatLessThanWellFounded, WFMin
<1>2. ASSUME NEW y \in S PROVE ~(y < x)
  <2>1. <<y, x>> \in Nat \X Nat
    OBVIOUS
  <2>2. <<y, x>>[1] = y /\ <<y, x>>[2] = x
    OBVIOUS
  <2>3. ~(<<y, x>> \in OpToRel(<, Nat))
    BY <1>1
  <2> QED
    BY <2>1, <2>2, <2>3, Zenon DEF OpToRel
<1>3. \A y \in S : x <= y
  BY <1>2
<1> QED
  BY <1>3 DEF Min

(* Inserting, merging, amending and deleting keep a table a table. *)
LEMMA EmptyTable ==
    ASSUME NEW D, NEW T
    PROVE  IsTable(Empty, D, T) /\ DOMAIN Empty = {}
BY DEF IsTable, Empty

(* put yields a table. *)
LEMMA PutTable ==
    ASSUME NEW f, NEW D, NEW T, NEW x \in D, NEW y \in T, IsTable(f, D, T)
    PROVE  IsTable(Put(f, x, y), D, T)
BY DEF IsTable, Put

(* bulkPut yields a table. *)
LEMMA PutAllTable ==
    ASSUME NEW f, NEW g, NEW D, NEW T, IsTable(f, D, T), IsTable(g, D, T)
    PROVE  IsTable(PutAll(f, g), D, T)
BY DEF IsTable, PutAll

(* update yields a table. *)
LEMMA AmendTable ==
    ASSUME NEW f, NEW D, NEW T, NEW x, NEW y, IsTable(f, D, T),
           x \in DOMAIN f => y \in T
    PROVE  IsTable(Amend(f, x, y), D, T)
BY DEF IsTable, Amend

(* delete yields a table. *)
LEMMA WithoutTable ==
    ASSUME NEW f, NEW D, NEW T, NEW S, IsTable(f, D, T)
    PROVE  IsTable(Without(f, S), D, T)
BY DEF IsTable, Without, Restrict

(* What the changed table holds. *)
LEMMA PutEntries ==
    ASSUME NEW f, NEW x, NEW y
    PROVE  /\ DOMAIN Put(f, x, y) = DOMAIN f \cup {x}
           /\ Put(f, x, y)[x] = y
           /\ \A z \in DOMAIN f : z # x => Put(f, x, y)[z] = f[z]
BY DEF Put

(* update changes one entry. *)
LEMMA AmendEntries ==
    ASSUME NEW f, NEW x, NEW y
    PROVE  /\ DOMAIN Amend(f, x, y) = DOMAIN f
           /\ \A z \in DOMAIN f : Amend(f, x, y)[z] = IF z = x THEN y ELSE f[z]
BY DEF Amend

(* delete leaves the other entries. *)
LEMMA WithoutEntries ==
    ASSUME NEW f, NEW S
    PROVE  /\ DOMAIN Without(f, S) = DOMAIN f \ S
           /\ \A z \in DOMAIN f \ S : Without(f, S)[z] = f[z]
BY DEF Without, Restrict

USE MaxEditsAssumption, FirstRowsAssumption, LimitAssumption, NoneAssumption

-----------------------------------------------------------------------------
(* The server's types. *)

(* A fault that is spent leaves a counter for every fault. *)
LEMMA SpendType ==
    ASSUME NEW f \in Faults, spent \in [Faults -> Nat], Spend(f)
    PROVE  spent' \in [Faults -> Nat]
BY DEF Spend

(* Executing a write keeps the rows well-formed and stamps a well-formed   *)
(* entity, and its answer is a well-formed 2xx.                            *)
LEMMA ExecuteType ==
    ASSUME ServerTypeOK, NEW q,
           q.key \in Keys, q.method \in Methods, q.row \in Int, Execute(q)
    PROVE  /\ IsTable(rows', 1..(nextId' - 1), Entity)
           /\ nextId' \in Nat \ {0} /\ clock' \in Nat
           /\ applied' \in [Keys -> Nat]
           /\ Success(q) \in Response
           /\ Success(q).status = "ok"
           /\ q.method # "DELETE" => CarriesRow(Success(q))
<1> USE DEF ServerTypeOK, Execute, Stamp, Entity, Response, Bare, CarriesRow
<1>1. applied' \in [Keys -> Nat]
  OBVIOUS
<1>2. CASE Creates(q)
  <2>1. /\ clock' \in Nat /\ nextId' \in Nat \ {0}
        /\ nextId \in 1..(nextId' - 1)
        /\ [by |-> q.key, at |-> clock'] \in Entity
    BY <1>2 DEF Creates, Keys
  <2>2. IsTable(rows, 1..(nextId' - 1), Entity)
    BY <1>2 DEF Creates, IsTable
  <2>3. IsTable(rows', 1..(nextId' - 1), Entity)
    BY <1>2, <2>1, <2>2, PutTable DEF Creates
  <2>4. rows'[nextId] = [by |-> q.key, at |-> clock']
    BY <1>2 DEF Creates, Put
  <2>5. Success(q) = [status |-> "ok", id |-> nextId, entity |-> rows'[nextId]]
    BY <1>2 DEF Creates, Success
  <2> QED
    BY <1>1, <2>1, <2>3, <2>4, <2>5
<1>3. CASE Updates(q)
  <2>1. /\ clock' \in Nat /\ nextId' = nextId
        /\ q.row \in 1..(nextId - 1)
        /\ [by |-> q.key, at |-> clock'] \in Entity
    BY <1>3 DEF Updates, Keys, IsTable
  <2>2. IsTable(rows', 1..(nextId' - 1), Entity)
    BY <1>3, <2>1, PutTable DEF Updates
  <2>3. rows'[q.row] = [by |-> q.key, at |-> clock']
    BY <1>3 DEF Updates, Put
  <2>4. Success(q) = [status |-> "ok", id |-> q.row, entity |-> rows'[q.row]]
    BY <1>3 DEF Updates, Success
  <2> QED
    BY <1>1, <2>1, <2>2, <2>3, <2>4
<1>4. CASE Deletes(q)
  <2>1. IsTable(rows', 1..(nextId' - 1), Entity)
    BY <1>4, WithoutTable DEF Deletes
  <2>2. Success(q) = Bare("ok")
    BY <1>4 DEF Deletes, Success
  <2> QED
    BY <1>1, <1>4, <2>1, <2>2 DEF Deletes
<1> QED
  BY <1>2, <1>3, <1>4

(* An answer goes to the tabs that await it, and is well-formed. *)
LEMMA AnswerType ==
    ASSUME ServerTypeOK, NEW q, NEW r \in Response, Answer(q, r)
    PROVE  reply' \in [Tabs -> Response \cup {None}]
BY DEF ServerTypeOK, Answer

(* Whatever the interceptor and the handler answer keeps the server's types. *)
LEMMA ServeType ==
    ASSUME ServerTypeOK, NEW q \in wire, Serve(q)
    PROVE  ServerTypeOK'
<1>1. q \in Request /\ q.key \in Keys /\ q.method \in Methods /\ q.row \in Int
  BY DEF ServerTypeOK, Request
<1>2. wire' \subseteq Request /\ open' \in [Tabs -> Request \cup {None}]
  BY DEF ServerTypeOK, Serve, Deny
<1>3. Bare("lost") \in Response /\ Bare("denied") \in Response
  BY DEF Bare, Response
<1>4. CASE Deny(q)
  BY <1>2, <1>3, <1>4, SpendType, AnswerType DEF Deny, ServerTypeOK, Faults
<1>5. CASE Replay(q)
  <2>1. keys[q.key] \in Response
    BY <1>5 DEF Replay, ServerTypeOK, IsTable
  <2> QED
    BY <1>2, <1>5, <2>1, AnswerType DEF Replay, ServerTypeOK
<1>6. CASE ExecuteAndStore(q)
  <2>1. Execute(q) /\ Answer(q, Success(q)) /\ keys' = Put(keys, q.key, Success(q)) /\ spent' = spent
    BY <1>6 DEF ExecuteAndStore
  <2>2. Success(q) \in Response
    BY <1>1, <2>1, ExecuteType
  <2>3. IsTable(keys', Keys, Response)
    BY <1>1, <2>1, <2>2, PutTable DEF ServerTypeOK
  <2>4. reply' \in [Tabs -> Response \cup {None}]
    BY <2>1, <2>2, AnswerType
  <2> QED
    BY <1>1, <1>2, <2>1, <2>3, <2>4, ExecuteType DEF ServerTypeOK
<1>7. CASE Refuse(q)
  <2>1. Refusal(q) \in Response
    BY <1>1, <1>7 DEF Refusal, Refuse, Bare, Response, ServerTypeOK, IsTable
  <2> QED
    BY <1>2, <1>7, <2>1, AnswerType DEF Refuse, ServerTypeOK
<1>8. CASE ExecuteAndCrash(q)
  <2>1. reply' \in [Tabs -> Response \cup {None}] /\ spent' \in [Faults -> Nat]
    BY <1>3, <1>8, AnswerType, SpendType DEF ExecuteAndCrash, ServerTypeOK, Faults
  <2> QED
    BY <1>1, <1>2, <1>8, <2>1, ExecuteType DEF ExecuteAndCrash, ServerTypeOK
<1> QED
  BY <1>4, <1>5, <1>6, <1>7, <1>8 DEF Serve

(* Every step of the server keeps its types. *)
LEMMA ServerStepType ==
    ASSUME TypeOK, ServerStep
    PROVE  TypeOK'
<1>1. ASSUME NEW q \in wire, Serve(q) PROVE ServerTypeOK'
  BY <1>1, ServeType DEF TypeOK
<1>2. ASSUME NEW t \in Tabs, GiveUp(t) PROVE ServerTypeOK'
  <2>1. Bare("lost") \in Response
    BY DEF Bare, Response
  <2> QED
    BY <1>2, <2>1, SpendType DEF GiveUp, TypeOK, ServerTypeOK, Faults
<1>3. ASSUME CollabUpdate PROVE ServerTypeOK'
  <2>1. spent' \in [Faults -> Nat]
    BY <1>3, SpendType DEF CollabUpdate, TypeOK, ServerTypeOK, Faults
  <2>2. PICK id \in DOMAIN rows : Stamp(id, Collab)
    BY <1>3 DEF CollabUpdate
  <2>3. id \in 1..(nextId - 1) /\ clock' \in Nat /\ [by |-> Collab, at |-> clock'] \in Entity
    BY <2>2 DEF Stamp, Collab, Entity, TypeOK, ServerTypeOK, IsTable, Faults
  <2>4. IsTable(rows', 1..(nextId - 1), Entity)
    BY <2>2, <2>3, PutTable DEF Stamp, TypeOK, ServerTypeOK
  <2> QED
    BY <1>3, <2>1, <2>3, <2>4 DEF CollabUpdate, TypeOK, ServerTypeOK
<1>4. ASSUME CollabDelete PROVE ServerTypeOK'
  <2>1. spent' \in [Faults -> Nat]
    BY <1>4, SpendType DEF CollabDelete, TypeOK, ServerTypeOK, Faults
  <2>2. PICK id \in DOMAIN rows : rows' = Without(rows, {id})
    BY <1>4 DEF CollabDelete
  <2>3. IsTable(rows', 1..(nextId - 1), Entity)
    BY <2>2, WithoutTable DEF TypeOK, ServerTypeOK
  <2> QED
    BY <1>4, <2>1, <2>3 DEF CollabDelete, TypeOK, ServerTypeOK
<1>5. ASSUME PurgeKey PROVE ServerTypeOK'
  <2>1. spent' \in [Faults -> Nat]
    BY <1>5, SpendType DEF PurgeKey, TypeOK, ServerTypeOK, Faults
  <2>2. PICK k \in DOMAIN keys : keys' = Without(keys, {k})
    BY <1>5 DEF PurgeKey
  <2>3. IsTable(keys', Keys, Response)
    BY <2>2, WithoutTable DEF TypeOK, ServerTypeOK
  <2> QED
    BY <1>5, <2>1, <2>3 DEF PurgeKey, TypeOK, ServerTypeOK
<1>6. ServerTypeOK'
  BY <1>1, <1>2, <1>3, <1>4, <1>5 DEF ServerStep
<1>7. DeviceTypeOK'
  BY DEF ServerStep, TypeOK, DeviceTypeOK, deviceVars
<1> QED
  BY <1>6, <1>7 DEF TypeOK

-----------------------------------------------------------------------------
(* The device's types. *)

(* The head of a snapshot that is not empty is a key of it. *)
LEMMA HeadType ==
    ASSUME TypeOK, NEW t \in Tabs, DOMAIN Todo(t) # {}
    PROVE  /\ Current(t) \in DOMAIN Todo(t) /\ Current(t) \in Keys
           /\ Snapshot(t) \in Mutation
<1>1. IsTable(Todo(t), Keys, Mutation)
  BY DEF TypeOK, DeviceTypeOK, FlushType, Todo
<1>2. DOMAIN Todo(t) \subseteq Nat
  BY <1>1 DEF IsTable, Keys
<1>3. Current(t) \in DOMAIN Todo(t)
  BY <1>2, MinIsElement DEF Current
<1> QED
  BY <1>1, <1>3 DEF IsTable, Snapshot

(* The request a tab builds for its current mutation is a Request. *)
LEMMA RequestType ==
    ASSUME TypeOK, NEW t \in Tabs, DOMAIN Todo(t) # {}
    PROVE  CurrentRequest(t) \in Request
<1>1. Current(t) \in Keys /\ Snapshot(t) \in Mutation
  BY HeadType
<1>2. Target(t) \in Int
  BY <1>1 DEF Target, Mutation, TypeOK, DeviceTypeOK, FlushType, IsTable
<1>3. BaseToken(t) \in Tokens
  BY <1>1 DEF BaseToken, Mutation, Tokens, TypeOK, DeviceTypeOK, FlushType, IsTable
<1> QED
  BY <1>1, <1>2, <1>3 DEF CurrentRequest, Request, Mutation

(* A new pass, over what is pending in the table. *)
LEMMA BeginType ==
    ASSUME TypeOK, NEW t \in Tabs, NEW q, IsTable(q, Keys, Mutation), Begin(t, q)
    PROVE  DOMAIN flush' = Tabs /\ \A u \in Tabs : FlushType(flush'[u])
<1> DEFINE todo == Restrict(q, Pending(q))
<1>1. IsTable(todo, Keys, Mutation)
  BY DEF IsTable, Restrict, Pending
<1>2. IsTable(Empty, Int, Nat \ {0}) /\ IsTable(Empty, Nat \ {0}, Nat)
  BY EmptyTable
<1>3. flush' = [flush EXCEPT ![t] = Loop("next", todo)]
  BY DEF Begin
<1> HIDE DEF todo
<1>4. FlushType(Loop("next", todo))
  BY <1>1, <1>2 DEF FlushType, Loop
<1> QED
  BY <1>3, <1>4 DEF TypeOK, DeviceTypeOK

(* On to the next mutation. *)
LEMMA AdvanceType ==
    ASSUME TypeOK, NEW t \in Tabs, Advance(t)
    PROVE  DOMAIN flush' = Tabs /\ \A u \in Tabs : FlushType(flush'[u])
<1> DEFINE todo == Without(flush[t].todo, {Current(t)})
<1>1. FlushType(flush[t])
  BY DEF TypeOK, DeviceTypeOK
<1>2. IsTable(todo, Keys, Mutation)
  BY <1>1, WithoutTable DEF FlushType
<1>3. flush' = [flush EXCEPT ![t].step = "next", ![t].todo = todo]
  BY DEF Advance
<1> HIDE DEF todo
<1>4. flush'[t] = [step |-> "next", todo |-> todo, idMap |-> flush[t].idMap,
                   tokens |-> flush[t].tokens, retry |-> flush[t].retry]
  BY <1>1, <1>3 DEF FlushType, TypeOK, DeviceTypeOK
<1>5. FlushType(flush'[t])
  BY <1>1, <1>2, <1>4 DEF FlushType
<1>6. DOMAIN flush' = Tabs /\ \A u \in Tabs \ {t} : flush'[u] = flush[u]
  BY <1>3 DEF TypeOK, DeviceTypeOK
<1> QED
  BY <1>5, <1>6 DEF TypeOK, DeviceTypeOK
(* One more state of the loop, everything else of it kept. *)
LEMMA StepType ==
    ASSUME TypeOK, NEW t \in Tabs, NEW step \in {"idle", "next", "wait", "store", "remove"},
           flush' = [flush EXCEPT ![t].step = step]
    PROVE  DOMAIN flush' = Tabs /\ \A u \in Tabs : FlushType(flush'[u])
<1>1. FlushType(flush[t])
  BY DEF TypeOK, DeviceTypeOK
<1>2. flush'[t] = [step |-> step, todo |-> flush[t].todo, idMap |-> flush[t].idMap,
                   tokens |-> flush[t].tokens, retry |-> flush[t].retry]
  BY <1>1 DEF FlushType, TypeOK, DeviceTypeOK
<1>3. FlushType(flush'[t])
  BY <1>1, <1>2 DEF FlushType
<1>4. DOMAIN flush' = Tabs /\ \A u \in Tabs \ {t} : flush'[u] = flush[u]
  BY DEF TypeOK, DeviceTypeOK
<1> QED
  BY <1>3, <1>4 DEF TypeOK, DeviceTypeOK

(* The exchange of a tab ends, or a new one begins. *)
LEMMA ReceivedType ==
    ASSUME TypeOK, NEW t \in Tabs, Received(t)
    PROVE  ServerTypeOK'
BY DEF Received, TypeOK, ServerTypeOK

(* Ending an exchange keeps the server's types. *)
LEMMA HangUpType ==
    ASSUME TypeOK, NEW t \in Tabs, HangUp(t), spent' \in [Faults -> Nat],
           UNCHANGED <<rows, nextId, clock, keys, wire, applied>>
    PROVE  ServerTypeOK'
BY DEF HangUp, TypeOK, ServerTypeOK

(* A step that leaves the server alone keeps its types. *)
LEMMA ServerTypeStays ==
    ASSUME TypeOK, UNCHANGED serverVars
    PROVE  ServerTypeOK'
BY DEF serverVars, TypeOK, ServerTypeOK

(* An edit, offline or online. *)
LEMMA EditStepType ==
    ASSUME TypeOK, NEW t \in Tabs, EditStep(t)
    PROVE  TypeOK'
<1>1. ASSUME CanDraft(t, "create") \/ CanDraft(t, "update") \/ CanDraft(t, "delete"),
             NEW method \in Methods, NEW target \in Int, NEW base \in Tokens,
             Drafted(t, method, target, base)
      PROVE  /\ draft' \in Draft
             /\ nextKey' \in 1..(MaxEdits + 1)
             /\ ServerTypeOK'
  BY <1>1, ServerTypeStays DEF Drafted, CanDraft, Draft, Mutation, Keys
<1>2. ASSUME nextKey \in Keys, NEW at \in Nat
      PROVE  [by |-> nextKey, at |-> at] \in Entity
  BY <1>2 DEF Keys, Entity
<1>3. CASE CreateOffline(t)
  <2>1. nextKey \in Keys /\ -nextKey \in Int /\ NoToken \in Nat /\ NoToken \in Tokens
    BY <1>3 DEF CreateOffline, CanDraft, Keys, NoToken, Tokens
  <2>2. IsTable(cache', Int, Entity)
    BY <1>2, <1>3, <2>1, PutTable DEF CreateOffline, TypeOK, DeviceTypeOK
  <2>3. view' \in [Tabs -> SUBSET Int]
    BY <1>3, <2>1 DEF CreateOffline, TypeOK, DeviceTypeOK
  <2> QED
    BY <1>1, <1>3, <2>1, <2>2, <2>3 DEF CreateOffline, Drafted, Methods, TypeOK, DeviceTypeOK
<1>4. ASSUME NEW id \in view[t], UpdateOffline(t, id)
      PROVE  TypeOK'
  <2> DEFINE token == IF id \in DOMAIN cache THEN cache[id].at ELSE NoToken
  <2>1. id \in Int /\ nextKey \in Keys
    BY <1>4 DEF UpdateOffline, CanDraft, TypeOK, DeviceTypeOK
  <2>2. token \in Nat /\ token \in Tokens
    BY DEF TypeOK, DeviceTypeOK, IsTable, Entity, NoToken, Tokens
  <2>3. /\ cache' = Put(cache, id, [by |-> nextKey, at |-> token])
        /\ view' = view /\ CanDraft(t, "update") /\ Drafted(t, "PUT", id, token)
    BY <1>4 DEF UpdateOffline
  <2> HIDE DEF token
  <2>4. IsTable(cache', Int, Entity)
    BY <1>2, <2>1, <2>2, <2>3, PutTable DEF TypeOK, DeviceTypeOK
  <2> QED
    BY <1>1, <2>1, <2>2, <2>3, <2>4 DEF Drafted, Methods, TypeOK, DeviceTypeOK
<1>5. ASSUME NEW id \in view[t], DeleteOffline(t, id)
      PROVE  TypeOK'
  <2>1. id \in Int /\ NoToken \in Tokens
    BY DEF TypeOK, DeviceTypeOK, NoToken, Tokens
  <2>2. IsTable(cache', Int, Entity)
    BY <1>5, WithoutTable DEF DeleteOffline, TypeOK, DeviceTypeOK
  <2>3. view' \in [Tabs -> SUBSET Int]
    BY <1>5 DEF DeleteOffline, TypeOK, DeviceTypeOK
  <2> QED
    BY <1>1, <1>5, <2>1, <2>2, <2>3 DEF DeleteOffline, Drafted, Methods, TypeOK, DeviceTypeOK
<1>6. ASSUME NEW kind, NEW method \in Methods, NEW id \in Int,
             EditOnline(t, kind, Direct(t, method, id))
      PROVE  /\ ServerTypeOK' /\ nextKey' \in 1..(MaxEdits + 1)
             /\ UNCHANGED <<online, queue, draft, flush, closed>>
  <2> DEFINE q == Direct(t, method, id)
  <2>1. nextKey \in Keys /\ q.key = nextKey /\ q.method = method /\ q.row = id
    BY <1>6 DEF EditOnline, Direct
  <2>2. Execute(q) /\ keys' = Put(keys, nextKey, Success(q))
    BY <1>6 DEF EditOnline
  <2>3. /\ nextKey' = nextKey + 1
        /\ UNCHANGED <<wire, open, reply, spent, online, queue, draft, flush, closed>>
    BY <1>6 DEF EditOnline
  <2> HIDE DEF q
  <2>4. /\ IsTable(rows', 1..(nextId' - 1), Entity)
        /\ nextId' \in Nat \ {0} /\ clock' \in Nat /\ applied' \in [Keys -> Nat]
        /\ Success(q) \in Response
    BY <2>1, <2>2, ExecuteType DEF TypeOK
  <2>5. IsTable(keys', Keys, Response)
    BY <2>1, <2>2, <2>4, PutTable DEF TypeOK, ServerTypeOK
  <2> QED
    BY <2>1, <2>3, <2>4, <2>5 DEF Keys, TypeOK, ServerTypeOK
<1>7. CASE CreateOnline(t)
  <2>1. EditOnline(t, "create", Direct(t, "POST", 0))
    BY <1>7 DEF CreateOnline
  <2>2. ServerTypeOK' /\ nextKey' \in 1..(MaxEdits + 1)
        /\ UNCHANGED <<online, queue, draft, flush, closed>>
    BY <1>6, <2>1 DEF Methods
  <2>3. nextId \in DOMAIN rows' /\ nextId \in Int
    BY <2>1 DEF EditOnline, Direct, Execute, Creates, Updates, Deletes, Stamp, Put,
                TypeOK, ServerTypeOK
  <2>4. rows'[nextId] \in Entity
    BY <2>2, <2>3 DEF ServerTypeOK, IsTable
  <2>5. IsTable(cache', Int, Entity)
    BY <1>7, <2>3, <2>4, PutTable DEF CreateOnline, TypeOK, DeviceTypeOK
  <2>6. view' \in [Tabs -> SUBSET Int]
    BY <1>7, <2>3 DEF CreateOnline, TypeOK, DeviceTypeOK
  <2> QED
    BY <2>2, <2>5, <2>6 DEF TypeOK, DeviceTypeOK
<1>8. ASSUME NEW id \in view[t], UpdateOnline(t, id)
      PROVE  TypeOK'
  <2>1. EditOnline(t, "update", Direct(t, "PUT", id)) /\ id \in Int
    BY <1>8 DEF UpdateOnline, TypeOK, DeviceTypeOK
  <2>2. ServerTypeOK' /\ nextKey' \in 1..(MaxEdits + 1)
        /\ UNCHANGED <<online, queue, draft, flush, closed>>
    BY <1>6, <2>1 DEF Methods
  <2>3. id \in DOMAIN rows'
    BY <2>1 DEF EditOnline, Direct, Execute, Creates, Updates, Deletes, Stamp, Put
  <2>4. rows'[id] \in Entity
    BY <2>2, <2>3 DEF ServerTypeOK, IsTable
  <2>5. IsTable(cache', Int, Entity)
    BY <1>8, <2>1, <2>4, PutTable DEF UpdateOnline, TypeOK, DeviceTypeOK
  <2> QED
    BY <1>8, <2>2, <2>5 DEF UpdateOnline, TypeOK, DeviceTypeOK
<1>9. ASSUME NEW id \in view[t], DeleteOnline(t, id)
      PROVE  TypeOK'
  <2>1. EditOnline(t, "delete", Direct(t, "DELETE", id)) /\ id \in Int
    BY <1>9 DEF DeleteOnline, TypeOK, DeviceTypeOK
  <2>2. ServerTypeOK' /\ nextKey' \in 1..(MaxEdits + 1)
        /\ UNCHANGED <<online, queue, draft, flush, closed>>
    BY <1>6, <2>1 DEF Methods
  <2>3. IsTable(cache', Int, Entity)
    BY <1>9, WithoutTable DEF DeleteOnline, TypeOK, DeviceTypeOK
  <2>4. view' \in [Tabs -> SUBSET Int]
    BY <1>9 DEF DeleteOnline, TypeOK, DeviceTypeOK
  <2> QED
    BY <2>2, <2>3, <2>4 DEF TypeOK, DeviceTypeOK
<1> QED
  BY <1>3, <1>4, <1>5, <1>7, <1>8, <1>9 DEF EditStep
(* A tab that is waiting, storing or removing has a mutation in hand, and  *)
(* the 2xx answer to anything but a DELETE carries a row.                  *)
LEMMA HeadInHand ==
    ASSUME IndInv, NEW t \in Tabs, flush[t].step \in {"wait", "store", "remove"}
    PROVE  /\ DOMAIN Todo(t) # {} /\ Current(t) \in DOMAIN Todo(t) /\ Current(t) \in Keys
           /\ Snapshot(t) \in Mutation
BY HeadType DEF IndInv, Exchanges, ExchangeOf

(* A 2xx for a create or an update carries the row. *)
LEMMA AnswerCarriesRow ==
    ASSUME IndInv, NEW t \in Tabs,
           \/ Answered(t, "ok") /\ Snapshot(t).method # "DELETE"
           \/ flush[t].step = "store"
    PROVE  CarriesRow(reply[t])
<1>1. flush[t].step \in {"wait", "store", "remove"}
  BY DEF Answered
<1>2. Current(t) \in DOMAIN Todo(t)
  BY <1>1, HeadInHand
<1>3. reply[t] # None /\ reply[t].status = "ok" /\ Snapshot(t).method # "DELETE"
  BY DEF Answered, IndInv, Exchanges, ExchangeOf
<1>4. PICK m \in [Keys -> Methods] : Agree(m)
  BY DEF IndInv, MethodsAgree
<1>5. m[Current(t)] # "DELETE"
  BY <1>2, <1>3, <1>4 DEF Agree, Snapshot
<1> QED
  BY <1>3, <1>4, <1>5 DEF Agree

(* A queue whose entry for one mutation is revised is a queue. *)
LEMMA RevisedType ==
    ASSUME TypeOK, NEW k, NEW base \in Tokens, NEW try \in Nat,
           NEW status \in {"pending", "syncing", "failed", "conflict"},
           NEW server \in Entity \cup {None}
    PROVE  IsTable(Amend(queue, k, Revised(queue[k], base, try, status, server)), Keys, Mutation)
<1>1. k \in DOMAIN queue => queue[k] \in Mutation
  BY DEF TypeOK, DeviceTypeOK, IsTable
<1>2. k \in DOMAIN queue => Revised(queue[k], base, try, status, server) \in Mutation
  BY <1>1 DEF Revised, Mutation
<1>3. IsTable(queue, Keys, Mutation)
  BY DEF TypeOK, DeviceTypeOK
<1> QED
  BY <1>2, <1>3, AmendTable

(* An update of a queued mutation keeps the types of the queue. *)
LEMMA ChangeType ==
    ASSUME TypeOK, NEW k, NEW try, k \in DOMAIN queue => try \in Nat,
           NEW status \in {"pending", "syncing", "failed", "conflict"}
    PROVE  IsTable(Amend(queue, k, Change(queue[k], status, try)), Keys, Mutation)
<1>1. k \in DOMAIN queue => queue[k] \in Mutation
  BY DEF TypeOK, DeviceTypeOK, IsTable
<1>2. k \in DOMAIN queue => Change(queue[k], status, try) \in Mutation
  BY <1>1 DEF Change, Revised, Mutation
<1>3. IsTable(queue, Keys, Mutation)
  BY DEF TypeOK, DeviceTypeOK
<1> QED
  BY <1>2, <1>3, AmendTable

(* A replay that reads its answer and stores it. *)
LEMMA RemapType ==
    ASSUME IndInv, NEW t \in Tabs, Remap(t)
    PROVE  TypeOK'
<1> DEFINE temp == Snapshot(t).target
           id == reply[t].id
<1>1. TypeOK /\ flush[t].step = "wait" /\ Snapshot(t) \in Mutation
  BY HeadInHand DEF Remap, Answered, IndInv
<1>2. id \in Nat \ {0} /\ temp \in Int
  BY <1>1, AnswerCarriesRow DEF Remap, CarriesRow, Mutation
<1>3. IsTable(cache', Int, Entity)
  BY <1>1, WithoutTable DEF Remap, TypeOK, DeviceTypeOK
<1>4. IsTable(queue', Keys, Mutation)
  <2>1. \A k \in DOMAIN queue : queue[k] \in Mutation /\ [queue[k] EXCEPT !.target = id] \in Mutation
    BY <1>1, <1>2 DEF TypeOK, DeviceTypeOK, IsTable, Mutation
  <2> QED
    BY <1>1, <2>1 DEF Remap, TypeOK, DeviceTypeOK, IsTable
<1>5. DOMAIN flush' = Tabs /\ \A u \in Tabs : FlushType(flush'[u])
  <2>1. FlushType(flush[t])
    BY <1>1 DEF TypeOK, DeviceTypeOK
  <2>2. IsTable(Put(flush[t].idMap, temp, id), Int, Nat \ {0})
    BY <1>2, <2>1, PutTable DEF FlushType
  <2>3. flush' = [flush EXCEPT ![t].step = "store", ![t].idMap = Put(@, temp, id)]
    BY DEF Remap
  <2>4. flush'[t] = [step |-> "store", todo |-> flush[t].todo,
                     idMap |-> Put(flush[t].idMap, temp, id),
                     tokens |-> flush[t].tokens, retry |-> flush[t].retry]
    BY <1>1, <2>1, <2>3 DEF FlushType, TypeOK, DeviceTypeOK
  <2>5. FlushType(flush'[t])
    BY <2>1, <2>2, <2>4 DEF FlushType
  <2>6. DOMAIN flush' = Tabs /\ \A u \in Tabs \ {t} : flush'[u] = flush[u]
    BY <1>1, <2>3 DEF TypeOK, DeviceTypeOK
  <2> QED
    BY <1>1, <2>5, <2>6 DEF TypeOK, DeviceTypeOK
<1>6. ServerTypeOK'
  BY <1>1, ReceivedType DEF Remap
<1> QED
  BY <1>1, <1>3, <1>4, <1>5, <1>6 DEF Remap, TypeOK, DeviceTypeOK

(* Storing the row of an answer keeps the types of the device. *)
LEMMA StoreEntityType ==
    ASSUME IndInv, NEW t \in Tabs, StoreEntity(t)
    PROVE  TypeOK'
<1> DEFINE id == reply[t].id
           entity == reply[t].entity
<1>1. TypeOK
  BY DEF IndInv
<1>2. id \in Nat \ {0} /\ entity \in Entity
  BY AnswerCarriesRow DEF StoreEntity, CarriesRow
<1>3. entity.at \in Nat /\ entity.at \in Tokens
  BY <1>2 DEF Entity, Tokens
<1>4. IsTable(cache', Int, Entity)
  BY <1>1, <1>2, PutTable DEF StoreEntity, TypeOK, DeviceTypeOK
<1>5. IsTable(queue', Keys, Mutation)
  <2>1. \A k \in DOMAIN queue : queue[k] \in Mutation /\ [queue[k] EXCEPT !.base = entity.at] \in Mutation
    BY <1>1, <1>3 DEF TypeOK, DeviceTypeOK, IsTable, Mutation
  <2> QED
    BY <1>1, <2>1 DEF StoreEntity, TypeOK, DeviceTypeOK, IsTable
<1>6. DOMAIN flush' = Tabs /\ \A u \in Tabs : FlushType(flush'[u])
  <2>1. FlushType(flush[t])
    BY <1>1 DEF TypeOK, DeviceTypeOK
  <2>2. IsTable(Put(flush[t].tokens, id, entity.at), Nat \ {0}, Nat)
    BY <1>2, <1>3, <2>1, PutTable DEF FlushType
  <2>3. flush' = [flush EXCEPT ![t].step = "remove", ![t].tokens = Put(@, id, entity.at)]
    BY DEF StoreEntity
  <2>4. flush'[t] = [step |-> "remove", todo |-> flush[t].todo, idMap |-> flush[t].idMap,
                     tokens |-> Put(flush[t].tokens, id, entity.at), retry |-> flush[t].retry]
    BY <1>1, <2>1, <2>3 DEF FlushType, TypeOK, DeviceTypeOK
  <2>5. FlushType(flush'[t])
    BY <2>1, <2>2, <2>4 DEF FlushType
  <2>6. DOMAIN flush' = Tabs /\ \A u \in Tabs \ {t} : flush'[u] = flush[u]
    BY <1>1, <2>3 DEF TypeOK, DeviceTypeOK
  <2> QED
    BY <1>1, <2>5, <2>6 DEF TypeOK, DeviceTypeOK
<1>7. ServerTypeOK'
  BY <1>1, ReceivedType DEF StoreEntity
<1> QED
  BY <1>1, <1>4, <1>5, <1>6, <1>7 DEF StoreEntity, TypeOK, DeviceTypeOK
(* Every other step of the flush loop. *)
LEMMA FlushStepType ==
    ASSUME IndInv, NEW t \in Tabs, FlushStep(t)
    PROVE  TypeOK'
<1> DEFINE k == Current(t)
<1>1. TypeOK
  BY DEF IndInv
<1>2. CASE Replays(t)
  <2>1. DOMAIN Todo(t) # {} /\ Send(t, CurrentRequest(t))
    BY <1>2 DEF Replays, HasNext
  <2>2. CurrentRequest(t) \in Request
    BY <1>1, <2>1, RequestType
  <2>3. ServerTypeOK'
    BY <1>1, <2>1, <2>2 DEF Send, TypeOK, ServerTypeOK
  <2>4. k \in DOMAIN queue => queue[k].try \in Nat
    BY <1>1 DEF TypeOK, DeviceTypeOK, IsTable, Mutation
  <2>5. IsTable(queue', Keys, Mutation)
    BY <1>1, <1>2, <2>4, ChangeType DEF Replays
  <2>6. DOMAIN flush' = Tabs /\ \A u \in Tabs : FlushType(flush'[u])
    BY <1>1, <1>2, StepType DEF Replays
  <2> QED
    BY <1>1, <1>2, <2>3, <2>5, <2>6 DEF Replays, TypeOK, DeviceTypeOK
<1>3. CASE FailUnresolved(t)
  <2>1. Snapshot(t).try + 1 \in Nat
    BY <1>1, <1>3, HeadType DEF FailUnresolved, HasNext, Mutation
  <2>2. IsTable(queue', Keys, Mutation)
    BY <1>1, <1>3, <2>1, ChangeType DEF FailUnresolved
  <2>3. DOMAIN flush' = Tabs /\ \A u \in Tabs : FlushType(flush'[u])
    BY <1>1, <1>3, AdvanceType DEF FailUnresolved
  <2> QED
    BY <1>1, <1>3, <2>2, <2>3, ServerTypeStays DEF FailUnresolved, TypeOK, DeviceTypeOK
<1>4. CASE EndFlush(t)
  <2>1. IsTable(queue, Keys, Mutation)
    BY <1>1 DEF TypeOK, DeviceTypeOK
  <2>2. FlushType(Quiet)
    <3>1. IsTable(Empty, Keys, Mutation) /\ IsTable(Empty, Int, Nat \ {0})
          /\ IsTable(Empty, Nat \ {0}, Nat)
      BY EmptyTable
    <3> QED
      BY <3>1 DEF FlushType, Quiet, Loop
  <2>3. DOMAIN flush' = Tabs /\ \A u \in Tabs : FlushType(flush'[u])
    <3>1. CASE Begin(t, queue)
      BY <1>1, <2>1, <3>1, BeginType
    <3>2. CASE flush' = [flush EXCEPT ![t] = Quiet]
      BY <1>1, <2>2, <3>2 DEF TypeOK, DeviceTypeOK
    <3> QED
      BY <1>4, <3>1, <3>2 DEF EndFlush
  <2> QED
    BY <1>1, <1>4, <2>3, ServerTypeStays DEF EndFlush, TypeOK, DeviceTypeOK
<1>5. CASE Undisplay(t)
  <2>1. DOMAIN flush' = Tabs /\ \A u \in Tabs : FlushType(flush'[u])
    BY <1>1, <1>5, StepType DEF Undisplay
  <2>2. IsTable(cache', Int, Entity)
    BY <1>1, <1>5, WithoutTable DEF Undisplay, TypeOK, DeviceTypeOK
  <2>3. ServerTypeOK'
    BY <1>1, <1>5, ReceivedType DEF Undisplay
  <2> QED
    BY <1>1, <1>5, <2>1, <2>2, <2>3 DEF Undisplay, TypeOK, DeviceTypeOK
<1>6. CASE Dequeue(t) \/ ConflictTheirs(t) \/ ConflictMine(t) \/ ConflictAsk(t)
        \/ Reject(t) \/ Abort(t)
  <2>1. k \in Keys /\ Snapshot(t).try + 1 \in Nat /\ FlushType(flush[t])
    BY <1>1, <1>6, HeadInHand DEF Dequeue, ConflictTheirs, ConflictMine, ConflictAsk, Reject,
       Abort, Answered, Mutation, TypeOK, DeviceTypeOK
  <2>2. reply[t] # None => reply[t].id \in Int /\ reply[t].entity \in Entity \cup {None}
    BY <1>1 DEF TypeOK, ServerTypeOK, Response
  <2>3. ServerTypeOK'
    <3>1. /\ HangUp(t) /\ UNCHANGED <<rows, nextId, clock, keys, wire, applied, spent>>
      BY <1>6 DEF Dequeue, ConflictTheirs, ConflictMine, ConflictAsk, Reject, Abort, ServerStays
    <3> QED
      BY <1>1, <3>1, HangUpType DEF TypeOK, ServerTypeOK
  <2>4. IsTable(cache', Int, Entity)
    <3>1. CASE ConflictTheirs(t)
      BY <1>1, <2>2, <3>1, PutTable DEF ConflictTheirs, Answered, AdoptServer, TypeOK, DeviceTypeOK
    <3>2. CASE Reject(t)
      BY <1>1, <3>2, WithoutTable DEF Reject, TypeOK, DeviceTypeOK
    <3> QED
      BY <1>1, <1>6, <3>1, <3>2 DEF Dequeue, ConflictMine, ConflictAsk, Abort, TypeOK, DeviceTypeOK
  <2>5. IsTable(queue', Keys, Mutation)
    <3>1. CASE Dequeue(t) \/ ConflictTheirs(t)
      BY <1>1, <3>1, WithoutTable DEF Dequeue, ConflictTheirs, TypeOK, DeviceTypeOK
    <3>2. CASE ConflictMine(t)
      BY <1>1, <2>1, <3>2, RevisedType DEF ConflictMine, Tokens
    <3>3. CASE ConflictAsk(t)
      <4>1. CASE k \in DOMAIN queue
        <5>1. queue[k].base \in Tokens
          BY <1>1, <4>1 DEF TypeOK, DeviceTypeOK, IsTable, Mutation
        <5>2. reply[t].entity \in Entity \cup {None}
          BY <2>2, <3>3 DEF ConflictAsk, Answered
        <5> QED
          BY <1>1, <2>1, <3>3, <5>1, <5>2, RevisedType DEF ConflictAsk
      <4>2. CASE k \notin DOMAIN queue
        BY <1>1, <3>3, <4>2 DEF ConflictAsk, Amend, TypeOK, DeviceTypeOK
      <4> QED
        BY <4>1, <4>2
    <3>4. CASE Reject(t)
      BY <1>1, <2>1, <3>4, ChangeType DEF Reject
    <3>5. CASE Abort(t)
      BY <1>1, <2>1, <3>5, ChangeType DEF Abort
    <3> QED
      BY <1>6, <3>1, <3>2, <3>3, <3>4, <3>5
  <2>6. DOMAIN flush' = Tabs /\ \A u \in Tabs : FlushType(flush'[u])
    <3>1. CASE Advance(t)
      BY <1>1, <3>1, AdvanceType
    <3>2. CASE ConflictMine(t)
      <4> DEFINE todo == Without(flush[t].todo, {k})
      <4>1. IsTable(todo, Keys, Mutation)
        BY <2>1, WithoutTable DEF FlushType
      <4>2. flush' = [flush EXCEPT ![t].step = "next", ![t].todo = todo, ![t].retry = TRUE]
        BY <3>2 DEF ConflictMine
      <4> HIDE DEF todo
      <4>3. flush'[t] = [step |-> "next", todo |-> todo, idMap |-> flush[t].idMap,
                         tokens |-> flush[t].tokens, retry |-> TRUE]
        BY <1>1, <2>1, <4>2 DEF FlushType, TypeOK, DeviceTypeOK
      <4>4. FlushType(flush'[t])
        BY <2>1, <4>1, <4>3 DEF FlushType
      <4>5. DOMAIN flush' = Tabs /\ \A u \in Tabs \ {t} : flush'[u] = flush[u]
        BY <1>1, <4>2 DEF TypeOK, DeviceTypeOK
      <4> QED
        BY <1>1, <4>4, <4>5 DEF TypeOK, DeviceTypeOK
    <3>3. CASE Abort(t)
      <4>1. IsTable(Empty, Keys, Mutation)
        BY EmptyTable
      <4>2. flush'[t] = [step |-> "next", todo |-> Empty, idMap |-> flush[t].idMap,
                         tokens |-> flush[t].tokens, retry |-> flush[t].retry]
        BY <1>1, <2>1, <3>3 DEF Abort, FlushType, TypeOK, DeviceTypeOK
      <4>3. FlushType(flush'[t])
        BY <2>1, <4>1, <4>2 DEF FlushType
      <4>4. DOMAIN flush' = Tabs /\ \A u \in Tabs \ {t} : flush'[u] = flush[u]
        BY <1>1, <3>3 DEF Abort, TypeOK, DeviceTypeOK
      <4> QED
        BY <1>1, <4>3, <4>4 DEF TypeOK, DeviceTypeOK
    <3> QED
      BY <1>6, <3>1, <3>2, <3>3 DEF Dequeue, ConflictTheirs, ConflictAsk, Reject
  <2>7. closed' \in [Keys -> {"open", "theirs", "purged", "unsaved"}]
    BY <1>1, <1>6 DEF Dequeue, ConflictTheirs, ConflictMine, ConflictAsk, Reject, Abort,
       TypeOK, DeviceTypeOK
  <2>8. UNCHANGED <<online, nextKey, draft, view>>
    BY <1>6 DEF Dequeue, ConflictTheirs, ConflictMine, ConflictAsk, Reject, Abort
  <2> QED
    BY <1>1, <2>3, <2>4, <2>5, <2>6, <2>7, <2>8 DEF TypeOK, DeviceTypeOK
<1> QED
  BY <1>2, <1>3, <1>4, <1>5, <1>6, RemapType, StoreEntityType DEF FlushStep
(* The user settles a conflict; what else happens to a tab. *)
LEMMA ConflictStepType ==
    ASSUME TypeOK, NEW t \in Tabs, ConflictStep(t)
    PROVE  TypeOK'
<1>1. ASSUME NEW k \in DOMAIN queue, KeepMine(t, k)
      PROVE  TypeOK'
  <2>1. queue[k].try \in Nat /\ Forced \in Tokens
    BY DEF TypeOK, DeviceTypeOK, IsTable, Mutation, Tokens
  <2>2. IsTable(queue', Keys, Mutation)
    BY <1>1, <2>1, RevisedType DEF KeepMine
  <2>3. DOMAIN flush' = Tabs /\ \A u \in Tabs : FlushType(flush'[u])
    <3>1. CASE Begin(t, queue')
      BY <2>2, <3>1, BeginType
    <3>2. CASE UNCHANGED flush
      BY <3>2 DEF TypeOK, DeviceTypeOK
    <3> QED
      BY <1>1, <3>1, <3>2 DEF KeepMine
  <2> QED
    BY <1>1, <2>2, <2>3, ServerTypeStays DEF KeepMine, TypeOK, DeviceTypeOK
<1>2. ASSUME NEW k \in DOMAIN queue, KeepServer(k)
      PROVE  TypeOK'
  <2>1. k \in Keys /\ queue[k] \in Mutation
    BY DEF TypeOK, DeviceTypeOK, IsTable
  <2>2. IsTable(queue', Keys, Mutation)
    BY <1>2, WithoutTable DEF KeepServer, TypeOK, DeviceTypeOK
  <2>3. IsTable(cache', Int, Entity)
    BY <1>2, <2>1, PutTable DEF KeepServer, AdoptServer, Mutation, TypeOK, DeviceTypeOK
  <2> QED
    BY <1>2, <2>1, <2>2, <2>3, ServerTypeStays DEF KeepServer, TypeOK, DeviceTypeOK
<1> QED
  BY <1>1, <1>2 DEF ConflictStep

(* Every step of a flush keeps the types. *)
LEMMA TabStepType ==
    ASSUME TypeOK, NEW t \in Tabs, TabStep(t)
    PROVE  TypeOK'
<1>1. FlushType(Quiet)
  <2>1. IsTable(Empty, Keys, Mutation) /\ IsTable(Empty, Int, Nat \ {0})
        /\ IsTable(Empty, Nat \ {0}, Nat)
    BY EmptyTable
  <2> QED
    BY <2>1 DEF FlushType, Quiet, Loop
<1>2. CASE StartFlush(t)
  <2>1. DOMAIN flush' = Tabs /\ \A u \in Tabs : FlushType(flush'[u])
    BY <1>2, BeginType DEF StartFlush, TypeOK, DeviceTypeOK
  <2> QED
    BY <1>2, <2>1, ServerTypeStays DEF StartFlush, TypeOK, DeviceTypeOK
<1>3. CASE GoOnline(t)
  BY <1>3, ServerTypeStays DEF GoOnline, TypeOK, DeviceTypeOK
<1>4. CASE GoOffline(t)
  <2>1. spent' \in [Faults -> Nat]
    BY <1>4, SpendType DEF GoOffline, Faults, TypeOK, ServerTypeOK
  <2> QED
    BY <1>4, <2>1 DEF GoOffline, TypeOK, ServerTypeOK, DeviceTypeOK
<1>5. CASE ShowTrip(t)
  <2>1. IsTable(rows, Int, Entity) /\ IsTable(cache, Int, Entity)
    BY DEF TypeOK, ServerTypeOK, DeviceTypeOK, IsTable
  <2>2. IsTable(PutAll(cache, rows), Int, Entity)
    BY <2>1, PutAllTable
  <2>3. IsTable(cache', Int, Entity)
    BY <1>5, <2>1, <2>2 DEF ShowTrip
  <2>4. DOMAIN rows \subseteq Int /\ DOMAIN cache \subseteq Int
    BY <2>1 DEF IsTable
  <2>5. view' \in [Tabs -> SUBSET Int]
    BY <1>5, <2>4 DEF ShowTrip, TypeOK, DeviceTypeOK
  <2> QED
    BY <1>5, <2>3, <2>5, ServerTypeStays DEF ShowTrip, TypeOK, DeviceTypeOK
<1>6. CASE Evict(t)
  <2>1. spent' \in [Faults -> Nat]
    BY <1>6, SpendType DEF Evict, Faults, TypeOK, ServerTypeOK
  <2>2. IsTable(cache', Int, Entity) /\ IsTable(queue', Keys, Mutation)
    BY <1>6, EmptyTable, WithoutTable DEF Evict, TypeOK, DeviceTypeOK
  <2>3. closed' \in [Keys -> {"open", "theirs", "purged", "unsaved"}]
    BY <1>6 DEF Evict, TypeOK, DeviceTypeOK
  <2>4. view' \in [Tabs -> SUBSET Int]
    BY <1>6 DEF Evict, TypeOK, DeviceTypeOK
  <2> QED
    BY <1>6, <2>1, <2>2, <2>3, <2>4 DEF Evict, TypeOK, ServerTypeOK, DeviceTypeOK
<1>7. CASE Reload(t)
  <2>1. spent' \in [Faults -> Nat]
    BY <1>7, SpendType DEF Reload, Faults, TypeOK, ServerTypeOK
  <2>2. ServerTypeOK'
    BY <1>7, <2>1, HangUpType DEF Reload
  <2>3. DOMAIN flush' = Tabs /\ \A u \in Tabs : FlushType(flush'[u])
    BY <1>1, <1>7 DEF Reload, TypeOK, DeviceTypeOK
  <2>4. view' \in [Tabs -> SUBSET Int]
    BY <1>7 DEF Reload, TypeOK, DeviceTypeOK
  <2>5. closed' \in [Keys -> {"open", "theirs", "purged", "unsaved"}]
    BY <1>7 DEF Reload, TypeOK, DeviceTypeOK
  <2>6. draft' \in Draft \cup {None}
    BY <1>7 DEF Reload, TypeOK, DeviceTypeOK
  <2> QED
    BY <1>7, <2>2, <2>3, <2>4, <2>5, <2>6 DEF Reload, TypeOK, DeviceTypeOK
<1> QED
  BY <1>2, <1>3, <1>4, <1>5, <1>6, <1>7 DEF TabStep

(* Every step keeps the types. *)
LEMMA NextType ==
    ASSUME IndInv, [Next]_vars
    PROVE  TypeOK'
<1>1. TypeOK
  BY DEF IndInv
<1>2. CASE Enqueue
  <2>1. draft.key \in Keys /\ draft.mutation \in Mutation
    BY <1>1, <1>2 DEF Enqueue, Draft, TypeOK, DeviceTypeOK
  <2>2. IsTable(queue', Keys, Mutation)
    BY <1>1, <1>2, <2>1, PutTable DEF Enqueue, TypeOK, DeviceTypeOK
  <2> QED
    BY <1>1, <1>2, <2>2, ServerTypeStays DEF Enqueue, TypeOK, DeviceTypeOK
<1>3. CASE UNCHANGED vars
  BY <1>1, <1>3 DEF vars, serverVars, deviceVars, TypeOK, ServerTypeOK, DeviceTypeOK
<1> QED
  BY <1>1, <1>2, <1>3, ServerStepType, EditStepType, FlushStepType, ConflictStepType,
     TabStepType DEF Next
-----------------------------------------------------------------------------
(* Keys are handed out in order. *)

(* The mutations of a table that changes: none is new, none has another    *)
(* method.                                                                 *)
KeepsMethods(before, after) ==
    \A k \in DOMAIN after : k \in DOMAIN before /\ after[k].method = before[k].method

(* A tab's snapshot holds what it held, or what the queue holds. *)
TodoFrom(t, q) ==
    \A k \in DOMAIN Todo(t)' :
        \/ k \in DOMAIN Todo(t) /\ Todo(t)'[k].method = Todo(t)[k].method
        \/ k \in DOMAIN q /\ Todo(t)'[k].method = q[k].method

(* Amending a queued mutation leaves its method. *)
LEMMA AmendKeepsMethods ==
    ASSUME NEW q, NEW k, NEW base, NEW try, NEW status, NEW server
    PROVE  /\ KeepsMethods(q, Amend(q, k, Revised(q[k], base, try, status, server)))
           /\ KeepsMethods(q, Amend(q, k, Change(q[k], status, try)))
<1>1. Revised(q[k], base, try, status, server).method = q[k].method
  BY DEF Revised
<1>2. Change(q[k], status, try).method = q[k].method
  BY DEF Change, Revised
<1> QED
  BY <1>1, <1>2, AmendEntries DEF KeepsMethods

(* Removing a mutation leaves the methods of the others. *)
LEMMA WithoutKeepsMethods ==
    ASSUME NEW q, NEW S
    PROVE  KeepsMethods(q, Without(q, S))
BY DEF KeepsMethods, Without, Restrict

(* A snapshot holds queued keys. *)
LEMMA BeginTodo ==
    ASSUME TypeOK, NEW t \in Tabs, NEW q, Begin(t, q)
    PROVE  \A u \in Tabs : TodoFrom(u, q)
BY DEF Begin, Loop, Pending, Restrict, TodoFrom, Todo, TypeOK, DeviceTypeOK

(* Going on to the next mutation only shortens the snapshot. *)
LEMMA AdvanceTodo ==
    ASSUME TypeOK, NEW t \in Tabs, NEW q,
           Advance(t) \/ flush' = [flush EXCEPT ![t].step = "next",
                                               ![t].todo = Without(@, {Current(t)}),
                                               ![t].retry = TRUE]
    PROVE  \A u \in Tabs : TodoFrom(u, q)
<1>1. \A u \in Tabs : Todo(u)' = IF u = t THEN Without(Todo(t), {Current(t)}) ELSE Todo(u)
  <2>1. CASE Advance(t)
    BY <2>1 DEF Advance, Todo, TypeOK, DeviceTypeOK
  <2>2. CASE flush' = [flush EXCEPT ![t].step = "next", ![t].todo = Without(@, {Current(t)}),
                                    ![t].retry = TRUE]
    BY <2>2 DEF Todo, TypeOK, DeviceTypeOK
  <2> QED
    BY <2>1, <2>2
<1> QED
  BY <1>1 DEF TodoFrom, Without, Restrict

(* A tab that does not flush has nothing in its snapshot. *)
LEMMA EmptyTodo ==
    ASSUME TypeOK, NEW t \in Tabs, NEW q,
           flush'[t].todo = Empty, \A u \in Tabs \ {t} : flush'[u] = flush[u]
    PROVE  \A u \in Tabs : TodoFrom(u, q)
BY EmptyTable DEF TodoFrom, Todo

(* What a step of the loop does to the tables, the snapshots and the wire. *)
LEMMA FlushStepKeys ==
    ASSUME IndInv, NEW t \in Tabs, FlushStep(t)
    PROVE  /\ KeepsMethods(queue, queue')
           /\ \A u \in Tabs : TodoFrom(u, queue)
           /\ \A q \in wire' :
                 q \in wire \/ (q.key \in DOMAIN Todo(t) /\ q.method = Todo(t)[q.key].method)
           /\ UNCHANGED <<nextKey, draft, keys, applied, spent>>
<1>1. TypeOK /\ DOMAIN flush = Tabs
  BY DEF IndInv, TypeOK, DeviceTypeOK
<1>2. CASE Replays(t)
  <2>1. Current(t) \in DOMAIN Todo(t)
    BY <1>1, <1>2, HeadType DEF Replays, HasNext
  <2>2. \A u \in Tabs : TodoFrom(u, queue)
    BY <1>1, <1>2 DEF Replays, TodoFrom, Todo
  <2>3. KeepsMethods(queue, queue')
    BY <1>2, AmendKeepsMethods DEF Replays
  <2>4. \A q \in wire' : q \in wire \/ q = CurrentRequest(t)
    BY <1>2 DEF Replays, Send
  <2>5. CurrentRequest(t).key = Current(t) /\ CurrentRequest(t).method = Todo(t)[Current(t)].method
    BY DEF CurrentRequest, Snapshot
  <2> QED
    BY <1>2, <2>1, <2>2, <2>3, <2>4, <2>5 DEF Replays, Send
<1>3. CASE FailUnresolved(t)
  BY <1>1, <1>3, AmendKeepsMethods, AdvanceTodo DEF FailUnresolved, serverVars
<1>4. CASE EndFlush(t)
  <2>1. \A u \in Tabs : TodoFrom(u, queue)
    <3>1. CASE Begin(t, queue)
      BY <1>1, <3>1, BeginTodo
    <3>2. CASE flush' = [flush EXCEPT ![t] = Quiet]
      BY <1>1, <3>2, EmptyTodo DEF Quiet, Loop
    <3> QED
      BY <1>4, <3>1, <3>2 DEF EndFlush
  <2> QED
    BY <1>4, <2>1 DEF EndFlush, serverVars, KeepsMethods
<1>5. CASE Remap(t)
  <2>1. KeepsMethods(queue, queue')
    BY <1>1, <1>5 DEF Remap, KeepsMethods, TypeOK, DeviceTypeOK, IsTable, Mutation
  <2>2. \A u \in Tabs : TodoFrom(u, queue)
    BY <1>1, <1>5 DEF Remap, TodoFrom, Todo
  <2> QED
    BY <1>5, <2>1, <2>2 DEF Remap, Received
<1>6. CASE StoreEntity(t)
  <2>1. KeepsMethods(queue, queue')
    BY <1>1, <1>6 DEF StoreEntity, KeepsMethods, TypeOK, DeviceTypeOK, IsTable, Mutation
  <2>2. \A u \in Tabs : TodoFrom(u, queue)
    BY <1>1, <1>6 DEF StoreEntity, TodoFrom, Todo
  <2> QED
    BY <1>6, <2>1, <2>2 DEF StoreEntity, Received
<1>7. CASE Undisplay(t)
  BY <1>1, <1>7 DEF Undisplay, Received, TodoFrom, Todo, KeepsMethods
<1>8. CASE Dequeue(t)
  BY <1>1, <1>8, WithoutKeepsMethods, AdvanceTodo DEF Dequeue, ServerStays
<1>9. CASE ConflictTheirs(t)
  BY <1>1, <1>9, WithoutKeepsMethods, AdvanceTodo DEF ConflictTheirs, ServerStays
<1>10. CASE ConflictMine(t)
  BY <1>1, <1>10, AmendKeepsMethods, AdvanceTodo DEF ConflictMine, ServerStays
<1>11. CASE ConflictAsk(t)
  BY <1>1, <1>11, AmendKeepsMethods, AdvanceTodo DEF ConflictAsk, ServerStays
<1>12. CASE Reject(t)
  BY <1>1, <1>12, AmendKeepsMethods, AdvanceTodo DEF Reject, ServerStays
<1>13. CASE Abort(t)
  <2>1. \A u \in Tabs : TodoFrom(u, queue)
    BY <1>1, <1>13, EmptyTodo DEF Abort
  <2> QED
    BY <1>13, <2>1, AmendKeepsMethods DEF Abort, ServerStays
<1> QED
  BY <1>2, <1>3, <1>4, <1>5, <1>6, <1>7, <1>8, <1>9, <1>10, <1>11, <1>12, <1>13 DEF FlushStep

(* Keeping mine or theirs issues no key. *)
LEMMA ConflictStepKeys ==
    ASSUME TypeOK, NEW t \in Tabs, ConflictStep(t)
    PROVE  /\ KeepsMethods(queue, queue')
           /\ \A u \in Tabs : TodoFrom(u, queue)
           /\ UNCHANGED <<serverVars, nextKey, draft>>
<1>1. PICK k \in DOMAIN queue : KeepMine(t, k) \/ KeepServer(k)
  BY DEF ConflictStep
<1>2. CASE KeepMine(t, k)
  <2>1. KeepsMethods(queue, queue')
    BY <1>2, AmendKeepsMethods DEF KeepMine
  <2>2. CASE Begin(t, queue')
    <3>1. \A u \in Tabs : TodoFrom(u, queue')
      BY <2>2, BeginTodo
    <3> QED
      BY <1>2, <2>1, <3>1 DEF KeepMine, KeepsMethods, TodoFrom
  <2>3. CASE UNCHANGED flush
    BY <1>2, <2>1, <2>3 DEF KeepMine, TodoFrom, Todo
  <2> QED
    BY <1>2, <2>2, <2>3 DEF KeepMine
<1>3. CASE KeepServer(k)
  BY <1>3, WithoutKeepsMethods DEF KeepServer, TodoFrom, Todo
<1> QED
  BY <1>1, <1>2, <1>3

(* No step of a flush issues a key. *)
LEMMA TabStepKeys ==
    ASSUME TypeOK, NEW t \in Tabs, TabStep(t)
    PROVE  /\ KeepsMethods(queue, queue')
           /\ \A u \in Tabs : TodoFrom(u, queue)
           /\ draft' \in {draft, None}
           /\ UNCHANGED <<nextKey, wire, keys, applied>>
<1>1. CASE StartFlush(t)
  BY <1>1, BeginTodo DEF StartFlush, serverVars, KeepsMethods
<1>2. CASE GoOnline(t) \/ GoOffline(t) \/ ShowTrip(t)
  BY <1>2 DEF GoOnline, GoOffline, ShowTrip, serverVars, KeepsMethods, TodoFrom, Todo
<1>3. CASE Evict(t)
  BY <1>3, WithoutKeepsMethods DEF Evict, TodoFrom, Todo
<1>4. CASE Reload(t)
  <2>1. \A u \in Tabs : TodoFrom(u, queue)
    BY <1>4, EmptyTodo DEF Reload, Quiet, Loop, TypeOK, DeviceTypeOK
  <2> QED
    BY <1>4, <2>1 DEF Reload, KeepsMethods
<1> QED
  BY <1>1, <1>2, <1>3, <1>4 DEF TabStep

(* What the server's steps do to the keys and the executions. *)
LEMMA ServerStepKeys ==
    ASSUME TypeOK, ServerStep
    PROVE  /\ wire' \subseteq wire
           /\ \A k \in DOMAIN keys' \ DOMAIN keys : \E q \in wire : q.key = k
           /\ \A k \in Keys : applied'[k] # applied[k] => \E q \in wire : q.key = k
           /\ UNCHANGED deviceVars
<1>1. ASSUME NEW q \in wire, Serve(q)
      PROVE  /\ wire' \subseteq wire
             /\ DOMAIN keys' \subseteq DOMAIN keys \cup {q.key}
             /\ \A k \in Keys \ {q.key} : applied'[k] = applied[k]
  BY <1>1 DEF Serve, Deny, Replay, ExecuteAndStore, Refuse, ExecuteAndCrash, Execute, Put,
     TypeOK, ServerTypeOK
<1>2. ASSUME (\E t \in Tabs : GiveUp(t)) \/ CollabUpdate \/ CollabDelete \/ PurgeKey
      PROVE  wire' = wire /\ DOMAIN keys' \subseteq DOMAIN keys /\ applied' = applied
  BY <1>2 DEF GiveUp, CollabUpdate, CollabDelete, PurgeKey, Without, Restrict
<1> QED
  BY <1>1, <1>2 DEF ServerStep

(* A new edit takes the next key, and brings its method along in the draft *)
(* or in the stored answer.                                                *)
LEMMA EditStepKeys ==
    ASSUME TypeOK, NEW t \in Tabs, EditStep(t)
    PROVE  /\ nextKey \in Keys /\ nextKey' = nextKey + 1
           /\ UNCHANGED <<queue, flush, wire, open, reply, spent, closed>>
           /\ \E method \in Methods :
                 \/ /\ draft = None /\ draft' # None
                    /\ draft'.key = nextKey /\ draft'.mutation.method = method
                    /\ UNCHANGED <<keys, applied>>
                 \/ /\ draft' = draft
                    /\ \E r : /\ keys' = Put(keys, nextKey, r) /\ r.status = "ok"
                              /\ method # "DELETE" => CarriesRow(r)
                    /\ \A k \in Keys : applied'[k] = IF k = nextKey THEN applied[k] + 1 ELSE applied[k]
<1> DEFINE Takes == /\ nextKey \in Keys /\ nextKey' = nextKey + 1
                    /\ UNCHANGED <<queue, flush, wire, open, reply, spent, closed>>
           Brings(method) ==
              \/ /\ draft = None /\ draft' # None
                 /\ draft'.key = nextKey /\ draft'.mutation.method = method
                 /\ UNCHANGED <<keys, applied>>
              \/ /\ draft' = draft
                 /\ \E r : /\ keys' = Put(keys, nextKey, r) /\ r.status = "ok"
                           /\ method # "DELETE" => CarriesRow(r)
                 /\ \A k \in Keys : applied'[k] = IF k = nextKey THEN applied[k] + 1 ELSE applied[k]
<1>1. ASSUME CanDraft(t, "create") \/ CanDraft(t, "update") \/ CanDraft(t, "delete"),
             NEW method \in Methods, NEW target \in Int, NEW base \in Tokens,
             Drafted(t, method, target, base)
      PROVE  Takes /\ Brings(method)
  <2>1. nextKey \in Keys /\ draft = None
    BY <1>1 DEF CanDraft
  <2>2. draft' \in Draft /\ draft'.key = nextKey /\ draft'.mutation.method = method
    BY <1>1, <2>1 DEF Drafted, Draft, Mutation
  <2> QED
    BY <1>1, <2>1, <2>2, DraftAssumption DEF Drafted, serverVars
<1>2. ASSUME NEW kind, NEW method \in Methods, NEW id \in Int,
             EditOnline(t, kind, Direct(t, method, id))
      PROVE  Takes /\ Brings(method)
  <2> DEFINE q == Direct(t, method, id)
  <2>1. q.key = nextKey /\ q.method = method /\ q.row = id
    BY DEF Direct
  <2>2. /\ nextKey \in Keys /\ Execute(q) /\ keys' = Put(keys, nextKey, Success(q))
        /\ nextKey' = nextKey + 1
        /\ UNCHANGED <<wire, open, reply, spent, queue, draft, flush, closed>>
    BY <1>2 DEF EditOnline
  <2> HIDE DEF q
  <2>3. Success(q).status = "ok" /\ (method # "DELETE" => CarriesRow(Success(q)))
    BY <2>1, <2>2, ExecuteType DEF TypeOK
  <2>4. \A k \in Keys : applied'[k] = IF k = nextKey THEN applied[k] + 1 ELSE applied[k]
    BY <2>1, <2>2 DEF Execute, TypeOK, ServerTypeOK
  <2> QED
    BY <2>2, <2>3, <2>4
<1> HIDE DEF Takes, Brings
<1>3. ASSUME CreateOffline(t)
      PROVE  Takes /\ \E method \in Methods : Brings(method)
  <2>1. CanDraft(t, "create") /\ Drafted(t, "POST", -nextKey, NoToken)
    BY <1>3 DEF CreateOffline
  <2>2. -nextKey \in Int /\ NoToken \in Tokens /\ "POST" \in Methods
    BY DEF TypeOK, DeviceTypeOK, NoToken, Tokens, Methods
  <2> QED
    BY <1>1, <2>1, <2>2
<1>4. ASSUME NEW id \in view[t], UpdateOffline(t, id) \/ DeleteOffline(t, id)
      PROVE  Takes /\ \E method \in Methods : Brings(method)
  <2>1. id \in Int /\ NoToken \in Tokens /\ (id \in DOMAIN cache => cache[id].at \in Tokens)
    BY DEF TypeOK, DeviceTypeOK, IsTable, Entity, NoToken, Tokens
  <2>2. CASE UpdateOffline(t, id)
    <3>1. PICK token \in Tokens : Drafted(t, "PUT", id, token)
      BY <2>1, <2>2 DEF UpdateOffline
    <3>2. CanDraft(t, "update")
      BY <2>2 DEF UpdateOffline
    <3> QED
      BY <1>1, <2>1, <3>1, <3>2 DEF Methods
  <2>3. CASE DeleteOffline(t, id)
    BY <1>1, <2>1, <2>3 DEF DeleteOffline, Methods
  <2> QED
    BY <1>4, <2>2, <2>3
<1>5. ASSUME CreateOnline(t)
      PROVE  Takes /\ \E method \in Methods : Brings(method)
  BY <1>2, <1>5 DEF CreateOnline, Methods
<1>6. ASSUME NEW id \in view[t], UpdateOnline(t, id) \/ DeleteOnline(t, id)
      PROVE  Takes /\ \E method \in Methods : Brings(method)
  <2>1. id \in Int
    BY DEF TypeOK, DeviceTypeOK
  <2> QED
    BY <1>2, <1>6, <2>1 DEF UpdateOnline, DeleteOnline, Methods
<1>7. Takes /\ \E method \in Methods : Brings(method)
  BY <1>3, <1>4, <1>5, <1>6 DEF EditStep
<1>8. PICK method \in Methods : Brings(method)
  BY <1>7
<1>9. Takes
  BY <1>7
<1> QED
  BY <1>8, <1>9 DEF Takes, Brings

(* No trace of an edit appears before the edit is made. *)
LEMMA NextKeysIssued ==
    ASSUME IndInv, [Next]_vars
    PROVE  KeysIssued'
<1>1. TypeOK /\ KeysIssued /\ nextKey \in Nat
  BY DEF IndInv, TypeOK, DeviceTypeOK
<1>2. CASE Enqueue
  BY <1>1, <1>2 DEF Enqueue, serverVars, KeysIssued, Put, Todo
<1>3. CASE ServerStep
  <2>1. UNCHANGED <<queue, draft, flush, nextKey>>
    BY <1>1, <1>3, ServerStepKeys DEF deviceVars
  <2>2. applied' \in [Keys -> Nat]
    BY <1>1, <1>3, ServerStepType DEF TypeOK, ServerTypeOK
  <2> QED
    BY <1>1, <1>3, <2>1, <2>2, ServerStepKeys DEF KeysIssued, Todo
<1>4. ASSUME NEW t \in Tabs, EditStep(t)
      PROVE  KeysIssued'
  <2>1. DOMAIN keys' \subseteq DOMAIN keys \cup {nextKey}
    BY <1>1, <1>4, EditStepKeys DEF Put
  <2> QED
    BY <1>1, <1>4, <2>1, EditStepKeys DEF KeysIssued, Todo, Keys
<1>5. ASSUME NEW t \in Tabs, FlushStep(t)
      PROVE  KeysIssued'
  BY <1>1, <1>5, FlushStepKeys DEF KeysIssued, KeepsMethods, TodoFrom
<1>6. ASSUME NEW t \in Tabs, ConflictStep(t)
      PROVE  KeysIssued'
  BY <1>1, <1>6, ConflictStepKeys DEF KeysIssued, KeepsMethods, TodoFrom, serverVars
<1>7. ASSUME NEW t \in Tabs, TabStep(t)
      PROVE  KeysIssued'
  BY <1>1, <1>7, TabStepKeys DEF KeysIssued, KeepsMethods, TodoFrom
<1>8. CASE UNCHANGED vars
  BY <1>1, <1>8 DEF vars, serverVars, deviceVars, KeysIssued, Todo
<1> QED
  BY <1>2, <1>3, <1>4, <1>5, <1>6, <1>7, <1>8 DEF Next
-----------------------------------------------------------------------------
(* A tab waits for the answer to the head of its snapshot. *)

(* A tab whose exchange and loop are left alone. *)
LEMMA ExchangeStays ==
    ASSUME NEW t, ExchangeOf(t),
           open'[t] = open[t], reply'[t] = reply[t], flush'[t] = flush[t]
    PROVE  ExchangeOf(t)'
BY DEF ExchangeOf, Current, Snapshot, Todo

(* A tab between two mutations, or idle, has no exchange. *)
LEMMA ExchangeOver ==
    ASSUME NEW t, open'[t] = None, reply'[t] = None, flush'[t].step \in {"idle", "next"}
    PROVE  ExchangeOf(t)'
BY DEF ExchangeOf

(* A step of one tab's loop leaves the exchanges and loops of the others.  *)
LEMMA OtherTabsStay ==
    ASSUME TypeOK, NEW t \in Tabs, FlushStep(t), NEW u \in Tabs \ {t}
    PROVE  open'[u] = open[u] /\ reply'[u] = reply[u] /\ flush'[u] = flush[u]
<1>1. DOMAIN flush = Tabs /\ DOMAIN open = Tabs /\ DOMAIN reply = Tabs
  BY DEF TypeOK, ServerTypeOK, DeviceTypeOK
<1>2. Advance(t) => flush'[u] = flush[u]
  BY <1>1 DEF Advance
<1>3. HangUp(t) => open'[u] = open[u] /\ reply'[u] = reply[u]
  BY <1>1 DEF HangUp
<1>4. Received(t) => open'[u] = open[u] /\ reply'[u] = reply[u]
  BY <1>1 DEF Received
<1>5. CASE Replays(t)
  BY <1>1, <1>5 DEF Replays, Send
<1>6. CASE FailUnresolved(t)
  BY <1>2, <1>6 DEF FailUnresolved, serverVars
<1>7. CASE EndFlush(t)
  BY <1>1, <1>7 DEF EndFlush, Begin, serverVars
<1>8. CASE Remap(t)
  BY <1>1, <1>4, <1>8 DEF Remap
<1>9. CASE StoreEntity(t)
  BY <1>1, <1>4, <1>9 DEF StoreEntity
<1>10. CASE Undisplay(t)
  BY <1>1, <1>4, <1>10 DEF Undisplay
<1>11. CASE Dequeue(t)
  BY <1>2, <1>3, <1>11 DEF Dequeue
<1>12. CASE ConflictTheirs(t)
  BY <1>2, <1>3, <1>12 DEF ConflictTheirs
<1>13. CASE ConflictMine(t)
  BY <1>1, <1>3, <1>13 DEF ConflictMine
<1>14. CASE ConflictAsk(t)
  BY <1>2, <1>3, <1>14 DEF ConflictAsk
<1>15. CASE Reject(t)
  BY <1>2, <1>3, <1>15 DEF Reject
<1>16. CASE Abort(t)
  BY <1>1, <1>3, <1>16 DEF Abort
<1> QED
  BY <1>5, <1>6, <1>7, <1>8, <1>9, <1>10, <1>11, <1>12, <1>13, <1>14, <1>15, <1>16
     DEF FlushStep

(* Every step keeps the exchanges in order. *)
LEMMA NextExchanges ==
    ASSUME IndInv, [Next]_vars
    PROVE  Exchanges'
<1>1. /\ TypeOK /\ Exchanges /\ DOMAIN flush = Tabs
      /\ \A t \in Tabs : FlushType(flush[t]) /\ ExchangeOf(t)
  BY DEF IndInv, TypeOK, DeviceTypeOK, Exchanges
<1>2. ASSUME NEW t \in Tabs, flush[t].step \in {"idle", "next"}
      PROVE  open[t] = None /\ reply[t] = None
  BY <1>1, <1>2 DEF ExchangeOf
<1>3. CASE Enqueue \/ UNCHANGED vars \/ \E t \in Tabs : EditStep(t)
  <2>1. UNCHANGED <<open, reply, flush>>
    BY <1>1, <1>3, EditStepKeys DEF Enqueue, vars, serverVars, deviceVars
  <2> QED
    BY <1>1, <2>1, ExchangeStays DEF Exchanges
<1>4. CASE ServerStep
  <2>1. UNCHANGED <<open, flush>>
    BY <1>4 DEF ServerStep, deviceVars, Serve, GiveUp, CollabUpdate, CollabDelete, PurgeKey
  <2>2. ASSUME NEW t \in Tabs, reply'[t] # reply[t]
        PROVE  open[t] # None
    <3>1. CASE \E q \in wire : Serve(q)
      BY <1>1, <2>2, <3>1, NoneAssumption DEF Serve, Deny, Replay, ExecuteAndStore, Refuse,
         ExecuteAndCrash, Answer, TypeOK, ServerTypeOK
    <3>2. CASE \E u \in Tabs : GiveUp(u)
      BY <1>1, <2>2, <3>2 DEF GiveUp, TypeOK, ServerTypeOK
    <3>3. CASE CollabUpdate \/ CollabDelete \/ PurgeKey
      BY <2>2, <3>3 DEF CollabUpdate, CollabDelete, PurgeKey
    <3> QED
      BY <1>4, <3>1, <3>2, <3>3 DEF ServerStep
  <2>3. ASSUME NEW t \in Tabs, reply'[t] # reply[t]
        PROVE  ExchangeOf(t)'
    <3>1. open[t] # None /\ flush[t].step = "wait" /\ open[t].key = Current(t)
      BY <1>1, <2>2, <2>3 DEF ExchangeOf
    <3>2. DOMAIN Todo(t) # {}
      BY <1>1, <3>1 DEF ExchangeOf
    <3> QED
      BY <2>1, <3>1, <3>2 DEF ExchangeOf, Current, Todo
  <2> QED
    BY <1>1, <2>1, <2>3, ExchangeStays DEF Exchanges
<1>5. ASSUME NEW t \in Tabs, FlushStep(t)
      PROVE  Exchanges'
  <2>1. \A u \in Tabs \ {t} : ExchangeOf(u)'
    <3>1. \A u \in Tabs \ {t} : /\ open'[u] = open[u] /\ reply'[u] = reply[u]
                                 /\ flush'[u] = flush[u]
      BY <1>1, <1>5, OtherTabsStay
    <3> QED
      BY <1>1, <3>1, ExchangeStays
  <2>2. ExchangeOf(t)'
    <3>1. CASE Replays(t)
      <4>1. /\ open'[t] = CurrentRequest(t) /\ flush'[t].step = "wait"
            /\ flush'[t].todo = flush[t].todo /\ DOMAIN Todo(t) # {}
        BY <1>1, <3>1 DEF Replays, HasNext, Send, TypeOK, ServerTypeOK
      <4>2. open'[t].key = Current(t)
        BY <4>1 DEF CurrentRequest
      <4> QED
        BY <4>1, <4>2 DEF ExchangeOf, Current, Todo
    <3>2. CASE FailUnresolved(t) \/ EndFlush(t)
      <4>1. flush[t].step = "next" /\ UNCHANGED <<open, reply>>
        BY <3>2 DEF FailUnresolved, HasNext, EndFlush, serverVars
      <4>2. flush'[t].step \in {"idle", "next"}
        <5>1. CASE FailUnresolved(t)
          BY <1>1, <5>1 DEF FailUnresolved, Advance
        <5>2. CASE EndFlush(t)
          BY <1>1, <5>2 DEF EndFlush, Begin, Quiet, Loop
        <5> QED
          BY <3>2, <5>1, <5>2
      <4> QED
        BY <1>2, <4>1, <4>2, ExchangeOver
    <3>3. CASE Remap(t)
      <4>1. /\ open'[t] = None /\ reply' = reply /\ Answered(t, "ok")
            /\ flush'[t].step = "store" /\ flush'[t].todo = flush[t].todo
            /\ Snapshot(t).method = "POST"
        BY <1>1, <3>3 DEF Remap, Received, TypeOK, ServerTypeOK
      <4>2. DOMAIN Todo(t) # {}
        BY <1>1, <4>1 DEF ExchangeOf, Answered
      <4> QED
        BY <4>1, <4>2 DEF ExchangeOf, Answered, Snapshot, Current, Todo
    <3>4. CASE StoreEntity(t) \/ Undisplay(t)
      <4>1. /\ Received(t)
            /\ flush'[t].step = "remove" /\ flush'[t].todo = flush[t].todo
            /\ Answered(t, "ok") \/ flush[t].step = "store"
        <5>1. CASE StoreEntity(t)
          BY <1>1, <5>1 DEF StoreEntity
        <5>2. CASE Undisplay(t)
          BY <1>1, <5>2 DEF Undisplay
        <5> QED
          BY <3>4, <5>1, <5>2
      <4>2. DOMAIN Todo(t) # {} /\ reply[t] # None /\ reply[t].status = "ok"
        BY <1>1, <4>1 DEF ExchangeOf, Answered
      <4> QED
        BY <1>1, <4>1, <4>2 DEF ExchangeOf, Received, Todo, TypeOK, ServerTypeOK
    <3>5. CASE Dequeue(t) \/ ConflictTheirs(t) \/ ConflictMine(t) \/ ConflictAsk(t)
               \/ Reject(t) \/ Abort(t)
      <4>1. HangUp(t)
        BY <3>5 DEF Dequeue, ConflictTheirs, ConflictMine, ConflictAsk, Reject, Abort
      <4>2. flush'[t].step = "next"
        <5>1. CASE Advance(t)
          BY <1>1, <5>1 DEF Advance
        <5>2. CASE ConflictMine(t)
          BY <1>1, <5>2 DEF ConflictMine
        <5>3. CASE Abort(t)
          BY <1>1, <5>3 DEF Abort
        <5> QED
          BY <3>5, <5>1, <5>2, <5>3 DEF Dequeue, ConflictTheirs, ConflictAsk, Reject
      <4>3. open'[t] = None /\ reply'[t] = None
        BY <1>1, <4>1 DEF HangUp, TypeOK, ServerTypeOK
      <4> QED
        BY <4>2, <4>3, ExchangeOver
    <3> QED
      BY <1>5, <3>1, <3>2, <3>3, <3>4, <3>5 DEF FlushStep
  <2> QED
    BY <2>1, <2>2 DEF Exchanges
<1>6. ASSUME NEW t \in Tabs, ConflictStep(t) \/ TabStep(t)
      PROVE  Exchanges'
  <2>1. CASE UNCHANGED <<open, reply, flush>>
    BY <1>1, <2>1, ExchangeStays DEF Exchanges
  <2>2. ASSUME NEW q, flush[t].step = "idle", Begin(t, q), UNCHANGED <<open, reply>>
        PROVE  Exchanges'
    <3>1. flush'[t].step = "next" /\ \A u \in Tabs \ {t} : flush'[u] = flush[u]
      BY <1>1, <2>2 DEF Begin, Loop
    <3>2. open'[t] = None /\ reply'[t] = None
      BY <1>2, <2>2
    <3> QED
      BY <1>1, <2>2, <3>1, <3>2, ExchangeStays, ExchangeOver DEF Exchanges
  <2>3. CASE Reload(t)
    <3>1. /\ open'[t] = None /\ reply'[t] = None /\ flush'[t].step = "idle"
          /\ \A u \in Tabs \ {t} : /\ open'[u] = open[u] /\ reply'[u] = reply[u]
                                    /\ flush'[u] = flush[u]
      BY <1>1, <2>3 DEF Reload, HangUp, Quiet, Loop, TypeOK, ServerTypeOK
    <3> QED
      BY <1>1, <3>1, ExchangeStays, ExchangeOver DEF Exchanges
  <2> QED
    BY <1>6, <2>1, <2>2, <2>3 DEF ConflictStep, KeepMine, KeepServer, TabStep, StartFlush,
       GoOnline, GoOffline, ShowTrip, Evict, serverVars
<1> QED
  BY <1>3, <1>4, <1>5, <1>6 DEF Next
-----------------------------------------------------------------------------
(* Answers. *)

(* On the device no answer appears: a tab keeps the one it holds, and the  *)
(* mutation it belongs to, or has none.                                    *)
LEMMA DeviceReplies ==
    ASSUME IndInv, [Next]_vars, ~ServerStep, NEW t \in Tabs, reply'[t] # None
    PROVE  reply'[t] = reply[t] /\ Current(t)' = Current(t)
<1>1. TypeOK /\ DOMAIN flush = Tabs /\ DOMAIN open = Tabs /\ DOMAIN reply = Tabs
  BY DEF IndInv, TypeOK, ServerTypeOK, DeviceTypeOK
<1>2. ASSUME NEW u \in Tabs, flush[u].step \in {"idle", "next"}
      PROVE  reply[u] = None
  BY <1>2 DEF IndInv, Exchanges, ExchangeOf
<1>3. CASE Enqueue \/ UNCHANGED vars \/ \E u \in Tabs : EditStep(u)
  BY <1>1, <1>3, EditStepKeys DEF Enqueue, vars, serverVars, deviceVars, Current, Todo
<1>4. ASSUME NEW u \in Tabs, FlushStep(u)
      PROVE  reply'[t] = reply[t] /\ Current(t)' = Current(t)
  <2>1. CASE t # u
    BY <1>1, <1>4, <2>1, OtherTabsStay DEF Current, Todo
  <2>2. CASE t = u
    <3>1. CASE Replays(t) \/ FailUnresolved(t) \/ EndFlush(t)
      <4>1. reply' = reply /\ flush[t].step = "next"
        BY <3>1 DEF Replays, Send, FailUnresolved, EndFlush, HasNext, serverVars
      <4> QED
        BY <1>2, <4>1
    <3>2. CASE Remap(t)
      BY <1>1, <3>2 DEF Remap, Received, Current, Todo
    <3>3. CASE StoreEntity(t)
      BY <1>1, <3>3 DEF StoreEntity, Received, Current, Todo
    <3>4. CASE Undisplay(t)
      BY <1>1, <3>4 DEF Undisplay, Received, Current, Todo
    <3>5. CASE Dequeue(t) \/ ConflictTheirs(t) \/ ConflictMine(t) \/ ConflictAsk(t)
               \/ Reject(t) \/ Abort(t)
      <4>1. HangUp(t)
        BY <3>5 DEF Dequeue, ConflictTheirs, ConflictMine, ConflictAsk, Reject, Abort
      <4> QED
        BY <1>1, <4>1 DEF HangUp
    <3> QED
      BY <1>4, <2>2, <3>1, <3>2, <3>3, <3>4, <3>5 DEF FlushStep
  <2> QED
    BY <2>1, <2>2
<1>5. ASSUME NEW u \in Tabs, ConflictStep(u) \/ TabStep(u)
      PROVE  reply'[t] = reply[t] /\ Current(t)' = Current(t)
  <2>1. CASE UNCHANGED <<reply, flush>>
    BY <2>1 DEF Current, Todo
  <2>2. ASSUME NEW q, flush[u].step = "idle", Begin(u, q), UNCHANGED reply
        PROVE  reply'[t] = reply[t] /\ Current(t)' = Current(t)
    <3>1. t # u => flush'[t] = flush[t]
      BY <1>1, <2>2 DEF Begin
    <3> QED
      BY <1>2, <2>2, <3>1 DEF Current, Todo
  <2>3. CASE Reload(u)
    BY <1>1, <2>3 DEF Reload, HangUp, Current, Todo
  <2> QED
    BY <1>5, <2>1, <2>2, <2>3 DEF ConflictStep, KeepMine, KeepServer, TabStep, StartFlush,
       GoOnline, GoOffline, ShowTrip, Evict, serverVars
<1> QED
  BY <1>3, <1>4, <1>5 DEF Next

(* A 2xx that arrives is the stored one or that of the write just made,    *)
(* for the mutation the tab has in hand.                                   *)
LEMMA ServerReplies ==
    ASSUME IndInv, ServerStep, NEW t \in Tabs,
           reply'[t] # reply[t], reply'[t] # None, reply'[t].status = "ok"
    PROVE  \E q \in wire :
              /\ q.key = Current(t)
              /\ \/ Replay(q) /\ reply'[t] = keys[q.key]
                 \/ ExecuteAndStore(q) /\ reply'[t] = Success(q)
<1>1. DOMAIN reply = Tabs /\ wire \subseteq Request
  BY DEF IndInv, TypeOK, ServerTypeOK
<1>2. CASE \E u \in Tabs : GiveUp(u)
  BY <1>1, <1>2 DEF GiveUp, Bare
<1>3. CASE CollabUpdate \/ CollabDelete \/ PurgeKey
  BY <1>3 DEF CollabUpdate, CollabDelete, PurgeKey
<1>4. CASE \E q \in wire : Serve(q)
  <2>1. PICK q \in wire : Serve(q)
    BY <1>4
  <2>2. PICK r : /\ Answer(q, r)
                 /\ \/ Replay(q) /\ r = keys[q.key]
                    \/ ExecuteAndStore(q) /\ r = Success(q)
                    \/ r.status # "ok"
    <3>1. Bare("denied").status # "ok" /\ Bare("lost").status # "ok" /\ Refusal(q).status # "ok"
      BY DEF Bare, Refusal
    <3>2. CASE Deny(q)
      BY <3>1, <3>2 DEF Deny
    <3>3. CASE Replay(q)
      <4>1. Answer(q, keys[q.key])
        BY <3>3 DEF Replay
      <4> QED
        BY <3>3, <4>1
    <3>4. CASE ExecuteAndStore(q)
      <4>1. Answer(q, Success(q))
        BY <3>4 DEF ExecuteAndStore
      <4> QED
        BY <3>4, <4>1
    <3>5. CASE Refuse(q)
      BY <3>1, <3>5 DEF Refuse
    <3>6. CASE ExecuteAndCrash(q)
      BY <3>1, <3>6 DEF ExecuteAndCrash
    <3> QED
      BY <2>1, <3>2, <3>3, <3>4, <3>5, <3>6 DEF Serve
  <2>3. open[t] = q /\ reply'[t] = r
    <3>1. reply' = [u \in Tabs |-> IF open[u] = q THEN r ELSE reply[u]]
      BY <2>2 DEF Answer
    <3> QED
      BY <3>1
  <2>4. q.key = Current(t)
    BY <1>1, <2>3, NoneAssumption DEF IndInv, Exchanges, ExchangeOf
  <2> QED
    BY <2>2, <2>3, <2>4
<1> QED
  BY <1>2, <1>3, <1>4 DEF ServerStep

-----------------------------------------------------------------------------
(* One method per edit. *)

(* Every step keeps one method per edit. *)
LEMMA NextMethodsAgree ==
    ASSUME IndInv, [Next]_vars
    PROVE  MethodsAgree'
<1>1. /\ TypeOK /\ KeysIssued /\ nextKey \in Nat
      /\ DOMAIN queue \subseteq Keys /\ DOMAIN keys \subseteq Keys
      /\ \A q \in wire : q.key \in Keys /\ q.method \in Methods /\ q.row \in Int
  BY DEF IndInv, TypeOK, ServerTypeOK, DeviceTypeOK, IsTable, Request
<1>2. PICK m \in [Keys -> Methods] : Agree(m)
  BY DEF IndInv, MethodsAgree
<1>3. CASE ServerStep
  <2>1. UNCHANGED <<queue, draft, flush>> /\ wire' \subseteq wire
    BY <1>1, <1>3, ServerStepKeys DEF deviceVars
  <2>2. ASSUME NEW q \in wire, ExecuteAndStore(q), m[q.key] # "DELETE"
        PROVE  CarriesRow(Success(q))
    <3>1. q.method # "DELETE" /\ Execute(q) /\ ServerTypeOK
      BY <1>1, <1>2, <2>2 DEF Agree, ExecuteAndStore, TypeOK
    <3> QED
      BY <1>1, <3>1, ExecuteType
  <2>3. \A k \in DOMAIN keys' : m[k] # "DELETE" => CarriesRow(keys'[k])
    <3>1. CASE keys' = keys
      BY <1>2, <3>1 DEF Agree
    <3>2. CASE \E q \in wire : ExecuteAndStore(q)
      <4>1. PICK q \in wire : ExecuteAndStore(q)
        BY <3>2
      <4>2. keys' = Put(keys, q.key, Success(q))
        BY <4>1 DEF ExecuteAndStore
      <4>3. \A k \in DOMAIN keys' : IF k = q.key THEN keys'[k] = Success(q)
                                    ELSE k \in DOMAIN keys /\ keys'[k] = keys[k]
        BY <4>2 DEF Put
      <4> QED
        BY <1>2, <2>2, <4>1, <4>3 DEF Agree
    <3>3. CASE PurgeKey
      BY <1>2, <3>3 DEF PurgeKey, Without, Restrict, Agree
    <3> QED
      BY <1>3, <3>1, <3>2, <3>3 DEF ServerStep, Serve, Deny, Replay, Refuse, ExecuteAndCrash,
         GiveUp, CollabUpdate, CollabDelete
  <2>4. ASSUME NEW t \in Tabs, reply'[t] # None, reply'[t].status = "ok",
               m[Current(t)] # "DELETE"
        PROVE  CarriesRow(reply'[t])
    <3>1. CASE reply'[t] = reply[t]
      BY <1>2, <2>4, <3>1 DEF Agree
    <3>2. CASE reply'[t] # reply[t]
      <4>1. PICK q \in wire : /\ q.key = Current(t)
                              /\ \/ Replay(q) /\ reply'[t] = keys[q.key]
                                 \/ ExecuteAndStore(q) /\ reply'[t] = Success(q)
        BY <1>3, <2>4, <3>2, ServerReplies
      <4>2. CASE Replay(q)
        BY <1>2, <2>2, <2>4, <4>1, <4>2 DEF Replay, Agree
      <4>3. CASE ExecuteAndStore(q) /\ reply'[t] = Success(q)
        BY <2>2, <2>4, <4>1, <4>3
      <4> QED
        BY <4>1, <4>2, <4>3
    <3> QED
      BY <3>1, <3>2
  <2>5. Agree(m)'
    BY <1>2, <2>1, <2>3, <2>4 DEF Agree, Current, Todo
  <2> QED
    BY <2>5 DEF MethodsAgree
<1>4. ASSUME [Next]_vars, ~ServerStep,
             KeepsMethods(queue, queue') \/ Enqueue,
             \A t \in Tabs : TodoFrom(t, queue),
             draft' = None \/ draft' = draft,
             \A q \in wire' : \/ q \in wire
                              \/ \E t \in Tabs : /\ q.key \in DOMAIN Todo(t)
                                                 /\ q.method = Todo(t)[q.key].method,
             UNCHANGED keys
      PROVE  MethodsAgree'
  <2>1. \A k \in DOMAIN queue' : queue'[k].method = m[k]
    BY <1>2, <1>4 DEF KeepsMethods, Enqueue, Put, Agree
  <2>2. \A t \in Tabs : \A k \in DOMAIN Todo(t)' : Todo(t)'[k].method = m[k]
    BY <1>2, <1>4 DEF TodoFrom, Agree
  <2>3. \A t \in Tabs : (reply'[t] # None /\ reply'[t].status = "ok" /\ m[Current(t)'] # "DELETE")
                            => CarriesRow(reply'[t])
    BY <1>2, <1>4, DeviceReplies DEF Agree
  <2>4. Agree(m)'
    BY <1>2, <1>4, <2>1, <2>2, <2>3 DEF Agree
  <2> QED
    BY <2>4 DEF MethodsAgree
<1>5. ASSUME NEW t \in Tabs, EditStep(t)
      PROVE  MethodsAgree'
  <2>1. PICK method \in Methods :
           \/ /\ UNCHANGED keys /\ draft' # None
              /\ draft'.key = nextKey /\ draft'.mutation.method = method
           \/ /\ draft' = draft
              /\ \E r : /\ keys' = Put(keys, nextKey, r)
                        /\ method # "DELETE" => CarriesRow(r)
    BY <1>1, <1>5, EditStepKeys
  <2>2. nextKey \in Keys /\ UNCHANGED <<queue, flush, wire, open, reply>>
    BY <1>1, <1>5, EditStepKeys
  <2>3. PICK n \in [Keys -> Methods] :
           n[nextKey] = method /\ \A k \in 1..(nextKey - 1) : n[k] = m[k]
    <3>1. [m EXCEPT ![nextKey] = method] \in [Keys -> Methods]
      OBVIOUS
    <3>2. /\ [m EXCEPT ![nextKey] = method][nextKey] = method
          /\ \A k \in 1..(nextKey - 1) : [m EXCEPT ![nextKey] = method][k] = m[k]
      BY <1>1, <2>2 DEF Keys
    <3> QED
      BY <3>1, <3>2
  <2>4. \A k \in DOMAIN keys' : n[k] # "DELETE" => CarriesRow(keys'[k])
    <3>1. CASE UNCHANGED keys
      BY <1>1, <1>2, <2>3, <3>1 DEF Agree, KeysIssued
    <3>2. CASE \E r : keys' = Put(keys, nextKey, r) /\ (method # "DELETE" => CarriesRow(r))
      <4>1. PICK r : keys' = Put(keys, nextKey, r) /\ (method # "DELETE" => CarriesRow(r))
        BY <3>2
      <4>2. \A k \in DOMAIN keys' : IF k = nextKey THEN keys'[k] = r
                                    ELSE k \in DOMAIN keys /\ keys'[k] = keys[k]
        BY <4>1 DEF Put
      <4> QED
        BY <1>1, <1>2, <2>3, <4>1, <4>2 DEF Agree, KeysIssued
    <3> QED
      BY <2>1, <3>1, <3>2
  <2>5. \A u \in Tabs : reply[u] # None => n[Current(u)] = m[Current(u)]
    <3>1. \A u \in Tabs : reply[u] # None => Current(u) \in DOMAIN Todo(u)
      BY HeadInHand DEF IndInv, Exchanges, ExchangeOf
    <3> QED
      BY <1>1, <2>3, <3>1 DEF KeysIssued
  <2>6. draft' # None => draft'.mutation.method = n[draft'.key]
    <3>1. CASE draft' = draft
      BY <1>1, <1>2, <2>3, <3>1 DEF Agree, KeysIssued
    <3>2. CASE draft'.key = nextKey /\ draft'.mutation.method = method
      BY <2>3, <3>2
    <3> QED
      BY <2>1, <3>1, <3>2
  <2>7. Agree(n)'
    <3>1. \A k \in DOMAIN queue : queue[k].method = n[k]
      BY <1>1, <1>2, <2>3 DEF Agree, KeysIssued
    <3>2. \A u \in Tabs : \A k \in DOMAIN Todo(u) : Todo(u)[k].method = n[k]
      BY <1>1, <1>2, <2>3 DEF Agree, KeysIssued
    <3>3. \A q \in wire : q.method = n[q.key]
      BY <1>1, <1>2, <2>3 DEF Agree, KeysIssued
    <3>4. \A u \in Tabs : (reply[u] # None /\ reply[u].status = "ok" /\ n[Current(u)] # "DELETE")
                              => CarriesRow(reply[u])
      BY <1>2, <2>5 DEF Agree
    <3> QED
      BY <2>2, <2>4, <2>6, <3>1, <3>2, <3>3, <3>4 DEF Agree, Current, Todo
  <2> QED
    BY <2>3, <2>7 DEF MethodsAgree
<1>6. CASE UNCHANGED vars
  BY <1>2, <1>6 DEF vars, serverVars, deviceVars, MethodsAgree, Agree, Current, Todo
<1>7. CASE Enqueue /\ ~ServerStep
  BY <1>4, <1>7 DEF Enqueue, serverVars, TodoFrom, Todo
<1>8. ASSUME NEW t \in Tabs, FlushStep(t), ~ServerStep
      PROVE  MethodsAgree'
  <2>1. draft' = draft /\ keys' = keys
    BY <1>8, FlushStepKeys
  <2> QED
    BY <1>4, <1>8, <2>1, FlushStepKeys
<1>9. ASSUME NEW t \in Tabs, ConflictStep(t), ~ServerStep
       PROVE  MethodsAgree'
  <2>1. draft' = draft /\ keys' = keys /\ wire' = wire
    BY <1>1, <1>9, ConflictStepKeys DEF serverVars
  <2> QED
    BY <1>1, <1>4, <1>9, <2>1, ConflictStepKeys
<1>10. ASSUME NEW t \in Tabs, TabStep(t), ~ServerStep
       PROVE  MethodsAgree'
  BY <1>1, <1>4, <1>10, TabStepKeys
<1> QED
  BY <1>3, <1>5, <1>6, <1>7, <1>8, <1>9, <1>10 DEF Next
-----------------------------------------------------------------------------
(* Executions. *)

(* What one step of the server does to the keys and the executions.        *)
LEMMA ServerExecutions ==
    ASSUME TypeOK, ServerStep
    PROVE  \/ /\ UNCHANGED <<keys, applied>> /\ spent'["keyLoss"] >= spent["keyLoss"]
           \/ \E q \in wire :
                 /\ ExecuteAndStore(q) /\ q.key \in Keys \ DOMAIN keys
                 /\ keys' = Put(keys, q.key, Success(q)) /\ Success(q).status = "ok"
                 /\ applied' = [applied EXCEPT ![q.key] = @ + 1]
                 /\ spent' = spent
           \/ \E q \in wire :
                 /\ q.key \in Keys \ DOMAIN keys /\ keys' = keys
                 /\ applied' = [applied EXCEPT ![q.key] = @ + 1]
                 /\ spent'["keyLoss"] = spent["keyLoss"] + 1
           \/ \E k \in DOMAIN keys :
                 /\ keys' = Without(keys, {k}) /\ applied' = applied
                 /\ spent'["keyLoss"] = spent["keyLoss"] + 1
<1>1. /\ \A q \in wire : q.key \in Keys /\ q.method \in Methods /\ q.row \in Int
      /\ spent \in [Faults -> Nat] /\ "keyLoss" \in Faults
  BY DEF TypeOK, ServerTypeOK, Request, Faults
<1>2. \A f \in Faults : Spend(f) => spent'["keyLoss"] = IF f = "keyLoss" THEN spent["keyLoss"] + 1
                                                      ELSE spent["keyLoss"]
  BY <1>1 DEF Spend
<1>3. CASE \E t \in Tabs : GiveUp(t)
  BY <1>1, <1>2, <1>3 DEF GiveUp, Faults
<1>4. CASE CollabUpdate \/ CollabDelete
  BY <1>1, <1>2, <1>4 DEF CollabUpdate, CollabDelete, Faults
<1>5. CASE PurgeKey
  BY <1>1, <1>2, <1>5 DEF PurgeKey
<1>6. ASSUME NEW q \in wire, Deny(q) \/ Replay(q) \/ Refuse(q)
      PROVE  UNCHANGED <<keys, applied>> /\ spent'["keyLoss"] >= spent["keyLoss"]
  BY <1>1, <1>2, <1>6 DEF Deny, Replay, Refuse, Faults
<1>7. ASSUME NEW q \in wire, ExecuteAndStore(q)
      PROVE  /\ q.key \in Keys \ DOMAIN keys
             /\ keys' = Put(keys, q.key, Success(q)) /\ Success(q).status = "ok"
             /\ applied' = [applied EXCEPT ![q.key] = @ + 1]
             /\ spent' = spent
  <2>1. Success(q).status = "ok"
    BY <1>1, <1>7, ExecuteType DEF ExecuteAndStore, TypeOK
  <2> QED
    BY <1>1, <1>7, <2>1 DEF ExecuteAndStore, Execute
<1>8. ASSUME NEW q \in wire, ExecuteAndCrash(q)
      PROVE  /\ q.key \in Keys \ DOMAIN keys /\ keys' = keys
             /\ applied' = [applied EXCEPT ![q.key] = @ + 1]
             /\ spent'["keyLoss"] = spent["keyLoss"] + 1
  BY <1>1, <1>2, <1>8 DEF ExecuteAndCrash, Execute
<1>9. CASE \E q \in wire : Serve(q)
  BY <1>6, <1>7, <1>8, <1>9 DEF Serve
<1> QED
  BY <1>3, <1>4, <1>5, <1>9 DEF ServerStep

(* Nothing that was executed is undone. *)
LEMMA AppliedGrows ==
    ASSUME IndInv, [Next]_vars
    PROVE  /\ \A k \in Keys : applied'[k] \in Nat /\ applied'[k] >= applied[k]
           /\ (~ServerStep /\ \A t \in Tabs : ~EditStep(t)) => UNCHANGED <<keys, applied>>
<1>1. TypeOK /\ applied \in [Keys -> Nat]
  BY DEF IndInv, TypeOK, ServerTypeOK
<1>2. CASE ServerStep
  <2>1. UNCHANGED applied \/ \E k \in Keys : applied' = [applied EXCEPT ![k] = @ + 1]
    BY <1>1, <1>2, ServerExecutions
  <2> QED
    BY <1>1, <1>2, <2>1
<1>3. ASSUME NEW t \in Tabs, EditStep(t)
      PROVE  \A k \in Keys : applied'[k] \in Nat /\ applied'[k] >= applied[k]
  BY <1>1, <1>3, EditStepKeys
<1>4. CASE ~ServerStep /\ \A t \in Tabs : ~EditStep(t)
  <2>1. UNCHANGED <<keys, applied>>
    BY <1>1, <1>4, FlushStepKeys, ConflictStepKeys, TabStepKeys
       DEF Next, Enqueue, vars, serverVars
  <2> QED
    BY <1>1, <2>1
<1> QED
  BY <1>2, <1>3, <1>4

(* 2xx answers, stored or received, tell of executions. *)
LEMMA NextOkMeansExecuted ==
    ASSUME IndInv, [Next]_vars
    PROVE  OkMeansExecuted'
<1>1. /\ TypeOK /\ OkMeansExecuted /\ applied \in [Keys -> Nat] /\ DOMAIN keys \subseteq Keys
      /\ wire \subseteq Request
  BY DEF IndInv, TypeOK, ServerTypeOK, IsTable
<1>2. \A k \in Keys : applied'[k] \in Nat /\ applied'[k] >= applied[k]
  BY AppliedGrows
<1>3. \A k \in DOMAIN keys' : keys'[k].status = "ok" /\ applied'[k] > 0
  <2>1. CASE UNCHANGED keys
    BY <1>1, <1>2, <2>1 DEF OkMeansExecuted
  <2>2. ASSUME NEW n \in Keys, NEW r, keys' = Put(keys, n, r), r.status = "ok", applied'[n] > 0
        PROVE  \A k \in DOMAIN keys' : keys'[k].status = "ok" /\ applied'[k] > 0
    <3>1. \A k \in DOMAIN keys' : IF k = n THEN keys'[k] = r
                                  ELSE k \in DOMAIN keys /\ keys'[k] = keys[k]
      BY <2>2 DEF Put
    <3> QED
      BY <1>1, <1>2, <2>2, <3>1 DEF OkMeansExecuted
  <2>3. ASSUME NEW k \in DOMAIN keys, keys' = Without(keys, {k})
        PROVE  \A n \in DOMAIN keys' : keys'[n].status = "ok" /\ applied'[n] > 0
    BY <1>1, <1>2, <2>3 DEF OkMeansExecuted, Without, Restrict
  <2>4. CASE ServerStep
    <3>1. ASSUME NEW q \in wire, q.key \in Keys, keys' = Put(keys, q.key, Success(q)),
                 Success(q).status = "ok", applied' = [applied EXCEPT ![q.key] = @ + 1]
          PROVE  \A k \in DOMAIN keys' : keys'[k].status = "ok" /\ applied'[k] > 0
      <4>1. applied'[q.key] > 0
        BY <1>1, <3>1
      <4> QED
        BY <2>2, <3>1, <4>1
    <3> QED
      BY <1>1, <2>1, <2>3, <2>4, <3>1, ServerExecutions
  <2>5. ASSUME NEW t \in Tabs, EditStep(t)
        PROVE  \A k \in DOMAIN keys' : keys'[k].status = "ok" /\ applied'[k] > 0
    BY <1>1, <2>1, <2>2, <2>5, EditStepKeys
  <2> QED
    BY <2>1, <2>4, <2>5, AppliedGrows
<1>4. ASSUME NEW t \in Tabs, reply'[t] # None, reply'[t].status = "ok"
      PROVE  applied'[Current(t)'] > 0
  <2>1. CASE reply'[t] = reply[t] /\ Current(t)' = Current(t)
    <3>1. Current(t) \in Keys
      BY <1>4, <2>1, HeadInHand DEF IndInv, Exchanges, ExchangeOf
    <3> QED
      BY <1>1, <1>2, <1>4, <2>1, <3>1 DEF OkMeansExecuted
  <2>2. CASE ServerStep /\ reply'[t] # reply[t]
    <3>1. PICK q \in wire : /\ q.key = Current(t)
                            /\ \/ Replay(q) /\ reply'[t] = keys[q.key]
                               \/ ExecuteAndStore(q) /\ reply'[t] = Success(q)
      BY <1>4, <2>2, ServerReplies
    <3>2. Current(t)' = Current(t) /\ q.key \in Keys
      BY <1>1, <2>2 DEF ServerStep, deviceVars, Current, Todo, Request
    <3>3. CASE Replay(q)
      BY <1>1, <1>2, <3>1, <3>2, <3>3 DEF Replay, OkMeansExecuted
    <3>4. CASE ExecuteAndStore(q)
      BY <1>1, <3>1, <3>2, <3>4 DEF ExecuteAndStore, Execute
    <3> QED
      BY <3>1, <3>3, <3>4
  <2>3. ServerStep => Current(t)' = Current(t)
    BY DEF ServerStep, deviceVars, Current, Todo
  <2> QED
    BY <1>4, <2>1, <2>2, <2>3, DeviceReplies
<1> QED
  BY <1>3, <1>4 DEF OkMeansExecuted

(* At most once, and once more for every key that is lost. *)
LEMMA NextOncePerKey ==
    ASSUME IndInv, [Next]_vars
    PROVE  OncePerKey'
<1>1. /\ TypeOK /\ OncePerKey /\ KeysIssued /\ applied \in [Keys -> Nat]
      /\ spent \in [Faults -> Nat] /\ "keyLoss" \in Faults /\ spent["keyLoss"] \in Nat
      /\ nextKey \in Nat
  BY DEF IndInv, TypeOK, ServerTypeOK, DeviceTypeOK, Faults
<1>2. CASE ServerStep
  <2>1. spent'["keyLoss"] \in Nat
    BY <1>1, <1>2, ServerStepType DEF TypeOK, ServerTypeOK
  <2> QED
    <3>1. CASE UNCHANGED <<keys, applied>> /\ spent'["keyLoss"] >= spent["keyLoss"]
      BY <1>1, <2>1, <3>1 DEF OncePerKey
    <3>2. ASSUME NEW q \in wire, q.key \in Keys \ DOMAIN keys, keys' = Put(keys, q.key, Success(q)),
                 applied' = [applied EXCEPT ![q.key] = @ + 1], spent' = spent
          PROVE  OncePerKey'
      <4>1. DOMAIN keys' = DOMAIN keys \cup {q.key}
        BY <3>2 DEF Put
      <4> QED
        BY <1>1, <3>2, <4>1 DEF OncePerKey
    <3>3. ASSUME NEW q \in wire, q.key \in Keys \ DOMAIN keys, keys' = keys,
                 applied' = [applied EXCEPT ![q.key] = @ + 1],
                 spent'["keyLoss"] = spent["keyLoss"] + 1
          PROVE  OncePerKey'
      BY <1>1, <3>3 DEF OncePerKey
    <3>4. ASSUME NEW k \in DOMAIN keys, keys' = Without(keys, {k}), applied' = applied,
                 spent'["keyLoss"] = spent["keyLoss"] + 1
          PROVE  OncePerKey'
      <4>1. DOMAIN keys' = DOMAIN keys \ {k}
        BY <3>4 DEF Without, Restrict
      <4> QED
        BY <1>1, <3>4, <4>1 DEF OncePerKey
    <3> QED
      BY <1>1, <1>2, <3>1, <3>2, <3>3, <3>4, ServerExecutions
<1>3. ASSUME NEW t \in Tabs, EditStep(t)
      PROVE  OncePerKey'
  <2>1. /\ nextKey \in Keys /\ spent' = spent
        /\ \/ UNCHANGED <<keys, applied>>
           \/ /\ DOMAIN keys' = DOMAIN keys \cup {nextKey}
              /\ \A k \in Keys : applied'[k] = IF k = nextKey THEN applied[k] + 1 ELSE applied[k]
    BY <1>1, <1>3, EditStepKeys DEF Put
  <2>2. applied[nextKey] = 0
    BY <1>1, <2>1 DEF KeysIssued
  <2> QED
    BY <1>1, <2>1, <2>2 DEF OncePerKey
<1>4. CASE ~ServerStep /\ \A t \in Tabs : ~EditStep(t)
  <2>1. UNCHANGED <<keys, applied>>
    BY <1>4, AppliedGrows
  <2>2. spent'["keyLoss"] = spent["keyLoss"]
    <3>1. ASSUME NEW t \in Tabs, TabStep(t)
          PROVE  spent'["keyLoss"] = spent["keyLoss"]
      BY <1>1, <3>1 DEF TabStep, StartFlush, GoOnline, GoOffline, ShowTrip, Evict, Reload, Spend,
         serverVars
    <3> QED
      BY <1>1, <1>4, <3>1, FlushStepKeys, ConflictStepKeys DEF Next, Enqueue, vars, serverVars
  <2> QED
    BY <1>1, <2>1, <2>2 DEF OncePerKey
<1> QED
  BY <1>2, <1>3, <1>4
-----------------------------------------------------------------------------
(* Every edit is accounted for. *)

(* No step loses an edit. *)
LEMMA NextNoEditLost ==
    ASSUME IndInv, [Next]_vars
    PROVE  NoEditLost'
<1>1. /\ TypeOK /\ NoEditLost /\ nextKey \in Nat /\ 1..(nextKey - 1) \subseteq Keys
      /\ applied \in [Keys -> Nat] /\ DOMAIN queue \subseteq Keys /\ DOMAIN closed = Keys
  BY DEF IndInv, TypeOK, ServerTypeOK, DeviceTypeOK, IsTable, Keys
<1>2. \A k \in Keys : applied'[k] \in Nat /\ applied'[k] >= applied[k]
  BY AppliedGrows
<1>3. ASSUME nextKey' = nextKey,
             \A k \in 1..(nextKey - 1) :
                k \in DOMAIN queue => k \in DOMAIN queue' \/ applied[k] > 0 \/ closed'[k] # "open",
             \A k \in 1..(nextKey - 1) :
                Drafting(k) => Drafting(k)' \/ k \in DOMAIN queue' \/ closed'[k] # "open",
             \A k \in 1..(nextKey - 1) : closed[k] # "open" => closed'[k] # "open"
      PROVE  NoEditLost'
  BY <1>1, <1>2, <1>3 DEF NoEditLost
<1>4. CASE Enqueue
  BY <1>1, <1>3, <1>4 DEF Enqueue, Put, Drafting
<1>5. CASE ServerStep \/ UNCHANGED vars
  BY <1>1, <1>3, <1>5 DEF ServerStep, vars, deviceVars, Drafting
<1>6. ASSUME NEW t \in Tabs, EditStep(t)
      PROVE  NoEditLost'
  <2>1. /\ nextKey \in Keys /\ nextKey' = nextKey + 1 /\ UNCHANGED <<queue, closed>>
        /\ \/ draft = None /\ draft' # None /\ draft'.key = nextKey
           \/ draft' = draft /\ applied'[nextKey] = applied[nextKey] + 1
    BY <1>1, <1>6, EditStepKeys
  <2>2. ASSUME NEW k \in 1..(nextKey' - 1)
        PROVE  k \in DOMAIN queue' \/ Drafting(k)' \/ applied'[k] > 0 \/ closed'[k] # "open"
    <3>1. CASE k = nextKey
      BY <1>1, <2>1, <3>1 DEF Drafting
    <3>2. CASE k # nextKey
      <4>1. k \in 1..(nextKey - 1)
        BY <1>1, <2>1, <3>2
      <4> QED
        BY <1>1, <1>2, <2>1, <4>1 DEF NoEditLost, Drafting
    <3> QED
      BY <3>1, <3>2
  <2> QED
    BY <2>2 DEF NoEditLost
<1>7. ASSUME NEW t \in Tabs, FlushStep(t)
      PROVE  NoEditLost'
  <2>1. UNCHANGED <<nextKey, draft>>
    BY <1>7, FlushStepKeys
  <2>2. CASE Dequeue(t)
    <3>1. applied[Current(t)] > 0
      BY <2>2 DEF Dequeue, IndInv, Exchanges, ExchangeOf, OkMeansExecuted
    <3>2. \A k \in DOMAIN queue : k # Current(t) => k \in DOMAIN queue'
      BY <2>2 DEF Dequeue, Without, Restrict
    <3> QED
      BY <1>1, <1>3, <2>1, <2>2, <3>1, <3>2 DEF Dequeue, Drafting
  <2>3. CASE ConflictTheirs(t)
    <3>1. Current(t) \in Keys
      BY <2>3, HeadInHand DEF ConflictTheirs, Answered
    <3>2. \A k \in DOMAIN queue : k # Current(t) => k \in DOMAIN queue'
      BY <2>3 DEF ConflictTheirs, Without, Restrict
    <3>3. closed' = [closed EXCEPT ![Current(t)] = "theirs"]
      BY <2>3 DEF ConflictTheirs
    <3>4. closed'[Current(t)] = "theirs" /\ \A k \in Keys : k # Current(t) => closed'[k] = closed[k]
      BY <1>1, <3>1, <3>3
    <3> QED
      BY <1>1, <1>3, <2>1, <3>2, <3>4 DEF Drafting
  <2>4. CASE ~Dequeue(t) /\ ~ConflictTheirs(t)
    <3>1. DOMAIN queue' = DOMAIN queue /\ closed' = closed
      BY <1>1, <1>7, <2>4 DEF FlushStep, Replays, FailUnresolved, EndFlush, Remap, StoreEntity,
         Undisplay, ConflictMine, ConflictAsk, Reject, Abort, Amend
    <3> QED
      BY <1>1, <1>3, <2>1, <3>1 DEF Drafting
  <2> QED
    BY <2>2, <2>3, <2>4
<1>8. ASSUME NEW t \in Tabs, ConflictStep(t)
      PROVE  NoEditLost'
  <2>1. PICK k \in DOMAIN queue : KeepMine(t, k) \/ KeepServer(k)
    BY <1>8 DEF ConflictStep
  <2>2. CASE KeepMine(t, k)
    BY <1>1, <1>3, <2>2 DEF KeepMine, Amend, Drafting
  <2>3. CASE KeepServer(k)
    <3>1. closed'[k] = "theirs" /\ \A n \in Keys : n # k => closed'[n] = closed[n]
      BY <1>1, <2>3 DEF KeepServer
    <3>2. \A n \in DOMAIN queue : n # k => n \in DOMAIN queue'
      BY <2>3 DEF KeepServer, Without, Restrict
    <3> QED
      BY <1>1, <1>3, <2>3, <3>1, <3>2 DEF KeepServer, Drafting
  <2> QED
    BY <2>1, <2>2, <2>3
<1>9. ASSUME NEW t \in Tabs, TabStep(t)
      PROVE  NoEditLost'
  <2>1. CASE Evict(t)
    <3>1. \A k \in DOMAIN queue : k \notin DOMAIN queue' => closed'[k] = "purged"
      BY <1>1, <2>1 DEF Evict, Without, Restrict
    <3>2. \A k \in Keys : closed[k] # "open" => closed'[k] # "open"
      BY <1>1, <2>1 DEF Evict
    <3> QED
      BY <1>1, <1>3, <2>1, <3>1, <3>2 DEF Evict, Drafting
  <2>2. CASE Reload(t)
    <3>1. \A k \in Keys : closed[k] # "open" => closed'[k] # "open"
      BY <1>1, <2>2 DEF Reload
    <3>2. \A k \in 1..(nextKey - 1) : Drafting(k) => Drafting(k)' \/ closed'[k] # "open"
      BY <1>1, <2>2 DEF Reload, Drafting
    <3> QED
      BY <1>1, <1>3, <2>2, <3>1, <3>2 DEF Reload
  <2>3. CASE StartFlush(t) \/ GoOnline(t) \/ GoOffline(t) \/ ShowTrip(t)
    BY <1>1, <1>3, <2>3 DEF StartFlush, GoOnline, GoOffline, ShowTrip, Drafting
  <2> QED
    BY <1>9, <2>1, <2>2, <2>3 DEF TabStep
<1> QED
  BY <1>4, <1>5, <1>6, <1>7, <1>8, <1>9 DEF Next
-----------------------------------------------------------------------------
(* The invariant and the theorems. *)

(* The invariant holds at first. *)
LEMMA InitIndInv ==
    ASSUME Init
    PROVE  IndInv
<1> USE DEF Init, ServerInit
<1>1. DOMAIN Empty = {}
  BY EmptyTable
<1>2. /\ IsTable(Empty, Keys, Response) /\ IsTable(Empty, Keys, Mutation)
      /\ IsTable(Empty, Int, Nat \ {0}) /\ IsTable(Empty, Nat \ {0}, Nat)
  BY EmptyTable
<1>3. ServerTypeOK
  <2>1. IsTable(rows, 1..(nextId - 1), Entity)
    BY DEF IsTable, InitRows, Entity
  <2> QED
    BY <1>2, <2>1 DEF ServerTypeOK
<1>4. DeviceTypeOK
  <2>1. FlushType(Quiet)
    BY <1>2 DEF FlushType, Quiet, Loop
  <2>2. IsTable(cache, Int, Entity)
    BY DEF IsTable, InitRows, Entity
  <2> QED
    BY <1>2, <2>1, <2>2 DEF DeviceTypeOK, InitRows
<1>5. \A t \in Tabs : flush[t].step = "idle" /\ flush[t].todo = Empty
  BY DEF Quiet, Loop
<1>6. KeysIssued
  BY <1>1, <1>5 DEF KeysIssued, Todo
<1>7. MethodsAgree
  <2>1. PICK m \in [Keys -> Methods] : TRUE
    <3>1. [k \in Keys |-> "PUT"] \in [Keys -> Methods]
      BY DEF Methods
    <3> QED
      BY <3>1
  <2>2. Agree(m)
    BY <1>1, <1>5 DEF Agree, Todo
  <2> QED
    BY <2>2 DEF MethodsAgree
<1>8. Exchanges
  BY <1>5 DEF Exchanges, ExchangeOf
<1>9. OkMeansExecuted
  BY <1>1 DEF OkMeansExecuted
<1>10. OncePerKey
  BY <1>1 DEF OncePerKey, Faults
<1>11. NoEditLost
  BY DEF NoEditLost
<1> QED
  BY <1>3, <1>4, <1>6, <1>7, <1>8, <1>9, <1>10, <1>11 DEF IndInv, TypeOK

(* The conjunction of the seven parts is inductive. *)
THEOREM Inductive == Spec => []IndInv
<1>1. Init => IndInv
  BY InitIndInv
<1>2. IndInv /\ [Next]_vars => IndInv'
  <2> SUFFICES ASSUME IndInv, [Next]_vars
               PROVE  IndInv'
    OBVIOUS
  <2>1. TypeOK' /\ KeysIssued' /\ MethodsAgree' /\ Exchanges'
    BY NextType, NextKeysIssued, NextMethodsAgree, NextExchanges
  <2>2. OkMeansExecuted' /\ OncePerKey' /\ NoEditLost'
    BY NextOkMeansExecuted, NextOncePerKey, NextNoEditLost
  <2> QED
    BY <2>1, <2>2 DEF IndInv
<1> QED
  BY <1>1, <1>2, PTL DEF Spec

(* The tables stay well-formed: what the replay loop takes for a row id, a *)
(* token or a mutation is one, whatever the tabs, the server and the       *)
(* faults do.                                                              *)
THEOREM TypeCorrect == Spec => []TypeOK
<1>1. IndInv => TypeOK
  BY DEF IndInv
<1> QED
  BY <1>1, Inductive, PTL

(* The idempotency keys of the queue: any number of tabs may send an edit  *)
(* any number of times, it is executed once, plus at most once for every   *)
(* key the server lost.                                                    *)
THEOREM ExecutedAtMostOnce == Spec => []AtMostOnce
<1>1. IndInv => AtMostOnce
  <2> SUFFICES ASSUME IndInv, NEW k \in Keys
               PROVE  applied[k] <= 1 + spent["keyLoss"]
    BY DEF AtMostOnce
  <2>1. applied[k] \in Nat /\ spent["keyLoss"] \in Nat
    BY DEF IndInv, TypeOK, ServerTypeOK, Faults
  <2> QED
    BY <2>1 DEF IndInv, OncePerKey
<1> QED
  BY <1>1, Inductive, PTL

(* The flush loop lets go of no edit: it stays in the queue until the      *)
(* server executed it or it ended in a way the user decided.               *)
THEOREM EditsAccountedFor == Spec => []NoEditLost
<1>1. IndInv => NoEditLost
  BY DEF IndInv
<1> QED
  BY <1>1, Inductive, PTL

-----------------------------------------------------------------------------
(* The ledger of the edits, for a device with one tab: each step is one of *)
(* EditLedger's, or the late execution of an edit that has ended.          *)

OneTab == \A t, u \in Tabs : t = u

(* A pass holds only what is to be sent, or is being sent. *)
ToSend(k) == k \in DOMAIN queue /\ queue[k].status \in {"pending", "syncing"}
TodoToSend == \A t \in Tabs : \A k \in DOMAIN Todo(t) : ToSend(k)

(* An edit that was never queued is nowhere else. *)
Traceless(k) ==
    /\ applied[k] = 0 /\ k \notin DOMAIN queue
    /\ \A t \in Tabs : k \notin DOMAIN Todo(t)
    /\ \A q \in wire : q.key # k
Unqueued ==
    /\ draft # None => /\ draft.mutation.status = "pending"
                       /\ closed[draft.key] = "open" /\ Traceless(draft.key)
    /\ \A k \in Keys : closed[k] = "unsaved" => Traceless(k)

(* What was not made has not ended. *)
Unmade == \A k \in Keys : k >= nextKey => closed[k] = "open"

LedgerInv == TodoToSend /\ Unqueued /\ Unmade

(* If answers do not get lost, an edit on the wire is being sent, and the  *)
(* loop waits for it (or was reloaded).                                    *)
Sending(q) ==
    /\ q.key \in DOMAIN queue /\ queue[q.key].status = "syncing"
    /\ \A p \in wire : p.key = q.key => p = q
    /\ \A t \in Tabs : q.key \in DOMAIN Todo(t) =>
          open[t] = q /\ reply[t] = None
WireSent == \A q \in wire : applied[q.key] = 0 => Sending(q)

fates == [k \in Keys |-> Fate(k)]
LateApply(k) == Ledger!Becomes(k, {"parked", "theirs", "failed", "purged"}, "applied")
LedgerOrLate == Ledger!LedgerInit /\ [][Ledger!LedgerNext \/ \E k \in Keys : LateApply(k)]_fates

-----------------------------------------------------------------------------
(* What a pass holds is to be sent. *)

(* Amending a mutation gives it a status and leaves the others.            *)
LEMMA AmendStatus ==
    ASSUME NEW k, NEW base, NEW try, NEW status, NEW server,
           \/ queue' = Amend(queue, k, Revised(queue[k], base, try, status, server))
           \/ queue' = Amend(queue, k, Change(queue[k], status, try))
    PROVE  /\ DOMAIN queue' = DOMAIN queue
           /\ \A j \in DOMAIN queue : queue'[j].status = IF j = k THEN status ELSE queue[j].status
<1>1. \A m : /\ Revised(m, base, try, status, server).status = status
             /\ Change(m, status, try).status = status
  BY DEF Change, Revised
<1> QED
  BY <1>1, AmendEntries

(* Going on shortens the pass by the mutation in hand. *)
LEMMA ShorterTodo ==
    ASSUME TypeOK, NEW t \in Tabs,
           Advance(t) \/ flush' = [flush EXCEPT ![t].step = "next",
                                               ![t].todo = Without(@, {Current(t)}),
                                               ![t].retry = TRUE]
    PROVE  DOMAIN Todo(t)' = DOMAIN Todo(t) \ {Current(t)}
<1>1. Todo(t)' = Without(Todo(t), {Current(t)})
  <2>1. CASE Advance(t)
    BY <2>1 DEF Advance, Todo, TypeOK, DeviceTypeOK
  <2>2. CASE flush' = [flush EXCEPT ![t].step = "next", ![t].todo = Without(@, {Current(t)}),
                                    ![t].retry = TRUE]
    BY <2>2 DEF Todo, TypeOK, DeviceTypeOK
  <2> QED
    BY <2>1, <2>2
<1> QED
  BY <1>1, WithoutEntries

(* A pass begins with what is pending. *)
LEMMA BeginToSend ==
    ASSUME TypeOK, NEW t \in Tabs, Begin(t, queue')
    PROVE  \A k \in DOMAIN Todo(t)' : k \in DOMAIN queue' /\ queue'[k].status = "pending"
<1>1. Todo(t)' = Restrict(queue', Pending(queue'))
  BY DEF Begin, Loop, Todo, TypeOK, DeviceTypeOK
<1> QED
  BY <1>1 DEF Restrict, Pending

(* What the loop does to its pass and to the queue: it goes on, or ends    *)
(* with the mutation in hand, which stays in the queue or leaves it.       *)
GoesOn(t) ==
    /\ DOMAIN queue' = DOMAIN queue /\ closed' = closed
    /\ \A j \in DOMAIN queue :
          queue'[j].status = queue[j].status \/ (j \in DOMAIN Todo(t) /\ ToSend(j) /\ ToSend(j)')
    /\ DOMAIN Todo(t)' \subseteq DOMAIN Todo(t) \/ Begin(t, queue')
StopsAt(t, k) ==
    /\ k \in DOMAIN Todo(t) /\ ToSend(k) /\ DOMAIN queue' = DOMAIN queue /\ closed' = closed
    /\ queue'[k].status \in {"failed", "conflict"}
    /\ \A j \in DOMAIN queue : j # k => queue'[j].status = queue[j].status
    /\ DOMAIN Todo(t)' = DOMAIN Todo(t) \ {k}
EndsAt(t, k) ==
    /\ k \in DOMAIN Todo(t) /\ ToSend(k) /\ queue' = Without(queue, {k})
    /\ \/ closed' = closed /\ applied[k] > 0
       \/ closed' = [closed EXCEPT ![k] = "theirs"]
    /\ DOMAIN Todo(t)' = DOMAIN Todo(t) \ {k}

(* The mutation in hand is to be sent. *)
LEMMA HandToSend ==
    ASSUME IndInv, TodoToSend, NEW t \in Tabs, DOMAIN Todo(t) # {}
    PROVE  /\ ToSend(Current(t)) /\ Current(t) \in DOMAIN queue
           /\ Current(t) \in DOMAIN Todo(t)
<1>1. Current(t) \in DOMAIN Todo(t)
  BY HeadType DEF IndInv
<1> QED
  BY <1>1 DEF TodoToSend, ToSend

(* Each step of the loop is one of these. *)
LEMMA PassForms ==
    ASSUME IndInv, TodoToSend, NEW t \in Tabs, FlushStep(t)
    PROVE  GoesOn(t) \/ StopsAt(t, Current(t)) \/ EndsAt(t, Current(t))
<1>1. TypeOK /\ ExchangeOf(t)
  BY DEF IndInv, Exchanges
<1> DEFINE k == Current(t)
<1>2. ASSUME DOMAIN Todo(t) # {} PROVE ToSend(k) /\ k \in DOMAIN Todo(t)
  BY <1>2, HandToSend
<1> HIDE DEF k
<1>3. ASSUME NEW status \in {"pending", "syncing"}, ToSend(k), k \in DOMAIN Todo(t), closed' = closed,
             DOMAIN queue' = DOMAIN queue,
             \A j \in DOMAIN queue : queue'[j].status = IF j = k THEN status ELSE queue[j].status,
             DOMAIN Todo(t)' \subseteq DOMAIN Todo(t)
      PROVE  GoesOn(t)
  BY <1>3 DEF GoesOn, ToSend
<1>4. ASSUME NEW status \in {"failed", "conflict"}, ToSend(k), k \in DOMAIN Todo(t), closed' = closed,
             DOMAIN queue' = DOMAIN queue,
             \A j \in DOMAIN queue : queue'[j].status = IF j = k THEN status ELSE queue[j].status,
             DOMAIN Todo(t)' = DOMAIN Todo(t) \ {k}
      PROVE  StopsAt(t, k)
  BY <1>4 DEF StopsAt, ToSend
<1>5. flush[t].step \in {"wait", "store", "remove"} => DOMAIN Todo(t) # {}
  BY <1>1 DEF ExchangeOf
<1>6. DOMAIN flush = Tabs
  BY <1>1 DEF TypeOK, DeviceTypeOK
<1>7. CASE Replays(t)
  <2>1. ToSend(k) /\ k \in DOMAIN Todo(t)
    BY <1>2, <1>7 DEF Replays, HasNext
  <2>2. DOMAIN Todo(t)' = DOMAIN Todo(t)
    BY <1>6, <1>7 DEF Replays, Todo
  <2>3. /\ DOMAIN queue' = DOMAIN queue
        /\ \A j \in DOMAIN queue : queue'[j].status = IF j = k THEN "syncing" ELSE queue[j].status
    BY <1>7, AmendStatus DEF Replays, k
  <2> QED
    BY <1>3, <1>7, <2>1, <2>2, <2>3 DEF Replays
<1>8. CASE FailUnresolved(t)
  <2>1. ToSend(k) /\ k \in DOMAIN Todo(t)
    BY <1>2, <1>8 DEF FailUnresolved, HasNext
  <2>2. DOMAIN Todo(t)' = DOMAIN Todo(t) \ {k}
    BY <1>1, <1>8, ShorterTodo DEF FailUnresolved, k
  <2>3. /\ DOMAIN queue' = DOMAIN queue
        /\ \A j \in DOMAIN queue : queue'[j].status = IF j = k THEN "failed" ELSE queue[j].status
    BY <1>8, AmendStatus DEF FailUnresolved, k
  <2> QED
    BY <1>4, <1>8, <2>1, <2>2, <2>3 DEF FailUnresolved, k
<1>9. CASE EndFlush(t)
  <2>1. CASE Begin(t, queue)
    BY <1>9, <2>1 DEF EndFlush, GoesOn, Begin
  <2>2. CASE flush' = [flush EXCEPT ![t] = Quiet]
    BY <1>6, <1>9, <2>2, EmptyTable DEF EndFlush, GoesOn, Todo, Quiet, Loop
  <2> QED
    BY <1>9, <2>1, <2>2 DEF EndFlush
<1>10. CASE Remap(t)
  <2>1. DOMAIN Todo(t)' = DOMAIN Todo(t)
    BY <1>6, <1>10 DEF Remap, Todo
  <2>2. DOMAIN queue' = DOMAIN queue /\ \A j \in DOMAIN queue : queue'[j].status = queue[j].status
    BY <1>1, <1>10 DEF Remap, TypeOK, DeviceTypeOK, IsTable, Mutation
  <2> QED
    BY <1>10, <2>1, <2>2 DEF Remap, GoesOn
<1>11. CASE StoreEntity(t)
  <2>1. DOMAIN Todo(t)' = DOMAIN Todo(t)
    BY <1>6, <1>11 DEF StoreEntity, Todo
  <2>2. DOMAIN queue' = DOMAIN queue /\ \A j \in DOMAIN queue : queue'[j].status = queue[j].status
    BY <1>1, <1>11 DEF StoreEntity, TypeOK, DeviceTypeOK, IsTable, Mutation
  <2> QED
    BY <1>11, <2>1, <2>2 DEF StoreEntity, GoesOn
<1>12. CASE Undisplay(t)
  BY <1>6, <1>12 DEF Undisplay, GoesOn, Todo
<1>13. CASE Dequeue(t)
  <2>1. ToSend(k) /\ k \in DOMAIN Todo(t) /\ applied[k] > 0
    BY <1>1, <1>2, <1>5, <1>13 DEF Dequeue, ExchangeOf, IndInv, OkMeansExecuted, k
  <2>2. DOMAIN Todo(t)' = DOMAIN Todo(t) \ {k}
    BY <1>1, <1>13, ShorterTodo DEF Dequeue, k
  <2> QED
    BY <1>13, <2>1, <2>2 DEF Dequeue, EndsAt, k
<1>14. CASE ConflictTheirs(t)
  <2>1. ToSend(k) /\ k \in DOMAIN Todo(t)
    BY <1>2, <1>5, <1>14 DEF ConflictTheirs, Answered
  <2>2. DOMAIN Todo(t)' = DOMAIN Todo(t) \ {k}
    BY <1>1, <1>14, ShorterTodo DEF ConflictTheirs, k
  <2> QED
    BY <1>14, <2>1, <2>2 DEF ConflictTheirs, EndsAt, k
<1>15. CASE ConflictMine(t)
  <2>1. ToSend(k) /\ k \in DOMAIN Todo(t)
    BY <1>2, <1>5, <1>15 DEF ConflictMine, Answered
  <2>2. DOMAIN Todo(t)' = DOMAIN Todo(t) \ {k}
    BY <1>1, <1>15, ShorterTodo DEF ConflictMine, k
  <2>3. /\ DOMAIN queue' = DOMAIN queue
        /\ \A j \in DOMAIN queue : queue'[j].status = IF j = k THEN "pending" ELSE queue[j].status
    BY <1>15, AmendStatus DEF ConflictMine, k
  <2> QED
    BY <1>3, <1>15, <2>1, <2>2, <2>3 DEF ConflictMine
<1>16. CASE ConflictAsk(t)
  <2>1. ToSend(k) /\ k \in DOMAIN Todo(t)
    BY <1>2, <1>5, <1>16 DEF ConflictAsk, Answered
  <2>2. DOMAIN Todo(t)' = DOMAIN Todo(t) \ {k}
    BY <1>1, <1>16, ShorterTodo DEF ConflictAsk, k
  <2>3. /\ DOMAIN queue' = DOMAIN queue
        /\ \A j \in DOMAIN queue : queue'[j].status = IF j = k THEN "conflict" ELSE queue[j].status
    BY <1>16, AmendStatus DEF ConflictAsk, k
  <2> QED
    BY <1>4, <1>16, <2>1, <2>2, <2>3 DEF ConflictAsk, k
<1>17. CASE Reject(t)
  <2>1. ToSend(k) /\ k \in DOMAIN Todo(t)
    BY <1>2, <1>5, <1>17 DEF Reject, Answered
  <2>2. DOMAIN Todo(t)' = DOMAIN Todo(t) \ {k}
    BY <1>1, <1>17, ShorterTodo DEF Reject, k
  <2>3. /\ DOMAIN queue' = DOMAIN queue
        /\ \A j \in DOMAIN queue : queue'[j].status = IF j = k THEN "failed" ELSE queue[j].status
    BY <1>17, AmendStatus DEF Reject, k
  <2> QED
    BY <1>4, <1>17, <2>1, <2>2, <2>3 DEF Reject, k
<1>18. CASE Abort(t)
  <2>1. ToSend(k) /\ k \in DOMAIN Todo(t)
    BY <1>2, <1>5, <1>18 DEF Abort, Answered
  <2>2. DOMAIN Todo(t)' = {}
    BY <1>6, <1>18, EmptyTable DEF Abort, Todo
  <2>3. /\ DOMAIN queue' = DOMAIN queue
        /\ \A j \in DOMAIN queue : queue'[j].status = IF j = k THEN "pending" ELSE queue[j].status
    BY <1>18, AmendStatus DEF Abort, k
  <2> QED
    BY <1>3, <1>18, <2>1, <2>2, <2>3 DEF Abort
<1> QED
  BY <1>7, <1>8, <1>9, <1>10, <1>11, <1>12, <1>13, <1>14, <1>15, <1>16, <1>17, <1>18
     DEF FlushStep, k

(* Inserting, and deleting others, leaves what is to be sent so. *)
LEMMA OthersToSend ==
    ASSUME NEW j, ToSend(j),
           \/ \E S : queue' = Without(queue, S) /\ j \notin S
           \/ \E x, y : queue' = Put(queue, x, y) /\ j # x
    PROVE  ToSend(j)'
BY DEF ToSend, Without, Restrict, Put

(* So what is in a pass stays to be sent. *)
LEMMA NextTodoToSend ==
    ASSUME IndInv, LedgerInv, OneTab, [Next]_vars
    PROVE  TodoToSend'
<1>1. TypeOK /\ TodoToSend
  BY DEF IndInv, LedgerInv
<1>2. ASSUME NEW t \in Tabs, \A k \in DOMAIN Todo(t)' : ToSend(k)'
      PROVE  TodoToSend'
  BY <1>2 DEF OneTab, TodoToSend
<1>3. ASSUME UNCHANGED flush, \A k \in DOMAIN queue : ToSend(k) => ToSend(k)'
      PROVE  TodoToSend'
  BY <1>1, <1>3 DEF TodoToSend, ToSend, Todo
<1>4. CASE Enqueue
  <2>1. \A k \in DOMAIN queue : ToSend(k) => ToSend(k)'
    <3>1. PICK d, m : d = draft.key /\ m = draft.mutation
      OBVIOUS
    <3>2. queue' = Put(queue, d, m) /\ d \notin DOMAIN queue
      BY <1>4, <3>1 DEF Enqueue, LedgerInv, Unqueued, Traceless
    <3> QED
      BY <3>2, OthersToSend
  <2> QED
    BY <1>3, <1>4, <2>1 DEF Enqueue
<1>5. CASE ServerStep \/ UNCHANGED vars
  BY <1>3, <1>5 DEF ServerStep, vars, deviceVars, ToSend
<1>6. ASSUME NEW t \in Tabs, EditStep(t) PROVE TodoToSend'
  BY <1>1, <1>3, <1>6, EditStepKeys DEF ToSend
<1>7. ASSUME NEW t \in Tabs, Begin(t, queue') PROVE TodoToSend'
  BY <1>1, <1>2, <1>7, BeginToSend DEF ToSend
<1>8. ASSUME NEW t \in Tabs, FlushStep(t) PROVE TodoToSend'
  <2>1. CASE GoesOn(t)
    <3>1. CASE DOMAIN Todo(t)' \subseteq DOMAIN Todo(t)
      BY <1>1, <1>2, <2>1, <3>1 DEF GoesOn, TodoToSend, ToSend
    <3> QED
      BY <1>7, <2>1, <3>1 DEF GoesOn
  <2>2. CASE StopsAt(t, Current(t))
    BY <1>1, <1>2, <2>2 DEF StopsAt, TodoToSend, ToSend
  <2>3. CASE EndsAt(t, Current(t))
    BY <1>1, <1>2, <2>3, OthersToSend DEF EndsAt, TodoToSend
  <2> QED
    BY <1>1, <1>8, <2>1, <2>2, <2>3, PassForms
<1>9. ASSUME NEW t \in Tabs, NEW k \in DOMAIN queue, KeepMine(t, k) PROVE TodoToSend'
  <2>1. \A j \in DOMAIN queue : ToSend(j) => ToSend(j)'
    BY <1>9, AmendStatus DEF KeepMine, ToSend
  <2> QED
    BY <1>3, <1>7, <1>9, <2>1 DEF KeepMine
<1>10. ASSUME NEW k \in DOMAIN queue, KeepServer(k) PROVE TodoToSend'
  <2>1. \A j \in DOMAIN queue : ToSend(j) => ToSend(j)'
    <3>1. queue[k].status = "conflict" /\ queue' = Without(queue, {k})
      BY <1>10 DEF KeepServer
    <3> QED
      BY <3>1 DEF ToSend, Without, Restrict
  <2> QED
    BY <1>3, <1>10, <2>1 DEF KeepServer
<1>11. ASSUME NEW t \in Tabs, TabStep(t) PROVE TodoToSend'
  <2>1. CASE StartFlush(t)
    BY <1>7, <2>1 DEF StartFlush, Begin
  <2>2. CASE GoOnline(t) \/ GoOffline(t) \/ ShowTrip(t)
    BY <1>3, <2>2 DEF GoOnline, GoOffline, ShowTrip, ToSend
  <2>3. CASE Evict(t)
    <3>1. \A j \in DOMAIN queue : ToSend(j) => ToSend(j)'
      <4> DEFINE S == {j \in DOMAIN queue : queue[j].status = "failed"}
      <4>1. queue' = Without(queue, S)
        BY <2>3 DEF Evict
      <4> QED
        <5>1. \A j \in DOMAIN queue : ToSend(j) => j \notin S
          BY <4>1 DEF ToSend
        <5> QED
          BY <4>1, <5>1, OthersToSend
    <3> QED
      BY <1>3, <2>3, <3>1 DEF Evict
  <2>4. CASE Reload(t)
    <3>1. DOMAIN Todo(t)' = {}
      BY <1>1, <2>4, EmptyTable DEF Reload, Todo, Quiet, Loop, TypeOK, DeviceTypeOK
    <3> QED
      BY <1>2, <3>1
  <2> QED
    BY <1>11, <2>1, <2>2, <2>3, <2>4 DEF TabStep
<1> QED
  BY <1>4, <1>5, <1>6, <1>8, <1>9, <1>10, <1>11 DEF Next, ConflictStep

(* What was never queued leaves no trace later. *)
LEMMA TracelessStays ==
    ASSUME IndInv, [Next]_vars, NEW k \in Keys, Traceless(k),
           k = nextKey => draft' # draft,
           Enqueue => k # draft.key
    PROVE  Traceless(k)'
<1>1. TypeOK /\ applied \in [Keys -> Nat]
  BY DEF IndInv, TypeOK, ServerTypeOK
<1>2. CASE Enqueue
  BY <1>2 DEF Enqueue, Traceless, Put, Todo, serverVars
<1>3. CASE UNCHANGED vars
  BY <1>3 DEF vars, serverVars, deviceVars, Traceless, Todo
<1>4. CASE ServerStep
  BY <1>1, <1>4, ServerStepKeys DEF Traceless, Todo, deviceVars
<1>5. ASSUME NEW t \in Tabs, EditStep(t) PROVE Traceless(k)'
  BY <1>1, <1>5, EditStepKeys DEF Traceless, Todo
<1>6. ASSUME NEW t \in Tabs, FlushStep(t) PROVE Traceless(k)'
  BY <1>6, FlushStepKeys DEF Traceless, KeepsMethods, TodoFrom
<1>7. ASSUME NEW t \in Tabs, ConflictStep(t) PROVE Traceless(k)'
  BY <1>1, <1>7, ConflictStepKeys DEF Traceless, KeepsMethods, TodoFrom, serverVars
<1>8. ASSUME NEW t \in Tabs, TabStep(t) PROVE Traceless(k)'
  BY <1>1, <1>8, TabStepKeys DEF Traceless, KeepsMethods, TodoFrom
<1> QED
  BY <1>2, <1>3, <1>4, <1>5, <1>6, <1>7, <1>8 DEF Next

(* What a step may write into the history of endings. *)
LEMMA Endings ==
    ASSUME IndInv, LedgerInv, [Next]_vars, NEW k \in Keys, closed'[k] # closed[k]
    PROVE  \/ k \in DOMAIN queue /\ closed'[k] \in {"theirs", "purged"}
           \/ draft # None /\ k = draft.key /\ draft' = None /\ closed'[k] = "unsaved" /\ ~Enqueue
<1>1. /\ TypeOK /\ TodoToSend /\ closed \in [Keys -> {"open", "theirs", "purged", "unsaved"}]
      /\ \A t \in Tabs : ExchangeOf(t)
  BY DEF IndInv, LedgerInv, TypeOK, DeviceTypeOK, Exchanges
<1>2. CASE Enqueue \/ UNCHANGED vars \/ ServerStep
  BY <1>2 DEF Enqueue, vars, deviceVars, ServerStep
<1>3. ASSUME NEW t \in Tabs, EditStep(t) PROVE FALSE
  BY <1>1, <1>3, EditStepKeys
<1>4. ASSUME NEW t \in Tabs, FlushStep(t)
      PROVE  k \in DOMAIN queue /\ closed'[k] \in {"theirs", "purged"}
  BY <1>1, <1>4, PassForms DEF GoesOn, StopsAt, EndsAt, ToSend
<1>5. ASSUME NEW t \in Tabs, ConflictStep(t)
      PROVE  k \in DOMAIN queue /\ closed'[k] \in {"theirs", "purged"}
  BY <1>1, <1>5 DEF ConflictStep, KeepMine, KeepServer
<1>6. ASSUME NEW t \in Tabs, Evict(t)
      PROVE  k \in DOMAIN queue /\ closed'[k] \in {"theirs", "purged"}
  BY <1>1, <1>6 DEF Evict
<1>7. ASSUME NEW t \in Tabs, Reload(t)
      PROVE  draft # None /\ k = draft.key /\ draft' = None /\ closed'[k] = "unsaved" /\ ~Enqueue
  BY <1>1, <1>7 DEF Reload, Enqueue
<1>8. ASSUME NEW t \in Tabs, StartFlush(t) \/ GoOnline(t) \/ GoOffline(t) \/ ShowTrip(t) PROVE FALSE
  BY <1>8 DEF StartFlush, GoOnline, GoOffline, ShowTrip
<1> QED
  BY <1>2, <1>3, <1>4, <1>5, <1>6, <1>7, <1>8 DEF Next, TabStep

(* Where a draft comes from. *)
LEMMA DraftComes ==
    ASSUME IndInv, [Next]_vars, draft' # None
    PROVE  \/ draft' = draft /\ ~Enqueue
           \/ draft'.key = nextKey /\ draft'.mutation.status = "pending" /\ nextKey \in Keys
<1>1. TypeOK
  BY DEF IndInv
<1>2. CASE Enqueue
  BY <1>2 DEF Enqueue
<1>3. CASE ServerStep \/ UNCHANGED vars
  BY <1>3 DEF ServerStep, vars, deviceVars, Enqueue
<1>4. ASSUME NEW t \in Tabs, NEW method, NEW target, NEW base, Drafted(t, method, target, base)
      PROVE  draft'.key = nextKey /\ draft'.mutation.status = "pending"
  BY <1>4 DEF Drafted
<1>5. ASSUME NEW t \in Tabs, EditStep(t)
      PROVE  \/ draft' = draft /\ ~Enqueue
             \/ draft'.key = nextKey /\ draft'.mutation.status = "pending" /\ nextKey \in Keys
  <2>1. CASE CreateOffline(t)
    BY <1>4, <2>1 DEF CreateOffline, CanDraft
  <2>2. ASSUME NEW id \in view[t], UpdateOffline(t, id)
        PROVE  draft'.key = nextKey /\ draft'.mutation.status = "pending" /\ nextKey \in Keys
    BY <1>4, <2>2 DEF UpdateOffline, CanDraft
  <2>3. ASSUME NEW id \in view[t], DeleteOffline(t, id)
        PROVE  draft'.key = nextKey /\ draft'.mutation.status = "pending" /\ nextKey \in Keys
    BY <1>4, <2>3 DEF DeleteOffline, CanDraft
  <2>4. CASE CreateOnline(t) \/ \E id \in view[t] : UpdateOnline(t, id) \/ DeleteOnline(t, id)
    BY <2>4 DEF CreateOnline, UpdateOnline, DeleteOnline, EditOnline, Enqueue
  <2> QED
    BY <1>5, <2>1, <2>2, <2>3, <2>4 DEF EditStep
<1>6. ASSUME NEW t \in Tabs, FlushStep(t) PROVE draft' = draft
  BY <1>6, FlushStepKeys
<1>7. ASSUME NEW t \in Tabs, ConflictStep(t) PROVE draft' = draft
  BY <1>1, <1>7, ConflictStepKeys
<1>8. ASSUME NEW t \in Tabs, TabStep(t) PROVE draft' = draft
  BY <1>1, <1>8, TabStepKeys
<1> QED
  BY <1>2, <1>3, <1>5, <1>6, <1>7, <1>8 DEF Next, Enqueue

(* Drafts, and what a reload cut short, are in the cache only. *)
LEMMA NextUnqueued ==
    ASSUME IndInv, LedgerInv, [Next]_vars
    PROVE  Unqueued'
<1>1. /\ KeysIssued /\ nextKey \in Nat /\ draft \in Draft \cup {None}
      /\ \A k \in Keys : k \in Nat
  BY DEF IndInv, TypeOK, DeviceTypeOK, Keys
<1>2. draft # None => draft.key \in Keys /\ draft.key # nextKey
  BY <1>1 DEF KeysIssued, Draft
<1>3. nextKey \in Keys => Traceless(nextKey)
  <2>1. SUFFICES ASSUME nextKey \in Keys PROVE Traceless(nextKey)
    OBVIOUS
  <2>2. nextKey \notin 1..(nextKey - 1)
    BY <1>1
  <2> QED
    BY <2>1, <2>2 DEF KeysIssued, Traceless, IndInv
<1>4. draft' # None => /\ draft'.mutation.status = "pending"
                       /\ closed'[draft'.key] = "open" /\ Traceless(draft.key)'
  <2>1. SUFFICES ASSUME draft' # None
                 PROVE  /\ draft'.mutation.status = "pending"
                        /\ closed'[draft'.key] = "open" /\ Traceless(draft.key)'
    OBVIOUS
  <2>2. CASE draft' = draft /\ ~Enqueue
    <3>1. PICK d \in Keys : d = draft.key /\ d # nextKey
      BY <1>2, <2>1, <2>2
    <3>2. draft.mutation.status = "pending" /\ closed[d] = "open" /\ Traceless(d)
      BY <2>1, <2>2, <3>1 DEF LedgerInv, Unqueued
    <3>3. Traceless(d)'
      BY <2>2, <3>1, <3>2, TracelessStays
    <3>4. closed'[d] = closed[d]
      BY <2>1, <2>2, <3>1, <3>2, Endings DEF Traceless
    <3> QED
      BY <2>2, <3>1, <3>2, <3>3, <3>4 DEF Traceless
  <2>3. CASE draft'.key = nextKey /\ draft'.mutation.status = "pending" /\ nextKey \in Keys
    <3>1. PICK d \in Keys : d = nextKey
      BY <2>3
    <3>2. draft # None => d # draft.key
      BY <1>2, <3>1
    <3>3. Traceless(d)
      BY <1>3, <3>1
    <3>4. closed'[d] = closed[d] /\ closed[d] = "open"
      BY <1>1, <3>1, <3>2, <3>3, Endings DEF Traceless, LedgerInv, Unmade
    <3>5. Traceless(d)'
      BY <2>1, <2>3, <3>1, <3>2, <3>3, TracelessStays DEF Enqueue
    <3> QED
      BY <2>3, <3>1, <3>4, <3>5 DEF Traceless
  <2> QED
    BY <2>1, <2>2, <2>3, DraftComes
<1>5. ASSUME NEW k \in Keys, closed'[k] = "unsaved" PROVE Traceless(k)'
  <2>1. Traceless(k) /\ k # nextKey /\ (Enqueue => k # draft.key)
    <3>1. CASE closed[k] = "unsaved"
      BY <1>1, <3>1 DEF LedgerInv, Unqueued, Unmade, Enqueue
    <3>2. CASE closed[k] # "unsaved"
      BY <1>2, <1>5, <3>2, Endings DEF LedgerInv, Unqueued
    <3> QED
      BY <3>1, <3>2
  <2> QED
    BY <2>1, TracelessStays
<1> QED
  BY <1>4, <1>5 DEF Unqueued

(* What was not made has not ended. *)
LEMMA NextUnmade ==
    ASSUME IndInv, LedgerInv, [Next]_vars
    PROVE  Unmade'
<1>1. /\ KeysIssued /\ nextKey \in Nat /\ draft \in Draft \cup {None} /\ Keys \subseteq Nat
  BY DEF IndInv, TypeOK, DeviceTypeOK, Keys
<1>2. nextKey' \in {nextKey, nextKey + 1}
  <2>1. CASE Enqueue \/ ServerStep \/ UNCHANGED vars
    BY <2>1 DEF Enqueue, ServerStep, vars, deviceVars
  <2> QED
    BY <2>1, EditStepKeys, FlushStepKeys, ConflictStepKeys, TabStepKeys DEF Next, IndInv
<1>3. SUFFICES ASSUME NEW k \in Keys, k >= nextKey' PROVE closed'[k] = "open"
  BY DEF Unmade
<1>4. k \in Nat /\ k >= nextKey /\ closed[k] = "open"
  BY <1>1, <1>2, <1>3 DEF LedgerInv, Unmade
<1>5. k \notin DOMAIN queue /\ (draft # None => k # draft.key)
  BY <1>1, <1>4 DEF KeysIssued
<1> QED
  BY <1>4, <1>5, Endings

(* The ledger's invariant is inductive on top of IndInv. *)
LEMMA NextLedgerInv ==
    ASSUME IndInv, LedgerInv, OneTab, [Next]_vars
    PROVE  LedgerInv'
BY NextTodoToSend, NextUnqueued, NextUnmade DEF LedgerInv

(* And it holds at first. *)
LEMMA InitLedgerInv == Init => LedgerInv
<1> SUFFICES ASSUME Init PROVE LedgerInv
  OBVIOUS
<1>1. /\ draft = None /\ \A k \in Keys : closed[k] = "open"
      /\ \A t \in Tabs : flush[t] = Quiet
  BY DEF Init
<1>2. \A t \in Tabs : DOMAIN Todo(t) = {}
  BY <1>1, EmptyTable DEF Todo, Quiet, Loop
<1> QED
  BY <1>1, <1>2 DEF LedgerInv, TodoToSend, Unqueued, Unmade

-----------------------------------------------------------------------------
(* The fates. *)

(* What decides the fate of an edit that was not executed. *)
FateOf(k) ==
    IF k \in DOMAIN queue
    THEN IF queue[k].status = "failed" THEN "failed"
         ELSE IF queue[k].status = "conflict" THEN "parked" ELSE "queued"
    ELSE IF Drafting(k) THEN "drafted"
         ELSE IF closed[k] = "open" THEN "none" ELSE closed[k]

(* Now and after a step. *)
LEMMA FateIs ==
    ASSUME NEW k, applied[k] \in Nat, applied'[k] \in Nat
    PROVE  /\ Fate(k) = IF applied[k] > 0 THEN "applied" ELSE FateOf(k)
           /\ Fate(k)' = IF applied'[k] > 0 THEN "applied" ELSE FateOf(k)'
<1>1. Fate(k) = IF applied[k] > 0 THEN "applied" ELSE FateOf(k)
  BY DEF Fate, FateOf
<1>2. Fate(k)' = IF applied'[k] > 0 THEN "applied" ELSE FateOf(k)'
  BY DEF Fate, FateOf
<1> QED
  BY <1>1, <1>2

(* The fates stay if none moves. *)
LEMMA FatesStay ==
    ASSUME IndInv, [Next]_vars, UNCHANGED applied,
           \A k \in Keys : FateOf(k)' = FateOf(k)
    PROVE  UNCHANGED fates
<1>1. \A k \in Keys : applied[k] \in Nat /\ applied'[k] \in Nat
  BY DEF IndInv, TypeOK, ServerTypeOK
<1>2. \A k \in Keys : Fate(k)' = Fate(k)
  BY <1>1, FateIs
<1> QED
  BY <1>2 DEF fates

(* One fate moves, unless the edit was executed before. *)
LEMMA FateMoves ==
    ASSUME IndInv, [Next]_vars, UNCHANGED applied, NEW k \in Keys, NEW from, NEW to,
           \A j \in Keys \ {k} : FateOf(j)' = FateOf(j),
           FateOf(k) \in from, FateOf(k)' = to
    PROVE  Ledger!Becomes(k, from, to) \/ UNCHANGED fates
<1>1. \A j \in Keys : applied[j] \in Nat /\ applied'[j] \in Nat
  BY DEF IndInv, TypeOK, ServerTypeOK
<1>2. \A j \in Keys \ {k} : Fate(j)' = Fate(j)
  BY <1>1, FateIs
<1>3. CASE applied[k] > 0
  <2>1. Fate(k)' = Fate(k)
    BY <1>1, <1>3, FateIs
  <2> QED
    BY <1>2, <2>1 DEF fates
<1>4. CASE ~(applied[k] > 0)
  <2>1. Fate(k) \in from /\ Fate(k)' = to
    BY <1>1, <1>4, FateIs
  <2> QED
    BY <1>2, <2>1 DEF Ledger!Becomes
<1> QED
  BY <1>3, <1>4

(* Facts about the state that the steps below share. *)
LEMMA LedgerFacts ==
    ASSUME IndInv, LedgerInv
    PROVE  /\ TypeOK /\ TodoToSend /\ KeysIssued /\ nextKey \in Nat /\ Keys \subseteq Nat
           /\ DOMAIN queue \subseteq Keys /\ DOMAIN queue \subseteq 1..(nextKey - 1)
           /\ \A k \in DOMAIN queue : queue[k].status \in {"pending", "syncing", "failed", "conflict"}
           /\ closed \in [Keys -> {"open", "theirs", "purged", "unsaved"}]
           /\ applied \in [Keys -> Nat] /\ \A t \in Tabs : t \in DOMAIN flush
           /\ draft # None => /\ draft.key \in Keys /\ draft.key # nextKey
                              /\ draft.key \notin DOMAIN queue
           /\ \A k \in DOMAIN queue : ~Drafting(k)
<1>1. /\ TypeOK /\ KeysIssued /\ TodoToSend /\ Unqueued
  BY DEF IndInv, LedgerInv
<1>2. draft # None => draft.key \in Keys /\ draft.key \notin DOMAIN queue /\ draft.key # nextKey
  BY <1>1 DEF TypeOK, DeviceTypeOK, Draft, Unqueued, Traceless, KeysIssued
<1> QED
  BY <1>1, <1>2 DEF TypeOK, DeviceTypeOK, ServerTypeOK, IsTable, Mutation, KeysIssued, Drafting, Keys

(* The draft is queued. *)
LEMMA EnqueueInLedger ==
    ASSUME IndInv, LedgerInv, [Next]_vars, Enqueue
    PROVE  Ledger!LedgerNext \/ UNCHANGED fates
<1>1. PICK d, m : d = draft.key /\ m = draft.mutation
  OBVIOUS
<1>2. /\ d \in Keys /\ d \notin DOMAIN queue /\ draft # None /\ m.status = "pending"
      /\ queue' = Put(queue, d, m) /\ draft' = None /\ closed' = closed /\ applied' = applied
  BY <1>1, LedgerFacts DEF Enqueue, LedgerInv, Unqueued, serverVars
<1>3. FateOf(d) \in {"drafted"} /\ FateOf(d)' = "queued"
  BY <1>1, <1>2 DEF FateOf, Drafting, Put
<1>4. \A j \in Keys \ {d} : FateOf(j)' = FateOf(j)
  BY <1>1, <1>2 DEF FateOf, Drafting, Put
<1>5. Ledger!Becomes(d, {"drafted"}, "queued") \/ UNCHANGED fates
  BY <1>2, <1>3, <1>4, FateMoves
<1> QED
  BY <1>2, <1>5 DEF Ledger!LedgerNext, Ledger!Queue

(* Every edit that was made has a fate. *)
LEMMA MadeHasFate ==
    ASSUME IndInv, LedgerInv, NEW k \in 1..(nextKey - 1)
    PROVE  k \in Keys /\ (FateOf(k) # "none" \/ applied[k] > 0)
<1>1. k \in Keys
  <2>1. nextKey \in 1..(MaxEdits + 1)
    BY DEF IndInv, TypeOK, DeviceTypeOK
  <2> QED
    BY <2>1 DEF Keys
<1>2. k \in DOMAIN queue \/ Drafting(k) \/ applied[k] > 0 \/ closed[k] # "open"
  BY DEF IndInv, NoEditLost
<1>3. closed[k] # "none"
  BY <1>1, LedgerFacts
<1> QED
  BY <1>1, <1>2, <1>3 DEF FateOf

(* The server executes an edit that is queued, or one that has ended. *)
LEMMA ServerInLedger ==
    ASSUME IndInv, LedgerInv, [Next]_vars, ServerStep
    PROVE  Ledger!LedgerNext \/ UNCHANGED fates \/ \E k \in Keys : LateApply(k)
<1>1. UNCHANGED <<queue, draft, closed>> /\ draft = None
  BY DEF ServerStep, deviceVars
<1>2. \A k \in Keys : FateOf(k)' = FateOf(k)
  BY <1>1 DEF FateOf, Drafting
<1>3. CASE UNCHANGED applied
  BY <1>2, <1>3, FatesStay
<1>4. ASSUME NEW q \in wire, q.key \in Keys, applied' = [applied EXCEPT ![q.key] = @ + 1]
      PROVE  Ledger!LedgerNext \/ UNCHANGED fates \/ \E k \in Keys : LateApply(k)
  <2>1. PICK k \in Keys : k = q.key
    BY <1>4
  <2>2. \A j \in Keys : /\ applied[j] \in Nat
                        /\ applied'[j] = IF j = k THEN applied[j] + 1 ELSE applied[j]
    BY <1>4, <2>1, LedgerFacts
  <2>3. \A j \in Keys \ {k} : Fate(j)' = Fate(j)
    BY <1>2, <2>2, FateIs
  <2>4. Fate(k)' = "applied"
    BY <2>2, FateIs
  <2>5. CASE applied[k] > 0
    <3>1. Fate(k) = "applied"
      BY <2>2, <2>5, FateIs
    <3> QED
      BY <2>3, <2>4, <3>1 DEF fates
  <2>6. CASE ~(applied[k] > 0)
    <3>1. Fate(k) = FateOf(k)
      BY <2>2, <2>6, FateIs
    <3>2. FateOf(k) # "none"
      BY <1>4, <2>1, <2>6, MadeHasFate DEF IndInv, KeysIssued
    <3>3. closed[k] # "unsaved" \/ k \in DOMAIN queue
      BY <1>4, <2>1 DEF LedgerInv, Unqueued, Traceless
    <3>4. FateOf(k) \in {"queued"} \cup {"parked", "theirs", "failed", "purged"}
      BY <1>1, <3>2, <3>3, LedgerFacts DEF FateOf, Drafting
    <3>5. \/ Ledger!Becomes(k, {"queued"}, "applied")
          \/ Ledger!Becomes(k, {"parked", "theirs", "failed", "purged"}, "applied")
      BY <2>3, <2>4, <3>1, <3>4 DEF Ledger!Becomes
    <3> QED
      BY <3>5 DEF Ledger!LedgerNext, Ledger!Apply, LateApply
  <2> QED
    BY <2>5, <2>6
<1> QED
  BY <1>3, <1>4, ServerExecutions DEF IndInv

(* A new edit is drafted, or executed at once. *)
LEMMA EditInLedger ==
    ASSUME IndInv, LedgerInv, [Next]_vars, NEW t \in Tabs, EditStep(t)
    PROVE  Ledger!LedgerNext
<1>1. PICK k \in Keys : k = nextKey
  BY EditStepKeys DEF IndInv
<1>2. /\ UNCHANGED <<queue, closed>> /\ k \notin DOMAIN queue /\ applied[k] = 0
      /\ closed[k] = "open" /\ ~Drafting(k)
  BY <1>1, EditStepKeys, LedgerFacts DEF LedgerInv, Unmade, KeysIssued, Drafting
<1>3. \A j \in Keys : j < k => Fate(j) # "none"
  <2>1. SUFFICES ASSUME NEW j \in Keys, j < k PROVE Fate(j) # "none"
    OBVIOUS
  <2>2. j \in 1..(nextKey - 1) /\ applied[j] \in Nat /\ applied'[j] \in Nat
    BY <1>1, <2>1, LedgerFacts, AppliedGrows DEF Keys
  <2> QED
    BY <2>2, FateIs, MadeHasFate
<1>4. \A j \in Keys : applied[j] \in Nat /\ applied'[j] \in Nat
  BY LedgerFacts, AppliedGrows
<1>5. Fate(k) = "none"
  BY <1>2, <1>4, FateIs DEF FateOf
<1>6. CASE draft = None /\ draft' # None /\ draft'.key = nextKey /\ UNCHANGED applied
  <2>1. \A j \in Keys \ {k} : Fate(j)' = Fate(j)
    BY <1>1, <1>2, <1>4, <1>6, FateIs DEF FateOf, Drafting
  <2>2. Fate(k)' = "drafted"
    BY <1>1, <1>2, <1>4, <1>6, FateIs DEF FateOf, Drafting
  <2> QED
    BY <1>3, <1>5, <2>1, <2>2 DEF Ledger!LedgerNext, Ledger!Make, Ledger!Becomes
<1>7. CASE /\ draft' = draft
           /\ \A j \in Keys : applied'[j] = IF j = nextKey THEN applied[j] + 1 ELSE applied[j]
  <2>1. \A j \in Keys \ {k} : Fate(j)' = Fate(j)
    BY <1>1, <1>2, <1>4, <1>7, FateIs DEF FateOf, Drafting
  <2>2. Fate(k)' = "applied"
    BY <1>1, <1>2, <1>4, <1>7, FateIs
  <2> QED
    BY <1>3, <1>5, <2>1, <2>2 DEF Ledger!LedgerNext, Ledger!Make, Ledger!Becomes
<1> QED
  BY <1>6, <1>7, EditStepKeys DEF IndInv

(* The loop fails, parks or drops the edit in hand, or changes no fate.    *)
LEMMA LoopInLedger ==
    ASSUME IndInv, LedgerInv, [Next]_vars, NEW t \in Tabs, FlushStep(t)
    PROVE  Ledger!LedgerNext \/ UNCHANGED fates
<1>1. UNCHANGED <<draft, applied>>
  BY FlushStepKeys
<1>2. CASE GoesOn(t)
  <2>1. \A j \in Keys : FateOf(j)' = FateOf(j)
    BY <1>1, <1>2 DEF GoesOn, FateOf, ToSend, Drafting
  <2> QED
    BY <1>1, <2>1, FatesStay
<1>3. ASSUME NEW k, StopsAt(t, k) PROVE Ledger!LedgerNext \/ UNCHANGED fates
  <2>1. k \in Keys
    BY <1>3, LedgerFacts DEF StopsAt, ToSend
  <2>2. \A j \in Keys \ {k} : FateOf(j)' = FateOf(j)
    BY <1>1, <1>3 DEF StopsAt, FateOf, Drafting
  <2>3. FateOf(k) \in {"queued"} /\ (FateOf(k)' = "failed" \/ FateOf(k)' = "parked")
    BY <1>3 DEF StopsAt, ToSend, FateOf
  <2>4. \/ Ledger!Becomes(k, {"queued"}, "failed") \/ Ledger!Becomes(k, {"queued"}, "parked")
        \/ UNCHANGED fates
    BY <1>1, <2>1, <2>2, <2>3, FateMoves
  <2> QED
    BY <2>1, <2>4 DEF Ledger!LedgerNext, Ledger!Fail, Ledger!Park
<1>4. ASSUME NEW k, EndsAt(t, k) PROVE Ledger!LedgerNext \/ UNCHANGED fates
  <2>1. k \in Keys /\ k \in DOMAIN queue /\ ~Drafting(k)
    BY <1>4, LedgerFacts DEF EndsAt, ToSend
  <2>2. \A j \in Keys \ {k} : closed'[j] = closed[j]
    BY <1>4, LedgerFacts DEF EndsAt
  <2>3. \A j \in Keys \ {k} : FateOf(j)' = FateOf(j)
    BY <1>1, <1>4, <2>2 DEF EndsAt, FateOf, Drafting, Without, Restrict
  <2>4. FateOf(k) \in {"queued", "parked"}
    BY <1>4 DEF EndsAt, ToSend, FateOf
  <2>5. CASE applied[k] > 0
    <3>1. \A j \in Keys : Fate(j)' = Fate(j)
      BY <1>1, <2>3, <2>5, LedgerFacts, FateIs
    <3> QED
      BY <3>1 DEF fates
  <2>6. CASE closed' = [closed EXCEPT ![k] = "theirs"]
    <3>1. k \notin DOMAIN queue' /\ closed'[k] = "theirs"
      <4>1. k \notin DOMAIN queue'
        BY <1>4 DEF EndsAt, Without, Restrict
      <4>2. closed'[k] = "theirs"
        BY <2>1, <2>6, LedgerFacts
      <4> QED
        BY <4>1, <4>2
    <3>2. FateOf(k)' = "theirs"
      BY <1>1, <2>1, <3>1 DEF FateOf, Drafting
    <3>3. Ledger!Becomes(k, {"queued", "parked"}, "theirs") \/ UNCHANGED fates
      BY <1>1, <2>1, <2>3, <2>4, <3>2, FateMoves
    <3> QED
      BY <2>1, <3>3 DEF Ledger!LedgerNext, Ledger!TakeTheirs
  <2> QED
    BY <1>4, <2>5, <2>6 DEF EndsAt
<1> QED
  BY <1>2, <1>3, <1>4, PassForms DEF IndInv, LedgerInv

(* The user settles a parked edit. *)
LEMMA ConflictInLedger ==
    ASSUME IndInv, LedgerInv, [Next]_vars, NEW t \in Tabs, ConflictStep(t)
    PROVE  Ledger!LedgerNext \/ UNCHANGED fates
<1>1. PICK k \in DOMAIN queue : KeepMine(t, k) \/ KeepServer(k)
  BY DEF ConflictStep
<1>2. k \in Keys /\ ~Drafting(k)
  BY <1>1, LedgerFacts
<1>3. CASE KeepMine(t, k)
  <2>1. UNCHANGED <<draft, closed, applied>> /\ queue[k].status = "conflict"
    BY <1>3 DEF KeepMine, serverVars
  <2>2. /\ DOMAIN queue' = DOMAIN queue
        /\ \A j \in DOMAIN queue : queue'[j].status = IF j = k THEN "pending" ELSE queue[j].status
    BY <1>3, AmendStatus DEF KeepMine
  <2>3. \A j \in Keys \ {k} : FateOf(j)' = FateOf(j)
    BY <2>1, <2>2 DEF FateOf, Drafting
  <2>4. FateOf(k) \in {"parked"} /\ FateOf(k)' = "queued"
    BY <1>1, <2>1, <2>2 DEF FateOf
  <2>5. Ledger!Becomes(k, {"parked"}, "queued") \/ UNCHANGED fates
    BY <1>2, <2>1, <2>3, <2>4, FateMoves
  <2> QED
    BY <1>2, <2>5 DEF Ledger!LedgerNext, Ledger!KeepMine
<1>4. CASE KeepServer(k)
  <2>1. /\ UNCHANGED <<draft, applied>> /\ queue[k].status = "conflict"
        /\ queue' = Without(queue, {k}) /\ closed' = [closed EXCEPT ![k] = "theirs"]
    BY <1>4 DEF KeepServer, serverVars
  <2>2. closed'[k] = "theirs" /\ \A j \in Keys \ {k} : closed'[j] = closed[j]
    BY <1>2, <2>1, LedgerFacts
  <2>3. \A j \in Keys \ {k} : FateOf(j)' = FateOf(j)
    BY <2>1, <2>2 DEF FateOf, Drafting, Without, Restrict
  <2>4. k \notin DOMAIN queue'
    BY <2>1 DEF Without, Restrict
  <2>5. FateOf(k) \in {"queued", "parked"} /\ FateOf(k)' = "theirs"
    BY <1>1, <1>2, <2>1, <2>2, <2>4 DEF FateOf, Drafting
  <2>6. Ledger!Becomes(k, {"queued", "parked"}, "theirs") \/ UNCHANGED fates
    BY <1>2, <2>1, <2>3, <2>5, FateMoves
  <2> QED
    BY <1>2, <2>6 DEF Ledger!LedgerNext, Ledger!TakeTheirs
<1> QED
  BY <1>1, <1>3, <1>4

(* An eviction forgets what has failed; a reload may cut an edit short.    *)
LEMMA TabInLedger ==
    ASSUME IndInv, LedgerInv, [Next]_vars, NEW t \in Tabs, TabStep(t)
    PROVE  Ledger!LedgerNext \/ UNCHANGED fates
<1>1. UNCHANGED applied /\ \A j \in Keys : applied[j] \in Nat /\ applied'[j] \in Nat
  BY LedgerFacts, TabStepKeys
<1>2. CASE Evict(t)
  <2> DEFINE failed == {k \in DOMAIN queue : queue[k].status = "failed"}
  <2>1. /\ queue' = Without(queue, failed) /\ UNCHANGED draft
        /\ \A j \in Keys : closed'[j] = IF j \in failed THEN "purged" ELSE closed[j]
    BY <1>2 DEF Evict
  <2>2. \A j \in Keys : j \in failed <=> FateOf(j) = "failed"
    BY LedgerFacts DEF FateOf
  <2>3. \A j \in Keys : j \in failed => ~Drafting(j)'
    BY <2>1, LedgerFacts DEF Drafting
  <2>4. ASSUME NEW j \in Keys
        PROVE  FateOf(j)' = IF FateOf(j) = "failed" THEN "purged" ELSE FateOf(j)
    <3>1. CASE j \in failed
      <4>1. j \notin DOMAIN queue' /\ closed'[j] = "purged"
        BY <2>1, <3>1 DEF Without, Restrict
      <4> QED
        BY <2>2, <2>3, <3>1, <4>1 DEF FateOf
    <3>2. CASE j \notin failed
      <4>1. j \in DOMAIN queue' <=> j \in DOMAIN queue
        BY <2>1, <3>2 DEF Without, Restrict
      <4>2. j \in DOMAIN queue => queue'[j] = queue[j]
        BY <2>1, <3>2 DEF Without, Restrict
      <4> QED
        BY <2>1, <2>2, <3>2, <4>1, <4>2 DEF FateOf, Drafting
    <3> QED
      BY <3>1, <3>2
  <2>5. \A j \in Keys : Fate(j)' = IF Fate(j) = "failed" THEN "purged" ELSE Fate(j)
    BY <1>1, <2>4, FateIs
  <2> QED
    BY <2>5 DEF Ledger!LedgerNext, Ledger!Purge
<1>3. CASE Reload(t)
  <2>1. UNCHANGED queue
    BY <1>3 DEF Reload
  <2>2. CASE draft # None /\ draft.tab = t
    <3>1. PICK d \in Keys : d = draft.key
      BY <2>2, LedgerFacts
    <3>2. /\ draft' = None /\ d \notin DOMAIN queue
          /\ closed'[d] = "unsaved" /\ \A j \in Keys \ {d} : closed'[j] = closed[j]
      BY <1>3, <2>2, <3>1, LedgerFacts DEF Reload
    <3>3. \A j \in Keys \ {d} : FateOf(j)' = FateOf(j)
      BY <2>1, <3>1, <3>2 DEF FateOf, Drafting
    <3>4. FateOf(d) \in {"drafted"} /\ FateOf(d)' = "unsaved"
      BY <2>1, <2>2, <3>1, <3>2 DEF FateOf, Drafting
    <3>5. Ledger!Becomes(d, {"drafted"}, "unsaved") \/ UNCHANGED fates
      BY <1>1, <3>3, <3>4, FateMoves
    <3> QED
      BY <3>5 DEF Ledger!LedgerNext, Ledger!Cut
  <2>3. CASE ~(draft # None /\ draft.tab = t)
    <3>1. \A j \in Keys : FateOf(j)' = FateOf(j)
      BY <1>3, <2>3 DEF Reload, FateOf, Drafting
    <3> QED
      BY <1>1, <3>1, FatesStay
  <2> QED
    BY <2>2, <2>3
<1>4. CASE StartFlush(t) \/ GoOnline(t) \/ GoOffline(t) \/ ShowTrip(t)
  <2>1. \A j \in Keys : FateOf(j)' = FateOf(j)
    BY <1>4 DEF StartFlush, GoOnline, GoOffline, ShowTrip, FateOf, Drafting
  <2> QED
    BY <1>1, <2>1, FatesStay
<1> QED
  BY <1>2, <1>3, <1>4 DEF TabStep

(* Every step of the device and the server is one of the ledger, changes   *)
(* nothing in it, or executes an edit that has ended.                      *)
LEMMA StepInLedger ==
    ASSUME IndInv, LedgerInv, [Next]_vars
    PROVE  Ledger!LedgerNext \/ UNCHANGED fates \/ \E k \in Keys : LateApply(k)
<1>1. CASE UNCHANGED vars
  BY <1>1 DEF vars, serverVars, deviceVars, fates, Fate, Drafting
<1> QED
  BY <1>1, EnqueueInLedger, ServerInLedger, EditInLedger, LoopInLedger, ConflictInLedger,
     TabInLedger DEF Next

(* At first no edit is made. *)
LEMMA InitLedger == Init => Ledger!LedgerInit
<1> SUFFICES ASSUME Init PROVE Ledger!LedgerInit
  OBVIOUS
<1>1. /\ queue = Empty /\ draft = None
      /\ \A k \in Keys : applied[k] = 0 /\ closed[k] = "open"
  BY DEF Init, ServerInit
<1>2. \A k \in Keys : Fate(k) = "none"
  BY <1>1, EmptyTable DEF Fate, Drafting
<1> QED
  BY <1>2 DEF Ledger!LedgerInit

(* A device with one tab keeps the ledger, whatever the faults, but for    *)
(* one thing: a copy of an edit that was sent before its answer got lost   *)
(* may be executed when the edit has ended.                                *)
THEOREM LedgerButForLateCopies ==
    ASSUME OneTab
    PROVE  Spec => LedgerOrLate
<1>1. IndInv /\ LedgerInv /\ [Next]_vars => LedgerInv'
  BY NextLedgerInv
<1>2. IndInv /\ LedgerInv /\ [Next]_vars =>
        [Ledger!LedgerNext \/ \E k \in Keys : LateApply(k)]_fates
  BY StepInLedger
<1> QED
  BY <1>1, <1>2, InitLedgerInv, InitLedger, Inductive, PTL DEF Spec, LedgerOrLate

-----------------------------------------------------------------------------
(* No late copies where no answer gets lost. *)

(* The loop does nothing while the answer is awaited. *)
LEMMA SendingWaits ==
    ASSUME IndInv, NEW t \in Tabs, FlushStep(t), NEW q, open[t] = q, q # None, reply[t] = None
    PROVE  FALSE
<1>1. flush[t].step = "wait"
  BY DEF IndInv, Exchanges, ExchangeOf
<1> QED
  BY <1>1 DEF FlushStep, Replays, FailUnresolved, HasNext, EndFlush, Remap, StoreEntity, Undisplay,
     Dequeue, ConflictTheirs, ConflictMine, ConflictAsk, Reject, Abort, Answered

(* What was being sent is so after a step of the loop, of another edit.    *)
LEMMA LoopSending ==
    ASSUME IndInv, LedgerInv, WireSent, OneTab, NEW t \in Tabs, FlushStep(t),
           NEW q \in wire, q \in wire', Sending(q)
    PROVE  Sending(q)'
<1>1. q # None
  BY NoneAssumption DEF IndInv, TypeOK, ServerTypeOK
<1>2. q.key \notin DOMAIN Todo(t) /\ TypeOK /\ TodoToSend
  BY <1>1, SendingWaits DEF Sending, IndInv, LedgerInv
<1>3. \A p \in wire' : p.key = q.key => p = q
  BY <1>2, FlushStepKeys DEF Sending
<1>4. GoesOn(t) \/ StopsAt(t, Current(t)) \/ EndsAt(t, Current(t))
  BY <1>2, PassForms
<1>5. q.key \in DOMAIN queue' /\ queue'[q.key].status = "syncing"
  <2>1. CASE GoesOn(t)
    BY <1>2, <2>1 DEF GoesOn, Sending
  <2>2. CASE StopsAt(t, Current(t))
    BY <1>2, <2>2 DEF StopsAt, Sending
  <2>3. CASE EndsAt(t, Current(t))
    BY <1>2, <2>3 DEF EndsAt, Sending, Without, Restrict
  <2> QED
    BY <1>4, <2>1, <2>2, <2>3
<1>6. q.key \notin DOMAIN Todo(t)'
  <2>1. CASE Begin(t, queue')
    BY <1>2, <1>5, <2>1, BeginToSend
  <2>2. CASE ~Begin(t, queue')
    BY <1>2, <1>4, <2>2 DEF GoesOn, StopsAt, EndsAt
  <2> QED
    BY <2>1, <2>2
<1> QED
  BY <1>3, <1>5, <1>6 DEF OneTab, Sending

(* Only a replay sends. *)
LEMMA FlushStepWire ==
    ASSUME NEW t \in Tabs, FlushStep(t), ~Replays(t)
    PROVE  wire' = wire
BY DEF FlushStep, FailUnresolved, EndFlush, Remap, StoreEntity, Undisplay, Dequeue,
   ConflictTheirs, ConflictMine, ConflictAsk, Reject, Abort, Received, ServerStays, serverVars

(* The server leaves the device, and whom it has to answer.                *)
LEMMA ServerOpen ==
    ASSUME IndInv, ServerStep
    PROVE  UNCHANGED <<flush, open, queue>> /\ wire' \subseteq wire
<1>1. UNCHANGED open
  BY DEF ServerStep, Serve, GiveUp, CollabUpdate, CollabDelete, PurgeKey
<1> QED
  BY <1>1, ServerStepKeys DEF IndInv, deviceVars

(* The only copy of an edit that is still on the wire was not answered.    *)
LEMMA SentUnanswered ==
    ASSUME IndInv, Limit["giveUp"] = 0, ServerStep, NEW q \in wire, q \in wire', Sending(q),
           NEW t \in Tabs, q.key \in DOMAIN Todo(t), reply'[t] # reply[t]
    PROVE  FALSE
<1>1. open[t] = q /\ DOMAIN reply = Tabs /\ "giveUp" \in Faults /\ spent["giveUp"] \in Nat
  BY DEF Sending, IndInv, TypeOK, ServerTypeOK, Faults
<1>2. ASSUME NEW u \in Tabs, GiveUp(u) PROVE FALSE
  BY <1>1, <1>2 DEF GiveUp, Spend
<1>3. ASSUME NEW p \in wire, NEW r, Answer(p, r) PROVE p = q
  BY <1>1, <1>3 DEF Answer, IndInv, TypeOK, ServerTypeOK
<1>4. ASSUME NEW p \in wire, Serve(p) PROVE p = q
  BY <1>3, <1>4 DEF Serve, Deny, Replay, ExecuteAndStore, Refuse, ExecuteAndCrash
<1>5. PICK p \in wire : Serve(p)
  BY <1>2 DEF ServerStep, CollabUpdate, CollabDelete, PurgeKey
<1>6. Serve(q)
  BY <1>4, <1>5
<1> QED
  BY <1>6 DEF Serve, Deny

(* A copy that may be executed is being sent.                              *)
LEMMA NextWireSent ==
    ASSUME IndInv, LedgerInv, WireSent, OneTab, Limit["giveUp"] = 0, [Next]_vars
    PROVE  WireSent'
<1>1. /\ TypeOK /\ TodoToSend /\ \A q \in wire : q.key \in Keys /\ q # None
      /\ \A k \in Keys : applied[k] \in Nat
  BY NoneAssumption DEF IndInv, LedgerInv, TypeOK, ServerTypeOK, Request
<1>2. SUFFICES ASSUME NEW q \in wire', applied'[q.key] = 0 PROVE Sending(q)'
  BY DEF WireSent
<1>3. ASSUME q \in wire PROVE Sending(q) /\ applied[q.key] = 0
  BY <1>1, <1>2, <1>3, AppliedGrows DEF WireSent
<1>4. ASSUME q \notin wire PROVE Sending(q)'
  <2>1. PICK t \in Tabs : Replays(t)
    BY <1>1, <1>2, <1>4, EditStepKeys, ConflictStepKeys, TabStepKeys, ServerStepKeys, FlushStepWire
       DEF Next, Enqueue, vars, serverVars
  <2>2. /\ wire' = wire \cup {q} /\ q = CurrentRequest(t) /\ open[t] = None /\ open'[t] = q
        /\ reply' = reply /\ applied' = applied
    BY <1>1, <1>2, <1>4, <2>1 DEF Replays, Send, TypeOK, ServerTypeOK
  <2>3. q.key = Current(t) /\ reply[t] = None /\ DOMAIN Todo(t) # {}
    BY <2>1, <2>2 DEF CurrentRequest, Replays, HasNext, IndInv, Exchanges, ExchangeOf
  <2>4. q.key \in DOMAIN queue' /\ queue'[q.key].status = "syncing"
    <3> DEFINE c == Current(t)
    <3>1. c \in DOMAIN queue
      BY <1>1, <2>3, HandToSend
    <3>2. queue' = Amend(queue, c, Change(queue[c], "syncing", queue[c].try))
      BY <2>1 DEF Replays
    <3> HIDE DEF c
    <3>3. /\ DOMAIN queue' = DOMAIN queue
          /\ \A j \in DOMAIN queue :
                queue'[j].status = IF j = c THEN "syncing" ELSE queue[j].status
      BY <3>2, AmendStatus
    <3> QED
      BY <2>3, <3>1, <3>3 DEF c
  <2>5. ASSUME NEW p \in wire, p.key = q.key PROVE FALSE
    <3>1. Sending(p)
      BY <1>2, <2>2, <2>5 DEF WireSent
    <3>2. p.key \in DOMAIN Todo(t)
      BY <1>1, <2>3, <2>5, HandToSend
    <3> QED
      BY <1>1, <2>2, <3>1, <3>2 DEF Sending
  <2> QED
    BY <2>2, <2>3, <2>4, <2>5 DEF Sending, OneTab
<1>5. CASE q \in wire /\ UNCHANGED <<flush, open, reply>> /\ wire' \subseteq wire
           /\ (q.key \in DOMAIN queue' /\ queue'[q.key].status = "syncing")
  BY <1>3, <1>5 DEF Sending, Todo
<1>6. CASE q \in wire /\ (Enqueue \/ UNCHANGED vars)
  <2>1. CASE Enqueue
    <3>1. q.key # draft.key
      BY <1>6, <2>1 DEF Enqueue, LedgerInv, Unqueued, Traceless
    <3>2. q.key \in DOMAIN queue' /\ queue'[q.key] = queue[q.key]
      BY <1>3, <1>6, <2>1, <3>1 DEF Enqueue, Sending, Put
    <3> QED
      BY <1>3, <1>5, <1>6, <2>1, <3>2 DEF Enqueue, serverVars, Sending
  <2> QED
    BY <1>3, <1>5, <1>6, <2>1 DEF vars, serverVars, deviceVars, Sending
<1>7. CASE q \in wire /\ ServerStep
  <2>1. UNCHANGED <<flush, open, queue>> /\ wire' \subseteq wire
    BY <1>7, ServerOpen
  <2>2. ASSUME NEW t \in Tabs, q.key \in DOMAIN Todo(t), reply'[t] # reply[t] PROVE FALSE
    BY <1>1, <1>2, <1>3, <1>7, <2>2, SentUnanswered
  <2> QED
    BY <1>3, <1>7, <2>1, <2>2 DEF Sending, Todo
<1>8. ASSUME q \in wire, NEW t \in Tabs, EditStep(t) PROVE Sending(q)'
  BY <1>1, <1>3, <1>5, <1>8, EditStepKeys DEF Sending
<1>9. ASSUME q \in wire, NEW t \in Tabs, FlushStep(t) PROVE Sending(q)'
  BY <1>2, <1>3, <1>9, LoopSending
<1>10. ASSUME q \in wire, NEW t \in Tabs, UNCHANGED <<open, reply, wire>>,
              q.key \in DOMAIN queue', queue'[q.key].status = "syncing",
              flush' = flush \/ Begin(t, queue')
       PROVE  Sending(q)'
  <2>1. CASE Begin(t, queue')
    <3>1. q.key \notin DOMAIN Todo(t)'
      BY <1>1, <1>10, <2>1, BeginToSend
    <3> QED
      BY <1>3, <1>10, <3>1 DEF Sending, OneTab
  <2> QED
    BY <1>3, <1>10, <2>1 DEF Sending, Todo
<1>11. ASSUME q \in wire, NEW t \in Tabs, ConflictStep(t) PROVE Sending(q)'
  <2>1. PICK k \in DOMAIN queue : KeepMine(t, k) \/ KeepServer(k)
    BY <1>11 DEF ConflictStep
  <2>2. CASE KeepMine(t, k)
    <3>1. /\ DOMAIN queue' = DOMAIN queue
          /\ \A j \in DOMAIN queue :
                queue'[j].status = IF j = k THEN "pending" ELSE queue[j].status
      <4>1. queue' = Amend(queue, k, Revised(queue[k], Forced, queue[k].try, "pending", None))
        BY <2>2 DEF KeepMine
      <4> QED
        BY <4>1, AmendStatus
    <3>2. q.key \in DOMAIN queue' /\ queue'[q.key].status = "syncing"
      BY <1>3, <1>11, <2>2, <3>1 DEF KeepMine, Sending
    <3> QED
      BY <1>10, <1>11, <2>2, <3>2 DEF KeepMine, serverVars
  <2>3. CASE KeepServer(k)
    <3>1. q.key \in DOMAIN queue' /\ queue'[q.key].status = "syncing"
      BY <1>3, <1>11, <2>3 DEF KeepServer, Sending, Without, Restrict
    <3> QED
      BY <1>5, <1>11, <2>3, <3>1 DEF KeepServer, serverVars
  <2> QED
    BY <2>1, <2>2, <2>3
<1>12. ASSUME q \in wire, NEW t \in Tabs, TabStep(t) PROVE Sending(q)'
  <2>1. CASE StartFlush(t)
    BY <1>3, <1>10, <1>12, <2>1 DEF StartFlush, serverVars, Begin, Sending
  <2>2. CASE GoOnline(t) \/ GoOffline(t) \/ ShowTrip(t)
    BY <1>3, <1>5, <1>12, <2>2 DEF GoOnline, GoOffline, ShowTrip, serverVars, Sending
  <2>3. CASE Evict(t)
    <3> DEFINE S == {j \in DOMAIN queue : queue[j].status = "failed"}
    <3>1. queue' = Without(queue, S)
      BY <2>3 DEF Evict
    <3>2. q.key \in DOMAIN queue' /\ queue'[q.key].status = "syncing"
      BY <1>3, <1>12, <3>1 DEF Sending, Without, Restrict
    <3> QED
      BY <1>5, <1>12, <2>3, <3>2 DEF Evict
  <2>4. CASE Reload(t)
    <3>1. DOMAIN Todo(t)' = {}
      BY <1>1, <2>4, EmptyTable DEF Reload, Todo, Quiet, Loop, TypeOK, DeviceTypeOK
    <3> QED
      BY <1>3, <1>12, <2>4, <3>1 DEF Reload, Sending, OneTab
  <2> QED
    BY <1>12, <2>1, <2>2, <2>3, <2>4 DEF TabStep
<1> QED
  BY <1>4, <1>6, <1>7, <1>8, <1>9, <1>11, <1>12 DEF Next
(* At first nothing is on the wire. *)
LEMMA InitWireSent == Init => WireSent
BY DEF Init, ServerInit, WireSent

(* The server executes no edit that has ended. *)
LEMMA NoLateApply ==
    ASSUME IndInv, LedgerInv, WireSent, [Next]_vars, ServerStep, NEW k \in Keys, LateApply(k)
    PROVE  FALSE
<1>1. applied[k] \in Nat /\ applied'[k] \in Nat
  BY AppliedGrows DEF IndInv, TypeOK, ServerTypeOK
<1>2. fates[k] = Fate(k) /\ fates'[k] = Fate(k)'
  BY DEF fates
<1>3. Fate(k) \in {"parked", "theirs", "failed", "purged"}
  BY <1>2 DEF LateApply, Ledger!Becomes, fates
<1>4. Fate(k)' = "applied"
  BY <1>2 DEF LateApply, Ledger!Becomes, fates
<1>5. applied[k] = 0 /\ FateOf(k) = Fate(k)
  BY <1>1, <1>3, FateIs
<1>6. FateOf(k)' = FateOf(k)
  BY DEF ServerStep, deviceVars, FateOf, Drafting
<1>7. applied'[k] # applied[k]
  BY <1>1, <1>3, <1>4, <1>5, <1>6, FateIs
<1>8. PICK q \in wire : q.key = k
  BY <1>7, ServerStepKeys DEF IndInv
<1>9. Sending(q)
  BY <1>5, <1>8 DEF WireSent
<1>10. FateOf(k) = "queued"
  BY <1>8, <1>9 DEF FateOf, Sending
<1> QED
  BY <1>3, <1>5, <1>10

(* Where no answer gets lost each step is the ledger's. *)
LEMMA StepKeepsLedger ==
    ASSUME IndInv, LedgerInv, WireSent, [Next]_vars
    PROVE  Ledger!LedgerNext \/ UNCHANGED fates
<1>1. CASE UNCHANGED vars
  BY <1>1 DEF vars, serverVars, deviceVars, fates, Fate, Drafting
<1>2. CASE ServerStep
  BY <1>2, ServerInLedger, NoLateApply
<1> QED
  BY <1>1, <1>2, EnqueueInLedger, EditInLedger, LoopInLedger, ConflictInLedger, TabInLedger
     DEF Next

(* On a device with one tab whose exchanges do not break, the queue        *)
(* implements the ledger: each edit goes its way from draft to one end,    *)
(* and no step of the loop, of the user, of the server or of a reload      *)
(* takes it back or moves another one along.                               *)
THEOREM LedgerKept ==
    ASSUME OneTab, Limit["giveUp"] = 0
    PROVE  Spec => KeepsLedger
<1>1. IndInv /\ LedgerInv /\ [Next]_vars => LedgerInv'
  BY NextLedgerInv
<1>2. IndInv /\ LedgerInv /\ WireSent /\ [Next]_vars => WireSent'
  BY NextWireSent
<1>3. IndInv /\ LedgerInv /\ WireSent /\ [Next]_vars => [Ledger!LedgerNext]_fates
  BY StepKeepsLedger
<1>4. Spec => Ledger!LedgerInit /\ [][Ledger!LedgerNext]_fates
  BY <1>1, <1>2, <1>3, InitLedgerInv, InitLedger, InitWireSent, Inductive, PTL DEF Spec
<1> QED
  BY <1>4, PTL DEF KeepsLedger, Ledger!LedgerSpec, fates
=============================================================================
