------------------------ MODULE OfflineTokenProofs --------------------------
(***************************************************************************)
(* NoSilentOverwrite of OfflineSync (#1135), for a device with one tab     *)
(* that is not reloaded: any number of edits, rows, collaborators,         *)
(* timeouts and lost keys.  The invariant TokenInv says that an edit       *)
(* without a token is of a row that is gone from the server.               *)
(***************************************************************************)
EXTENDS OfflineSyncProofs

USE MaxEditsAssumption, FirstRowsAssumption, LimitAssumption, NoneAssumption

-----------------------------------------------------------------------------
(* Rows that are gone. *)

(* An id is never used twice, so what is gone stays gone; a delete makes   *)
(* its row so.  What a write stamps, and its answer, have a token.         *)
LEMMA ExecuteGone ==
    ASSUME TypeOK, RowsStamped, NEW q, q.key \in Keys, q.method \in Methods, q.row \in Int,
           Execute(q)
    PROVE  /\ \A id \in Int : Gone(id) => Gone(id)'
           /\ q.method = "DELETE" => Gone(q.row)'
           /\ clock' # NoToken
           /\ \A id \in DOMAIN rows' : Stamped(rows[id])'
           /\ Stamped(Success(q).entity)
           /\ q.method = "POST" => nextId \in DOMAIN rows' /\ Stamped(rows'[nextId])
           /\ q.method = "PUT" => q.row \in DOMAIN rows' /\ Stamped(rows'[q.row])
<1>1. /\ nextId \in Nat \ {0} /\ clock \in Nat /\ clock # NoToken
      /\ DOMAIN rows \subseteq 1..(nextId - 1)
      /\ \A id \in DOMAIN rows : rows[id] \in Entity /\ rows[id].at # NoToken
  BY DEF TypeOK, ServerTypeOK, IsTable, RowsStamped, Stamped
<1>2. ASSUME NEW id \in Int, Stamp(id, q.key)
      PROVE  /\ clock' # NoToken
             /\ DOMAIN rows' = DOMAIN rows \cup {id}
             /\ rows'[id].at # NoToken
             /\ \A x \in DOMAIN rows' : rows'[x].at # NoToken
  <2>1. clock' \in Nat /\ clock' # NoToken
    BY <1>1, <1>2 DEF Stamp, NoToken
  <2>2. DOMAIN rows' = DOMAIN rows \cup {id} /\ rows'[id] = [by |-> q.key, at |-> clock']
        /\ \A x \in DOMAIN rows : x # id => rows'[x] = rows[x]
    BY <1>2 DEF Stamp, Put
  <2> QED
    BY <1>1, <2>1, <2>2
<1>3. CASE Creates(q)
  <2>1. Stamp(nextId, q.key) /\ nextId' = nextId + 1 /\ q.method = "POST"
    BY <1>3 DEF Creates
  <2>5. PICK new \in Nat : new = nextId
    BY <1>1
  <2>6. Stamp(new, q.key) /\ new \in Int
    BY <2>1, <2>5
  <2>2. /\ clock' # NoToken /\ DOMAIN rows' = DOMAIN rows \cup {nextId}
        /\ rows'[nextId].at # NoToken /\ \A x \in DOMAIN rows' : rows'[x].at # NoToken
    BY <1>2, <2>5, <2>6
  <2>3. Success(q).entity = rows'[nextId]
    BY <2>1 DEF Success
  <2>4. \A id \in Int : Gone(id) => Gone(id)'
    BY <1>1, <2>1, <2>2 DEF Gone
  <2> QED
    BY <2>1, <2>2, <2>3, <2>4 DEF Stamped
<1>4. CASE Updates(q)
  <2>1. Stamp(q.row, q.key) /\ nextId' = nextId /\ q.method = "PUT" /\ q.row \in DOMAIN rows
    BY <1>4 DEF Updates
  <2>2. /\ clock' # NoToken /\ DOMAIN rows' = DOMAIN rows
        /\ rows'[q.row].at # NoToken /\ \A x \in DOMAIN rows' : rows'[x].at # NoToken
    BY <1>1, <1>2, <2>1
  <2>3. Success(q).entity = rows'[q.row]
    BY <2>1 DEF Success
  <2>4. \A id \in Int : Gone(id) => Gone(id)'
    BY <1>1, <2>1, <2>2 DEF Gone
  <2> QED
    BY <2>1, <2>2, <2>3, <2>4 DEF Stamped
<1>5. CASE Deletes(q)
  <2>1. /\ DOMAIN rows' = DOMAIN rows \ {q.row} /\ nextId' = nextId /\ clock' = clock
        /\ \A x \in DOMAIN rows' : rows'[x] = rows[x]
        /\ q.method = "DELETE" /\ q.row \in DOMAIN rows
    BY <1>5 DEF Deletes, Without, Restrict
  <2>2. Success(q).entity = None
    BY <2>1 DEF Success, Bare
  <2>3. \A id \in Int : Gone(id) => Gone(id)'
    BY <2>1 DEF Gone
  <2>4. Gone(q.row)'
    BY <1>1, <2>1 DEF Gone
  <2> QED
    BY <1>1, <2>1, <2>2, <2>3, <2>4 DEF Stamped
<1> QED
  BY <1>3, <1>4, <1>5 DEF Execute

(* What an edit made online does: it is executed, and its key is stored.   *)
LEMMA OnlineExecuted ==
    ASSUME TypeOK, NEW t \in Tabs, NEW kind, NEW method \in Methods, NEW id \in Int,
           EditOnline(t, kind, Direct(t, method, id))
    PROVE  \E q : /\ q = Direct(t, method, id) /\ Execute(q)
                  /\ q.key = nextKey /\ q.key \in Keys /\ q.method = method /\ q.row = id
                  /\ keys' = Put(keys, nextKey, Success(q)) /\ online[t]
                  /\ nextKey' = nextKey + 1
                  /\ UNCHANGED <<wire, open, reply, spent, online, queue, draft, flush, closed>>
<1>1. PICK q : q = Direct(t, method, id)
  OBVIOUS
<1>2. q.key = nextKey /\ q.method = method /\ q.row = id
  BY <1>1 DEF Direct
<1> QED
  BY <1>1, <1>2 DEF EditOnline

-----------------------------------------------------------------------------
(* What most steps leave of the invariant. *)

GoneStays == \A id \in Int : Gone(id) => Gone(id)'

(* The queue gets no new edit without a token, and no edit another target. *)
Sendable(m) == WithoutToken(m) /\ m.status \in {"pending", "syncing"}
QueueMild ==
    \A k \in DOMAIN queue' :
        /\ k \in DOMAIN queue
        /\ queue'[k].method = queue[k].method /\ queue'[k].target = queue[k].target
        /\ Sendable(queue'[k]) => Sendable(queue[k])
        /\ Stamped(queue'[k].server)

(* A loop that is about to store an answer still is. *)
StoreStays ==
    \A t \in Tabs : flush[t].step = "store" => flush'[t].step = "store" /\ reply'[t] = reply[t]

(* The loop's work only shrinks, and it learns nothing. *)
LoopMild(t) ==
    /\ flush'[t].idMap = flush[t].idMap /\ flush'[t].tokens = flush[t].tokens
    /\ \/ Todo(t)' = Todo(t) /\ (flush'[t].step = flush[t].step
                                 \/ flush[t].step \notin {"store", "remove"})
       \/ Todo(t)' = Without(Todo(t), {Current(t)})
       \/ Todo(t)' = Empty

TodoQueued ==
    \A t \in Tabs : \A k \in DOMAIN Todo(t) :
        k \in DOMAIN queue /\ queue[k].status \in {"pending", "syncing"}

(* A queue that gets no new edit without a token. *)
LEMMA QueueTokensStay ==
    ASSUME TypeOK, QueueTokens, QueueMild, StoreStays, GoneStays
    PROVE  QueueTokens'
<1> SUFFICES ASSUME NEW k \in DOMAIN queue', NEW m, m = queue'[k]
             PROVE  HasToken(k, m)'
  BY DEF QueueTokens
<1>1. PICK n : n = queue[k]
  OBVIOUS
<1>2. /\ k \in DOMAIN queue /\ n.target \in Int
      /\ m.method = n.method /\ m.target = n.target /\ (Sendable(m) => Sendable(n))
  BY <1>1 DEF QueueMild, TypeOK, DeviceTypeOK, IsTable, Mutation
<1>3. HasToken(k, n)
  BY <1>1, <1>2 DEF QueueTokens
<1>4. Gone(n.target) => Gone(n.target)'
  BY <1>2 DEF GoneStays
<1>5. \A t \in Tabs : AboutToStore(t, n.target) => AboutToStore(t, n.target)'
  BY DEF StoreStays, AboutToStore
<1> QED
  BY <1>2, <1>3, <1>4, <1>5 DEF HasToken, Sendable

(* A loop whose work only shrinks. *)
LEMMA SnapshotStays ==
    ASSUME TypeOK, NEW t \in Tabs, SnapshotFollows(t), LoopMild(t), QueueMild, StoreStays,
           GoneStays, TodoQueued'
    PROVE  SnapshotFollows(t)'
<1>0. /\ flush'[t].idMap = flush[t].idMap /\ flush'[t].tokens = flush[t].tokens
      /\ DOMAIN Todo(t)' \subseteq DOMAIN Todo(t)
      /\ \A k \in DOMAIN Todo(t)' : Todo(t)'[k] = Todo(t)[k]
      /\ FlushType(flush[t])
  BY EmptyTable DEF LoopMild, TypeOK, DeviceTypeOK, Without, Restrict
<1>1. \A id \in Int : Mapped(t, id)' = Mapped(t, id) /\ Mapped(t, id) \in Int
  BY <1>0 DEF Mapped, FlushType, IsTable
<1>2. ASSUME NEW k \in DOMAIN Todo(t)', NEW m, m = Todo(t)'[k]
      PROVE  Follows(t, k, m)'
  <2>2. m.target \in Int /\ k \in DOMAIN Todo(t) /\ Todo(t)'[k] = m
    BY <1>0, <1>2 DEF FlushType, IsTable, Mutation, Todo
  <2>3. PICK id \in Int : id = Mapped(t, m.target) /\ id = Mapped(t, m.target)'
    BY <1>1, <2>2
  <2>4. /\ k \in DOMAIN queue
        /\ m.method = "POST" => m.target = -k
        /\ m.method # "POST" => queue[k].target = id
        /\ WithoutToken(m) => Gone(id) \/ id \in DOMAIN flush[t].tokens \/ AboutToStore(t, id)
    BY <1>0, <1>2, <2>2, <2>3 DEF SnapshotFollows, Follows
  <2>5. k \in DOMAIN queue' /\ queue'[k].status \in {"pending", "syncing"}
        /\ queue'[k].target = queue[k].target
    BY <1>2 DEF TodoQueued, QueueMild
  <2>6. Gone(id) => Gone(id)'
    BY DEF GoneStays
  <2>7. AboutToStore(t, id) => AboutToStore(t, id)'
    BY DEF StoreStays, AboutToStore
  <2> QED
    BY <1>0, <2>3, <2>4, <2>5, <2>6, <2>7 DEF Follows
<1>3. ASSUME NEW id \in DOMAIN flush'[t].idMap
      PROVE  id < 0 /\ (-id \in DOMAIN Todo(t)' =>
                          flush'[t].step \in {"store", "remove"} /\ -id = Current(t)')
  <2>1. /\ id < 0
        /\ -id \in DOMAIN Todo(t) => flush[t].step \in {"store", "remove"} /\ -id = Current(t)
    BY <1>0 DEF SnapshotFollows
  <2>2. CASE Todo(t)' = Todo(t) /\ flush'[t].step = flush[t].step
    BY <2>1, <2>2 DEF Current
  <2>3. CASE Todo(t)' = Todo(t) /\ flush[t].step \notin {"store", "remove"}
    BY <2>1, <2>3
  <2>4. CASE Todo(t)' = Without(Todo(t), {Current(t)})
    BY <2>1, <2>4 DEF Without, Restrict
  <2>5. CASE Todo(t)' = Empty
    BY <2>1, <2>5, EmptyTable
  <2> QED
    BY <2>2, <2>3, <2>4, <2>5 DEF LoopMild
<1> QED
  BY <1>2, <1>3 DEF SnapshotFollows

(* A wire that gets no request. *)
LEMMA WireTargetsStay ==
    ASSUME TypeOK, WireTargets, QueueMild, GoneStays, wire' \subseteq wire
    PROVE  WireTargets'
<1> SUFFICES ASSUME NEW q \in wire'
             PROVE  /\ WithoutToken(q) => Gone(q.row)'
                    /\ q.method # "POST" =>
                          q.row >= 0 /\ (q.key \in DOMAIN queue' => queue'[q.key].target = q.row)
  BY DEF WireTargets
<1>1. q \in wire /\ q.row \in Int
  BY DEF TypeOK, ServerTypeOK, Request
<1>2. Gone(q.row) => Gone(q.row)'
  BY <1>1 DEF GoneStays
<1> QED
  BY <1>1, <1>2 DEF WireTargets, QueueMild

(* A delete whose key is stored stays done. *)
LEMMA KeysGoneStay ==
    ASSUME TypeOK, QueueMild, GoneStays,
           NEW k \in DOMAIN queue', IsDeleted(queue[k])
    PROVE  IsDeleted(queue[k])'
<1>1. PICK m, n : m = queue'[k] /\ n = queue[k]
  OBVIOUS
<1>2. n.target \in Int /\ m.method = n.method /\ m.target = n.target
  BY <1>1 DEF QueueMild, TypeOK, DeviceTypeOK, IsTable, Mutation
<1>3. Gone(n.target) => Gone(n.target)'
  BY <1>2 DEF GoneStays
<1>4. IsDeleted(n)
  BY <1>1
<1>5. IsDeleted(m)'
  BY <1>2, <1>3, <1>4 DEF IsDeleted
<1> QED
  BY <1>1, <1>5

(* An exchange ends or goes on with the same mutation. *)
RepliesStay ==
    \A t \in Tabs : reply'[t] = None \/ (reply'[t] = reply[t] /\ Todo(t)' = Todo(t))

(* A step of the device that does none of the special things keeps the     *)
(* invariant, if it keeps the cache's rows good.                           *)
LEMMA MildStep ==
    ASSUME IndInv, TokenInv, LocalRows', QueueMild, StoreStays, RepliesStay, TodoQueued',
           \A t \in Tabs : LoopMild(t),
           UNCHANGED <<rows, nextId, clock, keys, draft>>,
           wire' \subseteq wire
             \/ (WireTargets' /\ \A q \in wire' : q \in wire \/ q.key \in DOMAIN queue)
    PROVE  TokenInv'
<1>1. TypeOK /\ GoneStays
  BY DEF IndInv, GoneStays, Gone
<1>2. RowsStamped'
  BY DEF TokenInv, RowsStamped, RepliesStay, QueueMild, LoopMild, Stamped
<1>3. QueueTokens' /\ WireTargets' /\ \A t \in Tabs : SnapshotFollows(t)'
  BY <1>1, QueueTokensStay, WireTargetsStay, SnapshotStays DEF TokenInv
<1>4. DraftFresh'
  <2>1. /\ DOMAIN queue' \subseteq DOMAIN queue
        /\ \A t \in Tabs : DOMAIN Todo(t)' \subseteq DOMAIN Todo(t)
    BY EmptyTable DEF QueueMild, LoopMild, Without, Restrict
  <2> QED
    BY <2>1 DEF TokenInv, DraftFresh, Gone
<1>5. DeletedGone'
  <2>1. ASSUME NEW k \in DOMAIN keys' \cap DOMAIN queue' PROVE IsDeleted(queue[k])'
    <3>1. IsDeleted(queue[k])
      BY <2>1 DEF TokenInv, DeletedGone, QueueMild
    <3> QED
      BY <1>1, <2>1, <3>1, KeysGoneStay
  <2>2. ASSUME NEW t \in Tabs, reply'[t] # None, reply'[t].status = "ok",
               Snapshot(t)'.method = "DELETE"
        PROVE  Gone(Target(t))'
    <3>1. /\ reply'[t] = reply[t] /\ Todo(t)' = Todo(t) /\ flush'[t].idMap = flush[t].idMap
      BY <2>2 DEF RepliesStay, LoopMild
    <3>2. Snapshot(t)' = Snapshot(t)
      BY <3>1 DEF Snapshot, Current
    <3>3. Target(t)' = Target(t)
      BY <3>1, <3>2 DEF Target
    <3>4. Gone(Target(t))
      BY <2>2, <3>1, <3>2 DEF TokenInv, DeletedGone
    <3> QED
      BY <3>3, <3>4 DEF Gone
  <2> QED
    BY <2>1, <2>2 DEF DeletedGone
<1> QED
  BY <1>2, <1>3, <1>4, <1>5 DEF TokenInv

-----------------------------------------------------------------------------
(* The loop's steps. *)

(* The rows of the cache and of the page, when the cache changes. *)
LEMMA LocalRowsKept ==
    ASSUME LocalRows, GoneStays, \A id \in DOMAIN cache : id \in Int,
           \A t \in Tabs : view[t] \subseteq Int /\ view'[t] = view[t],
           \A id \in DOMAIN cache' : Stamped(cache'[id]) \/ (id \in DOMAIN cache /\ cache'[id] = cache[id]),
           \A id \in DOMAIN cache \ DOMAIN cache' : Gone(id)
    PROVE  LocalRows'
BY DEF LocalRows, GoneStays

(* What is revised in the queue by the loop, for the mutation in hand. *)
LEMMA AmendMild ==
    ASSUME TypeOK, NEW k, k \in DOMAIN queue => Sendable(queue[k]) \/ ~WithoutToken(queue[k]),
           NEW base, base \in {Forced, queue[k].base}, NEW try, NEW status, NEW server,
           Stamped(server), RowsStamped,
           queue' = Amend(queue, k, Revised(queue[k], base, try, status, server))
    PROVE  QueueMild
<1>1. /\ DOMAIN queue' = DOMAIN queue
      /\ \A z \in DOMAIN queue : queue'[z] = IF z = k THEN Revised(queue[k], base, try, status, server)
                                             ELSE queue[z]
  BY DEF Amend
<1>2. Forced # NoToken
  BY DEF Forced, NoToken
<1> QED
  BY <1>1, <1>2 DEF QueueMild, Sendable, WithoutToken, Revised, RowsStamped

(* The loop is done with a mutation, or with all of them. *)
LEMMA DoneStep ==
    ASSUME IndInv, TokenInv, OneTab, NEW t \in Tabs, flush[t].step # "store",
           flush'[t].step = "next", flush'[t].idMap = flush[t].idMap,
           flush'[t].tokens = flush[t].tokens,
           Todo(t)' = Without(Todo(t), {Current(t)}) \/ Todo(t)' = Empty,
           QueueMild,
           \A k \in DOMAIN queue \ {Current(t)} : k \in DOMAIN queue' /\ queue'[k] = queue[k],
           reply'[t] = None, UNCHANGED <<rows, nextId, clock, keys, wire, draft>>, LocalRows'
    PROVE  TokenInv'
<1>1. \A u \in Tabs : u = t
  BY DEF OneTab
<1>2. \A u \in Tabs : LoopMild(u)
  BY <1>1 DEF LoopMild
<1>3. StoreStays /\ RepliesStay
  BY <1>1 DEF StoreStays, RepliesStay
<1>4. TodoQueued'
  <2>1. \A k \in DOMAIN Todo(t)' : k \in DOMAIN Todo(t) /\ k # Current(t)
    BY EmptyTable DEF Without, Restrict
  <2>2. \A k \in DOMAIN Todo(t) : k \in DOMAIN queue /\ queue[k].status \in {"pending", "syncing"}
    BY DEF TokenInv, SnapshotFollows, Follows
  <2> QED
    BY <1>1, <2>1, <2>2 DEF TodoQueued
<1> QED
  BY <1>2, <1>3, <1>4, MildStep

(* The mutation in hand is in the queue, on its way. *)
LEMMA InHand ==
    ASSUME IndInv, TokenInv, NEW t \in Tabs, DOMAIN Todo(t) # {}
    PROVE  /\ Current(t) \in DOMAIN Todo(t) /\ Current(t) \in DOMAIN queue
           /\ Snapshot(t) \in Mutation /\ queue[Current(t)] \in Mutation
           /\ queue[Current(t)].status \in {"pending", "syncing"}
           /\ Follows(t, Current(t), Snapshot(t))
<1>1. Current(t) \in DOMAIN Todo(t) /\ Snapshot(t) \in Mutation
  BY HeadType DEF IndInv
<1>2. Follows(t, Current(t), Snapshot(t))
  BY <1>1 DEF TokenInv, SnapshotFollows, Snapshot
<1> QED
  BY <1>1, <1>2 DEF Follows, IndInv, TypeOK, DeviceTypeOK, IsTable

(* Going on leaves the rest of the loop. *)
LEMMA AdvanceDone ==
    ASSUME TypeOK, NEW t \in Tabs, Advance(t)
    PROVE  /\ flush'[t].step = "next" /\ flush'[t].idMap = flush[t].idMap
           /\ flush'[t].tokens = flush[t].tokens
           /\ Todo(t)' = Without(Todo(t), {Current(t)})
<1> DEFINE todo == Without(flush[t].todo, {Current(t)})
<1>1. FlushType(flush[t])
  BY DEF TypeOK, DeviceTypeOK
<1>2. flush' = [flush EXCEPT ![t].step = "next", ![t].todo = todo]
  BY DEF Advance
<1> HIDE DEF todo
<1>3. flush'[t] = [step |-> "next", todo |-> todo, idMap |-> flush[t].idMap,
                   tokens |-> flush[t].tokens, retry |-> flush[t].retry]
  BY <1>1, <1>2 DEF FlushType, TypeOK, DeviceTypeOK
<1> QED
  BY <1>3 DEF Todo, todo

(* Amending one mutation leaves the others. *)
LEMMA AmendOthers ==
    ASSUME NEW k, NEW y, queue' = Amend(queue, k, y)
    PROVE  \A z \in DOMAIN queue \ {k} : z \in DOMAIN queue' /\ queue'[z] = queue[z]
BY DEF Amend

(* Removing some leaves the others, and gives none a new token. *)
LEMMA WithoutMild ==
    ASSUME RowsStamped, NEW S, queue' = Without(queue, S)
    PROVE  /\ QueueMild
           /\ \A z \in DOMAIN queue \ S : z \in DOMAIN queue' /\ queue'[z] = queue[z]
BY DEF QueueMild, RowsStamped, Without, Restrict

(* Adopting the server's row keeps the cache good. *)
LEMMA AdoptKeeps ==
    ASSUME TypeOK, LocalRows, GoneStays, NEW id, NEW entity, Stamped(entity), AdoptServer(id, entity),
           view' = view
    PROVE  LocalRows'
<1>1. \A x \in DOMAIN cache' : Stamped(cache'[x]) \/ (x \in DOMAIN cache /\ cache'[x] = cache[x])
  BY DEF AdoptServer, Put
<1>2. DOMAIN cache \subseteq DOMAIN cache'
  BY DEF AdoptServer, Put
<1>3. DOMAIN cache \subseteq Int /\ \A t \in Tabs : view[t] \subseteq Int
  BY DEF TypeOK, DeviceTypeOK, IsTable
<1> QED
  BY <1>1, <1>2, <1>3, LocalRowsKept

(* A placeholder is left: the mutation fails unsent. *)
LEMMA FailUnresolvedKeeps ==
    ASSUME IndInv, TokenInv, OneTab, NEW t \in Tabs, FailUnresolved(t)
    PROVE  TokenInv'
<1>1. TypeOK /\ flush[t].step = "next" /\ DOMAIN Todo(t) # {} /\ Advance(t)
      /\ UNCHANGED <<serverVars, cache, draft, view>>
  BY DEF FailUnresolved, HasNext, IndInv
<1>2. Sendable(queue[Current(t)]) \/ ~WithoutToken(queue[Current(t)])
  BY <1>1, InHand DEF Sendable
<1>3. queue' = Amend(queue, Current(t), Revised(queue[Current(t)], queue[Current(t)].base,
                     Snapshot(t).try + 1, "failed", queue[Current(t)].server))
  BY DEF FailUnresolved, Change
<1>4. Stamped(queue[Current(t)].server) /\ RowsStamped
  BY <1>1, InHand DEF TokenInv, RowsStamped
<1>5. QueueMild
  BY <1>1, <1>2, <1>3, <1>4, AmendMild
<1>6. \A k \in DOMAIN queue \ {Current(t)} : k \in DOMAIN queue' /\ queue'[k] = queue[k]
  BY <1>3, AmendOthers
<1>7. reply'[t] = None
  BY <1>1 DEF IndInv, Exchanges, ExchangeOf, serverVars
<1>8. LocalRows'
  BY <1>1 DEF TokenInv, LocalRows, serverVars, Gone
<1> QED
  BY <1>1, <1>5, <1>6, <1>7, <1>8, AdvanceDone, DoneStep DEF serverVars

(* What an answered mutation has: it is in the queue, its answer has a     *)
(* token, and the exchange ends.                                           *)
LEMMA AnsweredFacts ==
    ASSUME IndInv, TokenInv, NEW t \in Tabs, flush[t].step \in {"wait", "remove"}, reply[t] # None
    PROVE  /\ TypeOK /\ RowsStamped /\ LocalRows /\ DOMAIN Todo(t) # {} /\ flush[t].step # "store"
           /\ Sendable(queue[Current(t)]) \/ ~WithoutToken(queue[Current(t)])
           /\ Stamped(reply[t].entity) /\ Stamped(queue[Current(t)].server) /\ Stamped(None)
           /\ Current(t) \in DOMAIN queue
           /\ HangUp(t) => reply'[t] = None
<1>1. DOMAIN Todo(t) # {}
  BY DEF IndInv, Exchanges, ExchangeOf
<1>2. /\ Current(t) \in DOMAIN queue /\ queue[Current(t)].status \in {"pending", "syncing"}
  BY <1>1, InHand
<1> QED
  BY <1>1, <1>2 DEF TokenInv, RowsStamped, Sendable, Stamped, HangUp, IndInv, TypeOK, ServerTypeOK

(* A mutation that is done, or dropped for the server's row, leaves.       *)
LEMMA DequeueKeeps ==
    ASSUME IndInv, TokenInv, OneTab, NEW t \in Tabs, Dequeue(t) \/ ConflictTheirs(t)
    PROVE  TokenInv'
<1>1. /\ HangUp(t) /\ ServerStays /\ Advance(t) /\ UNCHANGED <<draft, view>>
      /\ queue' = Without(queue, {Current(t)})
      /\ flush[t].step \in {"wait", "remove"} /\ reply[t] # None
  BY DEF Dequeue, ConflictTheirs, Answered, IndInv, Exchanges, ExchangeOf
<1>2. GoneStays
  BY <1>1 DEF ServerStays, GoneStays, Gone
<1>3. LocalRows'
  <2>1. CASE Dequeue(t)
    BY <1>1, <2>1 DEF Dequeue, ServerStays, TokenInv, LocalRows, Gone
  <2>2. CASE ConflictTheirs(t)
    <3>1. PICK id, entity : AdoptServer(id, entity) /\ Stamped(entity)
      BY <1>1, <2>2, AnsweredFacts DEF ConflictTheirs
    <3> QED
      BY <1>1, <1>2, <3>1, AnsweredFacts, AdoptKeeps
  <2> QED
    BY <2>1, <2>2
<1>4. QueueMild
      /\ \A k \in DOMAIN queue \ {Current(t)} : k \in DOMAIN queue' /\ queue'[k] = queue[k]
  BY <1>1, WithoutMild DEF TokenInv
<1> QED
  BY <1>1, <1>3, <1>4, AnsweredFacts, AdvanceDone, DoneStep DEF ServerStays

(* A refused mutation: parked, or failed and a new row rolled back.        *)
LEMMA RefusedKeeps ==
    ASSUME IndInv, TokenInv, OneTab, NEW t \in Tabs, ConflictAsk(t) \/ Reject(t)
    PROVE  TokenInv'
<1> DEFINE k == Current(t)
<1>1. /\ HangUp(t) /\ ServerStays /\ Advance(t) /\ UNCHANGED <<draft, view>>
      /\ flush[t].step = "wait" /\ reply[t] # None
  BY DEF ConflictAsk, Reject, Answered
<1>2. PICK status, server :
         /\ Stamped(server)
         /\ queue' = Amend(queue, k, Revised(queue[k], queue[k].base, Snapshot(t).try + 1,
                                             status, server))
  BY <1>1, AnsweredFacts DEF ConflictAsk, Reject, Change
<1>3. QueueMild
  BY <1>1, <1>2, AnsweredFacts, AmendMild
<1>4. \A z \in DOMAIN queue \ {k} : z \in DOMAIN queue' /\ queue'[z] = queue[z]
  BY <1>2, AmendOthers
<1>5. LocalRows'
  <2>1. CASE cache' = cache
    BY <1>1, <2>1 DEF ServerStays, TokenInv, LocalRows, Gone
  <2>2. CASE Snapshot(t).method = "POST" /\ cache' = Without(cache, {Snapshot(t).target})
    <3>1. PICK id : id = Snapshot(t).target
      OBVIOUS
    <3>2. id = -k /\ k \in Keys
      BY <1>1, <2>2, <3>1, AnsweredFacts, InHand DEF Follows, IndInv, TypeOK, DeviceTypeOK, IsTable
    <3>3. Gone(id)
      BY <1>1, <3>2, AnsweredFacts DEF Gone, Keys, TypeOK, ServerTypeOK, IsTable
    <3>4. GoneStays
      BY <1>1 DEF ServerStays, GoneStays, Gone
    <3>5. /\ \A x \in DOMAIN cache' : x \in DOMAIN cache /\ cache'[x] = cache[x]
          /\ \A x \in DOMAIN cache \ DOMAIN cache' : x = id
      BY <2>2, <3>1 DEF Without, Restrict
    <3>6. DOMAIN cache \subseteq Int /\ \A u \in Tabs : view[u] \subseteq Int
      BY <1>1, AnsweredFacts DEF TypeOK, DeviceTypeOK, IsTable
    <3> QED
      BY <1>1, <3>3, <3>4, <3>5, <3>6, AnsweredFacts, LocalRowsKept
  <2> QED
    BY <2>1, <2>2 DEF ConflictAsk, Reject
<1> QED
  BY <1>1, <1>3, <1>4, <1>5, AnsweredFacts, AdvanceDone, DoneStep DEF ServerStays

(* A mutation that goes back into the queue, forced or as it was.          *)
LEMMA RequeuedKeeps ==
    ASSUME IndInv, TokenInv, OneTab, NEW t \in Tabs, ConflictMine(t) \/ Abort(t)
    PROVE  TokenInv'
<1> DEFINE k == Current(t)
<1>1. /\ HangUp(t) /\ ServerStays /\ UNCHANGED <<draft, view, cache>>
      /\ flush[t].step = "wait" /\ reply[t] # None /\ FlushType(flush[t])
  BY DEF ConflictMine, Abort, Answered, IndInv, TypeOK, DeviceTypeOK
<1>2. PICK base, status, server :
         /\ base \in {Forced, queue[k].base} /\ Stamped(server)
         /\ queue' = Amend(queue, k, Revised(queue[k], base, Snapshot(t).try + 1,
                                             status, server))
  BY <1>1, AnsweredFacts DEF ConflictMine, Abort, Change
<1>3. QueueMild
  BY <1>1, <1>2, AnsweredFacts, AmendMild
<1>4. \A z \in DOMAIN queue \ {k} : z \in DOMAIN queue' /\ queue'[z] = queue[z]
  BY <1>2, AmendOthers
<1>5. LocalRows'
  BY <1>1 DEF ServerStays, TokenInv, LocalRows, Gone
<1>6. /\ flush'[t].step = "next" /\ flush'[t].idMap = flush[t].idMap
      /\ flush'[t].tokens = flush[t].tokens
      /\ Todo(t)' = Without(Todo(t), {Current(t)}) \/ Todo(t)' = Empty
  <2>1. CASE ConflictMine(t)
    <3>1. PICK todo : todo = Without(flush[t].todo, {k})
      OBVIOUS
    <3>2. flush' = [flush EXCEPT ![t].step = "next", ![t].todo = todo, ![t].retry = TRUE]
      BY <2>1, <3>1 DEF ConflictMine
    <3>3. flush'[t] = [step |-> "next", todo |-> todo, idMap |-> flush[t].idMap,
                       tokens |-> flush[t].tokens, retry |-> TRUE]
      BY <1>1, <3>2 DEF FlushType, IndInv, TypeOK, DeviceTypeOK
    <3> QED
      BY <3>1, <3>3 DEF Todo
  <2>2. CASE Abort(t)
    <3>1. flush' = [flush EXCEPT ![t].step = "next", ![t].todo = Empty]
      BY <2>2 DEF Abort
    <3>2. flush'[t] = [step |-> "next", todo |-> Empty, idMap |-> flush[t].idMap,
                       tokens |-> flush[t].tokens, retry |-> flush[t].retry]
      BY <1>1, <3>1 DEF FlushType, IndInv, TypeOK, DeviceTypeOK
    <3> QED
      BY <3>2 DEF Todo
  <2> QED
    BY <2>1, <2>2
<1> QED
  BY <1>1, <1>3, <1>4, <1>5, <1>6, AnsweredFacts, DoneStep DEF ServerStays

(* The request of the mutation in hand is for its row, and has a token     *)
(* unless that row is gone.                                                *)
LEMMA RequestGood ==
    ASSUME IndInv, TokenInv, NEW t \in Tabs, HasNext(t), ~Unresolved(t),
           NEW q, q = CurrentRequest(t)
    PROVE  /\ q.key = Current(t) /\ q.key \in DOMAIN queue /\ q.row \in Int
           /\ WithoutToken(q) => Gone(q.row)
           /\ q.method # "POST" => q.row >= 0 /\ queue[q.key].target = q.row
<1>1. DOMAIN Todo(t) # {} /\ flush[t].step = "next"
  BY DEF HasNext
<1>2. PICK m : m = Snapshot(t)
  OBVIOUS
<1>3. /\ m \in Mutation /\ Current(t) \in DOMAIN queue /\ Follows(t, Current(t), m)
      /\ FlushType(flush[t])
  BY <1>1, <1>2, InHand DEF IndInv, TypeOK, DeviceTypeOK
<1>4. Target(t) = Mapped(t, m.target) /\ Target(t) \in Int
  BY <1>2, <1>3 DEF Target, Mapped, Mutation, FlushType, IsTable
<1>5. /\ q.key = Current(t) /\ q.method = m.method /\ q.base = BaseToken(t)
      /\ q.row = IF m.method = "POST" THEN 0 ELSE Target(t)
  BY <1>2 DEF CurrentRequest
<1>6. m.method # "POST" => Target(t) >= 0 /\ queue[Current(t)].target = Target(t)
  BY <1>2, <1>3, <1>4 DEF Unresolved, Follows
<1>7. ASSUME m.method = "PUT", BaseToken(t) = NoToken PROVE Gone(Target(t))
  <2>1. Target(t) \notin DOMAIN flush[t].tokens /\ m.base = NoToken
    BY <1>2, <1>7 DEF BaseToken, TokenInv, RowsStamped
  <2>2. ~AboutToStore(t, Target(t))
    BY <1>1 DEF AboutToStore
  <2> QED
    BY <1>3, <1>4, <1>7, <2>1, <2>2 DEF Follows, WithoutToken
<1> QED
  BY <1>3, <1>4, <1>5, <1>6, <1>7 DEF WithoutToken

(* A mutation is sent. *)
LEMMA ReplaysKeeps ==
    ASSUME IndInv, TokenInv, OneTab, NEW t \in Tabs, Replays(t)
    PROVE  TokenInv'
<1> DEFINE k == Current(t)
<1>1. /\ TypeOK /\ HasNext(t) /\ ~Unresolved(t) /\ DOMAIN Todo(t) # {} /\ flush[t].step = "next"
      /\ FlushType(flush[t])
      /\ UNCHANGED <<rows, nextId, clock, keys, reply, cache, draft, view>>
  BY DEF Replays, HasNext, Send, IndInv, TypeOK, DeviceTypeOK
<1>2. PICK q : q = CurrentRequest(t)
  OBVIOUS
<1>3. wire' = wire \cup {q}
  BY <1>2 DEF Replays, Send
<1>4. \A u \in Tabs : u = t
  BY DEF OneTab
<1>5. queue' = Amend(queue, k, Revised(queue[k], queue[k].base, queue[k].try, "syncing",
                                       queue[k].server))
  BY DEF Replays, Change
<1>6. QueueMild
  <2>1. (Sendable(queue[k]) \/ ~WithoutToken(queue[k])) /\ Stamped(queue[k].server)
    BY <1>1, InHand DEF Sendable, TokenInv, RowsStamped
  <2> QED
    BY <1>1, <1>5, <2>1, AmendMild DEF TokenInv
<1>7. /\ DOMAIN queue' = DOMAIN queue
      /\ \A z \in DOMAIN queue : z # k => queue'[z] = queue[z]
      /\ k \in DOMAIN queue => queue'[k].status = "syncing"
  BY <1>5 DEF Amend, Revised
<1>8. /\ Todo(t)' = Todo(t) /\ flush'[t].idMap = flush[t].idMap
      /\ flush'[t].tokens = flush[t].tokens
  BY <1>1 DEF Replays, Todo, FlushType, IndInv, TypeOK, DeviceTypeOK
<1>9. TodoQueued'
  <2>1. \A z \in DOMAIN Todo(t) : z \in DOMAIN queue /\ queue[z].status \in {"pending", "syncing"}
    BY DEF TokenInv, SnapshotFollows, Follows
  <2> QED
    BY <1>4, <1>7, <1>8, <2>1 DEF TodoQueued
<1>10. \A u \in Tabs : LoopMild(u)
  BY <1>1, <1>4, <1>8 DEF LoopMild
<1>11. StoreStays /\ RepliesStay
  BY <1>1, <1>4, <1>8 DEF StoreStays, RepliesStay
<1>12. GoneStays
  BY <1>1 DEF GoneStays, Gone
<1>13. WireTargets'
  <2> SUFFICES ASSUME NEW p \in wire'
               PROVE  /\ WithoutToken(p) => Gone(p.row)'
                      /\ p.method # "POST" => p.row >= 0 /\ (p.key \in DOMAIN queue' => queue'[p.key].target = p.row)
    BY DEF WireTargets
  <2>1. /\ p.row \in Int
        /\ WithoutToken(p) => Gone(p.row)
        /\ p.method # "POST" => p.row >= 0 /\ (p.key \in DOMAIN queue => queue[p.key].target = p.row)
    <3>1. CASE p \in wire
      BY <1>1, <3>1 DEF TokenInv, WireTargets, TypeOK, ServerTypeOK, Request
    <3>2. CASE p = q
      BY <1>1, <1>2, <3>2, RequestGood
    <3> QED
      BY <1>3, <3>1, <3>2
  <2> QED
    BY <1>6, <1>12, <2>1 DEF QueueMild, GoneStays
<1>14. \A p \in wire' : p \in wire \/ p.key \in DOMAIN queue
  BY <1>1, <1>2, <1>3, RequestGood
<1>15. LocalRows'
  BY <1>1 DEF TokenInv, LocalRows, Gone
<1> QED
  BY <1>1, <1>6, <1>9, <1>10, <1>11, <1>13, <1>14, <1>15, MildStep

(* A delete is confirmed. *)
LEMMA UndisplayKeeps ==
    ASSUME IndInv, TokenInv, OneTab, NEW t \in Tabs, Undisplay(t)
    PROVE  TokenInv'
<1>1. /\ TypeOK /\ flush[t].step = "wait" /\ reply[t] # None /\ reply[t].status = "ok"
      /\ Snapshot(t).method = "DELETE" /\ FlushType(flush[t])
      /\ UNCHANGED <<rows, nextId, clock, keys, wire, reply, queue, draft, view>>
  BY DEF Undisplay, Answered, Received, IndInv, TypeOK, DeviceTypeOK
<1>2. PICK id : id = Target(t)
  OBVIOUS
<1>3. cache' = Without(cache, {id}) /\ Gone(id)
  BY <1>1, <1>2 DEF Undisplay, TokenInv, DeletedGone
<1>4. \A u \in Tabs : u = t
  BY DEF OneTab
<1>5. /\ Todo(t)' = Todo(t) /\ flush'[t].idMap = flush[t].idMap
      /\ flush'[t].tokens = flush[t].tokens
  BY <1>1 DEF Undisplay, Todo, FlushType, IndInv, TypeOK, DeviceTypeOK
<1>6. QueueMild /\ TodoQueued'
  BY <1>1, <1>4, <1>5 DEF QueueMild, TodoQueued, TokenInv, RowsStamped, SnapshotFollows, Follows
<1>7. (\A u \in Tabs : LoopMild(u)) /\ StoreStays /\ RepliesStay
  BY <1>1, <1>4, <1>5 DEF LoopMild, StoreStays, RepliesStay
<1>8. LocalRows'
  <2>1. GoneStays
    BY <1>1 DEF GoneStays, Gone
  <2>2. /\ \A x \in DOMAIN cache' : x \in DOMAIN cache /\ cache'[x] = cache[x]
        /\ \A x \in DOMAIN cache \ DOMAIN cache' : x = id
    BY <1>3 DEF Without, Restrict
  <2>3. DOMAIN cache \subseteq Int /\ \A u \in Tabs : view[u] \subseteq Int
    BY <1>1 DEF TypeOK, DeviceTypeOK, IsTable
  <2> QED
    BY <1>1, <1>3, <2>1, <2>2, <2>3, LocalRowsKept DEF TokenInv
<1> QED
  BY <1>1, <1>6, <1>7, <1>8, MildStep

(* A pass begins, over what is pending in the queue, or ends.              *)
LEMMA LoopStarts ==
    ASSUME IndInv, TokenInv, OneTab, NEW t \in Tabs, flush[t].step \in {"idle", "next"},
           NEW step \in {"idle", "next"}, NEW todo,
           todo = Empty \/ todo = Restrict(queue', Pending(queue')),
           flush' = [flush EXCEPT ![t] = Loop(step, todo)],
           QueueMild,
           UNCHANGED <<rows, nextId, clock, keys, wire, reply, cache, draft, view>>
    PROVE  TokenInv'
<1>1. TypeOK /\ GoneStays /\ \A u \in Tabs : u = t
  BY DEF IndInv, GoneStays, Gone, OneTab
<1>2. flush'[t] = Loop(step, todo) /\ reply[t] = None /\ reply'[t] = None
  BY DEF IndInv, TypeOK, DeviceTypeOK, Exchanges, ExchangeOf
<1>3. /\ Todo(t)' = todo /\ flush'[t].idMap = Empty /\ flush'[t].tokens = Empty
      /\ flush'[t].step = step
  BY <1>2 DEF Loop, Todo
<1>4. \A k \in DOMAIN todo : k \in DOMAIN queue' /\ todo[k] = queue'[k] /\ todo[k].status = "pending"
  BY EmptyTable DEF Restrict, Pending
<1>5. StoreStays
  BY <1>1 DEF StoreStays
<1>6. RowsStamped'
  BY <1>1, <1>2, <1>3, EmptyTable DEF TokenInv, RowsStamped, QueueMild
<1>7. LocalRows'
  BY DEF TokenInv, LocalRows, Gone
<1>8. QueueTokens' /\ WireTargets'
  BY <1>1, <1>5, QueueTokensStay, WireTargetsStay DEF TokenInv
<1>9. DraftFresh'
  BY <1>1, <1>3, <1>4 DEF TokenInv, DraftFresh, QueueMild, Gone
<1>10. SnapshotFollows(t)'
  <2>1. ASSUME NEW k \in DOMAIN todo, NEW m, m = todo[k]
        PROVE  Follows(t, k, m)'
    <3>1. k \in DOMAIN queue' /\ m = queue'[k] /\ m.status = "pending"
      BY <1>4, <2>1
    <3>2. HasToken(k, m)'
      BY <1>8, <3>1 DEF QueueTokens
    <3>3. Mapped(t, m.target)' = m.target
      BY <1>3, EmptyTable DEF Mapped
    <3>4. \A u \in Tabs : u = t
      BY <1>1
    <3> QED
      BY <3>1, <3>2, <3>3, <3>4 DEF HasToken, Follows
  <2> QED
    BY <1>3, <2>1, EmptyTable DEF SnapshotFollows
<1>11. DeletedGone'
  <2>1. ASSUME NEW k \in DOMAIN keys' \cap DOMAIN queue' PROVE IsDeleted(queue[k])'
    <3>1. IsDeleted(queue[k])
      BY <2>1 DEF TokenInv, DeletedGone, QueueMild
    <3> QED
      BY <1>1, <2>1, <3>1, KeysGoneStay
  <2> QED
    BY <1>1, <1>2, <2>1 DEF DeletedGone
<1> QED
  BY <1>1, <1>6, <1>7, <1>8, <1>9, <1>10, <1>11 DEF TokenInv

(* A queue that stays as it is. *)
LEMMA SameQueue ==
    ASSUME TokenInv, queue' = queue
    PROVE  QueueMild
BY DEF QueueMild, TokenInv, RowsStamped

(* A trigger, or the end of a pass. *)
LEMMA PassKeeps ==
    ASSUME IndInv, TokenInv, OneTab, NEW t \in Tabs, StartFlush(t) \/ EndFlush(t)
    PROVE  TokenInv'
<1>1. /\ queue' = queue /\ flush[t].step \in {"idle", "next"}
      /\ UNCHANGED <<rows, nextId, clock, keys, wire, reply, cache, draft, view>>
  BY DEF StartFlush, EndFlush, serverVars
<1>2. CASE Begin(t, queue)
  <2>1. PICK todo : todo = Restrict(queue', Pending(queue'))
    OBVIOUS
  <2>2. flush' = [flush EXCEPT ![t] = Loop("next", todo)]
    BY <1>1, <1>2, <2>1 DEF Begin
  <2> QED
    BY <1>1, <2>1, <2>2, SameQueue, LoopStarts
<1>3. CASE flush' = [flush EXCEPT ![t] = Quiet]
  <2>1. flush' = [flush EXCEPT ![t] = Loop("idle", Empty)]
    BY <1>3 DEF Quiet
  <2> QED
    BY <1>1, <2>1, SameQueue, LoopStarts
<1> QED
  BY <1>2, <1>3 DEF StartFlush, EndFlush

(* A step outside the loop and the exchanges, with the queue it leaves.    *)
LEMMA AsideStep ==
    ASSUME IndInv, TokenInv, LocalRows', QueueMild, TodoQueued',
           UNCHANGED <<rows, nextId, clock, keys, wire, reply, draft, flush>>
    PROVE  TokenInv'
<1>1. \A t \in Tabs : Todo(t)' = Todo(t) /\ LoopMild(t)
  BY DEF Todo, LoopMild
<1> QED
  BY <1>1, MildStep DEF StoreStays, RepliesStay

(* The user settles a conflict. *)
LEMMA ConflictKeeps ==
    ASSUME IndInv, TokenInv, OneTab, NEW t \in Tabs, ConflictStep(t)
    PROVE  TokenInv'
<1>1. PICK k \in DOMAIN queue : KeepMine(t, k) \/ KeepServer(k)
  BY DEF ConflictStep
<1>2. /\ queue[k].status = "conflict" /\ TypeOK /\ RowsStamped /\ LocalRows
      /\ Stamped(queue[k].server) /\ Stamped(None)
      /\ \A u \in Tabs : u = t
  BY <1>1 DEF KeepMine, KeepServer, TokenInv, RowsStamped, IndInv, Stamped, OneTab
<1>3. \A z \in DOMAIN Todo(t) : z \in DOMAIN queue /\ z # k
                                 /\ queue[z].status \in {"pending", "syncing"}
  BY <1>2 DEF TokenInv, SnapshotFollows, Follows
<1>4. CASE KeepMine(t, k)
  <2>1. /\ queue' = Amend(queue, k, Revised(queue[k], Forced, queue[k].try, "pending", None))
        /\ UNCHANGED <<rows, nextId, clock, keys, wire, reply, cache, draft, view>>
    BY <1>4 DEF KeepMine, serverVars
  <2>2. QueueMild
    <3>1. DOMAIN queue' = DOMAIN queue
          /\ \A z \in DOMAIN queue : queue'[z] = IF z = k THEN Revised(queue[k], Forced, queue[k].try, "pending", None)
                                                 ELSE queue[z]
      BY <2>1 DEF Amend
    <3> QED
      BY <1>2, <3>1 DEF QueueMild, Sendable, WithoutToken, Revised, RowsStamped, Forced, NoToken
  <2>3. LocalRows'
    BY <1>2, <2>1 DEF LocalRows, Gone
  <2>4. \A z \in DOMAIN queue \ {k} : z \in DOMAIN queue' /\ queue'[z] = queue[z]
    BY <2>1, AmendOthers
  <2>5. CASE UNCHANGED flush
    <3>1. TodoQueued'
      BY <1>2, <1>3, <2>4, <2>5 DEF TodoQueued, Todo
    <3> QED
      BY <2>1, <2>2, <2>3, <2>5, <3>1, AsideStep
  <2>6. CASE flush[t].step = "idle" /\ Begin(t, queue')
    <3>1. PICK todo : todo = Restrict(queue', Pending(queue'))
      OBVIOUS
    <3>2. flush' = [flush EXCEPT ![t] = Loop("next", todo)]
      BY <2>6, <3>1 DEF Begin
    <3> QED
      BY <2>1, <2>2, <2>6, <3>1, <3>2, LoopStarts
  <2> QED
    BY <1>4, <2>5, <2>6 DEF KeepMine
<1>5. CASE KeepServer(k)
  <2>1. /\ queue' = Without(queue, {k})
        /\ UNCHANGED <<rows, nextId, clock, keys, wire, reply, draft, view, flush>>
    BY <1>5 DEF KeepServer, serverVars
  <2>2. QueueMild /\ \A z \in DOMAIN queue \ {k} : z \in DOMAIN queue' /\ queue'[z] = queue[z]
    BY <1>2, <2>1, WithoutMild
  <2>3. PICK id, entity : AdoptServer(id, entity) /\ Stamped(entity)
    BY <1>2, <1>5 DEF KeepServer
  <2>4. LocalRows'
    <3>1. GoneStays
      BY <2>1 DEF GoneStays, Gone
    <3> QED
      BY <1>2, <2>1, <2>3, <3>1, AdoptKeeps
  <2>5. TodoQueued'
    BY <1>2, <1>3, <2>1, <2>2 DEF TodoQueued, Todo
  <2> QED
    BY <2>1, <2>2, <2>4, <2>5, AsideStep
<1> QED
  BY <1>1, <1>4, <1>5

(* What Remap does to the loop and to the queue. *)
LEMMA RemapDoes ==
    ASSUME IndInv, NEW t \in Tabs, Remap(t), NEW temp, temp = Snapshot(t).target,
           NEW id, id = reply[t].id
    PROVE  /\ Todo(t)' = Todo(t) /\ flush'[t].step = "store" /\ flush'[t].tokens = flush[t].tokens
           /\ flush'[t].idMap = Put(flush[t].idMap, temp, id)
           /\ DOMAIN queue' = DOMAIN queue
           /\ \A k \in DOMAIN queue :
                 /\ queue[k] \in Mutation
                 /\ queue'[k].method = queue[k].method /\ queue'[k].base = queue[k].base
                 /\ queue'[k].status = queue[k].status /\ queue'[k].server = queue[k].server
                 /\ queue'[k].target = IF queue[k].method # "POST" /\ queue[k].target = temp
                                       THEN id ELSE queue[k].target
<1>1. TypeOK /\ FlushType(flush[t])
  BY DEF IndInv, TypeOK, DeviceTypeOK
<1>2. /\ Todo(t)' = Todo(t) /\ flush'[t].step = "store" /\ flush'[t].tokens = flush[t].tokens
      /\ flush'[t].idMap = Put(flush[t].idMap, temp, id)
  <2>1. PICK im : im = Put(flush[t].idMap, temp, id)
    OBVIOUS
  <2>2. flush' = [flush EXCEPT ![t].step = "store", ![t].idMap = im]
    BY <2>1 DEF Remap
  <2>3. flush'[t] = [step |-> "store", todo |-> flush[t].todo, idMap |-> im,
                     tokens |-> flush[t].tokens, retry |-> flush[t].retry]
    BY <1>1, <2>2 DEF FlushType, IndInv, TypeOK, DeviceTypeOK
  <2> QED
    BY <2>1, <2>3 DEF Todo
<1>3. /\ DOMAIN queue' = DOMAIN queue
      /\ \A k \in DOMAIN queue :
            /\ queue[k] \in Mutation
            /\ queue'[k].method = queue[k].method /\ queue'[k].base = queue[k].base
            /\ queue'[k].status = queue[k].status /\ queue'[k].server = queue[k].server
            /\ queue'[k].target = IF queue[k].method # "POST" /\ queue[k].target = temp
                                  THEN id ELSE queue[k].target
  <2>1. DOMAIN queue' = DOMAIN queue /\ \A k \in DOMAIN queue : queue[k] \in Mutation
    BY <1>1 DEF Remap, TypeOK, DeviceTypeOK, IsTable
  <2>2. ASSUME NEW k \in DOMAIN queue
        PROVE  queue'[k] = IF queue[k].method # "POST" /\ queue[k].target = temp
                           THEN [queue[k] EXCEPT !.target = id] ELSE queue[k]
    BY <2>2 DEF Remap
  <2>3. \A m \in Mutation : [m EXCEPT !.target = id] =
           [method |-> m.method, target |-> id, base |-> m.base, try |-> m.try,
            status |-> m.status, server |-> m.server]
    BY DEF Mutation
  <2>4. ASSUME NEW k \in DOMAIN queue
        PROVE  /\ queue'[k].method = queue[k].method /\ queue'[k].base = queue[k].base
               /\ queue'[k].status = queue[k].status /\ queue'[k].server = queue[k].server
               /\ queue'[k].target = IF queue[k].method # "POST" /\ queue[k].target = temp
                                     THEN id ELSE queue[k].target
    <3>1. CASE queue[k].method # "POST" /\ queue[k].target = temp
      <4>1. queue'[k] = [queue[k] EXCEPT !.target = id]
        BY <2>2, <3>1
      <4> QED
        BY <2>1, <2>3, <3>1, <4>1
    <3>2. CASE ~(queue[k].method # "POST" /\ queue[k].target = temp)
      BY <2>2, <3>2
    <3> QED
      BY <3>1, <3>2
  <2> QED
    BY <2>1, <2>4
<1> QED
  BY <1>2, <1>3

(* A create got its id: what waited for it waits for its token.            *)
LEMMA RemapKeeps ==
    ASSUME IndInv, TokenInv, OneTab, NEW t \in Tabs, Remap(t)
    PROVE  TokenInv'
<1>1. /\ TypeOK /\ FlushType(flush[t]) /\ flush[t].step = "wait" /\ DOMAIN Todo(t) # {}
      /\ Snapshot(t).method = "POST" /\ GoneStays
      /\ UNCHANGED <<rows, nextId, clock, keys, wire, reply, draft, view>>
  BY DEF Remap, Received, Answered, IndInv, TypeOK, DeviceTypeOK, Exchanges, ExchangeOf,
     GoneStays, Gone
<1>2. \A u \in Tabs : u = t
  BY DEF OneTab
<1>3. PICK temp, id : temp = Snapshot(t).target /\ id = reply[t].id
  OBVIOUS
<1>4. /\ temp = -Current(t) /\ Current(t) \in Keys /\ temp \in Int /\ temp < 0
      /\ Current(t) \in DOMAIN Todo(t)
  <2>1. Current(t) \in DOMAIN Todo(t) /\ Current(t) \in Keys /\ Follows(t, Current(t), Snapshot(t))
    BY <1>1, InHand, HeadType
  <2> QED
    BY <1>1, <1>3, <2>1 DEF Follows, Keys
<1>5. id \in Nat \ {0}
  BY <1>1, <1>3, AnswerCarriesRow DEF Remap, CarriesRow
<1>6. Gone(temp)
  BY <1>1, <1>4 DEF Gone, TypeOK, ServerTypeOK, IsTable
<1>7. /\ Todo(t)' = Todo(t) /\ flush'[t].step = "store" /\ flush'[t].tokens = flush[t].tokens
      /\ flush'[t].idMap = Put(flush[t].idMap, temp, id)
  BY <1>3, RemapDoes
<1>8. /\ DOMAIN queue' = DOMAIN queue
      /\ \A k \in DOMAIN queue :
            /\ queue[k] \in Mutation
            /\ queue'[k].method = queue[k].method /\ queue'[k].base = queue[k].base
            /\ queue'[k].status = queue[k].status /\ queue'[k].server = queue[k].server
            /\ queue'[k].target = IF queue[k].method # "POST" /\ queue[k].target = temp
                                  THEN id ELSE queue[k].target
  BY <1>3, RemapDoes
<1>9. temp \notin DOMAIN flush[t].idMap
  BY <1>1, <1>4 DEF TokenInv, SnapshotFollows, Keys
<1>10. RowsStamped'
  BY <1>1, <1>2, <1>7, <1>8 DEF TokenInv, RowsStamped
<1>11. LocalRows'
  <2>1. cache' = Without(cache, {temp})
    BY <1>3 DEF Remap
  <2>2. /\ \A x \in DOMAIN cache' : x \in DOMAIN cache /\ cache'[x] = cache[x]
        /\ \A x \in DOMAIN cache \ DOMAIN cache' : x = temp
    BY <2>1 DEF Without, Restrict
  <2>3. DOMAIN cache \subseteq Int /\ \A u \in Tabs : view[u] \subseteq Int
    BY <1>1 DEF TypeOK, DeviceTypeOK, IsTable
  <2> QED
    BY <1>1, <1>6, <2>2, <2>3, LocalRowsKept DEF TokenInv
<1>12. AboutToStore(t, id)'
  BY <1>1, <1>3, <1>7 DEF AboutToStore
<1>13. ASSUME NEW k \in DOMAIN queue', NEW m, m = queue'[k] PROVE HasToken(k, m)'
  <2>1. PICK n : n = queue[k]
    OBVIOUS
  <2>2. HasToken(k, n) /\ n.target \in Int
    BY <1>8, <2>1 DEF TokenInv, QueueTokens, Mutation
  <2>3. Gone(n.target) => Gone(n.target)'
    BY <1>1 DEF Gone
  <2>4. \A u \in Tabs : ~AboutToStore(u, n.target)
    BY <1>1, <1>2 DEF AboutToStore
  <2>5. CASE n.method # "POST" /\ n.target = temp
    <3>1. m.target = id /\ m.method = n.method
      BY <1>8, <1>13, <2>1, <2>5
    <3> QED
      BY <1>12, <2>5, <3>1 DEF HasToken
  <2>6. CASE ~(n.method # "POST" /\ n.target = temp)
    <3>1. m.target = n.target /\ m.method = n.method /\ m.base = n.base /\ m.status = n.status
      BY <1>8, <1>13, <2>1, <2>6
    <3> QED
      BY <2>2, <2>3, <2>4, <3>1 DEF HasToken, WithoutToken
  <2> QED
    BY <2>5, <2>6
<1>14. DraftFresh'
  BY <1>1, <1>2, <1>7, <1>8 DEF TokenInv, DraftFresh, Gone
<1>15. ASSUME NEW k \in DOMAIN Todo(t), NEW m, m = Todo(t)[k] PROVE Follows(t, k, m)'
  <2>1. Follows(t, k, m) /\ m.target \in Int
    BY <1>1, <1>15 DEF TokenInv, SnapshotFollows, FlushType, IsTable, Mutation, Todo
  <2>2. CASE m.target = temp
    <3>1. Mapped(t, m.target)' = id
      BY <1>7, <2>2 DEF Mapped, Put
    <3>2. Mapped(t, m.target) = temp
      BY <1>9, <2>2 DEF Mapped
    <3>3. m.method # "POST" => queue'[k].target = id
      <4>1. m.method # "POST" => queue[k].target = temp /\ queue[k].method # "POST"
        <5>1. PICK mm \in [Keys -> Methods] : Agree(mm)
          BY DEF IndInv, MethodsAgree
        <5>2. queue[k].method = m.method
          BY <1>15, <2>1, <5>1 DEF Agree, Follows
        <5> QED
          BY <2>1, <3>2, <5>2 DEF Follows
      <4> QED
        BY <1>8, <2>1, <4>1 DEF Follows
    <3> QED
      BY <1>8, <1>12, <2>1, <3>1, <3>3 DEF Follows
  <2>3. CASE m.target # temp
    <3>1. PICK x : x = Mapped(t, m.target)
      OBVIOUS
    <3>2. Mapped(t, m.target)' = x /\ x # temp
      <4>1. Mapped(t, m.target)' = x
        BY <1>7, <2>3, <3>1 DEF Mapped, Put
      <4>2. x = m.target \/ x > 0
        BY <1>1, <3>1 DEF Mapped, FlushType, IsTable
      <4> QED
        BY <1>4, <2>3, <4>1, <4>2
    <3>3. m.method # "POST" => queue'[k].target = x
      BY <1>8, <2>1, <3>1, <3>2 DEF Follows
    <3>4. Gone(x) => Gone(x)'
      BY <1>1 DEF Gone
    <3>5. ~AboutToStore(t, x)
      BY <1>1 DEF AboutToStore
    <3> QED
      BY <1>7, <1>8, <2>1, <3>1, <3>2, <3>3, <3>4, <3>5 DEF Follows
  <2> QED
    BY <2>2, <2>3
<1>16. SnapshotFollows(t)'
  <2>1. Current(t)' = Current(t)
    BY <1>7 DEF Current
  <2>2. ASSUME NEW x \in DOMAIN flush'[t].idMap
        PROVE  x < 0 /\ (-x \in DOMAIN Todo(t) => -x = Current(t))
    <3>1. CASE x \in DOMAIN flush[t].idMap
      BY <1>1, <3>1 DEF TokenInv, SnapshotFollows
    <3>2. CASE x = temp
      BY <1>4, <3>2 DEF Keys
    <3> QED
      BY <1>7, <2>2, <3>1, <3>2 DEF Put
  <2> QED
    BY <1>7, <1>15, <2>1, <2>2 DEF SnapshotFollows
<1>17. WireTargets'
  <2> SUFFICES ASSUME NEW p \in wire'
               PROVE  /\ WithoutToken(p) => Gone(p.row)'
                      /\ p.method # "POST" => p.row >= 0 /\ (p.key \in DOMAIN queue' => queue'[p.key].target = p.row)
    BY DEF WireTargets
  <2>1. /\ p.row \in Int
        /\ WithoutToken(p) => Gone(p.row)
        /\ p.method # "POST" => p.row >= 0 /\ (p.key \in DOMAIN queue => queue[p.key].target = p.row)
    BY <1>1 DEF TokenInv, WireTargets, TypeOK, ServerTypeOK, Request
  <2>2. Gone(p.row) => Gone(p.row)'
    BY <1>1 DEF Gone
  <2> QED
    BY <1>4, <1>8, <2>1, <2>2
<1>18. DeletedGone'
  <2>1. ASSUME NEW k \in DOMAIN keys' \cap DOMAIN queue', NEW m, m = queue'[k]
        PROVE IsDeleted(m)'
    <3>1. PICK n : n = queue[k]
      OBVIOUS
    <3>2. IsDeleted(n) /\ n.target \in Int
      BY <1>1, <1>8, <2>1, <3>1 DEF TokenInv, DeletedGone, Mutation
    <3>3. m.method = "DELETE" => m.target = n.target /\ n.method = "DELETE"
      BY <1>4, <1>8, <2>1, <3>1, <3>2 DEF IsDeleted
    <3> QED
      BY <1>1, <3>2, <3>3 DEF IsDeleted, Gone
  <2>2. Snapshot(t)'.method = "POST"
    BY <1>1, <1>7 DEF Snapshot, Current
  <2> QED
    BY <1>2, <2>1, <2>2 DEF DeletedGone
<1> QED
  BY <1>2, <1>10, <1>11, <1>13, <1>14, <1>16, <1>17, <1>18 DEF TokenInv, QueueTokens

(* What StoreEntity does to the loop and to the queue. *)
LEMMA StoreEntityDoes ==
    ASSUME IndInv, NEW t \in Tabs, StoreEntity(t), NEW id, id = reply[t].id,
           NEW token, token = reply[t].entity.at
    PROVE  /\ Todo(t)' = Todo(t) /\ flush'[t].step = "remove" /\ flush'[t].idMap = flush[t].idMap
           /\ flush'[t].tokens = Put(flush[t].tokens, id, token)
           /\ DOMAIN queue' = DOMAIN queue
           /\ \A k \in DOMAIN queue :
                 /\ queue[k] \in Mutation
                 /\ queue'[k].method = queue[k].method /\ queue'[k].target = queue[k].target
                 /\ queue'[k].status = queue[k].status /\ queue'[k].server = queue[k].server
                 /\ queue'[k].base = IF /\ k # Current(t) /\ queue[k].target = id
                                        /\ queue[k].status \in {"pending", "syncing"}
                                     THEN token ELSE queue[k].base
<1>1. TypeOK /\ FlushType(flush[t])
  BY DEF IndInv, TypeOK, DeviceTypeOK
<1>2. /\ Todo(t)' = Todo(t) /\ flush'[t].step = "remove" /\ flush'[t].idMap = flush[t].idMap
      /\ flush'[t].tokens = Put(flush[t].tokens, id, token)
  <2>1. PICK tk : tk = Put(flush[t].tokens, id, token)
    OBVIOUS
  <2>2. flush' = [flush EXCEPT ![t].step = "remove", ![t].tokens = tk]
    BY <2>1 DEF StoreEntity
  <2>3. flush'[t] = [step |-> "remove", todo |-> flush[t].todo, idMap |-> flush[t].idMap,
                     tokens |-> tk, retry |-> flush[t].retry]
    BY <1>1, <2>2 DEF FlushType, IndInv, TypeOK, DeviceTypeOK
  <2> QED
    BY <2>1, <2>3 DEF Todo
<1>3. /\ DOMAIN queue' = DOMAIN queue
      /\ \A k \in DOMAIN queue :
            /\ queue[k] \in Mutation
            /\ queue'[k].method = queue[k].method /\ queue'[k].target = queue[k].target
            /\ queue'[k].status = queue[k].status /\ queue'[k].server = queue[k].server
            /\ queue'[k].base = IF /\ k # Current(t) /\ queue[k].target = id
                                   /\ queue[k].status \in {"pending", "syncing"}
                                THEN token ELSE queue[k].base
  <2> DEFINE Waits(k) == /\ k # Current(t) /\ queue[k].target = id
                         /\ queue[k].status \in {"pending", "syncing"}
  <2>1. DOMAIN queue' = DOMAIN queue /\ \A k \in DOMAIN queue : queue[k] \in Mutation
    BY <1>1 DEF StoreEntity, TypeOK, DeviceTypeOK, IsTable
  <2>2. ASSUME NEW k \in DOMAIN queue
        PROVE  queue'[k] = IF Waits(k) THEN [queue[k] EXCEPT !.base = token] ELSE queue[k]
    BY <2>2 DEF StoreEntity
  <2>3. \A m \in Mutation : [m EXCEPT !.base = token] =
           [method |-> m.method, target |-> m.target, base |-> token, try |-> m.try,
            status |-> m.status, server |-> m.server]
    BY DEF Mutation
  <2>4. ASSUME NEW k \in DOMAIN queue
        PROVE  /\ queue'[k].method = queue[k].method /\ queue'[k].target = queue[k].target
               /\ queue'[k].status = queue[k].status /\ queue'[k].server = queue[k].server
               /\ queue'[k].base = IF Waits(k) THEN token ELSE queue[k].base
    <3>1. CASE Waits(k)
      <4>1. queue'[k] = [queue[k] EXCEPT !.base = token]
        BY <2>2, <3>1
      <4> HIDE DEF Waits
      <4> QED
        BY <2>1, <2>3, <3>1, <4>1
    <3>2. CASE ~Waits(k)
      <4>1. queue'[k] = queue[k]
        BY <2>2, <3>2
      <4> HIDE DEF Waits
      <4> QED
        BY <3>2, <4>1
    <3> QED
      BY <3>1, <3>2
  <2> QED
    BY <2>1, <2>4
<1> QED
  BY <1>2, <1>3

(* The server's row is stored: what waited for its token has it.           *)
LEMMA StoreEntityKeeps ==
    ASSUME IndInv, TokenInv, OneTab, NEW t \in Tabs, StoreEntity(t)
    PROVE  TokenInv'
<1>1. /\ TypeOK /\ FlushType(flush[t]) /\ flush[t].step \in {"wait", "store"} /\ DOMAIN Todo(t) # {}
      /\ Snapshot(t).method # "DELETE" /\ GoneStays /\ RowsStamped /\ LocalRows /\ reply[t] # None
      /\ flush[t].step = "store" => Snapshot(t).method = "POST"
      /\ UNCHANGED <<rows, nextId, clock, keys, wire, reply, draft, view>>
  BY DEF StoreEntity, Received, Answered, IndInv, TypeOK, DeviceTypeOK, Exchanges, ExchangeOf,
     GoneStays, Gone, TokenInv
<1>2. \A u \in Tabs : u = t
  BY DEF OneTab
<1>3. PICK id, token, entity : id = reply[t].id /\ entity = reply[t].entity /\ token = entity.at
  OBVIOUS
<1>4. CarriesRow(reply[t])
  BY <1>1, AnswerCarriesRow DEF StoreEntity
<1>5. id \in Nat \ {0} /\ entity \in Entity /\ Stamped(entity) /\ token # NoToken
  BY <1>1, <1>3, <1>4 DEF CarriesRow, RowsStamped, Stamped
<1>6. /\ Todo(t)' = Todo(t) /\ flush'[t].step = "remove" /\ flush'[t].idMap = flush[t].idMap
      /\ flush'[t].tokens = Put(flush[t].tokens, id, token)
  BY <1>3, StoreEntityDoes
<1>7. /\ DOMAIN queue' = DOMAIN queue
      /\ \A k \in DOMAIN queue :
            /\ queue[k] \in Mutation
            /\ queue'[k].method = queue[k].method /\ queue'[k].target = queue[k].target
            /\ queue'[k].status = queue[k].status /\ queue'[k].server = queue[k].server
            /\ queue'[k].base = IF /\ k # Current(t) /\ queue[k].target = id
                                   /\ queue[k].status \in {"pending", "syncing"}
                                THEN token ELSE queue[k].base
  BY <1>3, StoreEntityDoes
<1>8. QueueMild
  BY <1>1, <1>5, <1>7 DEF QueueMild, Sendable, WithoutToken, RowsStamped
<1>9. RowsStamped'
  <2>1. \A x \in DOMAIN flush'[t].tokens : flush'[t].tokens[x] # NoToken
    BY <1>1, <1>5, <1>6 DEF RowsStamped, Put
  <2> QED
    BY <1>1, <1>2, <1>7, <2>1 DEF RowsStamped
<1>10. LocalRows'
  <2>1. cache' = Put(cache, id, entity)
    BY <1>3 DEF StoreEntity
  <2>2. /\ \A x \in DOMAIN cache' : Stamped(cache'[x]) \/ (x \in DOMAIN cache /\ cache'[x] = cache[x])
        /\ DOMAIN cache \subseteq DOMAIN cache'
    BY <1>5, <2>1 DEF Put
  <2>3. DOMAIN cache \subseteq Int /\ \A u \in Tabs : view[u] \subseteq Int
    BY <1>1 DEF TypeOK, DeviceTypeOK, IsTable
  <2> QED
    BY <1>1, <2>2, <2>3, LocalRowsKept
<1>11. ASSUME NEW k \in DOMAIN queue', NEW m, m = queue'[k] PROVE HasToken(k, m)'
  <2>1. PICK n : n = queue[k]
    OBVIOUS
  <2>2. /\ HasToken(k, n) /\ m.method = n.method /\ m.target = n.target /\ m.status = n.status
        /\ m.base = IF k # Current(t) /\ n.target = id /\ n.status \in {"pending", "syncing"}
                    THEN token ELSE n.base
    BY <1>7, <1>11, <2>1 DEF TokenInv, QueueTokens
  <2>3. Gone(n.target) => Gone(n.target)'
    BY <1>1 DEF Gone
  <2>4. ASSUME WithoutToken(m), m.status \in {"pending", "syncing"} PROVE Gone(m.target)'
    <3>1. WithoutToken(n) /\ n.status \in {"pending", "syncing"} /\ (k = Current(t) \/ n.target # id)
      BY <1>5, <2>2, <2>4 DEF WithoutToken
    <3>2. \A u \in Tabs : ~AboutToStore(u, n.target)
      <4>1. CASE n.target # id
        BY <1>2, <1>3, <4>1 DEF AboutToStore
      <4>2. CASE k = Current(t)
        <5>1. PICK mm \in [Keys -> Methods] : Agree(mm)
          BY DEF IndInv, MethodsAgree
        <5>2. k \in DOMAIN Todo(t) /\ k \in DOMAIN queue
          BY <1>1, <4>2, InHand
        <5>3. n.method = Snapshot(t).method
          BY <2>1, <4>2, <5>1, <5>2 DEF Agree, Snapshot
        <5> QED
          BY <1>1, <1>2, <3>1, <5>3 DEF WithoutToken, AboutToStore
      <4> QED
        BY <3>1, <4>1, <4>2
    <3>3. Gone(n.target)
      BY <2>2, <3>1, <3>2 DEF HasToken
    <3> QED
      BY <2>2, <2>3, <3>3
  <2> QED
    BY <2>2, <2>4 DEF HasToken
<1>12. DraftFresh'
  BY <1>1, <1>2, <1>6, <1>7 DEF TokenInv, DraftFresh, Gone
<1>13. ASSUME NEW k \in DOMAIN Todo(t), NEW m, m = Todo(t)[k] PROVE Follows(t, k, m)'
  <2>1. Follows(t, k, m)
    BY <1>13 DEF TokenInv, SnapshotFollows
  <2>2. PICK x : x = Mapped(t, m.target)
    OBVIOUS
  <2>3. Mapped(t, m.target)' = x
    BY <1>6, <2>2 DEF Mapped
  <2>4. x \in DOMAIN flush[t].tokens \/ AboutToStore(t, x) => x \in DOMAIN flush'[t].tokens
    BY <1>3, <1>6 DEF AboutToStore, Put
  <2>5. Gone(x) => Gone(x)'
    BY <1>1 DEF Gone
  <2> QED
    BY <1>7, <2>1, <2>2, <2>3, <2>4, <2>5 DEF Follows
<1>14. SnapshotFollows(t)'
  <2>1. Current(t)' = Current(t)
    BY <1>6 DEF Current
  <2>2. \A x \in DOMAIN flush[t].idMap : x < 0 /\ (-x \in DOMAIN Todo(t) => -x = Current(t))
    BY DEF TokenInv, SnapshotFollows
  <2> QED
    BY <1>6, <1>13, <2>1, <2>2 DEF SnapshotFollows
<1>15. WireTargets'
  BY <1>1, <1>8, WireTargetsStay DEF TokenInv
<1>16. DeletedGone'
  <2>1. ASSUME NEW k \in DOMAIN keys' \cap DOMAIN queue' PROVE IsDeleted(queue[k])'
    <3>1. IsDeleted(queue[k])
      BY <1>1, <1>7, <2>1 DEF TokenInv, DeletedGone
    <3> QED
      BY <1>1, <1>8, <2>1, <3>1, KeysGoneStay
  <2>2. Snapshot(t)'.method # "DELETE"
    BY <1>1, <1>6 DEF Snapshot, Current
  <2> QED
    BY <1>2, <2>1, <2>2 DEF DeletedGone
<1> QED
  BY <1>2, <1>9, <1>10, <1>11, <1>12, <1>14, <1>15, <1>16 DEF TokenInv, QueueTokens

(* Every step of the loop. *)
LEMMA FlushStepKeeps ==
    ASSUME IndInv, TokenInv, OneTab, NEW t \in Tabs, FlushStep(t)
    PROVE  TokenInv'
<1>1. CASE Replays(t) \/ FailUnresolved(t) \/ EndFlush(t)
  BY <1>1, ReplaysKeeps, FailUnresolvedKeeps, PassKeeps
<1>2. CASE Remap(t) \/ StoreEntity(t) \/ Undisplay(t)
  BY <1>2, RemapKeeps, StoreEntityKeeps, UndisplayKeeps
<1>3. CASE Dequeue(t) \/ ConflictTheirs(t) \/ ConflictMine(t) \/ ConflictAsk(t) \/ Reject(t) \/ Abort(t)
  BY <1>3, DequeueKeeps, RefusedKeeps, RequeuedKeeps
<1> QED
  BY <1>1, <1>2, <1>3 DEF FlushStep

-----------------------------------------------------------------------------
(* The tab, the user and the server. *)

(* What happens to a tab that is not reloaded. *)
LEMMA TabStepKeeps ==
    ASSUME IndInv, TokenInv, OneTab, Limit["reload"] = 0, NEW t \in Tabs, TabStep(t)
    PROVE  TokenInv'
<1>1. TypeOK /\ \A u \in Tabs : u = t
  BY DEF IndInv, OneTab
<1>2. \A k \in DOMAIN Todo(t) : k \in DOMAIN queue /\ queue[k].status \in {"pending", "syncing"}
  BY DEF TokenInv, SnapshotFollows, Follows
<1>3. CASE queue' = queue /\ LocalRows' /\ UNCHANGED <<rows, nextId, clock, keys, wire, reply, draft, flush>>
  <2>1. TodoQueued'
    BY <1>1, <1>2, <1>3 DEF TodoQueued, Todo
  <2> QED
    BY <1>3, <2>1, SameQueue, AsideStep
<1>4. CASE StartFlush(t)
  BY <1>4, PassKeeps
<1>5. CASE GoOnline(t) \/ GoOffline(t)
  BY <1>3, <1>5 DEF GoOnline, GoOffline, serverVars, TokenInv, LocalRows, Gone
<1>6. CASE ShowTrip(t)
  <2>1. /\ UNCHANGED <<queue, rows, nextId, clock, keys, wire, reply, draft, flush>>
        /\ \/ cache' = PutAll(cache, rows) /\ view' = [view EXCEPT ![t] = DOMAIN rows]
           \/ cache' = cache /\ view' = [view EXCEPT ![t] = DOMAIN cache]
    BY <1>6 DEF ShowTrip, serverVars
  <2>2. /\ \A id \in DOMAIN cache' : Stamped(cache'[id]) \/ Gone(id)
        /\ view'[t] \subseteq DOMAIN cache'
    BY <1>1, <2>1 DEF PutAll, TokenInv, LocalRows, RowsStamped, TypeOK, DeviceTypeOK
  <2>3. LocalRows'
    BY <1>1, <2>1, <2>2 DEF LocalRows, Gone
  <2> QED
    BY <1>3, <2>1, <2>3
<1>7. CASE Evict(t)
  <2>1. PICK S : S = {k \in DOMAIN queue : queue[k].status = "failed"}
    OBVIOUS
  <2>2. /\ queue' = Without(queue, S) /\ cache' = Empty /\ view' = [view EXCEPT ![t] = {}]
        /\ UNCHANGED <<rows, nextId, clock, keys, wire, reply, draft, flush>>
    BY <1>7, <2>1 DEF Evict
  <2>3. QueueMild /\ \A z \in DOMAIN queue \ S : z \in DOMAIN queue' /\ queue'[z] = queue[z]
    BY <2>2, WithoutMild DEF TokenInv
  <2>4. LocalRows'
    BY <1>1, <2>2, EmptyTable DEF LocalRows, TypeOK, DeviceTypeOK
  <2>5. TodoQueued'
    BY <1>1, <1>2, <2>1, <2>2, <2>3 DEF TodoQueued, Todo
  <2> QED
    BY <2>2, <2>3, <2>4, <2>5, AsideStep
<1>8. ~Reload(t)
  BY <1>1 DEF Reload, Spend, TypeOK, ServerTypeOK, Faults
<1> QED
  BY <1>4, <1>5, <1>6, <1>7, <1>8 DEF TabStep

(* A draft is queued. *)
LEMMA EnqueueKeeps ==
    ASSUME IndInv, TokenInv, Enqueue
    PROVE  TokenInv'
<1>1. /\ TypeOK /\ draft # None /\ draft' = None /\ GoneStays
      /\ UNCHANGED <<rows, nextId, clock, keys, wire, reply, cache, view, flush>>
  BY DEF Enqueue, serverVars, IndInv, GoneStays, Gone
<1>2. PICK new, m : new = draft.key /\ m = draft.mutation
  OBVIOUS
<1>3. /\ new \notin DOMAIN queue \cup DOMAIN keys
      /\ \A t \in Tabs : new \notin DOMAIN Todo(t)
      /\ \A q \in wire : q.key # new
      /\ m.method = "POST" => m.target = -new
      /\ WithoutToken(m) => Gone(m.target)
      /\ m.server = None
  BY <1>1, <1>2 DEF TokenInv, DraftFresh
<1>4. /\ DOMAIN queue' = DOMAIN queue \cup {new} /\ queue'[new] = m
      /\ \A k \in DOMAIN queue : queue'[k] = queue[k]
  BY <1>2, <1>3 DEF Enqueue, Put
<1>5. \A t \in Tabs : Todo(t)' = Todo(t)
  BY <1>1 DEF Todo
<1>6. RowsStamped'
  BY <1>1, <1>3, <1>4 DEF TokenInv, RowsStamped, Stamped
<1>7. LocalRows'
  BY <1>1 DEF TokenInv, LocalRows, Gone
<1>8. ASSUME NEW k \in DOMAIN queue', NEW n, n = queue'[k] PROVE HasToken(k, n)'
  <2>1. HasToken(k, n)
    BY <1>3, <1>4, <1>8 DEF HasToken, TokenInv, QueueTokens
  <2> QED
    BY <1>1, <2>1 DEF HasToken, Gone, AboutToStore
<1>9. DraftFresh'
  BY <1>1 DEF DraftFresh
<1>10. ASSUME NEW t \in Tabs PROVE SnapshotFollows(t)'
  <2>1. ASSUME NEW k \in DOMAIN Todo(t), NEW n, n = Todo(t)[k] PROVE Follows(t, k, n)'
    <3>1. Follows(t, k, n)
      BY <2>1 DEF TokenInv, SnapshotFollows
    <3>2. Mapped(t, n.target)' = Mapped(t, n.target)
      BY <1>1 DEF Mapped
    <3> QED
      BY <1>1, <1>4, <3>1, <3>2 DEF Follows, Gone, AboutToStore
  <2> QED
    BY <1>1, <1>5, <2>1 DEF TokenInv, SnapshotFollows, Current
<1>11. WireTargets'
  BY <1>1, <1>3, <1>4 DEF TokenInv, WireTargets, Gone
<1>12. DeletedGone'
  <2>1. ASSUME NEW k \in DOMAIN keys' \cap DOMAIN queue', NEW n, n = queue'[k] PROVE IsDeleted(n)'
    <3>1. IsDeleted(n)
      BY <1>1, <1>3, <1>4, <2>1 DEF TokenInv, DeletedGone
    <3> QED
      BY <1>1, <3>1 DEF IsDeleted, Gone
  <2>2. \A t \in Tabs : Snapshot(t)' = Snapshot(t) /\ Target(t)' = Target(t)
    BY <1>1, <1>5 DEF Snapshot, Current, Target
  <2> QED
    BY <1>1, <2>1, <2>2 DEF TokenInv, DeletedGone, Gone
<1> QED
  BY <1>6, <1>7, <1>8, <1>9, <1>10, <1>11, <1>12 DEF TokenInv, QueueTokens

(* An edit is drafted: it has left no trace, and has a token unless its    *)
(* row is gone.                                                            *)
LEMMA DraftStep ==
    ASSUME IndInv, TokenInv, LocalRows', NEW t \in Tabs, NEW m,
           draft' = [tab |-> t, key |-> nextKey, mutation |-> m],
           m.method = "POST" => m.target = -nextKey,
           WithoutToken(m) => Gone(m.target), m.server = None,
           UNCHANGED <<serverVars, queue, flush>>
    PROVE  TokenInv'
<1>1. /\ TypeOK /\ GoneStays /\ QueueMild
      /\ UNCHANGED <<rows, nextId, clock, keys, wire, reply, flush, queue>>
  BY SameQueue DEF IndInv, serverVars, GoneStays, Gone
<1>2. \A u \in Tabs : Todo(u)' = Todo(u) /\ LoopMild(u)
  BY <1>1 DEF Todo, LoopMild
<1>3. StoreStays
  BY <1>1 DEF StoreStays
<1>4. TodoQueued'
  BY <1>1, <1>2 DEF TodoQueued, TokenInv, SnapshotFollows, Follows
<1>5. RowsStamped'
  BY <1>1 DEF TokenInv, RowsStamped
<1>6. QueueTokens' /\ WireTargets' /\ \A u \in Tabs : SnapshotFollows(u)'
  BY <1>1, <1>2, <1>3, <1>4, QueueTokensStay, WireTargetsStay, SnapshotStays DEF TokenInv
<1>7. DraftFresh'
  <2>1. /\ nextKey \notin DOMAIN queue \cup DOMAIN keys
        /\ \A u \in Tabs : nextKey \notin DOMAIN Todo(u)
        /\ \A q \in wire : q.key # nextKey
    BY DEF IndInv, KeysIssued, TypeOK, DeviceTypeOK
  <2>2. PICK k : k = nextKey
    OBVIOUS
  <2>3. draft'.key = k /\ draft'.mutation = m
    BY <2>2
  <2> QED
    BY <1>1, <1>2, <2>1, <2>2, <2>3 DEF DraftFresh, Gone
<1>8. DeletedGone'
  <2>1. ASSUME NEW k \in DOMAIN keys' \cap DOMAIN queue' PROVE IsDeleted(queue[k])'
    <3>1. IsDeleted(queue[k])
      BY <1>1, <2>1 DEF TokenInv, DeletedGone
    <3> QED
      BY <1>1, <2>1, <3>1, KeysGoneStay
  <2>2. \A u \in Tabs : Snapshot(u)' = Snapshot(u) /\ Target(u)' = Target(u)
    BY <1>1, <1>2 DEF Snapshot, Current, Target
  <2> QED
    BY <1>1, <2>1, <2>2 DEF TokenInv, DeletedGone, Gone
<1> QED
  BY <1>5, <1>6, <1>7, <1>8 DEF TokenInv

(* The user creates, changes or deletes offline. *)
LEMMA OfflineEditKeeps ==
    ASSUME IndInv, TokenInv, OneTab, NEW t \in Tabs,
           CreateOffline(t) \/ \E id \in view[t] : UpdateOffline(t, id) \/ DeleteOffline(t, id)
    PROVE  TokenInv'
<1>1. /\ TypeOK /\ (\A u \in Tabs : u = t) /\ LocalRows
      /\ nextKey \in Nat \ {0} /\ nextId \in Nat \ {0} /\ DOMAIN rows \subseteq 1..(nextId - 1)
      /\ DOMAIN view = Tabs
  BY DEF IndInv, OneTab, TokenInv, TypeOK, DeviceTypeOK, ServerTypeOK, IsTable
<1>2. CASE CreateOffline(t)
  <2>1. PICK k, m : k = nextKey
                    /\ m = [method |-> "POST", target |-> -nextKey, base |-> NoToken,
                            try |-> 0, status |-> "pending", server |-> None]
    OBVIOUS
  <2>2. /\ draft' = [tab |-> t, key |-> nextKey, mutation |-> m]
        /\ UNCHANGED <<serverVars, queue, flush>>
        /\ cache' = Put(cache, -k, [by |-> k, at |-> NoToken])
        /\ view' = [view EXCEPT ![t] = @ \cup {-k}]
    BY <1>2, <2>1 DEF CreateOffline, Drafted
  <2>3. Gone(-k)
    BY <1>1, <2>1 DEF Gone
  <2>4. LocalRows'
    <3>1. DOMAIN cache' = DOMAIN cache \cup {-k}
          /\ \A x \in DOMAIN cache : x # -k => cache'[x] = cache[x]
      BY <2>2 DEF Put
    <3> QED
      BY <1>1, <2>2, <2>3, <3>1 DEF LocalRows, Gone, serverVars
  <2> QED
    BY <2>1, <2>2, <2>4, DraftStep DEF WithoutToken
<1>3. ASSUME NEW id \in view[t], UpdateOffline(t, id) PROVE TokenInv'
  <2>1. PICK token : token = IF id \in DOMAIN cache THEN cache[id].at ELSE NoToken
    OBVIOUS
  <2>2. PICK m : m = [method |-> "PUT", target |-> id, base |-> token,
                      try |-> 0, status |-> "pending", server |-> None]
    OBVIOUS
  <2>3. PICK entity : entity = [by |-> nextKey, at |-> token]
    OBVIOUS
  <2>4. /\ draft' = [tab |-> t, key |-> nextKey, mutation |-> m]
        /\ UNCHANGED <<serverVars, queue, flush, view>>
        /\ cache' = Put(cache, id, entity)
    BY <1>3, <2>1, <2>2, <2>3 DEF UpdateOffline, Drafted
  <2>5. token = NoToken => Gone(id)
    <3>1. id \in DOMAIN cache => cache[id] # None
      BY <1>1 DEF TypeOK, DeviceTypeOK, IsTable
    <3> QED
      BY <1>1, <1>3, <2>1, <3>1 DEF LocalRows, Stamped
  <2>6. Stamped(entity) \/ Gone(id)
    BY <2>3, <2>5 DEF Stamped
  <2>7. LocalRows'
    <3>1. /\ DOMAIN cache' = DOMAIN cache \cup {id} /\ cache'[id] = entity
          /\ \A x \in DOMAIN cache : x # id => cache'[x] = cache[x]
      BY <2>4 DEF Put
    <3> QED
      BY <1>1, <2>4, <2>6, <3>1 DEF LocalRows, Gone, serverVars
  <2> QED
    BY <2>2, <2>4, <2>5, <2>7, DraftStep DEF WithoutToken
<1>4. ASSUME NEW id \in view[t], DeleteOffline(t, id) PROVE TokenInv'
  <2>1. PICK m : m = [method |-> "DELETE", target |-> id, base |-> NoToken,
                      try |-> 0, status |-> "pending", server |-> None]
    OBVIOUS
  <2>2. /\ draft' = [tab |-> t, key |-> nextKey, mutation |-> m]
        /\ UNCHANGED <<serverVars, queue, flush>>
        /\ cache' = Without(cache, {id}) /\ view' = [view EXCEPT ![t] = @ \ {id}]
    BY <1>4, <2>1 DEF DeleteOffline, Drafted
  <2>3. LocalRows'
    <3>1. /\ DOMAIN cache' = DOMAIN cache \ {id}
          /\ \A x \in DOMAIN cache' : cache'[x] = cache[x]
          /\ view'[t] = view[t] \ {id}
      BY <1>1, <2>2 DEF Without, Restrict
    <3> QED
      BY <1>1, <2>2, <3>1 DEF LocalRows, Gone, serverVars
  <2> QED
    BY <2>1, <2>2, <2>3, DraftStep DEF WithoutToken
<1> QED
  BY <1>2, <1>3, <1>4

(* The server executed a write, or the rows only got fewer: what the       *)
(* device holds is as good as before.                                      *)
LEMMA ServedStep ==
    ASSUME IndInv, TokenInv, GoneStays, RowsStamped', LocalRows', DeletedGone',
           UNCHANGED <<queue, flush, draft>>, wire' \subseteq wire,
           \A t \in Tabs : flush[t].step = "store" => reply'[t] = reply[t],
           draft # None => draft.key \notin DOMAIN keys' \ DOMAIN keys
    PROVE  TokenInv'
<1>1. TypeOK /\ QueueMild
  BY SameQueue DEF IndInv
<1>2. \A u \in Tabs : Todo(u)' = Todo(u) /\ LoopMild(u)
  BY DEF Todo, LoopMild
<1>3. StoreStays
  BY DEF StoreStays
<1>4. TodoQueued'
  BY <1>2 DEF TodoQueued, TokenInv, SnapshotFollows, Follows
<1>5. QueueTokens' /\ WireTargets' /\ \A u \in Tabs : SnapshotFollows(u)'
  BY <1>1, <1>2, <1>3, <1>4, QueueTokensStay, WireTargetsStay, SnapshotStays DEF TokenInv
<1>6. DraftFresh'
  <2>1. SUFFICES ASSUME draft # None PROVE DraftFresh'
    BY DEF DraftFresh
  <2>2. draft.mutation.target \in Int
    BY <1>1, <2>1 DEF TypeOK, DeviceTypeOK, Draft, Mutation
  <2>3. Gone(draft.mutation.target) => Gone(draft.mutation.target)'
    <3>1. PICK id \in Int : id = draft.mutation.target
      BY <2>2
    <3> QED
      BY <3>1 DEF GoneStays, Gone
  <2> QED
    BY <1>2, <2>1, <2>3 DEF TokenInv, DraftFresh, Gone
<1> QED
  BY <1>5, <1>6 DEF TokenInv

(* The mutation in hand, when it deletes, is for the row of its edit.      *)
LEMMA DeleteTarget ==
    ASSUME IndInv, TokenInv, NEW t \in Tabs, reply[t] # None \/ open[t] # None,
           Snapshot(t).method = "DELETE"
    PROVE  /\ Current(t) \in DOMAIN queue /\ queue[Current(t)].target = Target(t)
           /\ queue[Current(t)].method = "DELETE" /\ Target(t) \in Int
<1>1. DOMAIN Todo(t) # {}
  BY DEF IndInv, Exchanges, ExchangeOf
<1>2. PICK m : m = Snapshot(t)
  OBVIOUS
<1>3. /\ Current(t) \in DOMAIN queue /\ Current(t) \in DOMAIN Todo(t)
      /\ Follows(t, Current(t), m) /\ queue[Current(t)] \in Mutation
  BY <1>1, <1>2, InHand
<1>4. Target(t) = Mapped(t, m.target)
  BY <1>2 DEF Target, Mapped
<1>5. PICK mm \in [Keys -> Methods] : Agree(mm)
  BY DEF IndInv, MethodsAgree
<1>6. queue[Current(t)].method = "DELETE"
  BY <1>3, <1>5 DEF Agree, Snapshot
<1> QED
  BY <1>2, <1>3, <1>4, <1>6 DEF Follows, Mutation

(* An edit made online, around the queue. *)
LEMMA OnlineEditKeeps ==
    ASSUME IndInv, TokenInv, OneTab, NEW t \in Tabs,
           CreateOnline(t) \/ \E id \in view[t] : UpdateOnline(t, id) \/ DeleteOnline(t, id)
    PROVE  TokenInv'
<1>1. /\ TypeOK /\ (\A u \in Tabs : u = t) /\ LocalRows /\ RowsStamped /\ DOMAIN view = Tabs
      /\ view[t] \subseteq Int /\ DOMAIN cache \subseteq Int
      /\ nextKey \notin DOMAIN queue /\ nextKey \notin DOMAIN keys
      /\ draft # None => draft.key # nextKey
  BY DEF IndInv, OneTab, TokenInv, TypeOK, DeviceTypeOK, KeysIssued, IsTable
<1>2. ASSUME NEW method \in Methods, NEW id \in Int, NEW kind, LocalRows',
             EditOnline(t, kind, Direct(t, method, id))
      PROVE  TokenInv'
  <2>1. PICK q : /\ q = Direct(t, method, id) /\ Execute(q)
                 /\ q.key = nextKey /\ q.key \in Keys /\ q.method = method /\ q.row = id
                 /\ keys' = Put(keys, nextKey, Success(q)) /\ online[t]
                 /\ nextKey' = nextKey + 1
                 /\ UNCHANGED <<wire, open, reply, spent, online, queue, draft, flush, closed>>
    BY <1>1, <1>2, OnlineExecuted
  <2>2. /\ GoneStays /\ clock' # NoToken /\ \A x \in DOMAIN rows' : Stamped(rows[x])'
        /\ Stamped(Success(q).entity)
    BY <1>1, <1>2, <2>1, ExecuteGone DEF GoneStays
  <2>3. PICK k : k = nextKey
    OBVIOUS
  <2>4. /\ DOMAIN keys' = DOMAIN keys \cup {k} /\ keys'[k] = Success(q)
        /\ \A x \in DOMAIN keys : keys'[x] = keys[x]
    BY <1>1, <2>1, <2>3 DEF Put
  <2>5. RowsStamped'
    <3>1. \A x \in DOMAIN keys' : Stamped(keys'[x].entity)
      BY <1>1, <2>2, <2>4 DEF RowsStamped
    <3>2. \A x \in DOMAIN rows' : Stamped(rows'[x])
      BY <2>2
    <3> QED
      BY <1>1, <2>1, <2>2, <3>1, <3>2 DEF RowsStamped
  <2>6. QueueMild
    BY <2>1, SameQueue
  <2>7. DeletedGone'
    <3>1. ASSUME NEW x \in DOMAIN keys' \cap DOMAIN queue' PROVE IsDeleted(queue[x])'
      <4>1. x \in DOMAIN keys /\ x \in DOMAIN queue
        BY <1>1, <2>1, <2>3, <2>4, <3>1
      <4>2. IsDeleted(queue[x])
        BY <4>1 DEF TokenInv, DeletedGone
      <4> QED
        BY <1>1, <2>2, <2>6, <3>1, <4>2, KeysGoneStay
    <3>2. ASSUME NEW u \in Tabs, reply[u] # None, reply[u].status = "ok", Snapshot(u).method = "DELETE"
          PROVE  Gone(Target(u))'
      <4>1. PICK x \in Int : x = Target(u)
        BY <3>2, DeleteTarget
      <4>2. Gone(x)
        BY <3>2, <4>1 DEF TokenInv, DeletedGone
      <4>3. Gone(x)'
        BY <2>2, <4>2 DEF GoneStays
      <4>4. Target(u)' = x
        BY <2>1, <4>1 DEF Target, Snapshot, Current, Todo
      <4> QED
        BY <4>3, <4>4 DEF Gone
    <3>3. \A u \in Tabs : Snapshot(u)' = Snapshot(u)
      BY <2>1 DEF Snapshot, Current, Todo
    <3> QED
      BY <2>1, <3>1, <3>2, <3>3 DEF DeletedGone
  <2> QED
    BY <1>1, <1>2, <2>1, <2>2, <2>3, <2>4, <2>5, <2>7, ServedStep
<1>3. CASE CreateOnline(t)
  <2>1. PICK q : /\ q = Direct(t, "POST", 0) /\ Execute(q)
                 /\ q.key = nextKey /\ q.key \in Keys /\ q.method = "POST" /\ q.row = 0
    BY <1>1, <1>3, OnlineExecuted DEF CreateOnline, Methods
  <2>2. GoneStays /\ Stamped(rows'[nextId])
    BY <1>1, <2>1, ExecuteGone DEF GoneStays, Methods
  <2>3. PICK new, entity : new = nextId /\ entity = rows'[nextId]
    OBVIOUS
  <2>4. cache' = Put(cache, new, entity) /\ view' = [view EXCEPT ![t] = @ \cup {new}]
    BY <1>3, <2>3 DEF CreateOnline
  <2>5. /\ DOMAIN cache' = DOMAIN cache \cup {new} /\ cache'[new] = entity
        /\ \A x \in DOMAIN cache : x # new => cache'[x] = cache[x]
    BY <2>4 DEF Put
  <2>6. LocalRows'
    BY <1>1, <2>2, <2>3, <2>4, <2>5 DEF LocalRows, GoneStays
  <2> QED
    BY <1>2, <1>3, <2>6 DEF CreateOnline, Methods
<1>4. ASSUME NEW id \in view[t], UpdateOnline(t, id) PROVE TokenInv'
  <2>0. id \in Int
    BY <1>1
  <2>1. PICK q : /\ q = Direct(t, "PUT", id) /\ Execute(q)
                 /\ q.key = nextKey /\ q.key \in Keys /\ q.method = "PUT" /\ q.row = id
    BY <1>1, <1>4, <2>0, OnlineExecuted DEF UpdateOnline, Methods
  <2>2. GoneStays /\ Stamped(rows'[id])
    BY <1>1, <2>0, <2>1, ExecuteGone DEF GoneStays, Methods
  <2>3. PICK entity : entity = rows'[id]
    OBVIOUS
  <2>4. cache' = Put(cache, id, entity) /\ view' = view
    BY <1>4, <2>3 DEF UpdateOnline
  <2>5. /\ DOMAIN cache' = DOMAIN cache \cup {id} /\ cache'[id] = entity
        /\ \A x \in DOMAIN cache : x # id => cache'[x] = cache[x]
    BY <2>4 DEF Put
  <2>6. LocalRows'
    BY <1>1, <2>2, <2>3, <2>4, <2>5 DEF LocalRows, GoneStays
  <2> QED
    BY <1>2, <1>4, <2>0, <2>6 DEF UpdateOnline, Methods
<1>5. ASSUME NEW id \in view[t], DeleteOnline(t, id) PROVE TokenInv'
  <2>0. id \in Int
    BY <1>1
  <2>1. PICK q : /\ q = Direct(t, "DELETE", id) /\ Execute(q)
                 /\ q.key = nextKey /\ q.key \in Keys /\ q.method = "DELETE" /\ q.row = id
    BY <1>1, <1>5, <2>0, OnlineExecuted DEF DeleteOnline, Methods
  <2>2. GoneStays
    BY <1>1, <2>0, <2>1, ExecuteGone DEF GoneStays, Methods
  <2>3. cache' = Without(cache, {id}) /\ view' = [view EXCEPT ![t] = @ \ {id}]
    BY <1>5 DEF DeleteOnline
  <2>4. /\ DOMAIN cache' = DOMAIN cache \ {id} /\ \A x \in DOMAIN cache' : cache'[x] = cache[x]
        /\ view'[t] = view[t] \ {id}
    BY <1>1, <2>3 DEF Without, Restrict
  <2>5. LocalRows'
    BY <1>1, <2>2, <2>4 DEF LocalRows, GoneStays
  <2> QED
    BY <1>2, <1>5, <2>0, <2>5 DEF DeleteOnline, Methods
<1> QED
  BY <1>3, <1>4, <1>5

(* What serving one request does to the rows, the keys and the answers.    *)
LEMMA ServeDoes ==
    ASSUME IndInv, TokenInv, NEW q \in wire, Serve(q)
    PROVE  /\ GoneStays
           /\ UNCHANGED <<queue, flush>> => RowsStamped'
           /\ \A k \in DOMAIN keys' \ DOMAIN keys :
                 k = q.key /\ (q.method = "DELETE" => Gone(q.row)')
           /\ wire' \subseteq wire
           /\ \A t \in Tabs : open[t] = None => reply'[t] = reply[t]
<1>1. /\ TypeOK /\ RowsStamped
      /\ q.key \in Keys /\ q.method \in Methods /\ q.row \in Int /\ q \in Request /\ q # None
      /\ Stamped(None) /\ Bare("lost").entity = None /\ Bare("denied").entity = None
      /\ Bare("missing").entity = None
  BY DEF IndInv, TokenInv, TypeOK, ServerTypeOK, Request, Stamped, Bare
<1>2. wire' \subseteq wire
  BY DEF Serve, Deny
<1>3. ASSUME NEW r, Answer(q, r)
      PROVE  /\ \A t \in Tabs : reply'[t] = reply[t] \/ reply'[t] = r
             /\ \A t \in Tabs : open[t] = None => reply'[t] = reply[t]
  BY <1>1, <1>3 DEF Answer
<1>4. ASSUME NEW r, Answer(q, r), Stamped(r.entity), UNCHANGED <<queue, flush>>, clock' # NoToken,
             \A x \in DOMAIN rows' : Stamped(rows'[x]),
             \A x \in DOMAIN keys' : Stamped(keys'[x].entity)
      PROVE  RowsStamped'
  BY <1>1, <1>3, <1>4 DEF RowsStamped
<1>5. CASE Deny(q) \/ Replay(q) \/ Refuse(q)
  <2>1. /\ UNCHANGED <<rows, nextId, clock, keys>> /\ GoneStays
    BY <1>5 DEF Deny, Replay, Refuse, GoneStays, Gone
  <2>2. PICK r : Answer(q, r) /\ Stamped(r.entity)
    <3>1. CASE Deny(q)
      <4>1. Answer(q, Bare("denied"))
        BY <3>1 DEF Deny
      <4> QED
        BY <1>1, <4>1
    <3>2. CASE Replay(q)
      <4>1. Answer(q, keys[q.key]) /\ q.key \in DOMAIN keys
        BY <3>2 DEF Replay
      <4> QED
        BY <1>1, <4>1 DEF RowsStamped
    <3>3. CASE Refuse(q)
      <4>1. Answer(q, Refusal(q))
        BY <3>3 DEF Refuse
      <4>2. Stamped(Refusal(q).entity)
        BY <1>1 DEF Refusal, RowsStamped
      <4> QED
        BY <4>1, <4>2
    <3> QED
      BY <1>5, <3>1, <3>2, <3>3
  <2>3. UNCHANGED <<queue, flush>> => RowsStamped'
    BY <1>1, <1>4, <2>1, <2>2 DEF RowsStamped
  <2> QED
    BY <1>2, <1>3, <2>1, <2>2, <2>3
<1>6. CASE ExecuteAndStore(q) \/ ExecuteAndCrash(q)
  <2>1. Execute(q)
    BY <1>6 DEF ExecuteAndStore, ExecuteAndCrash
  <2>2. /\ GoneStays /\ clock' # NoToken /\ \A x \in DOMAIN rows' : Stamped(rows[x])'
        /\ Stamped(Success(q).entity) /\ (q.method = "DELETE" => Gone(q.row)')
    BY <1>1, <2>1, ExecuteGone DEF GoneStays
  <2>3. \A x \in DOMAIN rows' : Stamped(rows'[x])
    BY <2>2
  <2>4. CASE ExecuteAndStore(q)
    <3>1. PICK r : r = Success(q)
      OBVIOUS
    <3>2. keys' = Put(keys, q.key, r) /\ Answer(q, r) /\ Stamped(r.entity)
      BY <2>2, <2>4, <3>1 DEF ExecuteAndStore
    <3>3. /\ DOMAIN keys' = DOMAIN keys \cup {q.key} /\ keys'[q.key] = r
          /\ \A x \in DOMAIN keys : x # q.key => keys'[x] = keys[x]
      BY <3>2 DEF Put
    <3>4. \A x \in DOMAIN keys' : Stamped(keys'[x].entity)
      BY <1>1, <3>2, <3>3 DEF RowsStamped
    <3> QED
      BY <1>2, <1>3, <1>4, <2>2, <2>3, <3>2, <3>3, <3>4
  <2>5. CASE ExecuteAndCrash(q)
    <3>1. keys' = keys /\ Answer(q, Bare("lost")) /\ Stamped(Bare("lost").entity)
      BY <1>1, <2>5 DEF ExecuteAndCrash
    <3>2. \A x \in DOMAIN keys' : Stamped(keys'[x].entity)
      BY <1>1, <3>1 DEF RowsStamped
    <3> QED
      BY <1>2, <1>3, <1>4, <2>2, <2>3, <3>1, <3>2
  <2> QED
    BY <1>6, <2>4, <2>5
<1> QED
  BY <1>5, <1>6 DEF Serve

(* What else the server does. *)
LEMMA OthersDo ==
    ASSUME IndInv, TokenInv, UNCHANGED deviceVars,
           (\E t \in Tabs : GiveUp(t)) \/ CollabUpdate \/ CollabDelete \/ PurgeKey
    PROVE  /\ GoneStays /\ RowsStamped'
           /\ DOMAIN keys' \subseteq DOMAIN keys
           /\ wire' \subseteq wire
           /\ \A t \in Tabs : open[t] = None => reply'[t] = reply[t]
<1>1. /\ TypeOK /\ RowsStamped /\ UNCHANGED <<queue, flush>> /\ nextId \in Nat
      /\ clock \in Nat /\ DOMAIN reply = Tabs
      /\ Stamped(None) /\ Bare("lost").entity = None
  BY DEF IndInv, TokenInv, TypeOK, ServerTypeOK, Stamped, Bare, deviceVars
<1>2. CASE \E t \in Tabs : GiveUp(t)
  BY <1>1, <1>2 DEF GiveUp, RowsStamped, GoneStays, Gone
<1>3. CASE CollabUpdate
  <2>1. PICK id \in DOMAIN rows : Stamp(id, Collab)
    BY <1>3 DEF CollabUpdate
  <2>2. PICK entity : entity = [by |-> Collab, at |-> clock']
    OBVIOUS
  <2>3. clock' # NoToken /\ rows' = Put(rows, id, entity)
    BY <1>1, <2>1, <2>2 DEF Stamp, RowsStamped, NoToken
  <2>4. DOMAIN rows' = DOMAIN rows /\ \A x \in DOMAIN rows' : rows'[x] = IF x = id THEN entity ELSE rows[x]
    BY <2>1, <2>3 DEF Put
  <2>5. /\ UNCHANGED <<nextId, keys, wire, open, reply>>
    BY <1>3 DEF CollabUpdate
  <2> QED
    BY <1>1, <2>2, <2>3, <2>4, <2>5 DEF RowsStamped, GoneStays, Gone, Stamped
<1>4. CASE CollabDelete
  <2>1. PICK id \in DOMAIN rows : rows' = Without(rows, {id})
    BY <1>4 DEF CollabDelete
  <2>2. \A x \in DOMAIN rows' : x \in DOMAIN rows /\ rows'[x] = rows[x]
    BY <2>1 DEF Without, Restrict
  <2>3. UNCHANGED <<nextId, clock, keys, wire, open, reply>>
    BY <1>4 DEF CollabDelete
  <2> QED
    BY <1>1, <2>2, <2>3 DEF RowsStamped, GoneStays, Gone
<1>5. CASE PurgeKey
  <2>1. PICK k \in DOMAIN keys : keys' = Without(keys, {k})
    BY <1>5 DEF PurgeKey
  <2>2. \A x \in DOMAIN keys' : x \in DOMAIN keys /\ keys'[x] = keys[x]
    BY <2>1 DEF Without, Restrict
  <2>3. UNCHANGED <<rows, nextId, clock, wire, open, reply>>
    BY <1>5 DEF PurgeKey
  <2> QED
    BY <1>1, <2>2, <2>3 DEF RowsStamped, GoneStays, Gone
<1> QED
  BY <1>2, <1>3, <1>4, <1>5

(* A step of the server. *)
LEMMA ServerStepKeeps ==
    ASSUME IndInv, TokenInv, ServerStep
    PROVE  TokenInv'
<1>1. /\ TypeOK /\ UNCHANGED <<queue, flush, draft, cache, view>> /\ draft = None
  BY DEF ServerStep, deviceVars, IndInv
<1>2. /\ GoneStays /\ RowsStamped' /\ wire' \subseteq wire
      /\ \A t \in Tabs : open[t] = None => reply'[t] = reply[t]
      /\ \A k \in DOMAIN keys' \ DOMAIN keys :
            \E q \in wire : k = q.key /\ (q.method = "DELETE" => Gone(q.row)')
  <2>1. CASE \E q \in wire : Serve(q)
    <3>1. PICK q \in wire : Serve(q)
      BY <2>1
    <3> QED
      BY <1>1, <3>1, ServeDoes
  <2>2. CASE (\E t \in Tabs : GiveUp(t)) \/ CollabUpdate \/ CollabDelete \/ PurgeKey
    <3>1. UNCHANGED deviceVars
      BY DEF ServerStep
    <3> QED
      BY <2>2, <3>1, OthersDo
  <2> QED
    BY <2>1, <2>2 DEF ServerStep
<1>3. LocalRows'
  <2>1. DOMAIN cache \subseteq Int /\ \A t \in Tabs : view[t] \subseteq Int
    BY <1>1 DEF TypeOK, DeviceTypeOK, IsTable
  <2> QED
    BY <1>1, <1>2, <2>1 DEF TokenInv, LocalRows, GoneStays
<1>4. QueueMild
  BY <1>1, SameQueue
<1>5. PICK mm \in [Keys -> Methods] : Agree(mm)
  BY DEF IndInv, MethodsAgree
<1>6. ASSUME NEW k \in DOMAIN keys' \cap DOMAIN queue' PROVE IsDeleted(queue[k])'
  <2>1. CASE k \in DOMAIN keys
    <3>1. IsDeleted(queue[k])
      BY <1>1, <1>6, <2>1 DEF TokenInv, DeletedGone
    <3> QED
      BY <1>1, <1>2, <1>4, <1>6, <3>1, KeysGoneStay
  <2>2. CASE k \notin DOMAIN keys
    <3>1. PICK q \in wire : k = q.key /\ (q.method = "DELETE" => Gone(q.row)')
      BY <1>2, <1>6, <2>2
    <3>2. PICK m : m = queue[k]
      OBVIOUS
    <3>3. m.method = "DELETE" => q.method = "DELETE"
      BY <1>1, <1>5, <1>6, <3>1, <3>2 DEF Agree
    <3>4. m.method = "DELETE" => q.row >= 0 /\ m.target = q.row
      BY <1>1, <1>6, <3>1, <3>2, <3>3 DEF TokenInv, WireTargets
    <3>5. IsDeleted(m)'
      BY <3>1, <3>3, <3>4 DEF IsDeleted
    <3>6. queue'[k] = m
      BY <1>1, <3>2
    <3> QED
      BY <3>5, <3>6
  <2> QED
    BY <2>1, <2>2
<1>7. ASSUME NEW t \in Tabs, reply'[t] # None, reply'[t].status = "ok", Snapshot(t)'.method = "DELETE"
      PROVE  Gone(Target(t))'
  <2>1. Snapshot(t)' = Snapshot(t) /\ Target(t)' = Target(t)
    BY <1>1 DEF Snapshot, Target, Current, Todo
  <2>2. reply[t] # None \/ open[t] # None
    BY <1>2, <1>7
  <2>3. PICK x \in Int : x = Target(t)
    BY <1>7, <2>1, <2>2, DeleteTarget
  <2>4. /\ Current(t) \in DOMAIN queue /\ queue[Current(t)].target = x
        /\ queue[Current(t)].method = "DELETE"
    BY <1>7, <2>1, <2>2, <2>3, DeleteTarget
  <2>5. Gone(x)'
    <3>1. CASE reply'[t] = reply[t]
      <4>1. Gone(x)
        BY <1>7, <2>1, <2>3, <3>1 DEF TokenInv, DeletedGone
      <4> QED
        BY <1>2, <4>1 DEF GoneStays
    <3>2. CASE reply'[t] # reply[t]
      <4>1. PICK q \in wire : q.key = Current(t) /\ (Replay(q) \/ ExecuteAndStore(q))
        BY <1>7, <3>2, ServerReplies
      <4>2. q.key \in DOMAIN keys'
        BY <4>1 DEF Replay, ExecuteAndStore, Put
      <4>3. PICK k : k = Current(t)
        OBVIOUS
      <4>4. IsDeleted(queue[k])'
        BY <1>1, <1>6, <2>4, <4>1, <4>2, <4>3
      <4>5. PICK m : m = queue[k]
        OBVIOUS
      <4>6. IsDeleted(m)'
        BY <1>1, <4>4, <4>5
      <4> QED
        BY <2>4, <4>3, <4>5, <4>6 DEF IsDeleted
    <3> QED
      BY <3>1, <3>2
  <2> QED
    BY <2>1, <2>3, <2>5 DEF Gone
<1>8. DeletedGone'
  BY <1>6, <1>7 DEF DeletedGone
<1>9. \A t \in Tabs : flush[t].step = "store" => reply'[t] = reply[t]
  BY <1>2 DEF IndInv, Exchanges, ExchangeOf
<1> QED
  BY <1>1, <1>2, <1>3, <1>8, <1>9, ServedStep

-----------------------------------------------------------------------------
(* The invariant, and what it is for. *)

(* Every step of a device with one tab that is not reloaded. *)
LEMMA NextTokenInv ==
    ASSUME IndInv, TokenInv, OneTab, Limit["reload"] = 0, [Next]_vars
    PROVE  TokenInv'
<1>1. CASE Enqueue \/ ServerStep
  BY <1>1, EnqueueKeeps, ServerStepKeeps
<1>2. ASSUME NEW t \in Tabs, EditStep(t) PROVE TokenInv'
  BY <1>2, OfflineEditKeeps, OnlineEditKeeps DEF EditStep
<1>3. ASSUME NEW t \in Tabs, FlushStep(t) \/ ConflictStep(t) \/ TabStep(t) PROVE TokenInv'
  BY <1>3, FlushStepKeeps, ConflictKeeps, TabStepKeeps
<1>4. CASE UNCHANGED vars
  <2>1. UNCHANGED <<rows, nextId, clock, keys, wire, reply, cache, queue, draft, view, flush>>
    BY <1>4 DEF vars, serverVars, deviceVars
  <2>2. LocalRows'
    BY <2>1 DEF TokenInv, LocalRows, Gone
  <2>3. TodoQueued'
    BY <2>1 DEF TodoQueued, Todo, TokenInv, SnapshotFollows, Follows
  <2> QED
    BY <2>1, <2>2, <2>3, SameQueue, AsideStep
<1> QED
  BY <1>1, <1>2, <1>3, <1>4 DEF Next

(* The device starts with the server's rows and nothing to do. *)
LEMMA InitTokenInv == Init => TokenInv
<1> SUFFICES ASSUME Init PROVE TokenInv
  OBVIOUS
<1>1. /\ rows = [id \in InitRows |-> [by |-> 0, at |-> 1]] /\ cache = rows
      /\ clock = 1 /\ keys = Empty /\ wire = {} /\ queue = Empty /\ draft = None
      /\ \A t \in Tabs : /\ reply[t] = None /\ view[t] = InitRows
                         /\ Todo(t) = Empty /\ flush[t].tokens = Empty /\ flush[t].idMap = Empty
  BY DEF Init, ServerInit, Quiet, Loop, Todo
<1> QED
  BY <1>1, EmptyTable DEF TokenInv, RowsStamped, Stamped, NoToken, LocalRows, QueueTokens,
     DraftFresh, SnapshotFollows, WireTargets, DeletedGone

(* A write that replaces a collaborator's row has its second as token, or  *)
(* was forced: a row that is there is not gone.                            *)
LEMMA NotSilent ==
    ASSUME IndInv, TokenInv, [Next]_vars, NEW q \in wire \ wire',
           q.row \in DOMAIN rows, q.row \in DOMAIN rows',
           IsCollab(rows[q.row].by), rows'[q.row].by = q.key
    PROVE  q.base \in {Forced, rows[q.row].at}
<1>1. TypeOK /\ q \in Request /\ q.key \in Keys /\ q.key <= MaxEdits
  BY DEF IndInv, TypeOK, ServerTypeOK, Request, Keys
<1>2. rows' # rows
  BY <1>1 DEF IsCollab, Keys
<1>3. Execute(q)
  <2>1. ~(\E t \in Tabs : FlushStep(t) \/ ConflictStep(t) \/ TabStep(t) \/ EditStep(t)) /\ ~Enqueue
        /\ ~UNCHANGED vars
    <3>1. ASSUME NEW t \in Tabs, FlushStep(t) PROVE wire \subseteq wire'
      BY <3>1 DEF FlushStep, Replays, Send, FailUnresolved, EndFlush, Remap, StoreEntity, Undisplay,
         Dequeue, ConflictTheirs, ConflictMine, ConflictAsk, Reject, Abort, Received, ServerStays, serverVars
    <3>2. ASSUME NEW t \in Tabs, ConflictStep(t) \/ TabStep(t) PROVE wire \subseteq wire'
      BY <3>2 DEF ConflictStep, KeepMine, KeepServer, TabStep, StartFlush, GoOnline, GoOffline, ShowTrip,
         Evict, Reload, serverVars
    <3>3. ASSUME NEW t \in Tabs, EditStep(t) PROVE wire \subseteq wire'
      BY <3>3 DEF EditStep, CreateOffline, UpdateOffline, DeleteOffline, Drafted, CreateOnline,
         UpdateOnline, DeleteOnline, EditOnline, serverVars
    <3> QED
      BY <3>1, <3>2, <3>3 DEF Enqueue, vars, serverVars
  <2>2. ServerStep
    BY <2>1 DEF Next
  <2>3. PICK p \in wire : Serve(p)
    BY <2>2 DEF ServerStep, GiveUp, CollabUpdate, CollabDelete, PurgeKey
  <2>4. p = q /\ Execute(p)
    BY <1>2, <2>3 DEF Serve, Deny, Replay, Refuse, ExecuteAndStore, ExecuteAndCrash
  <2> QED
    BY <2>4
<1>4. Updates(q)
  <2>1. ~Deletes(q)
    BY DEF Deletes, Without, Restrict
  <2>2. ~Creates(q)
    <3>1. ASSUME Creates(q) PROVE rows'[q.row] = rows[q.row]
      BY <1>1, <3>1 DEF Creates, Stamp, Put, TypeOK, ServerTypeOK, IsTable
    <3> QED
      BY <1>1, <3>1 DEF IsCollab, Keys
  <2> QED
    BY <1>3, <2>1, <2>2 DEF Execute
<1>5. q.base # NoToken
  BY <1>4 DEF Updates, TokenInv, WireTargets, WithoutToken, Gone
<1> QED
  BY <1>4, <1>5 DEF Updates, Stale

(* The invariant of a device with one tab that is never reloaded.          *)
THEOREM TokensKnown ==
    ASSUME OneTab, Limit["reload"] = 0
    PROVE  Spec => []TokenInv
<1>1. IndInv /\ TokenInv /\ [Next]_vars => TokenInv'
  BY NextTokenInv
<1> QED
  BY <1>1, InitTokenInv, Inductive, PTL DEF Spec

(* #1135, of a device with one tab that is never reloaded, whatever else   *)
(* happens: a replayed edit overwrites a collaborator's content only with  *)
(* the second of that very content, or because the user said so.           *)
THEOREM NeverOverwritesSilently ==
    ASSUME OneTab, Limit["reload"] = 0
    PROVE  Spec => NoSilentOverwrite
<1>1. IndInv /\ TokenInv /\ [Next]_vars =>
        [\A q \in wire \ wire' :
          (/\ q.row \in DOMAIN rows /\ q.row \in DOMAIN rows'
           /\ IsCollab(rows[q.row].by) /\ rows'[q.row].by = q.key)
          => q.base \in {Forced, rows[q.row].at}]_vars
  BY NotSilent
<1> QED
  BY <1>1, TokensKnown, Inductive, PTL DEF Spec, NoSilentOverwrite
=============================================================================
