---------------------------- MODULE OfflineSync -----------------------------
(***************************************************************************)
(* The device's half of an offline replay: the repos that write an edit to *)
(* the Dexie cache and queue it, the mutation queue with its flush loop in *)
(* every browser tab, the resolution of conflicts, and the faults between  *)
(* two awaits: a reload, a broken exchange, the network mode changing.     *)
(*                                                                         *)
(* Cache and queue are IndexedDB tables: all tabs share them and a reload  *)
(* keeps them.  A flush is a loop of one tab and dies with the page.  One  *)
(* action is what the code does between two awaits at which another actor  *)
(* can make a difference.                                                  *)
(***************************************************************************)
EXTENDS TripServer, FiniteSetsExt

CONSTANTS
    Strategies,     \* the conflict rules the user may have set when a 409 arrives
    OfflineEdits,   \* what the user does offline: "create", "update", "delete"
    OnlineEdits     \* what the user does online

ASSUME StrategiesAssumption == Strategies \subseteq {"ask", "mine", "server"}

(* A queued mutation.  Its key is its place in the FIFO order (createdAt)  *)
(* and its idempotency key.  target is entityId, or tempId of a POST: the  *)
(* temp id of a create with key k is -k.  A PUT or DELETE with a negative  *)
(* target still has the {id} placeholder in its URL.                       *)
Mutation == [method : Methods, target : Int, base : Tokens, try : Nat,
             status : {"pending", "syncing", "failed", "conflict"},
             server : Entity \cup {None}]

(* An edit between its two writes: made in a tab, not in the queue yet. *)
Draft == [tab : Tabs, key : Keys, mutation : Mutation]
ASSUME DraftAssumption == None \notin Draft

VARIABLES
    online,    \* per tab: neither forced offline nor off the network
    cache,     \* the Dexie table of the trip's rows: id -> Entity
    queue,     \* the Dexie table of mutations: key -> Mutation
    nextKey,   \* key of the next edit
    draft,     \* an edit whose row is cached but which is not queued yet
    view,      \* per tab: the row ids the store shows
    flush,     \* per tab: the state of its flush loop
    closed     \* history: how an edit ended other than by the server

deviceVars == <<online, cache, queue, nextKey, draft, view, flush, closed>>
vars == <<serverVars, deviceVars>>

Loop(step, todo) == [step |-> step, todo |-> todo, idMap |-> Empty,
                     tokens |-> Empty, retry |-> FALSE]
Quiet == Loop("idle", Empty)

(* update() of a record of the queue. *)
Revised(m, base, try, status, server) ==
    [method |-> m.method, target |-> m.target, base |-> base, try |-> try,
     status |-> status, server |-> server]
Change(m, status, try) == Revised(m, m.base, try, status, m.server)

-----------------------------------------------------------------------------
(* The repos' offline path: the optimistic write of the cache, then, after *)
(* an await, enqueue().                                                    *)

CanDraft(t, kind) ==
    /\ kind \in OfflineEdits
    /\ ~online[t]
    /\ draft = None
    /\ nextKey \in Keys

Drafted(t, method, target, base) ==
    /\ draft' = [tab |-> t, key |-> nextKey,
                 mutation |-> [method |-> method, target |-> target, base |-> base,
                               try |-> 0, status |-> "pending", server |-> None]]
    /\ nextKey' = nextKey + 1
    /\ UNCHANGED <<serverVars, online, queue, flush, closed>>

CreateOffline(t) ==
    /\ CanDraft(t, "create")
    /\ cache' = Put(cache, -nextKey, [by |-> nextKey, at |-> NoToken])
    /\ view' = [view EXCEPT ![t] = @ \cup {-nextKey}]
    /\ Drafted(t, "POST", -nextKey, NoToken)

(* existing?.updated_at ?? null: an edit of a row that is not cached, or   *)
(* that exists only in the cache, has no token.                            *)
UpdateOffline(t, id) ==
    LET token == IF id \in DOMAIN cache THEN cache[id].at ELSE NoToken
    IN  /\ CanDraft(t, "update")
        /\ cache' = Put(cache, id, [by |-> nextKey, at |-> token])
        /\ UNCHANGED view
        /\ Drafted(t, "PUT", id, token)

DeleteOffline(t, id) ==
    /\ CanDraft(t, "delete")
    /\ cache' = Without(cache, {id})
    /\ view' = [view EXCEPT ![t] = @ \ {id}]
    /\ Drafted(t, "DELETE", id, NoToken)

Enqueue ==
    /\ draft # None
    /\ queue' = Put(queue, draft.key, draft.mutation)
    /\ draft' = None
    /\ UNCHANGED <<serverVars, online, cache, nextKey, view, flush, closed>>

-----------------------------------------------------------------------------
(* The repos' online path: the API call with a key of its own and no       *)
(* token, then the cache.  It goes around the queue.                       *)

EditOnline(t, kind, q) ==
    /\ kind \in OnlineEdits
    /\ online[t]
    /\ nextKey \in Keys
    /\ nextKey' = nextKey + 1
    /\ Execute(q)
    /\ keys' = Put(keys, nextKey, Success(q))
    /\ UNCHANGED <<wire, open, reply, spent, online, queue, draft, flush, closed>>

Direct(t, method, id) ==
    [tab |-> t, key |-> nextKey, try |-> 0, method |-> method, row |-> id, base |-> NoToken]

CreateOnline(t) ==
    /\ EditOnline(t, "create", Direct(t, "POST", 0))
    /\ cache' = Put(cache, nextId, rows'[nextId])
    /\ view' = [view EXCEPT ![t] = @ \cup {nextId}]

UpdateOnline(t, id) ==
    /\ EditOnline(t, "update", Direct(t, "PUT", id))
    /\ cache' = Put(cache, id, rows'[id])
    /\ UNCHANGED view

DeleteOnline(t, id) ==
    /\ EditOnline(t, "delete", Direct(t, "DELETE", id))
    /\ cache' = Without(cache, {id})
    /\ view' = [view EXCEPT ![t] = @ \ {id}]

-----------------------------------------------------------------------------
(* flush(): single-flight per tab, over a snapshot of the pending          *)
(* mutations in FIFO order.                                                *)

(* Mutants: what was tried once is left alone; what has failed is retried. *)
PendingUntried(q) == {k \in DOMAIN q : q[k].status = "pending" /\ q[k].try = 0}
PendingOrFailed(q) == {k \in DOMAIN q : q[k].status \in {"pending", "failed"}}

Pending(q) == {k \in DOMAIN q : q[k].status = "pending"}

Begin(t, q) ==
    flush' = [flush EXCEPT ![t] = Loop("next", Restrict(q, Pending(q)))]

(* A trigger fires: the network is back, the tab is visible, every 30 s,   *)
(* the socket has reconnected.                                             *)
StartFlush(t) ==
    /\ online[t] /\ flush[t].step = "idle"
    /\ Begin(t, queue)
    /\ UNCHANGED <<serverVars, online, cache, queue, nextKey, draft, view, closed>>

Todo(t) == flush[t].todo
CurrentLast(t) == Max(DOMAIN Todo(t))  \* mutant: last in, first out
Current(t) == Min(DOMAIN Todo(t))      \* the mutation being replayed: its key
Snapshot(t) == Todo(t)[Current(t)]     \* and its record as the snapshot has it

(* Mutant: only the snapshot's id is used. *)
TargetOfSnapshot(t) == Snapshot(t).target

(* The id in the URL once an earlier create of this flush is known. *)
Target(t) ==
    LET id == Snapshot(t).target
    IN  IF id \in DOMAIN flush[t].idMap THEN flush[t].idMap[id] ELSE id

Unresolved(t) == Snapshot(t).method # "POST" /\ Target(t) < 0

(* Mutant: only the snapshot's token is used. *)
BaseTokenOfSnapshot(t) == Snapshot(t).base

(* A token learned earlier in this flush overrides the snapshot's. *)
BaseToken(t) ==
    IF Snapshot(t).method # "POST" /\ Target(t) \in DOMAIN flush[t].tokens
    THEN flush[t].tokens[Target(t)]
    ELSE Snapshot(t).base

CurrentRequest(t) ==
    [tab |-> t, key |-> Current(t), try |-> Snapshot(t).try,
     method |-> Snapshot(t).method,
     row |-> IF Snapshot(t).method = "POST" THEN 0 ELSE Target(t),
     base |-> BaseToken(t)]

HasNext(t) == flush[t].step = "next" /\ DOMAIN Todo(t) # {}

(* The loop goes on with the next mutation of the snapshot. *)
Advance(t) ==
    flush' = [flush EXCEPT ![t].step = "next", ![t].todo = Without(@, {Current(t)})]

(* Mark the mutation as syncing and send it. *)
Replays(t) ==
    /\ HasNext(t) /\ ~Unresolved(t)
    /\ Send(t, CurrentRequest(t))
    /\ queue' = Amend(queue, Current(t),
                      Change(queue[Current(t)], "syncing", queue[Current(t)].try))
    /\ flush' = [flush EXCEPT ![t].step = "wait"]
    /\ UNCHANGED <<online, cache, nextKey, draft, view, closed>>

(* The placeholder is still there: failed, not sent. *)
FailUnresolved(t) ==
    /\ HasNext(t) /\ Unresolved(t)
    /\ queue' = Amend(queue, Current(t),
                      Change(queue[Current(t)], "failed", Snapshot(t).try + 1))
    /\ Advance(t)
    /\ UNCHANGED <<serverVars, online, cache, nextKey, draft, view, closed>>

(* The loop is over: _flushing is reset, and a "mine" resolution in this   *)
(* flush starts another one at once.                                       *)
EndFlush(t) ==
    /\ flush[t].step = "next" /\ DOMAIN Todo(t) = {}
    /\ IF flush[t].retry /\ online[t]
       THEN Begin(t, queue)
       ELSE flush' = [flush EXCEPT ![t] = Quiet]
    /\ UNCHANGED <<serverVars, online, cache, queue, nextKey, draft, view, closed>>

-----------------------------------------------------------------------------
(* The answers to a replay. *)

Answered(t, status) ==
    flush[t].step = "wait" /\ reply[t] # None /\ reply[t].status = status

ServerStays == UNCHANGED <<rows, nextId, clock, keys, wire, applied, spent>>

(* A create got its id: the temporary row goes, and every mutation that    *)
(* still has the placeholder is rewritten, here and in the table.          *)
Remap(t) ==
    LET temp == Snapshot(t).target
        id == reply[t].id
    IN  /\ Answered(t, "ok") /\ Snapshot(t).method = "POST"
        /\ cache' = Without(cache, {temp})
        /\ queue' = [k \in DOMAIN queue |->
                        IF queue[k].method # "POST" /\ queue[k].target = temp
                        THEN [queue[k] EXCEPT !.target = id] ELSE queue[k]]
        /\ flush' = [flush EXCEPT ![t].step = "store", ![t].idMap = Put(@, temp, id)]
        /\ Received(t)
        /\ UNCHANGED <<online, nextKey, draft, view, closed>>

(* Mutant: only this loop learns the token, the table does not. *)
StoreEntityInLoop(t) ==
    LET id == reply[t].id
    IN  /\ \/ Answered(t, "ok") /\ Snapshot(t).method = "PUT"
           \/ flush[t].step = "store"
        /\ cache' = Put(cache, id, reply[t].entity)
        /\ flush' = [flush EXCEPT ![t].step = "remove",
                                 ![t].tokens = Put(@, id, reply[t].entity.at)]
        /\ Received(t)
        /\ UNCHANGED <<online, queue, nextKey, draft, view, closed>>

(* The canonical row goes into the cache, and its token to every other     *)
(* mutation of the same row, here and in the table.                        *)
StoreEntity(t) ==
    LET id == reply[t].id
        token == reply[t].entity.at
    IN  /\ \/ Answered(t, "ok") /\ Snapshot(t).method = "PUT"
           \/ flush[t].step = "store"
        /\ cache' = Put(cache, id, reply[t].entity)
        /\ queue' = [k \in DOMAIN queue |->
                        IF /\ k # Current(t)
                           /\ queue[k].target = id
                           /\ queue[k].status \in {"pending", "syncing"}
                        THEN [queue[k] EXCEPT !.base = token] ELSE queue[k]]
        /\ flush' = [flush EXCEPT ![t].step = "remove", ![t].tokens = Put(@, id, token)]
        /\ Received(t)
        /\ UNCHANGED <<online, nextKey, draft, view, closed>>

(* Mutant: the optimistic removal is taken for good. *)
UndisplayNothing(t) ==
    /\ Answered(t, "ok") /\ Snapshot(t).method = "DELETE"
    /\ flush' = [flush EXCEPT ![t].step = "remove"]
    /\ Received(t)
    /\ UNCHANGED <<online, cache, queue, nextKey, draft, view, closed>>

(* A delete was applied optimistically; the row may be back by now. *)
Undisplay(t) ==
    /\ Answered(t, "ok") /\ Snapshot(t).method = "DELETE"
    /\ cache' = Without(cache, {Target(t)})
    /\ flush' = [flush EXCEPT ![t].step = "remove"]
    /\ Received(t)
    /\ UNCHANGED <<online, queue, nextKey, draft, view, closed>>

(* The mutation is done. *)
Dequeue(t) ==
    /\ flush[t].step = "remove"
    /\ queue' = Without(queue, {Current(t)})
    /\ Advance(t)
    /\ HangUp(t) /\ ServerStays
    /\ UNCHANGED <<online, cache, nextKey, draft, view, closed>>

(* applyServerEntity: a 409 body without an entity changes nothing. *)
AdoptServer(id, entity) ==
    cache' = IF entity = None THEN cache ELSE Put(cache, id, entity)

(* 409, theirs: adopt the server's row, drop the edit. *)
ConflictTheirs(t) ==
    /\ Answered(t, "conflict") /\ "server" \in Strategies
    /\ AdoptServer(reply[t].id, reply[t].entity)
    /\ queue' = Without(queue, {Current(t)})
    /\ closed' = [closed EXCEPT ![Current(t)] = "theirs"]
    /\ Advance(t)
    /\ HangUp(t) /\ ServerStays
    /\ UNCHANGED <<online, nextKey, draft, view>>

(* 409, mine: back into the queue without a token, and one more pass. *)
ConflictMine(t) ==
    LET k == Current(t)
    IN  /\ Answered(t, "conflict") /\ "mine" \in Strategies
        /\ queue' = Amend(queue, k, Revised(queue[k], Forced, Snapshot(t).try + 1,
                                            "pending", None))
        /\ flush' = [flush EXCEPT ![t].step = "next", ![t].todo = Without(@, {k}), ![t].retry = TRUE]
        /\ HangUp(t) /\ ServerStays
        /\ UNCHANGED <<online, cache, nextKey, draft, view, closed>>

(* 409, ask: park the edit with the server's row. *)
ConflictAsk(t) ==
    LET k == Current(t)
    IN  /\ Answered(t, "conflict") /\ "ask" \in Strategies
        /\ queue' = Amend(queue, k, Revised(queue[k], queue[k].base, Snapshot(t).try + 1,
                                            "conflict", reply[t].entity))
        /\ Advance(t)
        /\ HangUp(t) /\ ServerStays
        /\ UNCHANGED <<online, cache, nextKey, draft, view, closed>>

(* Mutant: the phantom row of a create stays. *)
RejectKeepingRow(t) ==
    LET k == Current(t)
    IN  /\ Answered(t, "missing") \/ Answered(t, "denied")
        /\ queue' = Amend(queue, k, Change(queue[k], "failed", Snapshot(t).try + 1))
        /\ Advance(t)
        /\ HangUp(t) /\ ServerStays
        /\ UNCHANGED <<online, cache, nextKey, draft, view, closed>>

(* Any other 4xx is final: the phantom row of a create is rolled back. *)
Reject(t) ==
    LET k == Current(t)
    IN  /\ Answered(t, "missing") \/ Answered(t, "denied")
        /\ cache' = IF Snapshot(t).method = "POST"
                    THEN Without(cache, {Snapshot(t).target}) ELSE cache
        /\ queue' = Amend(queue, k, Change(queue[k], "failed", Snapshot(t).try + 1))
        /\ Advance(t)
        /\ HangUp(t) /\ ServerStays
        /\ UNCHANGED <<online, nextKey, draft, view, closed>>

(* Mutant: a missing answer ends the mutation like a good one. *)
AbortDropping(t) ==
    /\ Answered(t, "lost")
    /\ queue' = Without(queue, {Current(t)})
    /\ Advance(t)
    /\ HangUp(t) /\ ServerStays
    /\ UNCHANGED <<online, cache, nextKey, draft, view, closed>>

(* No answer, or a transient one: back to pending, and the loop breaks. *)
Abort(t) ==
    LET k == Current(t)
    IN  /\ Answered(t, "lost")
        /\ queue' = Amend(queue, k, Change(queue[k], "pending", Snapshot(t).try + 1))
        /\ flush' = [flush EXCEPT ![t].step = "next", ![t].todo = Empty]
        /\ HangUp(t) /\ ServerStays
        /\ UNCHANGED <<online, cache, nextKey, draft, view, closed>>

FlushStep(t) ==
    \/ Replays(t) \/ FailUnresolved(t) \/ EndFlush(t)
    \/ Remap(t) \/ StoreEntity(t) \/ Undisplay(t) \/ Dequeue(t)
    \/ ConflictTheirs(t) \/ ConflictMine(t) \/ ConflictAsk(t)
    \/ Reject(t) \/ Abort(t)

-----------------------------------------------------------------------------
(* The user settles a parked conflict. *)

KeepMine(t, k) ==
    /\ k \in DOMAIN queue /\ queue[k].status = "conflict"
    /\ queue' = Amend(queue, k, Revised(queue[k], Forced, queue[k].try, "pending", None))
    /\ IF online[t] /\ flush[t].step = "idle" THEN Begin(t, queue') ELSE UNCHANGED flush
    /\ UNCHANGED <<serverVars, online, cache, nextKey, draft, view, closed>>

KeepServer(k) ==
    /\ k \in DOMAIN queue /\ queue[k].status = "conflict"
    /\ AdoptServer(queue[k].target, queue[k].server)
    /\ queue' = Without(queue, {k})
    /\ closed' = [closed EXCEPT ![k] = "theirs"]
    /\ UNCHANGED <<serverVars, online, nextKey, draft, view, flush>>

-----------------------------------------------------------------------------
(* What happens to a tab. *)

GoOnline(t) ==
    /\ ~online[t]
    /\ draft = None
    /\ online' = [online EXCEPT ![t] = TRUE]
    /\ UNCHANGED <<serverVars, cache, queue, nextKey, draft, view, flush, closed>>

(* Forcing offline, or losing the network, does not stop a running flush. *)
GoOffline(t) ==
    /\ online[t]
    /\ Spend("offline")
    /\ online' = [online EXCEPT ![t] = FALSE]
    /\ UNCHANGED <<rows, nextId, clock, keys, wire, open, reply, applied,
                   cache, queue, nextKey, draft, view, flush, closed>>

(* The trip page loads its rows: from the server, which also upserts the   *)
(* cache (rows deleted on the server stay in it), or from the cache.       *)
ShowTrip(t) ==
    /\ \/ /\ online[t]
          /\ cache' = PutAll(cache, rows)
          /\ view' = [view EXCEPT ![t] = DOMAIN rows]
       \/ /\ view' = [view EXCEPT ![t] = DOMAIN cache]
          /\ UNCHANGED cache
    /\ UNCHANGED <<serverVars, online, queue, nextKey, draft, flush, closed>>

(* clearTripData, from the storage settings: the trip's rows go, and the   *)
(* failed mutations with them.                                             *)
Evict(t) ==
    LET failed == {k \in DOMAIN queue : queue[k].status = "failed"}
    IN  /\ Spend("evict")
        /\ cache' = Empty
        /\ queue' = Without(queue, failed)
        /\ closed' = [k \in Keys |-> IF k \in failed THEN "purged" ELSE closed[k]]
        /\ view' = [view EXCEPT ![t] = {}]
        /\ UNCHANGED <<rows, nextId, clock, keys, wire, open, reply, applied,
                       online, nextKey, draft, flush>>

(* The page is reloaded, or the tab killed and reopened, at any await. *)
Reload(t) ==
    LET lost == draft # None /\ draft.tab = t
    IN  /\ Spend("reload")
        /\ flush' = [flush EXCEPT ![t] = Quiet]
        /\ HangUp(t)
        /\ view' = [view EXCEPT ![t] = {}]
        /\ IF lost
           THEN draft' = None /\ closed' = [closed EXCEPT ![draft.key] = "unsaved"]
           ELSE UNCHANGED <<draft, closed>>
        /\ UNCHANGED <<rows, nextId, clock, keys, wire, applied,
                       online, cache, queue, nextKey>>

-----------------------------------------------------------------------------
Init ==
    /\ ServerInit
    /\ online = [t \in Tabs |-> FALSE]
    /\ cache = rows
    /\ queue = Empty
    /\ nextKey = 1
    /\ draft = None
    /\ view = [t \in Tabs |-> InitRows]
    /\ flush = [t \in Tabs |-> Quiet]
    /\ closed = [k \in Keys |-> "open"]

EditStep(t) ==
    \/ CreateOffline(t) \/ CreateOnline(t)
    \/ \E id \in view[t] :
          \/ UpdateOffline(t, id) \/ DeleteOffline(t, id)
          \/ UpdateOnline(t, id) \/ DeleteOnline(t, id)

ConflictStep(t) == \E k \in DOMAIN queue : KeepMine(t, k) \/ KeepServer(k)

TabStep(t) ==
    \/ StartFlush(t) \/ GoOnline(t) \/ GoOffline(t)
    \/ ShowTrip(t) \/ Evict(t) \/ Reload(t)

(* Between the two writes of an edit lies one IndexedDB transaction: other *)
(* local steps fit in between, a reload too, a network exchange does not.  *)
ServerStep ==
    /\ draft = None
    /\ \/ \E q \in wire : Serve(q)
       \/ \E t \in Tabs : GiveUp(t)
       \/ CollabUpdate \/ CollabDelete \/ PurgeKey
    /\ UNCHANGED deviceVars

Next ==
    \/ Enqueue
    \/ ServerStep
    \/ \E t \in Tabs : EditStep(t) \/ FlushStep(t) \/ ConflictStep(t) \/ TabStep(t)

Spec == Init /\ [][Next]_vars

-----------------------------------------------------------------------------
(* Types. *)

FlushType(f) ==
    /\ f = [step |-> f.step, todo |-> f.todo, idMap |-> f.idMap,
            tokens |-> f.tokens, retry |-> f.retry]
    /\ f.step \in {"idle", "next", "wait", "store", "remove"}
    /\ IsTable(f.todo, Keys, Mutation)
    /\ IsTable(f.idMap, Int, Nat \ {0})
    /\ IsTable(f.tokens, Nat \ {0}, Nat)
    /\ f.retry \in BOOLEAN

ServerTypeOK ==
    /\ IsTable(rows, 1..(nextId - 1), Entity)
    /\ nextId \in Nat \ {0}
    /\ clock \in Nat
    /\ IsTable(keys, Keys, Response)
    /\ wire \subseteq Request
    /\ open \in [Tabs -> Request \cup {None}]
    /\ reply \in [Tabs -> Response \cup {None}]
    /\ applied \in [Keys -> Nat]
    /\ spent \in [Faults -> Nat]

DeviceTypeOK ==
    /\ online \in [Tabs -> BOOLEAN]
    /\ IsTable(cache, Int, Entity)
    /\ IsTable(queue, Keys, Mutation)
    /\ nextKey \in 1..(MaxEdits + 1)
    /\ draft \in Draft \cup {None}
    /\ view \in [Tabs -> SUBSET Int]
    /\ DOMAIN flush = Tabs /\ \A t \in Tabs : FlushType(flush[t])
    /\ closed \in [Keys -> {"open", "theirs", "purged", "unsaved"}]

(* Every variable has its type: the tables hold well-formed rows and       *)
(* mutations, whatever the tabs, the server and the faults do to them.     *)
TypeOK == ServerTypeOK /\ DeviceTypeOK

-----------------------------------------------------------------------------
(* Properties. *)

Drafting(k) == draft # None /\ draft.key = k

(* An edit the user made is still queued, was executed by the server, or   *)
(* ended in a way the user was told of ("theirs", a purged failure) or cut *)
(* short himself (the page closed before it was queued): the queue never   *)
(* lets go of an edit on any other path through the flush loop.            *)
NoEditLost ==
    \A k \in 1..(nextKey - 1) :
        k \in DOMAIN queue \/ Drafting(k) \/ applied[k] > 0 \/ closed[k] # "open"

(* The idempotency keys: however often an edit is sent, by however many    *)
(* tabs, late or twice, the server executes it once; each key lost to a    *)
(* crash or to the nightly purge may cost one more execution.              *)
AtMostOnce == \A k \in Keys : applied[k] <= 1 + spent["keyLoss"]

(* #1135: a replayed edit overwrites a collaborator's content only with    *)
(* the second of the very content it replaces as its token, or because the *)
(* user (or his rule) decided "mine".                                      *)
NoSilentOverwrite ==
    [][\A q \in wire \ wire' :
          (/\ q.row \in DOMAIN rows /\ q.row \in DOMAIN rows'
           /\ IsCollab(rows[q.row].by) /\ rows'[q.row].by = q.key)
          => q.base \in {Forced, rows[q.row].at}]_vars

(* #1135: as long as no collaborator has touched the trip, no replay is    *)
(* told of a conflict: the device is never in conflict with its own        *)
(* earlier edits.                                                          *)
NoSelfConflict ==
    [][\A t \in Tabs :
          (spent["collab"] = 0 /\ reply'[t] # reply[t] /\ reply'[t] # None)
          => reply'[t].status # "conflict"]_vars

(* The queue is replayed in FIFO order: as long as no collaborator is      *)
(* involved (a conflict decided as "mine" may come late), no earlier edit  *)
(* of the device replaces what a later one has put into the same row.      *)
LaterEditStays ==
    [][\A id \in DOMAIN rows \cap DOMAIN rows' :
          (spent["collab"] = 0 /\ IsOwn(rows[id].by) /\ IsOwn(rows'[id].by))
          => rows'[id].by >= rows[id].by]_vars

(* The edit with key k is failed without having been sent.                 *)
FailsUnsent(k) ==
    queue[k].method # "POST" /\ queue[k].status = "pending" /\ queue'[k].status = "failed"

(* An edit is failed as "unresolved temp id (dependent create did not      *)
(* sync)" only if it still refers to a create that never reached the       *)
(* server.                                                                 *)
UnresolvedOnlyWithoutCreate ==
    [][\A k \in DOMAIN queue \cap DOMAIN queue' :
          FailsUnsent(k) => queue[k].target < 0 /\ applied[-queue[k].target] = 0]_vars

(* "FIFO order guarantees the CREATE ran first": when an edit is failed as *)
(* unresolved, its create has failed or is missing, and is not still in    *)
(* the queue on its way to the server.                                     *)
UnresolvedMeansCreateGone ==
    [][\A k \in DOMAIN queue \cap DOMAIN queue' :
          (FailsUnsent(k) /\ queue[k].target < 0) =>
              LET create == -queue[k].target
              IN  create \in DOMAIN queue => queue[create].status = "failed"]_vars

(* A temporary row is in the cache only while its create is on the way to  *)
(* the queue or in it and not failed: a phantom never passes for synced.   *)
NoPhantomRow ==
    \A id \in DOMAIN cache : id < 0 =>
        \/ Drafting(-id)
        \/ -id \in DOMAIN queue /\ queue[-id].status # "failed"

(* With no collaborator around and nothing left to replay, the cache is    *)
(* the server's table: every optimistic row was either confirmed by the    *)
(* server's version or rolled back, under its final id.                    *)
CacheConverges ==
    (/\ spent["collab"] = 0
     /\ queue = Empty /\ draft = None /\ \A t \in Tabs : flush[t].step = "idle")
        => cache = rows

(* The promise of EditLedger, kept by this module: the fate of an edit     *)
(* read off the queue, the draft and what the server executed.             *)
Fate(k) ==
    CASE applied[k] > 0 -> "applied"
      [] applied[k] = 0 /\ k \in DOMAIN queue ->
            (CASE queue[k].status = "failed" -> "failed"
               [] queue[k].status = "conflict" -> "parked"
               [] OTHER -> "queued")
      [] applied[k] = 0 /\ k \notin DOMAIN queue ->
            IF Drafting(k) THEN "drafted"
            ELSE IF closed[k] = "open" THEN "none" ELSE closed[k]

Ledger == INSTANCE EditLedger WITH Edits <- Keys, fate <- [k \in Keys |-> Fate(k)]
KeepsLedger == Ledger!LedgerSpec

-----------------------------------------------------------------------------
(* The inductive invariant behind TypeOK, AtMostOnce and NoEditLost. *)

(* Keys are handed out in order: no trace of an edit before it is made. *)
KeysIssued ==
    LET Issued == 1..(nextKey - 1)
    IN  /\ DOMAIN queue \subseteq Issued
        /\ draft # None => draft.key \in Issued
        /\ \A t \in Tabs : DOMAIN Todo(t) \subseteq Issued
        /\ \A q \in wire : q.key \in Issued
        /\ DOMAIN keys \subseteq Issued
        /\ \A k \in Keys \ Issued : applied[k] = 0

(* Every 2xx body but that of a DELETE carries the row it wrote. *)
CarriesRow(r) == r.id \in Nat \ {0} /\ r.entity \in Entity

(* Wherever an edit is on record, it has one and the same method. *)
Agree(m) ==
    /\ \A k \in DOMAIN queue : queue[k].method = m[k]
    /\ draft # None => draft.mutation.method = m[draft.key]
    /\ \A t \in Tabs : \A k \in DOMAIN Todo(t) : Todo(t)[k].method = m[k]
    /\ \A q \in wire : q.method = m[q.key]
    /\ \A k \in DOMAIN keys : m[k] # "DELETE" => CarriesRow(keys[k])
    /\ \A t \in Tabs :
          (reply[t] # None /\ reply[t].status = "ok" /\ m[Current(t)] # "DELETE")
             => CarriesRow(reply[t])
MethodsAgree == \E m \in [Keys -> Methods] : Agree(m)

(* A tab waits for the answer to the head of its snapshot, and holds that  *)
(* answer until it is done with the mutation.                              *)
ExchangeOf(t) ==
    /\ open[t] # None => flush[t].step = "wait" /\ open[t].key = Current(t)
    /\ reply[t] # None => flush[t].step \in {"wait", "store", "remove"}
    /\ flush[t].step \in {"store", "remove"} =>
          open[t] = None /\ reply[t] # None /\ reply[t].status = "ok"
    /\ flush[t].step \in {"wait", "store", "remove"} => DOMAIN Todo(t) # {}
    /\ flush[t].step = "store" => Snapshot(t).method = "POST"
Exchanges == \A t \in Tabs : ExchangeOf(t)

(* A key is stored only for an edit that was executed, and a tab is told   *)
(* "ok" only of such an edit.                                              *)
OkMeansExecuted ==
    /\ \A k \in DOMAIN keys : keys[k].status = "ok" /\ applied[k] > 0
    /\ \A t \in Tabs : (reply[t] # None /\ reply[t].status = "ok") => applied[Current(t)] > 0

(* An edit without its key stored was executed at most as often as keys    *)
(* were lost.                                                              *)
OncePerKey ==
    \A k \in Keys : applied[k] <= spent["keyLoss"] + (IF k \in DOMAIN keys THEN 1 ELSE 0)

IndInv ==
    /\ TypeOK /\ KeysIssued /\ MethodsAgree /\ Exchanges
    /\ OkMeansExecuted /\ OncePerKey /\ NoEditLost

-----------------------------------------------------------------------------
(* The inductive invariant behind NoSilentOverwrite, of one tab that is    *)
(* never reloaded: an edit without a token is of a row that is gone.       *)

(* The row was deleted, or is a temporary one: it is not on the server and *)
(* will not be.                                                            *)
Gone(id) == id < nextId /\ id \notin DOMAIN rows

(* Whatever the server has sent has a token. *)
Stamped(entity) == entity # None => entity.at # NoToken
RowsStamped ==
    /\ clock # NoToken
    /\ \A id \in DOMAIN rows : Stamped(rows[id])
    /\ \A k \in DOMAIN keys : Stamped(keys[k].entity)
    /\ \A t \in Tabs : reply[t] # None => Stamped(reply[t].entity)
    /\ \A k \in DOMAIN queue : Stamped(queue[k].server)
    /\ \A t \in Tabs : \A id \in DOMAIN flush[t].tokens : flush[t].tokens[id] # NoToken

(* The rows the page shows and those it caches have one too, or are gone.  *)
LocalRows ==
    /\ \A id \in DOMAIN cache : Stamped(cache[id]) \/ Gone(id)
    /\ \A t \in Tabs : \A id \in view[t] : id \in DOMAIN cache \/ Gone(id)

(* Between Remap and StoreEntity the edits of a new row wait for its token. *)
AboutToStore(t, id) == flush[t].step = "store" /\ id = reply[t].id
WithoutToken(m) == m.method = "PUT" /\ m.base = NoToken

(* A create's target is its temporary id.  An edit without a token that    *)
(* may still be sent is of a row that is gone, or is about to get one.     *)
HasToken(k, m) ==
    /\ m.method = "POST" => m.target = -k
    /\ WithoutToken(m) /\ m.status \in {"pending", "syncing"} =>
          Gone(m.target) \/ \E t \in Tabs : AboutToStore(t, m.target)
QueueTokens == \A k \in DOMAIN queue : HasToken(k, queue[k])

(* A draft has left no trace yet. *)
DraftFresh ==
    draft # None =>
        LET m == draft.mutation
        IN  /\ draft.key \notin DOMAIN queue \cup DOMAIN keys
            /\ \A t \in Tabs : draft.key \notin DOMAIN Todo(t)
            /\ \A q \in wire : q.key # draft.key
            /\ m.method = "POST" => m.target = -draft.key
            /\ WithoutToken(m) => Gone(m.target)
            /\ m.server = None

(* What the loop has still to do is in the queue, with the target the loop *)
(* will use; its edits without a token are as those of the queue, unless   *)
(* the loop has learned their token.                                       *)
Mapped(t, id) == IF id \in DOMAIN flush[t].idMap THEN flush[t].idMap[id] ELSE id
Follows(t, k, m) ==
    LET id == Mapped(t, m.target)
    IN  /\ k \in DOMAIN queue /\ queue[k].status \in {"pending", "syncing"}
        /\ m.method = "POST" => m.target = -k
        /\ m.method # "POST" => queue[k].target = id
        /\ WithoutToken(m) =>
              Gone(id) \/ id \in DOMAIN flush[t].tokens \/ AboutToStore(t, id)
SnapshotFollows(t) ==
    /\ \A k \in DOMAIN Todo(t) : Follows(t, k, Todo(t)[k])
    /\ \A id \in DOMAIN flush[t].idMap :
          /\ id < 0
          /\ -id \in DOMAIN Todo(t) => flush[t].step \in {"store", "remove"} /\ -id = Current(t)

(* A request on the wire is for the row of its edit. *)
WireTargets ==
    \A q \in wire :
        /\ WithoutToken(q) => Gone(q.row)
        /\ q.method # "POST" =>
              q.row >= 0 /\ (q.key \in DOMAIN queue => queue[q.key].target = q.row)

(* A delete that was executed has deleted the row of its edit. *)
IsDeleted(m) == m.method = "DELETE" => m.target >= 0 /\ Gone(m.target)
DeletedGone ==
    /\ \A k \in DOMAIN keys \cap DOMAIN queue : IsDeleted(queue[k])
    /\ \A t \in Tabs :
          (reply[t] # None /\ reply[t].status = "ok" /\ Snapshot(t).method = "DELETE")
              => Gone(Target(t))

TokenInv ==
    /\ RowsStamped /\ LocalRows /\ QueueTokens /\ DraftFresh
    /\ \A t \in Tabs : SnapshotFollows(t)
    /\ WireTargets /\ DeletedGone

-----------------------------------------------------------------------------
(* Fairness: a tab's event loop runs its timers and continues its awaits,  *)
(* the server serves a request that is being awaited.                      *)
ServeAwaited ==
    /\ \E q \in wire : open[q.tab] = q /\ Serve(q)
    /\ UNCHANGED deviceVars

Fairness ==
    /\ WF_vars(Enqueue)
    /\ WF_vars(ServeAwaited)
    /\ \A t \in Tabs : WF_vars(StartFlush(t)) /\ WF_vars(FlushStep(t))

FairSpec == Spec /\ Fairness

(* Once the device is back online for good, every queued edit is executed, *)
(* failed visibly, or parked for the user: nothing stays pending.          *)
Settled == \A k \in DOMAIN queue : queue[k].status \in {"failed", "conflict"}
QueueDrains == (\A t \in Tabs : <>[]online[t]) => <>[](Settled /\ draft = None)
=============================================================================
