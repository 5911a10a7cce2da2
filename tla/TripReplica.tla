---------------------------- MODULE TripReplica ----------------------------
(***************************************************************************)
(* One day's list of assigned places on a page that stays on its trip: the *)
(* page's own optimistic edits and their answers, the events it gets from  *)
(* the trip's room, and the refetches after a reconnect, over the          *)
(* connection of Realtime.                                                 *)
(*                                                                         *)
(* The list is a bag (its order is left out): the number of copies of each *)
(* row shown.  Row i is the i-th row the server inserts; row -c is the     *)
(* temporary one of the page's request c.  Other members edit through the  *)
(* server only.  HTTP answers and socket messages are not ordered with     *)
(* respect to each other.                                                  *)
(***************************************************************************)
EXTENDS Realtime, FiniteSets

CONSTANTS
    MaxRows,   \* rows inserted on the server (bound)
    MaxReqs,   \* edits the page makes (bound)
    MaxEdits,  \* edits other members make (bound)
    Places

Rows == 1 .. MaxRows
Reqs == 1 .. MaxReqs
Temps == {0 - c : c \in Reqs}
Keys == Rows \cup Temps

ASSUME ReplicaAssumption == MaxRows \in Nat \ {0} /\ MaxReqs \in Nat /\ MaxEdits \in Nat

VARIABLES
    sid,       \* mySocketId: the last welcome read
    welcome,   \* the sockets whose welcome is unread
    chan,      \* per socket: events sent, not read
    live,      \* day_assignments of the day
    born,      \* rows inserted so far
    edits,     \* edits of other members so far
    placeOf,   \* per key: its place
    shown,     \* assignments[day] on the page: copies of each row
    cached,    \* the day's row in Dexie, the fallback of a failed refetch
    kind,      \* per request: create, createAt, arrange, remove, reorder
    phase,     \* none, sent, done or failed (answer under way), over;
               \* lost: the page gave up before the server did it
    target,    \* the row it removes or has made
    ids,       \* the rows of its orderedIds
    before,    \* prevAssignments
    from,      \* its x-socket-id
    fetch,     \* the refetch after each socket's onopen: none, asked,
               \* answered, over
    snap,      \* the rows of its response
    (* history: what the page's list has been exposed to *)
    doubt,     \* "yes" after one of the races Converges excludes
    spoiled,   \* the refetches whose response is out of step with the list
    overlapped,\* the requests during which something else changed the list
    swallowed  \* "yes" once an event replaced another row's temporary row

connection == realtimeVars
store == <<live, born, edits, placeOf>>
request == <<kind, phase, target, ids, before, from>>
refetch == <<fetch, snap>>
exposure == <<doubt, spoiled, overlapped, swallowed>>
replicaVars == <<connection, sid, welcome, chan, store, shown, cached, request, refetch, exposure>>

None == [k \in Keys |-> 0]
ListOf(rows) == [k \in Keys |-> IF k \in rows THEN 1 ELSE 0]

(* The page has opened the trip on its first socket and loaded one row. *)
JoinedInit ==
    /\ should = "yes" /\ fetching = "no" /\ timer = "off"
    /\ socket = 1 /\ state = [s \in Sockets |-> IF s = 1 THEN "open" ELSE "none"]
    /\ muted = {} /\ opened = 1 /\ active = "yes" /\ hooks = {}
    /\ wire = [s \in Sockets |-> << >>] /\ up = {1} /\ room = {1}
    /\ late = {} /\ crossed = "no"

ListInit ==
    /\ sid = 1 /\ welcome = {} /\ chan = [s \in Sockets |-> << >>]
    /\ live = {1} /\ born = 1 /\ edits = 0
    /\ \E p \in Places : placeOf = [k \in Keys |-> IF k = 1 THEN p ELSE Nil]
    /\ shown = ListOf({1}) /\ cached = ListOf({1})
    /\ kind = [c \in Reqs |-> "none"] /\ phase = [c \in Reqs |-> "none"]
    /\ target = [c \in Reqs |-> Nil] /\ ids = [c \in Reqs |-> {}]
    /\ before = [c \in Reqs |-> None] /\ from = [c \in Reqs |-> Nil]
    /\ fetch = [s \in Sockets |-> "none"] /\ snap = [s \in Sockets |-> {}]
    /\ doubt = "no" /\ spoiled = {} /\ overlapped = {} /\ swallowed = "no"

ReplicaInit == JoinedInit /\ ListInit

Unanswered == {c \in Reqs : phase[c] \in {"sent", "done", "failed"}}
Answers == {s \in Sockets : fetch[s] = "answered"}
Visible == {k \in Keys : shown[k] > 0}

(* History: the list, and any response under way, may now be wrong. *)
Doubt(wrong) ==
    /\ doubt' = IF wrong THEN "yes" ELSE doubt
    /\ spoiled' = IF wrong THEN spoiled \cup Answers ELSE spoiled

(* History: the list changes, by request c or (Nil) by something else,     *)
(* while other answers are under way.                                       *)
Changes(c, wrong) ==
    /\ doubt' = IF wrong THEN "yes" ELSE doubt
    /\ spoiled' = spoiled \cup Answers
    /\ overlapped' = (overlapped \cup Unanswered) \ {c}

-----------------------------------------------------------------------------
(* The connection. *)

Reaches == IsOpen /\ socket \in up /\ socket \in room

Reconnecting ==
    /\ TimerFires \/ TokenArrives \/ TokenFails
       \/ \E s \in Sockets : ServerReads(s) \/ ServerCloses(s)
    /\ UNCHANGED <<sid, welcome, chan, store, shown, cached, request, refetch, exposure>>

ReplicaOpens(s) ==
    /\ Opens(s)
    /\ welcome' = welcome \cup {s}
    /\ UNCHANGED <<sid, chan, store, shown, cached, request, refetch, exposure>>

(* What a closing socket has not delivered is lost. *)
ReplicaCloses(s) ==
    /\ CloseFrame(s) \/ Closes(s)
    /\ chan' = [chan EXCEPT ![s] = << >>] /\ welcome' = welcome \ {s}
    /\ Doubt(chan[s] # << >>)
    /\ UNCHANGED <<sid, store, shown, cached, request, refetch, overlapped, swallowed>>

ReadWelcome(s) ==
    /\ s \in welcome /\ state[s] = "open"
    /\ sid' = s /\ welcome' = welcome \ {s}
    /\ UNCHANGED <<connection, chan, store, shown, cached, request, refetch, exposure>>

(* doRefetch: hydrateActiveTrip, refreshDays. *)
Refetch(s) ==
    /\ HookDone(s)
    /\ fetch' = [fetch EXCEPT ![s] = "asked"]
    /\ UNCHANGED <<sid, welcome, chan, store, shown, cached, request, snap, exposure>>

(* History: a response overtakes the events of a socket the server has      *)
(* dropped; what the page has missed since is not among them.               *)
Overtakes == socket # Nil /\ ~Reaches /\ chan[socket] # << >>

FetchAnswered(s) ==
    /\ fetch[s] = "asked"
    /\ fetch' = [fetch EXCEPT ![s] = "answered"] /\ snap' = [snap EXCEPT ![s] = live]
    /\ spoiled' = IF Unanswered # {} \/ Overtakes THEN spoiled \cup {s} ELSE spoiled \ {s}
    /\ UNCHANGED <<connection, sid, welcome, chan, store, shown, cached, request,
                   doubt, overlapped, swallowed>>

FetchOver(s) ==
    fetch' = [fetch EXCEPT ![s] = "over"] /\ snap' = [snap EXCEPT ![s] = {}]

(* The response replaces the list and the cached day. *)
FetchApplies(s) ==
    /\ fetch[s] = "answered"
    /\ FetchOver(s)
    /\ shown' = ListOf(snap[s]) /\ cached' = ListOf(snap[s])
    /\ doubt' = IF s \in spoiled THEN "yes" ELSE "no"
    /\ overlapped' = overlapped \cup Unanswered
    /\ UNCHANGED <<connection, sid, welcome, chan, store, request, spoiled, swallowed>>

(* A network error falls back to the cache; an HTTP error changes nothing. *)
FetchFails(s) ==
    /\ fetch[s] \in {"asked", "answered"}
    /\ FetchOver(s)
    /\ \/ shown' = cached /\ Changes(Nil, TRUE)
       \/ UNCHANGED <<shown, doubt, spoiled, overlapped>>
    /\ UNCHANGED <<connection, sid, welcome, chan, store, cached, request, swallowed>>

-----------------------------------------------------------------------------
(* Events. *)

Broadcast(event, x) ==
    chan' = [s \in Sockets |-> IF s \in room /\ s \in up /\ s # x
                               THEN Append(chan[s], event) ELSE chan[s]]

(* Mutant: the echo of an own create is appended. *)
EventCreatedAppends(i) ==
    shown' = [shown EXCEPT ![i] = @ + 1] /\ UNCHANGED swallowed /\ Changes(Nil, FALSE)

(* assignment:created: a known row is left; else it takes the place of a   *)
(* temporary row of the same place, or is appended.                        *)
EventCreated(i) ==
    LET temps == {k \in Temps : shown[k] > 0 /\ placeOf[k] = placeOf[i]}
        removed == \E c \in Reqs : kind[c] = "remove" /\ target[c] = i
    IN  IF shown[i] > 0
        THEN UNCHANGED <<shown, swallowed>> /\ Changes(Nil, FALSE)
        ELSE IF temps = {}
        THEN shown' = [shown EXCEPT ![i] = 1] /\ UNCHANGED swallowed /\ Changes(Nil, removed)
        ELSE \E k \in temps :
               /\ shown' = [shown EXCEPT ![i] = 1, ![k] = @ - 1]
               /\ swallowed' = IF target[0 - k] # i THEN "yes" ELSE swallowed
               /\ Changes(Nil, removed \/ target[0 - k] # i)

EventDeleted(i) ==
    /\ shown' = [shown EXCEPT ![i] = 0]
    /\ Changes(Nil, \E c \in Unanswered : kind[c] \in {"create", "createAt"} /\ target[c] = i)
    /\ UNCHANGED swallowed

(* assignment:reordered: rows the sender did not name are dropped. *)
Only(rows) == [k \in Keys |-> IF k \in rows /\ shown[k] > 0 THEN 1 ELSE 0]

EventReordered(rows) ==
    /\ shown' = Only(rows)
    /\ Changes(Nil, ~(Visible \subseteq rows))
    /\ UNCHANGED swallowed

(* The next event of a socket; the day is then written through to Dexie. *)
ReadEvent(s) ==
    /\ state[s] = "open" /\ s \notin welcome /\ chan[s] # << >>
    /\ chan' = [chan EXCEPT ![s] = Tail(@)]
    /\ LET event == Head(chan[s])
       IN  \/ event.type = "created" /\ EventCreated(event.row)
           \/ event.type = "deleted" /\ EventDeleted(event.row)
           \/ event.type = "reordered" /\ EventReordered(event.rows)
    /\ cached' = shown'
    /\ UNCHANGED <<connection, sid, welcome, store, request, refetch>>

-----------------------------------------------------------------------------
(* The page's edits. *)

NextReq(c) == phase[c] = "none" /\ \A d \in Reqs : d < c => phase[d] # "none"

Asks(c, what, row, rows) ==
    /\ NextReq(c)
    /\ kind' = [kind EXCEPT ![c] = what] /\ phase' = [phase EXCEPT ![c] = "sent"]
    /\ target' = [target EXCEPT ![c] = row] /\ ids' = [ids EXCEPT ![c] = rows]
    /\ before' = [before EXCEPT ![c] = shown] /\ from' = [from EXCEPT ![c] = sid]
    /\ Changes(c, FALSE)
    /\ UNCHANGED <<connection, sid, welcome, chan, live, born, edits, cached, refetch, swallowed>>

(* assignPlaceToDay, at a position or at the end of the day. *)
Assign(c, p, what) ==
    /\ Asks(c, what, Nil, {})
    /\ shown' = [shown EXCEPT ![0 - c] = 1]
    /\ placeOf' = [placeOf EXCEPT ![0 - c] = p]

RemoveAssignment(c, i) ==
    /\ shown[i] > 0
    /\ Asks(c, "remove", i, {})
    /\ shown' = [shown EXCEPT ![i] = 0]
    /\ UNCHANGED placeOf

Reorder(c) ==
    /\ Asks(c, "reorder", Nil, Visible \cap Rows)
    /\ UNCHANGED <<shown, placeOf>>

Ends(c) ==
    /\ phase' = [phase EXCEPT ![c] = "over"]
    /\ before' = [before EXCEPT ![c] = None] /\ ids' = [ids EXCEPT ![c] = {}]
    /\ from' = [from EXCEPT ![c] = Nil]

(* The server's write, its broadcast to the others, its answer.  The page   *)
(* that has given up is told nothing.                                       *)
Inserts(p, x) ==
    /\ born < MaxRows
    /\ born' = born + 1 /\ live' = live \cup {born + 1}
    /\ placeOf' = [placeOf EXCEPT ![born + 1] = p]
    /\ Broadcast([type |-> "created", row |-> born + 1, rows |-> {}], x)

DeletesRow(i, x) ==
    /\ i \in live
    /\ live' = live \ {i}
    /\ Broadcast([type |-> "deleted", row |-> i, rows |-> {}], x)
    /\ UNCHANGED <<born, placeOf>>

Reorders(rows, x) ==
    /\ Broadcast([type |-> "reordered", row |-> Nil, rows |-> rows], x)
    /\ UNCHANGED <<live, born, placeOf>>

ServerDoes(c) ==
    /\ phase[c] \in {"sent", "lost"}
    /\ \/ /\ kind[c] \in {"create", "createAt"}
          /\ Inserts(placeOf[0 - c], from[c])
          /\ target' = [target EXCEPT ![c] = born + 1]
       \/ kind[c] = "remove" /\ DeletesRow(target[c], from[c]) /\ UNCHANGED target
       \/ kind[c] \in {"reorder", "arrange"} /\ Reorders(ids[c], from[c]) /\ UNCHANGED target
    /\ phase' = [phase EXCEPT ![c] = IF @ = "lost" THEN "over" ELSE "done"]
    /\ Doubt(phase[c] = "lost" /\ kind[c] \notin {"reorder", "arrange"})
    /\ UNCHANGED <<connection, sid, welcome, edits, shown, cached, kind, ids, before, from,
                   refetch, overlapped, swallowed>>

(* 404, 403 or a request that did not reach the server. *)
ServerRefuses(c) ==
    /\ phase[c] \in {"sent", "lost"}
    /\ phase' = [phase EXCEPT ![c] = IF @ = "lost" THEN "over" ELSE "failed"]
    /\ UNCHANGED <<connection, sid, welcome, chan, store, shown, cached,
                   kind, target, ids, before, from, refetch, exposure>>

(* The response of a create takes the temporary row's place, if it is       *)
(* still there; at a position, the day's order is sent next.                *)
CreateAnswered(c) ==
    LET list == [shown EXCEPT ![0 - c] = 0, ![target[c]] = @ + shown[0 - c]]
        rows == {i \in Rows : list[i] > 0}
    IN  /\ kind[c] \in {"create", "createAt"} /\ phase[c] = "done"
        /\ shown' = list
        /\ IF kind[c] = "createAt" /\ rows # {}
           THEN /\ kind' = [kind EXCEPT ![c] = "arrange"] /\ phase' = [phase EXCEPT ![c] = "sent"]
                /\ ids' = [ids EXCEPT ![c] = rows] /\ from' = [from EXCEPT ![c] = sid]
                /\ UNCHANGED before
           ELSE Ends(c) /\ UNCHANGED kind
        /\ Changes(c, FALSE)
        /\ UNCHANGED <<connection, sid, welcome, chan, store, cached, target, refetch, swallowed>>

Answered(c) ==
    /\ kind[c] \notin {"create", "createAt"} /\ phase[c] = "done"
    /\ Ends(c)
    /\ IF kind[c] = "arrange"
       THEN shown' = Only(ids[c]) /\ Changes(c, ~(Visible \subseteq ids[c]))
       ELSE UNCHANGED <<shown, doubt, spoiled, overlapped>>
    /\ UNCHANGED <<connection, sid, welcome, chan, store, cached, kind, target, refetch, swallowed>>

(* Mutant: the temporary row of a failed create stays. *)
RolledBackButTemps(c) ==
    IF kind[c] \in {"create", "createAt", "arrange"} THEN shown ELSE before[c]

(* An error: the temporary row goes, or the list is put back as it was. *)
RolledBack(c) ==
    IF kind[c] \in {"create", "createAt"} THEN [shown EXCEPT ![0 - c] = 0]
    ELSE IF kind[c] = "arrange" THEN shown ELSE before[c]

Restores(c) == kind[c] \in {"remove", "reorder"}

Fails(c) ==
    /\ phase[c] = "failed"
    /\ Ends(c)
    /\ shown' = RolledBack(c)
    /\ Changes(c, Restores(c) /\ c \in overlapped)
    /\ UNCHANGED <<connection, sid, welcome, chan, store, cached, kind, target, refetch, swallowed>>

(* The request times out at the page; the server may do it all the same. *)
GiveUp(c) ==
    /\ phase[c] \in {"sent", "done"}
    /\ IF phase[c] = "sent"
       THEN /\ phase' = [phase EXCEPT ![c] = "lost"] /\ before' = [before EXCEPT ![c] = None]
            /\ UNCHANGED <<ids, from>>
       ELSE Ends(c)
    /\ shown' = RolledBack(c)
    /\ Changes(c, \/ Restores(c) /\ c \in overlapped
                  \/ phase[c] = "done" /\ kind[c] \in {"create", "createAt", "remove"})
    /\ UNCHANGED <<connection, sid, welcome, chan, store, cached, kind, target, refetch, swallowed>>

-----------------------------------------------------------------------------
(* Edits of other members; a page that is out of the room misses them. *)

CollabEdit ==
    /\ edits < MaxEdits
    /\ edits' = edits + 1
    /\ \/ \E p \in Places : Inserts(p, Nil) /\ Doubt(~Reaches)
       \/ \E i \in live : DeletesRow(i, Nil) /\ Doubt(~Reaches)
       \/ \E rows \in SUBSET live : Reorders(rows, Nil) /\ UNCHANGED <<doubt, spoiled>>
    /\ UNCHANGED <<connection, sid, welcome, shown, cached, request, refetch,
                   overlapped, swallowed>>

ReplicaNext ==
    \/ Reconnecting
    \/ \E s \in Sockets :
         \/ ReplicaOpens(s) \/ ReplicaCloses(s) \/ ReadWelcome(s)
         \/ Refetch(s) \/ FetchAnswered(s) \/ FetchApplies(s) \/ FetchFails(s)
         \/ ReadEvent(s)
    \/ \E c \in Reqs :
         \/ \E p \in Places : Assign(c, p, "create") \/ Assign(c, p, "createAt")
         \/ \E i \in Rows : RemoveAssignment(c, i)
         \/ Reorder(c)
         \/ ServerDoes(c) \/ ServerRefuses(c)
         \/ CreateAnswered(c) \/ Answered(c) \/ Fails(c) \/ GiveUp(c)
    \/ CollabEdit

ReplicaSpec == ReplicaInit /\ [][ReplicaNext]_replicaVars

-----------------------------------------------------------------------------
(* Properties. *)

(* A row is shown once, unless an event has replaced the temporary row of   *)
(* another request: the echo of an own create, its answer, the refetch and  *)
(* a rollback never leave two copies.                                       *)
NoDuplicates == swallowed = "no" => \A k \in Keys : shown[k] <= 1

(* What makes NoDuplicates inductive, for the list shown and for each that  *)
(* may be put in its place: it has only rows that were inserted, none       *)
(* twice, and not both a temporary row and the row its request has made.    *)
Creates == {"create", "createAt", "arrange"}
Created(c) == kind[c] \in Creates /\ target[c] \in Rows

GoodList(L) ==
    /\ L \in [Keys -> Nat]
    /\ \A i \in Rows : L[i] > 0 => i <= born
    /\ \A c \in Reqs : L[0 - c] > 0 => kind[c] \in Creates
    /\ swallowed = "no" =>
         /\ \A k \in Keys : L[k] <= 1
         /\ \A c \in Reqs : Created(c) => L[target[c]] = 0 \/ L[0 - c] = 0

ListsInv == GoodList(shown) /\ GoodList(cached) /\ \A c \in Reqs : GoodList(before[c])

RowsInv ==
    /\ born \in Nat /\ live \subseteq Rows /\ live \subseteq 1 .. born
    /\ snap \in [Sockets -> SUBSET Rows] /\ \A s \in Sockets : snap[s] \subseteq 1 .. born
    /\ placeOf \in [Keys -> Places \cup {Nil}]
    /\ \A c \in Reqs : Created(c) => target[c] <= born /\ placeOf[target[c]] = placeOf[0 - c]
    /\ \A c, d \in Reqs : Created(c) /\ Created(d) /\ target[c] = target[d] => c = d

EventTypes == [type : {"created", "deleted", "reordered"}, row : Rows \cup {Nil}, rows : SUBSET Rows]

ChannelInv ==
    /\ chan \in [Sockets -> Seq(EventTypes)]
    /\ \A s \in Sockets : \A j \in 1 .. Len(chan[s]) :
         /\ chan[s][j].type \in {"created", "deleted"} => chan[s][j].row \in Rows
         /\ chan[s][j].type = "created" => chan[s][j].row <= born

RequestsInv ==
    /\ swallowed \in {"yes", "no"}
    /\ before \in [Reqs -> [Keys -> Nat]]
    /\ kind \in [Reqs -> {"none", "create", "createAt", "arrange", "remove", "reorder"}]
    /\ phase \in [Reqs -> {"none", "sent", "done", "failed", "over", "lost"}]
    /\ target \in [Reqs -> Rows \cup {Nil}]
    /\ ids \in [Reqs -> SUBSET Rows]
    /\ \A c \in Reqs : phase[c] = "none" => kind[c] = "none"
    /\ \A c \in Reqs : kind[c] = "remove" => target[c] \in Rows
    /\ \A c \in Reqs : kind[c] \in {"create", "createAt"} /\ phase[c] = "done" => target[c] \in Rows

ReplicaInv == ListsInv /\ RowsInv /\ ChannelInv /\ RequestsInv

(* Nothing is under way for a page that is in the room. *)
AtRest ==
    /\ Reaches /\ chan[socket] = << >>
    /\ hooks = {} /\ Unanswered = {}
    /\ \A s \in Sockets : fetch[s] \notin {"asked", "answered"}

(* At rest the page shows exactly the server's rows, unless one of these    *)
(* races has happened since the last clean refetch: a write while the page  *)
(* was out of the room, an event lost with its socket, a refetch crossing   *)
(* an edit or an event or answered before the events of a socket that the   *)
(* server has dropped are read, a rollback or a reorder over a list that    *)
(* has changed, an own request that timed out, a create taken for another.  *)
Converges == AtRest /\ doubt = "no" => shown = ListOf(live)

=============================================================================
