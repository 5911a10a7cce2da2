----------------------------- MODULE TripServer -----------------------------
(***************************************************************************)
(* The server's half of an offline replay: the rows of one trip (packing   *)
(* items or places), the optimistic-concurrency check on their updated_at  *)
(* token, the idempotency-key store in front of every write, and the HTTP  *)
(* exchanges that carry the writes of the browser tabs.                    *)
(*                                                                         *)
(* better-sqlite3 is synchronous and the handlers of these routes await    *)
(* nothing, so one request is served in one step.  The network may deliver *)
(* a request after the client stopped waiting for it, or never.            *)
(*                                                                         *)
(* A row's content is abstracted to its author: the key of the device edit *)
(* that wrote it last, 0 for what was there at first, or a number above    *)
(* MaxEdits for the writes of collaborators.  updated_at is a second of    *)
(* the server clock; several writes may fall into one second.              *)
(***************************************************************************)
EXTENDS Integers, Tables

CONSTANTS
    Tabs,       \* the browser tabs of the device
    MaxEdits,   \* edits the device's user makes (bound; also the keys)
    FirstRows,  \* how many rows the trip has at first
    Limit,      \* how often each fault or outside event happens (bound)
    None        \* no request, no response, no entity

Keys == 1..MaxEdits
InitRows == 1..FirstRows
Faults == {"collab", "giveUp", "keyLoss", "deny", "offline", "reload", "evict"}
Methods == {"POST", "PUT", "DELETE"}

(* The token of an edit: a second of the server clock, or the two reasons  *)
(* the code has for sending no X-Base-Updated-At header.  The code holds   *)
(* null for both; telling them apart is only for the properties.           *)
NoToken == 0      \* the cached row the edit was made on had no updated_at
Forced == -1      \* a conflict was resolved as "mine"
Tokens == {Forced} \cup Nat

ASSUME TabsAssumption == Tabs # {}
ASSUME MaxEditsAssumption == MaxEdits \in Nat
ASSUME FirstRowsAssumption == FirstRows \in Nat
ASSUME LimitAssumption == Limit \in [Faults -> Nat]

(* Rows on the server and in the cache: who wrote it, and its updated_at   *)
(* (NoToken on a row that only exists in the cache).                       *)
Entity == [by : Nat, at : Nat]

(* A request of the queue, X-Idempotency-Key and X-Base-Updated-At         *)
(* included; row is the id in the URL and 0 for a POST.  try tells the     *)
(* attempts of one mutation apart.                                         *)
Request == [tab : Tabs, key : Keys, try : Nat, method : Methods,
            row : Int, base : Tokens]

(* "lost" stands for a network error, a timeout, a 5xx or a retryable 4xx: *)
(* the client treats them alike.                                           *)
Response == [status : {"ok", "conflict", "missing", "denied", "lost"},
             id : Int, entity : Entity \cup {None}]
Bare(status) == [status |-> status, id |-> 0, entity |-> None]

ASSUME NoneAssumption == None \notin Entity \cup Request \cup Response

VARIABLES
    rows,     \* row id -> Entity
    nextId,   \* the next AUTOINCREMENT id
    clock,    \* CURRENT_TIMESTAMP, in seconds
    keys,     \* idempotency_keys: key -> the stored 2xx response
    wire,     \* requests the server has not seen yet
    open,     \* the request each tab awaits the answer of
    reply,    \* the answer, once it is there
    applied,  \* history: how often the server executed the edit of a key
    spent     \* how often each fault has happened

serverVars == <<rows, nextId, clock, keys, wire, open, reply, applied, spent>>

Collab == MaxEdits + 1 + spent["collab"]     \* author of the next outside write
IsCollab(author) == author > MaxEdits
IsOwn(author) == author \in Keys

Spend(fault) ==
    /\ spent[fault] < Limit[fault]
    /\ spent' = [spent EXCEPT ![fault] = @ + 1]

-----------------------------------------------------------------------------
(* Executing a write.  Time passes between two writes or does not, and     *)
(* matters only when a row is stamped: the clock moves with the stamps.    *)

Stamp(id, author) ==
    /\ clock' \in {clock, clock + 1}
    /\ rows' = Put(rows, id, [by |-> author, at |-> clock'])

(* Mutant: the token is compared the wrong way round. *)
StaleReversed(q) == q.base > rows[q.row].at

(* updateItem/updatePlace: the row has moved on since the token was read.  *)
Stale(q) == q.base \notin {NoToken, Forced} /\ q.base # rows[q.row].at

(* Mutant: the id counter stays behind. *)
CreatesReusingId(q) ==
    /\ q.method = "POST"
    /\ Stamp(nextId, q.key)
    /\ UNCHANGED nextId

Creates(q) ==
    /\ q.method = "POST"
    /\ Stamp(nextId, q.key)
    /\ nextId' = nextId + 1

Updates(q) ==
    /\ q.method = "PUT"
    /\ q.row \in DOMAIN rows
    /\ ~Stale(q)
    /\ Stamp(q.row, q.key)
    /\ UNCHANGED nextId

Deletes(q) ==
    /\ q.method = "DELETE"
    /\ q.row \in DOMAIN rows
    /\ rows' = Without(rows, {q.row})
    /\ UNCHANGED <<nextId, clock>>

(* The handler commits the write. *)
Execute(q) ==
    /\ Creates(q) \/ Updates(q) \/ Deletes(q)
    /\ applied' = [applied EXCEPT ![q.key] = @ + 1]

(* The 2xx body of the write that was just executed. *)
Success(q) ==
    CASE q.method = "POST"   -> [status |-> "ok", id |-> nextId, entity |-> rows'[nextId]]
      [] q.method = "PUT"    -> [status |-> "ok", id |-> q.row, entity |-> rows'[q.row]]
      [] q.method = "DELETE" -> Bare("ok")

(* 404 and 409 leave the row alone and are not stored under the key. *)
Refusal(q) ==
    IF q.row \notin DOMAIN rows
    THEN Bare("missing")
    ELSE [status |-> "conflict", id |-> q.row, entity |-> rows[q.row]]

Refuses(q) ==
    \/ q.method \in {"PUT", "DELETE"} /\ q.row \notin DOMAIN rows
    \/ q.method = "PUT" /\ q.row \in DOMAIN rows /\ Stale(q)

-----------------------------------------------------------------------------
(* Serving a request that arrives.  Only the tab that still awaits this    *)
(* very request gets the answer.                                           *)

Answer(q, r) ==
    reply' = [t \in Tabs |-> IF open[t] = q THEN r ELSE reply[t]]

(* The interceptor finds the key and replays the stored body. *)
Replay(q) ==
    /\ q.key \in DOMAIN keys
    /\ Answer(q, keys[q.key])
    /\ UNCHANGED <<rows, nextId, clock, keys, applied, spent>>

(* Mutant: the interceptor forgets to store the body. *)
ExecuteOnly(q) ==
    /\ q.key \notin DOMAIN keys
    /\ Execute(q)
    /\ Answer(q, Success(q))
    /\ UNCHANGED <<keys, spent>>

(* The handler runs and res.json stores the body under the key. *)
ExecuteAndStore(q) ==
    /\ q.key \notin DOMAIN keys
    /\ Execute(q)
    /\ keys' = Put(keys, q.key, Success(q))
    /\ Answer(q, Success(q))
    /\ UNCHANGED spent

Refuse(q) ==
    /\ q.key \notin DOMAIN keys
    /\ Refuses(q)
    /\ Answer(q, Refusal(q))
    /\ UNCHANGED <<rows, nextId, clock, keys, applied, spent>>

(* A terminal 4xx: edit permission withdrawn, a body the server rejects.   *)
(* It lasts: late copies of the request would meet with the same answer to *)
(* nobody, and are forgotten.                                              *)
Deny(q) ==
    /\ q.key \notin DOMAIN keys
    /\ open[q.tab] = q
    /\ Spend("deny")
    /\ Answer(q, Bare("denied"))
    /\ wire' = {p \in wire : p.key # q.key \/ (p # q /\ open[p.tab] = p)}
    /\ UNCHANGED <<rows, nextId, clock, keys, applied>>

(* The process dies between the handler's commit and the key's insert: two *)
(* statements, no transaction around them.                                 *)
ExecuteAndCrash(q) ==
    /\ q.key \notin DOMAIN keys
    /\ Execute(q)
    /\ Spend("keyLoss")
    /\ Answer(q, Bare("lost"))
    /\ UNCHANGED keys

Serve(q) ==
    /\ q \in wire
    /\ UNCHANGED open
    /\ \/ Deny(q)
       \/ /\ wire' = wire \ {q}
          /\ \/ Replay(q)
             \/ ExecuteAndStore(q)
             \/ Refuse(q)
             \/ ExecuteAndCrash(q)

-----------------------------------------------------------------------------
(* The tabs' side of an exchange. *)

Send(t, q) ==
    /\ q.tab = t
    /\ open[t] = None
    /\ wire' = wire \cup {q}
    /\ open' = [open EXCEPT ![t] = q]
    /\ UNCHANGED <<rows, nextId, clock, keys, reply, applied, spent>>

(* The 8 s timeout, or the connection breaks: the request may already be   *)
(* served, be served later, or never.                                      *)
GiveUp(t) ==
    /\ open[t] # None
    /\ (reply[t] # None => reply[t].status # "lost")
    /\ Spend("giveUp")
    /\ reply' = [reply EXCEPT ![t] = Bare("lost")]
    /\ UNCHANGED <<rows, nextId, clock, keys, wire, open, applied>>

(* The answer is read: from here on it cannot get lost. *)
Received(t) ==
    /\ open' = [open EXCEPT ![t] = None]
    /\ UNCHANGED <<rows, nextId, clock, keys, wire, reply, applied, spent>>

(* Mutant: the answer of the last exchange stays around. *)
HangUpKeepingReply(t) ==
    /\ open' = [open EXCEPT ![t] = None]
    /\ UNCHANGED reply

(* The tab is done with the exchange, or its page is gone. *)
HangUp(t) ==
    /\ open' = [open EXCEPT ![t] = None]
    /\ reply' = [reply EXCEPT ![t] = None]

-----------------------------------------------------------------------------
(* What else touches the rows and the keys. *)

(* A collaborator edits a row: same handler, no token. *)
CollabUpdate ==
    /\ Spend("collab")
    /\ \E id \in DOMAIN rows : Stamp(id, Collab)
    /\ UNCHANGED <<nextId, keys, wire, open, reply, applied>>

CollabDelete ==
    /\ Spend("collab")
    /\ \E id \in DOMAIN rows : rows' = Without(rows, {id})
    /\ UNCHANGED <<nextId, clock, keys, wire, open, reply, applied>>

(* purgeExpiredIdempotencyKeys: the nightly job drops a key past its time  *)
(* to live (several keys are several steps).                               *)
PurgeKey ==
    /\ Spend("keyLoss")
    /\ \E k \in DOMAIN keys : keys' = Without(keys, {k})
    /\ UNCHANGED <<rows, nextId, clock, wire, open, reply, applied>>

ServerInit ==
    /\ rows = [id \in InitRows |-> [by |-> 0, at |-> 1]]
    /\ nextId = FirstRows + 1
    /\ clock = 1
    /\ keys = Empty
    /\ wire = {}
    /\ open = [t \in Tabs |-> None]
    /\ reply = [t \in Tabs |-> None]
    /\ applied = [k \in Keys |-> 0]
    /\ spent = [f \in Faults |-> 0]
=============================================================================
