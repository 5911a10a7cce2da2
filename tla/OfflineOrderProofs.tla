------------------------ MODULE OfflineOrderProofs --------------------------
(***************************************************************************)
(* The order of a replay, for a device with one tab that is not reloaded:  *)
(* an edit that fails as unresolved has lost its create                    *)
(* (UnresolvedMeansCreateGone).  While the device has not gone offline a   *)
(* second time, no phantom row is left (NoPhantomRow), and if no key is    *)
(* lost either, that create never reached the server                       *)
(* (UnresolvedOnlyWithoutCreate).                                          *)
(*                                                                         *)
(* The second half is of a trip no collaborator has touched: the device    *)
(* knows what the server has (SyncInv), so that it is never in conflict    *)
(* with itself (NoSelfConflict), a later edit is never replaced by an      *)
(* earlier one (LaterEditStays), and once all is done the cache is the     *)
(* server's table (CacheConverges, from CacheInv).                         *)
(***************************************************************************)
EXTENDS OfflineTokenProofs

USE MaxEditsAssumption, FirstRowsAssumption, LimitAssumption, NoneAssumption

-----------------------------------------------------------------------------
(* The inductive invariants. *)

InHands(t) == flush[t].step \in {"wait", "store", "remove"}

(* What is marked as syncing is the mutation the loop has in its hands.    *)
InFlight ==
    \A k \in DOMAIN queue :
        queue[k].status = "syncing" <=> \E t \in Tabs : InHands(t) /\ k = Current(t)

(* A temporary id is that of a create made before.                         *)
CreateKey(k) ==
    /\ k \in 1..(nextKey - 1)
    /\ k \in DOMAIN queue => queue[k].method = "POST"
    /\ Drafting(k) => draft.mutation.method = "POST"
    /\ \A q \in wire : q.key = k => q.method = "POST"
Temporary(id) == id < 0 => CreateKey(-id)

TempRows ==
    /\ \A id \in DOMAIN cache : Temporary(id)
    /\ \A t \in Tabs : \A id \in view[t] : Temporary(id)

(* An edit of a new row comes after the row's create, a draft last.        *)
AfterCreate(k, m) == m.method # "POST" => Temporary(m.target) /\ -m.target < k
Targets ==
    /\ \A k \in DOMAIN queue : AfterCreate(k, queue[k])
    /\ draft # None => /\ AfterCreate(draft.key, draft.mutation)
                       /\ draft.mutation.status = "pending"
                       /\ \A k \in DOMAIN queue : k < draft.key

(* What was sent has the id of a row, and creates do not conflict.         *)
Sound(m) ==
    IF m.method = "POST" THEN m.status # "conflict"
    ELSE m.status \in {"syncing", "conflict"} => m.target >= 0
SoundReply(t) ==
    reply[t] # None =>
        /\ reply[t].status = "conflict" => reply[t].id >= 0
        /\ Snapshot(t).method = "POST" => reply[t].status \notin {"conflict", "missing"}
Refusals ==
    /\ \A k \in DOMAIN queue : Sound(queue[k])
    /\ \A t \in Tabs : SoundReply(t)

(* An earlier create that is not in the loop any more has failed.          *)
FifoOf(t) ==
    \A j \in DOMAIN queue, k \in DOMAIN Todo(t) :
        (j < k /\ j \notin DOMAIN Todo(t) /\ queue[j].method = "POST")
            => queue[j].status = "failed"
Fifo == \A t \in Tabs : FifoOf(t)

OrderInv == InFlight /\ TempRows /\ Targets /\ Refusals /\ Fifo

(* Before the device is online for the first time, nothing was sent. *)
Waiting(id) == id < 0 => -id \in DOMAIN queue \/ Drafting(-id)
Untouched(t) ==
    /\ flush[t] = Quiet /\ wire = {} /\ open[t] = None /\ reply[t] = None
    /\ \A k \in DOMAIN queue : queue[k].status = "pending"
    /\ \A k \in Keys : applied[k] = 0
    /\ \A id \in DOMAIN cache \cup view[t] : Waiting(id)
Unsynced == \A t \in Tabs : IF online[t] THEN draft = None ELSE Untouched(t)

(* A create that was confirmed has left no trace of its temporary id. *)
ConfirmedOf(t) ==
    flush[t].step \in {"store", "remove"} /\ Snapshot(t).method = "POST" =>
        /\ Snapshot(t).target \notin DOMAIN cache
        /\ \A k \in DOMAIN queue :
              queue[k].method # "POST" => queue[k].target # Snapshot(t).target
Confirmed == \A t \in Tabs : ConfirmedOf(t)

PhantomInv == Unsynced /\ Confirmed /\ NoPhantomRow

(* A create that may still be executed is on its way in the queue, one     *)
(* that was executed stays there until its edits know the row's id.        *)
Alive(k) == k \in DOMAIN queue /\ queue[k].status \in {"pending", "syncing"}
AppliedStored == \A k \in Keys : applied[k] > 0 => k \in DOMAIN keys
DeniedOf(t) ==
    (reply[t] # None /\ reply[t].status = "denied") =>
        applied[Current(t)] = 0 /\ \A q \in wire : q.key # Current(t)
WireAlive == \A q \in wire : (q.method = "POST" /\ applied[q.key] = 0) => Alive(q.key)
DependentsWait ==
    \A k \in DOMAIN queue :
        (queue[k].method # "POST" /\ queue[k].target < 0 /\ applied[-queue[k].target] > 0)
            => Alive(-queue[k].target)

CreateInv ==
    AppliedStored /\ (\A t \in Tabs : DeniedOf(t)) /\ WireAlive /\ DependentsWait

-----------------------------------------------------------------------------
(* What a step does to the queue and to the loop. *)

SameEdit(k) == queue'[k].method = queue[k].method /\ queue'[k].target = queue[k].target
OthersKept(S) ==
    /\ DOMAIN queue' \subseteq DOMAIN queue
    /\ \A k \in DOMAIN queue \ S : k \in DOMAIN queue' /\ queue'[k] = queue[k]

(* The loop sends the mutation in hand. *)
LoopSends(t) ==
    /\ ~InHands(t) /\ InHands(t)' /\ flush'[t].step = "wait" /\ Todo(t)' = Todo(t)
    /\ OthersKept({Current(t)})
    /\ Current(t) \in DOMAIN queue' /\ Current(t) \in DOMAIN queue /\ Current(t) \in DOMAIN Todo(t)
    /\ SameEdit(Current(t)) /\ queue'[Current(t)].status = "syncing"
    /\ queue[Current(t)].method # "POST" => queue[Current(t)].target >= 0

(* A new pass begins, or the loop is over. *)
LoopBegins(t) ==
    /\ ~InHands(t) /\ ~InHands(t)'
    /\ Todo(t)' = Empty \/ Todo(t)' = Restrict(queue', Pending(queue'))
    /\ queue' = queue

(* It works on an answer. *)
LoopWorks(t) ==
    /\ InHands(t) /\ InHands(t)' /\ Todo(t)' = Todo(t)
    /\ flush[t].step = "wait" /\ Snapshot(t).method = "POST" => Remap(t)
    /\ DOMAIN queue' = DOMAIN queue
    /\ \A k \in DOMAIN queue :
          /\ queue'[k].method = queue[k].method /\ queue'[k].status = queue[k].status
          /\ queue'[k].target # queue[k].target => queue'[k].method # "POST" /\ queue'[k].target \in Nat \ {0}

(* It is done with the mutation in hand, or with all. *)
LoopEnds(t) ==
    /\ ~InHands(t)'
    /\ Current(t) \in DOMAIN Todo(t)
    /\ InHands(t) \/ queue[Current(t)].target < 0
    /\ Snapshot(t).method = "POST" =>
          \/ flush[t].step = "remove"
          \/ -Current(t) \notin DOMAIN cache' /\ reply[t] # None /\ reply[t].status = "denied"
          \/ Current(t) \in DOMAIN queue' /\ queue'[Current(t)].status = "pending"
    /\ OthersKept({Current(t)})
    /\ Todo(t)' = Without(Todo(t), {Current(t)}) \/ Todo(t)' = Empty
    /\ Current(t) \in DOMAIN queue' =>
          /\ SameEdit(Current(t))
          /\ queue'[Current(t)].status \in {"pending", "failed", "conflict"}
          /\ queue'[Current(t)].status = "conflict" =>
                InHands(t) /\ queue'[Current(t)].method # "POST"
          /\ queue'[Current(t)].method = "POST" =>
                queue'[Current(t)].status = "failed" \/ Todo(t)' = Empty

(* The mutation in hand has one method, in the snapshot and in the queue.  *)
LEMMA OneMethod ==
    ASSUME IndInv, TokenInv, NEW t \in Tabs, DOMAIN Todo(t) # {}
    PROVE  /\ Current(t) \in DOMAIN Todo(t) /\ Current(t) \in DOMAIN queue
           /\ queue[Current(t)].method = Snapshot(t).method
           /\ Snapshot(t).method \in Methods
<1>1. /\ Current(t) \in DOMAIN Todo(t) /\ Current(t) \in DOMAIN queue /\ Snapshot(t) \in Mutation
  BY InHand
<1>2. PICK mm \in [Keys -> Methods] : Agree(mm)
  BY DEF IndInv, MethodsAgree
<1> QED
  BY <1>1, <1>2 DEF Agree, Snapshot, Mutation

(* A mutation that is revised in the queue stays what it is. *)
LEMMA AmendKept ==
    ASSUME NEW k, NEW base, NEW try, NEW status, NEW server,
           queue' = Amend(queue, k, Revised(queue[k], base, try, status, server))
    PROVE  /\ OthersKept({k}) /\ DOMAIN queue' = DOMAIN queue
           /\ k \in DOMAIN queue => SameEdit(k) /\ queue'[k].status = status
BY DEF Amend, Revised, OthersKept, SameEdit

(* What is removed from the queue leaves the rest. *)
LEMMA WithoutKept ==
    ASSUME NEW S, queue' = Without(queue, S)
    PROVE  OthersKept(S) /\ DOMAIN queue' = DOMAIN queue \ S
BY DEF Without, Restrict, OthersKept

(* The loop stays where it is when only its step changes. *)
LEMMA StepOnly ==
    ASSUME TypeOK, NEW t \in Tabs, NEW step, flush' = [flush EXCEPT ![t].step = step]
    PROVE  flush'[t].step = step /\ Todo(t)' = Todo(t)
<1>1. FlushType(flush[t])
  BY DEF TypeOK, DeviceTypeOK
<1>2. flush'[t] = [step |-> step, todo |-> flush[t].todo, idMap |-> flush[t].idMap,
                   tokens |-> flush[t].tokens, retry |-> flush[t].retry]
  BY <1>1 DEF FlushType, TypeOK, DeviceTypeOK
<1> QED
  BY <1>2 DEF Todo

(* Sending marks the mutation. *)
LEMMA ReplaysForm ==
    ASSUME IndInv, TokenInv, NEW t \in Tabs, Replays(t)
    PROVE  LoopSends(t)
<1>1. /\ TypeOK /\ DOMAIN Todo(t) # {} /\ flush[t].step = "next" /\ HasNext(t) /\ ~Unresolved(t)
      /\ flush' = [flush EXCEPT ![t].step = "wait"]
  BY DEF Replays, HasNext, IndInv
<1>2. /\ Current(t) \in DOMAIN Todo(t) /\ Current(t) \in DOMAIN queue
      /\ queue[Current(t)].method = Snapshot(t).method
  BY <1>1, OneMethod
<1>3. /\ OthersKept({Current(t)}) /\ SameEdit(Current(t))
      /\ queue'[Current(t)].status = "syncing" /\ Current(t) \in DOMAIN queue'
  BY <1>2, AmendKept DEF Replays, Change
<1>4. PICK q : q = CurrentRequest(t)
  OBVIOUS
<1>5. q.method = Snapshot(t).method
  BY <1>4 DEF CurrentRequest
<1>6. Snapshot(t).method # "POST" => queue[Current(t)].target >= 0
  BY <1>1, <1>4, <1>5, RequestGood
<1> QED
  BY <1>1, <1>2, <1>3, <1>6, StepOnly DEF LoopSends, InHands

(* An unresolved mutation fails. *)
LEMMA FailUnresolvedForm ==
    ASSUME IndInv, TokenInv, NEW t \in Tabs, FailUnresolved(t)
    PROVE  LoopEnds(t)
<1>1. /\ TypeOK /\ DOMAIN Todo(t) # {} /\ Unresolved(t) /\ Advance(t)
  BY DEF FailUnresolved, HasNext, IndInv
<1>2. /\ Current(t) \in DOMAIN Todo(t) /\ Current(t) \in DOMAIN queue
      /\ queue[Current(t)].method # "POST" /\ Snapshot(t).method # "POST"
  BY <1>1, OneMethod DEF Unresolved
<1>3. /\ OthersKept({Current(t)}) /\ SameEdit(Current(t)) /\ queue'[Current(t)].status = "failed"
  BY <1>2, AmendKept DEF FailUnresolved, Change
<1>4. queue[Current(t)].target < 0
  <2>1. PICK m : m = Snapshot(t)
    OBVIOUS
  <2>2. m.method # "POST" /\ Target(t) < 0 /\ Target(t) = Mapped(t, m.target)
    BY <1>1, <2>1 DEF Unresolved, Target, Mapped
  <2> QED
    BY <1>1, <2>1, <2>2, InHand DEF Follows
<1> QED
  BY <1>1, <1>2, <1>3, <1>4, AdvanceDone DEF LoopEnds, InHands, SameEdit

(* A pass ends, another may begin. *)
LEMMA EndFlushForm ==
    ASSUME IndInv, NEW t \in Tabs, EndFlush(t) \/ StartFlush(t)
    PROVE  LoopBegins(t)
<1>1. /\ queue' = queue /\ flush[t].step \in {"idle", "next"} /\ DOMAIN flush = Tabs
      /\ Begin(t, queue) \/ flush' = [flush EXCEPT ![t] = Quiet]
  BY DEF EndFlush, StartFlush, IndInv, TypeOK, DeviceTypeOK
<1>2. PICK todo : todo = Restrict(queue', Pending(queue'))
  OBVIOUS
<1>3. CASE Begin(t, queue)
  <2>1. flush' = [flush EXCEPT ![t] = Loop("next", todo)]
    BY <1>1, <1>2, <1>3 DEF Begin
  <2>2. flush'[t].step = "next" /\ Todo(t)' = todo
    BY <1>1, <2>1 DEF Loop, Todo
  <2> QED
    BY <1>1, <1>2, <2>2 DEF LoopBegins, InHands
<1>4. CASE flush' = [flush EXCEPT ![t] = Quiet]
  BY <1>1, <1>4 DEF Quiet, Loop, Todo, LoopBegins, InHands
<1> QED
  BY <1>1, <1>3, <1>4

(* The steps that apply a 2xx. *)
LEMMA WorksForm ==
    ASSUME IndInv, NEW t \in Tabs, Remap(t) \/ StoreEntity(t) \/ Undisplay(t)
    PROVE  LoopWorks(t)
<1>1. TypeOK /\ InHands(t)
  BY DEF IndInv, Remap, StoreEntity, Undisplay, Answered, InHands
<1>2. CASE Remap(t)
  <2>1. PICK temp, id : temp = Snapshot(t).target /\ id = reply[t].id
    OBVIOUS
  <2>2. id \in Nat \ {0}
    BY <1>2, <2>1, AnswerCarriesRow DEF Remap, CarriesRow
  <2> QED
    BY <1>1, <1>2, <2>1, <2>2, RemapDoes DEF LoopWorks, InHands
<1>3. CASE StoreEntity(t)
  <2>1. PICK id, token : id = reply[t].id /\ token = reply[t].entity.at
    OBVIOUS
  <2>2. flush[t].step = "wait" => Snapshot(t).method # "POST"
    BY <1>3 DEF StoreEntity
  <2> QED
    BY <1>1, <1>3, <2>1, <2>2, StoreEntityDoes DEF LoopWorks, InHands
<1>4. CASE Undisplay(t)
  <2>1. /\ flush' = [flush EXCEPT ![t].step = "remove"] /\ queue' = queue
        /\ Snapshot(t).method # "POST"
    BY <1>4 DEF Undisplay
  <2> QED
    BY <1>1, <2>1, StepOnly DEF LoopWorks, InHands
<1> QED
  BY <1>2, <1>3, <1>4

(* A mutation leaves the queue. *)
LEMMA DequeueForm ==
    ASSUME IndInv, TokenInv, Refusals, NEW t \in Tabs, Dequeue(t) \/ ConflictTheirs(t)
    PROVE  LoopEnds(t)
<1>1. /\ TypeOK /\ DOMAIN Todo(t) # {} /\ Advance(t) /\ queue' = Without(queue, {Current(t)})
      /\ flush[t].step \in {"wait", "remove"}
  BY DEF Dequeue, ConflictTheirs, Answered, IndInv, Exchanges, ExchangeOf
<1>2. /\ OthersKept({Current(t)}) /\ Current(t) \notin DOMAIN queue'
  <2>1. PICK S : S = {Current(t)}
    OBVIOUS
  <2>2. OthersKept(S) /\ DOMAIN queue' = DOMAIN queue \ S
    BY <1>1, <2>1, WithoutKept
  <2> QED
    BY <2>1, <2>2
<1>3. ConflictTheirs(t) => Snapshot(t).method # "POST"
  BY DEF Refusals, SoundReply, ConflictTheirs, Answered
<1> QED
  BY <1>1, <1>2, <1>3, InHand, AdvanceDone DEF Dequeue, LoopEnds, InHands

(* A mutation is refused: parked or failed. *)
LEMMA RefusedForm ==
    ASSUME IndInv, TokenInv, Refusals, NEW t \in Tabs, ConflictAsk(t) \/ Reject(t)
    PROVE  LoopEnds(t)
<1>1. /\ TypeOK /\ DOMAIN Todo(t) # {} /\ Advance(t) /\ flush[t].step = "wait" /\ reply[t] # None
  BY DEF ConflictAsk, Reject, Answered, IndInv, Exchanges, ExchangeOf
<1>2. /\ Current(t) \in DOMAIN Todo(t) /\ Current(t) \in DOMAIN queue
      /\ queue[Current(t)].method = Snapshot(t).method
  BY <1>1, OneMethod
<1>3. ConflictAsk(t) => Snapshot(t).method # "POST"
  BY <1>1 DEF Refusals, SoundReply, ConflictAsk, Answered
<1>4. PICK status, try, server :
         /\ queue' = Amend(queue, Current(t), Revised(queue[Current(t)], queue[Current(t)].base,
                                                      try, status, server))
         /\ status = IF ConflictAsk(t) THEN "conflict" ELSE "failed"
  BY DEF ConflictAsk, Reject, Change
<1>5. /\ OthersKept({Current(t)}) /\ SameEdit(Current(t)) /\ queue'[Current(t)].status = status
  BY <1>2, <1>4, AmendKept
<1>6. Snapshot(t).method = "POST" => -Current(t) \notin DOMAIN cache' /\ reply[t].status = "denied"
  <2>1. PICK m : m = Snapshot(t)
    OBVIOUS
  <2>2. m.method = "POST" => m.target = -Current(t)
    BY <1>1, <2>1, InHand DEF Follows
  <2> QED
    BY <1>3, <2>1, <2>2 DEF Reject, Answered, Refusals, SoundReply, Without, Restrict
<1> QED
  BY <1>1, <1>2, <1>3, <1>4, <1>5, <1>6, AdvanceDone DEF LoopEnds, InHands, SameEdit

(* A mutation goes back. *)
LEMMA RequeuedForm ==
    ASSUME IndInv, TokenInv, Refusals, NEW t \in Tabs, ConflictMine(t) \/ Abort(t)
    PROVE  LoopEnds(t)
<1>1. /\ TypeOK /\ DOMAIN Todo(t) # {} /\ flush[t].step = "wait" /\ reply[t] # None
      /\ DOMAIN flush = Tabs /\ FlushType(flush[t])
  BY DEF ConflictMine, Abort, Answered, IndInv, Exchanges, ExchangeOf, TypeOK, DeviceTypeOK
<1>2. /\ Current(t) \in DOMAIN Todo(t) /\ Current(t) \in DOMAIN queue
      /\ queue[Current(t)].method = Snapshot(t).method
  BY <1>1, OneMethod
<1>3. ConflictMine(t) => Snapshot(t).method # "POST"
  BY <1>1 DEF Refusals, SoundReply, ConflictMine, Answered
<1>4. PICK base, try, server :
         queue' = Amend(queue, Current(t), Revised(queue[Current(t)], base, try, "pending", server))
  BY DEF ConflictMine, Abort, Change
<1>5. /\ OthersKept({Current(t)}) /\ SameEdit(Current(t)) /\ queue'[Current(t)].status = "pending"
      /\ Current(t) \in DOMAIN queue'
  BY <1>2, <1>4, AmendKept
<1>6. CASE ConflictMine(t)
  <2>1. PICK todo : todo = Without(flush[t].todo, {Current(t)})
    OBVIOUS
  <2>2. flush' = [flush EXCEPT ![t].step = "next", ![t].todo = todo, ![t].retry = TRUE]
    BY <1>6, <2>1 DEF ConflictMine
  <2>3. flush'[t] = [step |-> "next", todo |-> todo, idMap |-> flush[t].idMap,
                     tokens |-> flush[t].tokens, retry |-> TRUE]
    BY <1>1, <2>2 DEF FlushType
  <2>4. Todo(t)' = Without(Todo(t), {Current(t)}) /\ ~InHands(t)'
    BY <2>1, <2>3 DEF Todo, InHands
  <2> QED
    BY <1>1, <1>2, <1>3, <1>5, <1>6, <2>4 DEF LoopEnds, InHands, SameEdit
<1>7. CASE Abort(t)
  <2>1. flush' = [flush EXCEPT ![t].step = "next", ![t].todo = Empty]
    BY <1>7 DEF Abort
  <2>2. flush'[t] = [step |-> "next", todo |-> Empty, idMap |-> flush[t].idMap,
                     tokens |-> flush[t].tokens, retry |-> flush[t].retry]
    BY <1>1, <2>1 DEF FlushType
  <2>3. Todo(t)' = Empty /\ ~InHands(t)'
    BY <2>2 DEF Todo, InHands
  <2> QED
    BY <1>1, <1>2, <1>5, <2>3 DEF LoopEnds, InHands
<1> QED
  BY <1>6, <1>7

(* The steps of the loop have one of the four forms. *)
LEMMA LoopForms ==
    ASSUME IndInv, TokenInv, Refusals, NEW t \in Tabs, FlushStep(t)
    PROVE  LoopSends(t) \/ LoopBegins(t) \/ LoopWorks(t) \/ LoopEnds(t)
BY ReplaysForm, FailUnresolvedForm, EndFlushForm, WorksForm, DequeueForm, RefusedForm, RequeuedForm
   DEF FlushStep

-----------------------------------------------------------------------------
(* The steps outside the loop. *)

(* Parked mutations go back, and parked or failed ones leave. *)
ParkedGoBack ==
    /\ DOMAIN queue' = DOMAIN queue
    /\ \A k \in DOMAIN queue :
          \/ queue'[k] = queue[k]
          \/ SameEdit(k) /\ queue[k].status = "conflict" /\ queue'[k].status = "pending"
EndedLeave ==
    /\ DOMAIN queue' \subseteq DOMAIN queue
    /\ \A k \in DOMAIN queue' : queue'[k] = queue[k]
    /\ \A k \in DOMAIN queue \ DOMAIN queue' : queue[k].status \in {"conflict", "failed"}
Enqueued ==
    /\ draft # None /\ draft' = None
    /\ queue' = Put(queue, draft.key, draft.mutation)

(* What the others do to the queue, and whether a pass begins. *)
MayBegin(t) ==
    \/ flush'[t] = flush[t]
    \/ ~InHands(t) /\ ~InHands(t)' /\ Todo(t)' = Restrict(queue', Pending(queue'))
OutsideStep ==
    \/ ParkedGoBack /\ \A t \in Tabs : MayBegin(t)
    \/ EndedLeave /\ flush' = flush
    \/ Enqueued /\ flush' = flush

(* A step that leaves the queue and the loops. *)
LEMMA SameForm ==
    ASSUME UNCHANGED <<queue, flush>>
    PROVE  ParkedGoBack /\ \A t \in Tabs : flush'[t] = flush[t]
BY DEF ParkedGoBack

(* Settling a parked conflict. *)
LEMMA ConflictForm ==
    ASSUME IndInv, OneTab, NEW t \in Tabs, ConflictStep(t)
    PROVE  OutsideStep
<1>1. PICK k \in DOMAIN queue : KeepMine(t, k) \/ KeepServer(k)
  BY DEF ConflictStep
<1>2. CASE KeepMine(t, k)
  <2>1. OthersKept({k}) /\ DOMAIN queue' = DOMAIN queue /\ SameEdit(k) /\ queue'[k].status = "pending"
    BY <1>1, <1>2, AmendKept DEF KeepMine
  <2>2. ParkedGoBack
    BY <1>2, <2>1 DEF ParkedGoBack, OthersKept, KeepMine
  <2>3. CASE Begin(t, queue') /\ flush[t].step = "idle"
    <3>1. PICK todo : todo = Restrict(queue', Pending(queue'))
      OBVIOUS
    <3>2. flush' = [flush EXCEPT ![t] = Loop("next", todo)] /\ DOMAIN flush = Tabs
      BY <2>3, <3>1 DEF Begin, IndInv, TypeOK, DeviceTypeOK
    <3>3. flush'[t].step = "next" /\ Todo(t)' = todo
      BY <3>2 DEF Loop, Todo
    <3>4. \A u \in Tabs : u = t
      BY DEF OneTab
    <3> QED
      BY <2>2, <2>3, <3>1, <3>3, <3>4 DEF OutsideStep, MayBegin, InHands
  <2>4. CASE flush' = flush
    BY <2>2, <2>4 DEF OutsideStep, MayBegin
  <2> QED
    BY <1>2, <2>3, <2>4 DEF KeepMine
<1>3. CASE KeepServer(k)
  <2>1. OthersKept({k}) /\ DOMAIN queue' = DOMAIN queue \ {k} /\ flush' = flush
    BY <1>3, WithoutKept DEF KeepServer
  <2> QED
    BY <1>3, <2>1 DEF OutsideStep, EndedLeave, OthersKept, KeepServer
<1> QED
  BY <1>1, <1>2, <1>3

(* What happens to a tab that is not reloaded. *)
LEMMA TabForm ==
    ASSUME IndInv, NEW t \in Tabs, TabStep(t), ~Reload(t)
    PROVE  LoopBegins(t) \/ OutsideStep
<1>1. CASE StartFlush(t)
  BY <1>1, EndFlushForm
<1>2. CASE GoOnline(t) \/ GoOffline(t) \/ ShowTrip(t)
  BY <1>2, SameForm DEF GoOnline, GoOffline, ShowTrip, OutsideStep, MayBegin
<1>3. CASE Evict(t)
  <2>1. PICK S : S = {k \in DOMAIN queue : queue[k].status = "failed"}
    OBVIOUS
  <2>2. queue' = Without(queue, S) /\ flush' = flush
    BY <1>3, <2>1 DEF Evict
  <2>3. OthersKept(S) /\ DOMAIN queue' = DOMAIN queue \ S
    BY <2>2, WithoutKept
  <2> QED
    BY <2>1, <2>2, <2>3 DEF OutsideStep, EndedLeave, OthersKept
<1> QED
  BY <1>1, <1>2, <1>3 DEF TabStep

(* Every step has one of the forms. *)
LEMMA StepForms ==
    ASSUME IndInv, TokenInv, Refusals, OneTab, Limit["reload"] = 0, [Next]_vars
    PROVE  \/ OutsideStep
           \/ \E t \in Tabs : LoopSends(t) \/ LoopBegins(t) \/ LoopWorks(t) \/ LoopEnds(t)
<1>1. CASE Enqueue
  BY <1>1 DEF Enqueue, OutsideStep, Enqueued
<1>2. CASE ServerStep \/ UNCHANGED vars
  BY <1>2, SameForm DEF ServerStep, deviceVars, vars, OutsideStep, MayBegin
<1>3. ASSUME NEW t \in Tabs, EditStep(t) PROVE OutsideStep
  BY <1>3, EditStepKeys, SameForm DEF IndInv, OutsideStep, MayBegin
<1>4. ASSUME NEW t \in Tabs, TabStep(t) PROVE ~Reload(t)
  BY DEF Reload, Spend, IndInv, TypeOK, ServerTypeOK, Faults
<1> QED
  BY <1>1, <1>2, <1>3, <1>4, LoopForms, ConflictForm, TabForm DEF Next

-----------------------------------------------------------------------------
(* The invariants that these forms keep. *)

(* Nothing is marked that the loop does not have in its hands. *)
LEMMA NextInFlight ==
    ASSUME IndInv, TokenInv, Refusals, InFlight, Targets, OneTab, Limit["reload"] = 0, [Next]_vars
    PROVE  InFlight'
<1>1. \A t, u \in Tabs : t = u
  BY DEF OneTab
<1>2. CASE OutsideStep
  <2>1. CASE ParkedGoBack /\ \A t \in Tabs :
               flush'[t] = flush[t] \/ (~InHands(t) /\ ~InHands(t)')
    <3>1. \A t \in Tabs : InHands(t)' => InHands(t) /\ Current(t)' = Current(t)
      BY <2>1 DEF InHands, Current, Todo
    <3>2. \A t \in Tabs : InHands(t) => InHands(t)'
      BY <2>1 DEF InHands
    <3> QED
      BY <2>1, <3>1, <3>2 DEF InFlight, ParkedGoBack
  <2>2. CASE flush' = flush /\ (EndedLeave \/ Enqueued)
    <3>1. \A t \in Tabs : (InHands(t)' <=> InHands(t)) /\ Current(t)' = Current(t)
      BY <2>2 DEF InHands, Current, Todo
    <3>2. CASE EndedLeave
      BY <3>1, <3>2 DEF InFlight, EndedLeave
    <3>3. CASE Enqueued
      <4>1. PICK d, m : d = draft.key /\ m = draft.mutation
        OBVIOUS
      <4>2. queue' = Put(queue, d, m) /\ draft # None
        BY <3>3, <4>1 DEF Enqueued
      <4>3. DOMAIN queue' = DOMAIN queue \cup {d} /\ queue'[d] = m
            /\ \A k \in DOMAIN queue : k # d => queue'[k] = queue[k]
        BY <4>2 DEF Put
      <4>4. /\ d \notin DOMAIN queue /\ \A t \in Tabs : d \notin DOMAIN Todo(t)
        BY <4>1, <4>2 DEF TokenInv, DraftFresh
      <4>5. \A t \in Tabs : InHands(t) => Current(t) # d
        BY <4>4, HeadInHand DEF InHands
      <4>6. m.status = "pending"
        BY <4>1, <4>2 DEF Targets
      <4> QED
        BY <3>1, <4>3, <4>4, <4>5, <4>6 DEF InFlight
    <3> QED
      BY <2>2, <3>2, <3>3
  <2> QED
    BY <1>2, <2>1, <2>2 DEF OutsideStep, MayBegin
<1>3. ASSUME NEW t \in Tabs, LoopSends(t) PROVE InFlight'
  <2>1. Current(t)' = Current(t)
    BY <1>3 DEF LoopSends, Current, Todo
  <2> QED
    BY <1>1, <1>3, <2>1 DEF LoopSends, InFlight, OthersKept
<1>4. ASSUME NEW t \in Tabs, LoopBegins(t) PROVE InFlight'
  BY <1>1, <1>4 DEF LoopBegins, InFlight
<1>5. ASSUME NEW t \in Tabs, LoopWorks(t) PROVE InFlight'
  <2>1. Current(t)' = Current(t)
    BY <1>5 DEF LoopWorks, Current, Todo
  <2> QED
    BY <1>1, <1>5, <2>1 DEF LoopWorks, InFlight
<1>6. ASSUME NEW t \in Tabs, LoopEnds(t) PROVE InFlight'
  BY <1>1, <1>6 DEF LoopEnds, InFlight, OthersKept
<1> QED
  BY <1>2, <1>3, <1>4, <1>5, <1>6, StepForms

(* A create leaves the loop executed or failed. *)
LEMMA NextFifo ==
    ASSUME IndInv, TokenInv, OrderInv, OneTab, Limit["reload"] = 0, [Next]_vars
    PROVE  Fifo'
<1>1. /\ \A t, u \in Tabs : t = u
      /\ Refusals /\ InFlight /\ \A t \in Tabs : FifoOf(t)
      /\ \A t \in Tabs : DOMAIN Todo(t) \subseteq DOMAIN queue /\ DOMAIN Todo(t) \subseteq Keys
      /\ DOMAIN queue \subseteq Keys /\ \A k \in DOMAIN queue : queue[k] \in Mutation
  BY DEF OneTab, OrderInv, Fifo, TokenInv, SnapshotFollows, Follows, IndInv, TypeOK, DeviceTypeOK,
     IsTable
<1>2. ASSUME NEW t \in Tabs, OutsideStep PROVE FifoOf(t)'
  <2>1. CASE Todo(t)' = Todo(t) /\ (ParkedGoBack \/ EndedLeave)
    <3>1. \A j \in DOMAIN queue' :
             /\ j \in DOMAIN queue
             /\ queue'[j].method = "POST" => queue'[j].status = queue[j].status
             /\ queue'[j].method = queue[j].method
      BY <1>1, <2>1 DEF ParkedGoBack, EndedLeave, SameEdit, Refusals, Sound
    <3> QED
      BY <1>1, <2>1, <3>1 DEF FifoOf
  <2>2. CASE Todo(t)' = Todo(t) /\ Enqueued
    <3>1. PICK d, m : d = draft.key /\ m = draft.mutation
      OBVIOUS
    <3>2. /\ DOMAIN queue' = DOMAIN queue \cup {d}
          /\ \A k \in DOMAIN queue : k # d => queue'[k] = queue[k]
      BY <2>2, <3>1 DEF Enqueued, Put
    <3>3. \A k \in DOMAIN queue : k < d
      BY <2>2, <3>1 DEF Enqueued, OrderInv, Targets
    <3>4. d \in Keys
      BY <2>2, <3>1 DEF Enqueued, IndInv, TypeOK, DeviceTypeOK, Draft
    <3> QED
      BY <1>1, <2>2, <3>2, <3>3, <3>4 DEF FifoOf, Keys
  <2>3. CASE ParkedGoBack /\ ~InHands(t) /\ Todo(t)' = Restrict(queue', Pending(queue'))
    <3>1. \A j \in DOMAIN queue' : queue'[j].status # "pending" /\ queue'[j].method = "POST"
                                    => queue'[j].status = "failed"
      BY <1>1, <2>3 DEF ParkedGoBack, SameEdit, Refusals, Sound, InFlight, Mutation
    <3> QED
      BY <2>3, <3>1 DEF FifoOf, Restrict, Pending
  <2>4. flush'[t] = flush[t] => Todo(t)' = Todo(t)
    BY DEF Todo
  <2>5. ASSUME ParkedGoBack, MayBegin(t)
        PROVE  FifoOf(t)'
    <3>1. CASE flush'[t] = flush[t]
      BY <2>1, <2>4, <2>5, <3>1
    <3>2. CASE ~InHands(t) /\ Todo(t)' = Restrict(queue', Pending(queue'))
      BY <2>3, <2>5, <3>2
    <3> QED
      BY <2>5, <3>1, <3>2 DEF MayBegin
  <2>6. CASE flush' = flush /\ (EndedLeave \/ Enqueued)
    BY <2>1, <2>2, <2>4, <2>6
  <2> QED
    BY <1>2, <2>5, <2>6 DEF OutsideStep
<1>3. ASSUME NEW t \in Tabs, LoopSends(t) PROVE FifoOf(t)'
  BY <1>1, <1>3 DEF LoopSends, FifoOf, OthersKept, SameEdit
<1>4. ASSUME NEW t \in Tabs, LoopBegins(t) PROVE FifoOf(t)'
  <2>1. CASE Todo(t)' = Empty
    BY <2>1, EmptyTable DEF FifoOf
  <2>2. CASE Todo(t)' = Restrict(queue', Pending(queue'))
    <3>1. \A j \in DOMAIN queue : queue[j].status # "pending" /\ queue[j].method = "POST"
                                    => queue[j].status = "failed"
      BY <1>1, <1>4 DEF LoopBegins, Refusals, Sound, InFlight, Mutation
    <3> QED
      BY <1>4, <2>2, <3>1 DEF LoopBegins, FifoOf, Restrict, Pending
  <2> QED
    BY <1>4, <2>1, <2>2 DEF LoopBegins
<1>5. ASSUME NEW t \in Tabs, LoopWorks(t) PROVE FifoOf(t)'
  BY <1>1, <1>5 DEF LoopWorks, FifoOf
<1>6. ASSUME NEW t \in Tabs, LoopEnds(t) PROVE FifoOf(t)'
  <2>1. CASE Todo(t)' = Empty
    BY <2>1, EmptyTable DEF FifoOf
  <2>2. CASE Todo(t)' # Empty
    <3>1. DOMAIN Todo(t)' = DOMAIN Todo(t) \ {Current(t)}
      BY <1>6, <2>2 DEF LoopEnds, Without, Restrict
    <3> QED
      BY <1>1, <1>6, <2>2, <3>1 DEF LoopEnds, FifoOf, OthersKept, SameEdit
  <2> QED
    BY <2>1, <2>2
<1> QED
  BY <1>1, <1>2, <1>3, <1>4, <1>5, <1>6, StepForms DEF Fifo

(* The queue holds no create in conflict, and nothing on its way or parked *)
(* that has a placeholder.                                                 *)
LEMMA NextSound ==
    ASSUME IndInv, TokenInv, OrderInv, OneTab, Limit["reload"] = 0, [Next]_vars
    PROVE  \A k \in DOMAIN queue' : Sound(queue'[k])
<1>1. /\ \A t, u \in Tabs : t = u
      /\ Refusals /\ InFlight /\ \A k \in DOMAIN queue : Sound(queue[k])
      /\ \A k \in DOMAIN queue : queue[k] \in Mutation
  BY DEF OneTab, OrderInv, Refusals, IndInv, TypeOK, DeviceTypeOK, IsTable
<1>2. ASSUME OutsideStep PROVE \A k \in DOMAIN queue' : Sound(queue'[k])
  <2>1. CASE ParkedGoBack
    BY <1>1, <2>1 DEF ParkedGoBack, Sound, SameEdit
  <2>2. CASE EndedLeave
    BY <1>1, <2>2 DEF EndedLeave
  <2>3. CASE Enqueued
    <3>1. PICK d, m : d = draft.key /\ m = draft.mutation
      OBVIOUS
    <3>2. m.status = "pending" /\ queue' = Put(queue, d, m)
      BY <2>3, <3>1 DEF Enqueued, OrderInv, Targets
    <3>3. /\ DOMAIN queue' = DOMAIN queue \cup {d} /\ queue'[d] = m
          /\ \A k \in DOMAIN queue : k # d => queue'[k] = queue[k]
      BY <3>2 DEF Put
    <3> QED
      BY <1>1, <3>2, <3>3 DEF Sound
  <2> QED
    BY <1>2, <2>1, <2>2, <2>3 DEF OutsideStep
<1>3. ASSUME NEW t \in Tabs, LoopSends(t) PROVE \A k \in DOMAIN queue' : Sound(queue'[k])
  <2>1. Sound(queue'[Current(t)])
    BY <1>3 DEF LoopSends, SameEdit, Sound
  <2> QED
    BY <1>1, <1>3, <2>1 DEF LoopSends, OthersKept
<1>4. ASSUME NEW t \in Tabs, LoopBegins(t) PROVE \A k \in DOMAIN queue' : Sound(queue'[k])
  BY <1>1, <1>4 DEF LoopBegins
<1>5. ASSUME NEW t \in Tabs, LoopWorks(t) PROVE \A k \in DOMAIN queue' : Sound(queue'[k])
  <2>1. ASSUME NEW k \in DOMAIN queue PROVE Sound(queue'[k])
    <3>1. CASE queue'[k].target = queue[k].target
      BY <1>1, <1>5, <3>1 DEF LoopWorks, Sound
    <3>2. CASE queue'[k].target # queue[k].target
      BY <1>5, <3>2 DEF LoopWorks, Sound
    <3> QED
      BY <3>1, <3>2
  <2> QED
    BY <1>5, <2>1 DEF LoopWorks
<1>6. ASSUME NEW t \in Tabs, LoopEnds(t) PROVE \A k \in DOMAIN queue' : Sound(queue'[k])
  <2>1. ASSUME Current(t) \in DOMAIN queue' PROVE Sound(queue'[Current(t)])
    <3>1. /\ SameEdit(Current(t)) /\ Current(t) \in DOMAIN queue
          /\ queue'[Current(t)].status \in {"pending", "failed", "conflict"}
          /\ queue'[Current(t)].status = "conflict" => InHands(t) /\ queue'[Current(t)].method # "POST"
      BY <1>6, <2>1 DEF LoopEnds, OthersKept
    <3>2. InHands(t) => queue[Current(t)].status = "syncing"
      BY <1>1, <3>1 DEF InFlight
    <3> QED
      BY <1>1, <3>1, <3>2 DEF Sound, SameEdit
  <2> QED
    BY <1>1, <1>6, <2>1 DEF LoopEnds, OthersKept
<1> QED
  BY <1>1, <1>2, <1>3, <1>4, <1>5, <1>6, StepForms

(* The loop keeps what it has in its hands until it lets go of it.         *)
LEMMA HandsKept ==
    ASSUME IndInv, TokenInv, Refusals, OneTab, Limit["reload"] = 0, [Next]_vars,
           NEW t \in Tabs, InHands(t), InHands(t)'
    PROVE  Todo(t)' = Todo(t)
<1>1. \A u \in Tabs : u = t
  BY DEF OneTab
<1>2. CASE OutsideStep
  <2>1. flush'[t] = flush[t] => Todo(t)' = Todo(t)
    BY DEF Todo
  <2> QED
    BY <1>2, <2>1 DEF OutsideStep, MayBegin
<1>3. CASE LoopSends(t) \/ LoopBegins(t) \/ LoopWorks(t) \/ LoopEnds(t)
  BY <1>3 DEF LoopSends, LoopBegins, LoopWorks, LoopEnds
<1> QED
  BY <1>1, <1>2, <1>3, StepForms

(* An answer that is there is to the mutation in hand.                     *)
LEMMA ReplyInHand ==
    ASSUME IndInv, NEW t \in Tabs, reply[t] # None
    PROVE  InHands(t) /\ DOMAIN Todo(t) # {}
BY DEF IndInv, Exchanges, ExchangeOf, InHands

(* What the server answers to a request that is awaited.                   *)
LEMMA ServerAnswers ==
    ASSUME IndInv, ServerStep, NEW t \in Tabs, reply'[t] # reply[t], reply'[t] # None
    PROVE  \/ reply'[t].status \in {"ok", "lost"}
           \/ \E q \in wire :
                 /\ open[t] = q /\ q.key = Current(t) /\ q.method = Snapshot(t).method
                 /\ \/ Deny(q) /\ reply'[t].status = "denied"
                    \/ Refuse(q) /\ reply'[t] = Refusal(q)
<1>1. /\ DOMAIN reply = Tabs /\ wire \subseteq Request /\ \A k \in DOMAIN keys : keys[k].status = "ok"
      /\ KeysIssued
  BY DEF IndInv, TypeOK, ServerTypeOK, OkMeansExecuted
<1>2. CASE \E u \in Tabs : GiveUp(u)
  BY <1>1, <1>2 DEF GiveUp, Bare
<1>3. CASE CollabUpdate \/ CollabDelete \/ PurgeKey
  BY <1>3 DEF CollabUpdate, CollabDelete, PurgeKey
<1>4. CASE \E q \in wire : Serve(q)
  <2>1. PICK q \in wire : Serve(q)
    BY <1>4
  <2>2. PICK r : /\ Answer(q, r)
                 /\ \/ r.status \in {"ok", "lost"}
                    \/ Deny(q) /\ r.status = "denied"
                    \/ Refuse(q) /\ r = Refusal(q)
    <3>1. Bare("denied").status = "denied" /\ Bare("lost").status = "lost" /\ Success(q).status = "ok"
      <4>1. q.method \in Methods
        BY <1>1 DEF Request
      <4> QED
        BY <4>1 DEF Bare, Success, Methods
    <3>2. CASE Deny(q)
      BY <3>1, <3>2 DEF Deny
    <3>3. CASE Replay(q)
      BY <1>1, <3>3 DEF Replay
    <3>4. CASE ExecuteAndStore(q)
      BY <3>1, <3>4 DEF ExecuteAndStore
    <3>5. CASE Refuse(q)
      BY <3>5 DEF Refuse
    <3>6. CASE ExecuteAndCrash(q)
      BY <3>1, <3>6 DEF ExecuteAndCrash
    <3> QED
      BY <2>1, <3>2, <3>3, <3>4, <3>5, <3>6 DEF Serve
  <2>3. open[t] = q /\ reply'[t] = r
    <3>1. reply' = [u \in Tabs |-> IF open[u] = q THEN r ELSE reply[u]]
      BY <2>2 DEF Answer
    <3> QED
      BY <3>1
  <2>4. q.key = Current(t) /\ DOMAIN Todo(t) # {}
    BY <1>1, <2>3, NoneAssumption DEF IndInv, Exchanges, ExchangeOf
  <2>5. q.method = Snapshot(t).method
    <3>1. PICK mm \in [Keys -> Methods] : Agree(mm)
      BY DEF IndInv, MethodsAgree
    <3>2. Current(t) \in DOMAIN Todo(t)
      BY <2>4, HeadType DEF IndInv
    <3> QED
      BY <2>4, <3>1, <3>2 DEF Agree, Snapshot
  <2> QED
    BY <2>2, <2>3, <2>4, <2>5
<1> QED
  BY <1>2, <1>3, <1>4 DEF ServerStep

(* An answer is a refusal only of what can be refused. *)
LEMMA NextSoundReply ==
    ASSUME IndInv, IndInv', TokenInv, OrderInv, OneTab, Limit["reload"] = 0, [Next]_vars, NEW t \in Tabs
    PROVE  SoundReply(t)'
<1>1. SUFFICES ASSUME reply'[t] # None PROVE SoundReply(t)'
  BY DEF SoundReply
<1>2. CASE reply'[t] = reply[t]
  <2>1. InHands(t) /\ InHands(t)'
    BY <1>1, <1>2, ReplyInHand DEF IndInv, Exchanges, ExchangeOf, InHands
  <2>2. Todo(t)' = Todo(t)
    BY <2>1, HandsKept DEF OrderInv
  <2>3. Snapshot(t)' = Snapshot(t)
    BY <2>2 DEF Snapshot, Current
  <2> QED
    BY <1>2, <2>3 DEF SoundReply, OrderInv, Refusals
<1>3. CASE reply'[t] # reply[t]
  <2>1. ServerStep
    BY <1>1, <1>3, DeviceReplies
  <2>2. Snapshot(t)' = Snapshot(t)
    BY <2>1 DEF ServerStep, deviceVars, Snapshot, Current, Todo
  <2>3. CASE reply'[t].status \in {"ok", "lost", "denied"}
    BY <2>3 DEF SoundReply
  <2>4. ASSUME NEW q \in wire, q.method = Snapshot(t).method, Refuse(q), reply'[t] = Refusal(q)
        PROVE  SoundReply(t)'
    <3>1. q.method # "POST"
      BY <2>4 DEF Refuse, Refuses
    <3>2. q.row \in DOMAIN rows => q.row >= 0
      BY DEF IndInv, TypeOK, ServerTypeOK, IsTable
    <3>3. Refusal(q).status = "conflict" => Refusal(q).id >= 0
      BY <3>2 DEF Refusal, Bare
    <3> QED
      BY <2>2, <2>4, <3>1, <3>3 DEF SoundReply
  <2> QED
    BY <1>1, <1>3, <2>1, <2>3, <2>4, ServerAnswers
<1> QED
  BY <1>2, <1>3

(* A create stays a create: its key is never given to anything else.       *)
LEMMA CreatesStay ==
    ASSUME IndInv, TokenInv, [Next]_vars, NEW k, CreateKey(k)
    PROVE  CreateKey(k)'
<1>1. /\ TypeOK /\ KeysIssued /\ nextKey \in Nat /\ k \in Nat
      /\ k \in 1..(nextKey - 1)
      /\ k \in DOMAIN queue => queue[k].method = "POST"
      /\ Drafting(k) => draft.mutation.method = "POST"
      /\ \A q \in wire : q.key = k => q.method = "POST"
  BY DEF IndInv, TypeOK, DeviceTypeOK, CreateKey
<1>2. CASE Enqueue
  <2>1. PICK d, m : d = draft.key /\ m = draft.mutation
    OBVIOUS
  <2>2. /\ queue' = Put(queue, d, m) /\ draft # None /\ draft' = None /\ nextKey' = nextKey
        /\ wire' = wire
    BY <1>2, <2>1 DEF Enqueue, serverVars
  <2>3. k \in DOMAIN queue' => IF k = d THEN queue'[k] = m ELSE k \in DOMAIN queue /\ queue'[k] = queue[k]
    BY <2>2 DEF Put
  <2> QED
    BY <1>1, <2>1, <2>2, <2>3 DEF CreateKey, Drafting
<1>3. CASE ServerStep \/ UNCHANGED vars
  <2>1. wire' \subseteq wire
    BY <1>1, <1>3, ServerStepKeys DEF vars, serverVars
  <2> QED
    BY <1>1, <1>3, <2>1 DEF ServerStep, vars, deviceVars, CreateKey, Drafting
<1>4. ASSUME NEW t \in Tabs, EditStep(t) PROVE CreateKey(k)'
  <2>1. /\ queue' = queue /\ nextKey' = nextKey + 1 /\ (draft' = draft \/ draft'.key = nextKey)
        /\ wire' = wire
    BY <1>1, <1>4, EditStepKeys
  <2> QED
    BY <1>1, <2>1 DEF CreateKey, Drafting
<1>5. ASSUME NEW t \in Tabs, FlushStep(t) \/ ConflictStep(t) \/ TabStep(t) PROVE CreateKey(k)'
  <2>1. KeepsMethods(queue, queue') /\ nextKey' = nextKey /\ draft' \in {draft, None}
    BY <1>1, <1>5, FlushStepKeys, ConflictStepKeys, TabStepKeys
  <2>2. ASSUME NEW q \in wire', q.key = k PROVE q.method = "POST"
    <3>1. CASE q \in wire
      BY <1>1, <2>2, <3>1
    <3>2. CASE q \notin wire
      <4>1. q.key \in DOMAIN Todo(t) /\ q.method = Todo(t)[q.key].method
        BY <1>1, <1>5, <3>2, FlushStepKeys, ConflictStepKeys, TabStepKeys DEF serverVars
      <4>2. q.key \in DOMAIN queue
        BY <4>1 DEF TokenInv, SnapshotFollows, Follows
      <4>3. PICK mm \in [Keys -> Methods] : Agree(mm)
        BY DEF IndInv, MethodsAgree
      <4> QED
        BY <1>1, <2>2, <4>1, <4>2, <4>3 DEF Agree
    <3> QED
      BY <3>1, <3>2
  <2> QED
    BY <1>1, <2>1, <2>2 DEF CreateKey, Drafting, KeepsMethods
<1> QED
  BY <1>2, <1>3, <1>4, <1>5 DEF Next

(* The ids the page caches and shows after a step. *)
Known(id) == id \in Nat \/ id \in DOMAIN cache \/ \E t \in Tabs : id \in view[t]
Shown(ids) == \A id \in ids : Known(id) \/ CreateKey(-id)'

(* A device step shows and caches what was known, and the temporary row of *)
(* a new create.                                                           *)
LEMMA EditShows ==
    ASSUME IndInv, NEW t \in Tabs, EditStep(t)
    PROVE  Shown(DOMAIN cache') /\ \A u \in Tabs : Shown(view'[u])
<1>1. /\ TypeOK /\ DOMAIN view = Tabs /\ nextId \in Nat /\ nextKey \in Nat
      /\ DOMAIN queue \subseteq 1..(nextKey - 1) /\ \A q \in wire : q.key \in 1..(nextKey - 1)
      /\ \A id \in DOMAIN cache : Known(id)
      /\ \A u \in Tabs : \A id \in view[u] : Known(id)
  BY DEF IndInv, TypeOK, DeviceTypeOK, ServerTypeOK, KeysIssued, Known
<1>2. CASE CreateOffline(t)
  <2>1. PICK id : id = -nextKey
    OBVIOUS
  <2>2. CreateKey(-id)'
    <3>1. /\ nextKey' = nextKey + 1 /\ queue' = queue /\ nextKey \in Keys /\ -id = nextKey
          /\ draft'.mutation.method = "POST" /\ wire' = wire
      BY <1>1, <1>2, <2>1 DEF CreateOffline, Drafted, CanDraft, serverVars
    <3> QED
      BY <1>1, <3>1 DEF CreateKey, Drafting, Keys
  <2>3. DOMAIN cache' = DOMAIN cache \cup {id} /\ \A u \in Tabs : view'[u] \subseteq view[u] \cup {id}
    BY <1>1, <1>2, <2>1 DEF CreateOffline, Put
  <2> QED
    BY <1>1, <2>2, <2>3 DEF Shown
<1>3. ASSUME NEW id \in view[t], UpdateOffline(t, id) \/ DeleteOffline(t, id) \/ UpdateOnline(t, id)
                                  \/ DeleteOnline(t, id)
      PROVE  Shown(DOMAIN cache') /\ \A u \in Tabs : Shown(view'[u])
  <2>1. /\ DOMAIN cache' \subseteq DOMAIN cache \cup {id}
        /\ \A u \in Tabs : view'[u] \subseteq view[u]
    BY <1>1, <1>3 DEF UpdateOffline, DeleteOffline, UpdateOnline, DeleteOnline, Put, Without, Restrict
  <2> QED
    BY <1>1, <2>1 DEF Shown
<1>4. CASE CreateOnline(t)
  <2>1. PICK id : id = nextId
    OBVIOUS
  <2>2. DOMAIN cache' = DOMAIN cache \cup {id} /\ \A u \in Tabs : view'[u] \subseteq view[u] \cup {id}
    BY <1>1, <1>4, <2>1 DEF CreateOnline, Put
  <2>3. Known(id)
    BY <1>1, <2>1 DEF Known
  <2> QED
    BY <1>1, <2>2, <2>3 DEF Shown
<1> QED
  BY <1>2, <1>3, <1>4 DEF EditStep

(* So do the steps of the loop, the conflicts and the tabs.                *)
LEMMA OtherShows ==
    ASSUME IndInv, Refusals, NEW t \in Tabs, FlushStep(t) \/ ConflictStep(t) \/ TabStep(t)
    PROVE  /\ DOMAIN cache' \subseteq DOMAIN cache \cup Nat
           /\ \A u \in Tabs : view'[u] \subseteq view[u] \cup DOMAIN cache \cup Nat
<1>1. TypeOK /\ DOMAIN view = Tabs /\ DOMAIN rows \subseteq Nat
  BY DEF IndInv, TypeOK, DeviceTypeOK, ServerTypeOK, IsTable
<1>2. CASE Replays(t) \/ FailUnresolved(t) \/ EndFlush(t) \/ Dequeue(t) \/ ConflictMine(t)
           \/ ConflictAsk(t) \/ Abort(t)
  BY <1>1, <1>2 DEF Replays, FailUnresolved, EndFlush, Dequeue, ConflictMine, ConflictAsk, Abort
<1>3. CASE Remap(t) \/ Undisplay(t) \/ Reject(t)
  BY <1>1, <1>3 DEF Remap, Undisplay, Reject, Without, Restrict
<1>4. CASE StoreEntity(t)
  <2>1. PICK id : id = reply[t].id
    OBVIOUS
  <2>2. id \in Nat \ {0} /\ DOMAIN cache' = DOMAIN cache \cup {id} /\ view' = view
    BY <1>4, <2>1, AnswerCarriesRow DEF StoreEntity, CarriesRow, Put
  <2> QED
    BY <1>1, <2>2
<1>5. ASSUME NEW id \in Nat, NEW entity, AdoptServer(id, entity)
      PROVE  DOMAIN cache' \subseteq DOMAIN cache \cup Nat
  BY <1>5 DEF AdoptServer, Put
<1>6. CASE ConflictTheirs(t)
  <2>1. reply[t].id \in Nat
    BY <1>1, <1>6 DEF ConflictTheirs, Answered, Refusals, SoundReply, TypeOK, ServerTypeOK, Response
  <2> QED
    BY <1>5, <1>6, <2>1 DEF ConflictTheirs
<1>7. CASE ConflictStep(t)
  <2>1. PICK k \in DOMAIN queue : KeepMine(t, k) \/ KeepServer(k)
    BY <1>7 DEF ConflictStep
  <2>2. CASE KeepMine(t, k)
    BY <1>1, <2>2 DEF KeepMine
  <2>3. CASE KeepServer(k)
    <3>1. queue[k].target \in Nat
      <4>1. queue[k] \in Mutation
        BY <1>1, <2>1 DEF TypeOK, DeviceTypeOK, IsTable
      <4> QED
        BY <2>1, <2>3, <4>1 DEF KeepServer, Refusals, Sound, Mutation
    <3> QED
      BY <1>5, <2>3, <3>1 DEF KeepServer
  <2> QED
    BY <2>1, <2>2, <2>3
<1>8. CASE StartFlush(t) \/ GoOnline(t) \/ GoOffline(t)
  BY <1>1, <1>8 DEF StartFlush, GoOnline, GoOffline
<1>9. CASE ShowTrip(t) \/ Evict(t) \/ Reload(t)
  <2>1. DOMAIN cache' \subseteq DOMAIN cache \cup DOMAIN rows
    BY <1>9, EmptyTable DEF ShowTrip, Evict, Reload, PutAll
  <2>2. \A u \in Tabs : view'[u] \subseteq view[u] \cup DOMAIN cache \cup DOMAIN rows
    BY <1>1, <1>9 DEF ShowTrip, Evict, Reload
  <2> QED
    BY <1>1, <2>1, <2>2
<1> QED
  BY <1>2, <1>3, <1>4, <1>6, <1>7, <1>8, <1>9 DEF FlushStep, TabStep

(* A temporary row is always that of a create. *)
LEMMA NextTempRows ==
    ASSUME IndInv, TokenInv, OrderInv, [Next]_vars
    PROVE  TempRows'
<1>1. /\ TypeOK /\ TempRows /\ Refusals /\ DOMAIN cache \subseteq Int
      /\ \A t \in Tabs : view[t] \subseteq Int
  BY DEF IndInv, TypeOK, DeviceTypeOK, OrderInv, IsTable
<1>2. Shown(DOMAIN cache') /\ \A u \in Tabs : Shown(view'[u])
  <2>1. CASE Enqueue \/ ServerStep \/ UNCHANGED vars
    BY <2>1 DEF Enqueue, ServerStep, vars, deviceVars, Shown, Known
  <2>2. ASSUME NEW t \in Tabs, FlushStep(t) \/ ConflictStep(t) \/ TabStep(t)
        PROVE  Shown(DOMAIN cache') /\ \A u \in Tabs : Shown(view'[u])
    BY <1>1, <2>2, OtherShows DEF Shown, Known
  <2> QED
    BY <1>1, <2>1, <2>2, EditShows DEF Next
<1>3. ASSUME NEW id, Known(id) \/ CreateKey(-id)', id < 0 PROVE CreateKey(-id)'
  <2>1. CASE Known(id)
    <3>1. id \in Int
      BY <1>1, <2>1 DEF Known
    <3>2. CreateKey(-id)
      BY <1>1, <1>3, <2>1, <3>1 DEF TempRows, Temporary, Known
    <3> QED
      BY <3>2, CreatesStay
  <2> QED
    BY <1>3, <2>1
<1> QED
  BY <1>2, <1>3 DEF TempRows, Temporary, Shown

(* An edit that came after its create still does. *)
LEMMA AfterCreateStays ==
    ASSUME IndInv, TokenInv, [Next]_vars, NEW k \in Keys, NEW m, AfterCreate(k, m),
           NEW n, n.method = m.method, n.target = m.target \/ n.target \in Nat
    PROVE  AfterCreate(k, n)'
<1>1. CASE n.target = m.target
  <2>1. PICK id : id = m.target
    OBVIOUS
  <2>2. Temporary(id) => Temporary(id)'
    BY CreatesStay DEF Temporary
  <2> QED
    BY <1>1, <2>1, <2>2 DEF AfterCreate, Temporary
<1>2. CASE n.target \in Nat
  BY <1>2 DEF AfterCreate, Temporary, Keys
<1> QED
  BY <1>1, <1>2

(* The queue's edits come after their creates. *)
LEMMA NextQueueTargets ==
    ASSUME IndInv, TokenInv, OrderInv, OneTab, Limit["reload"] = 0, [Next]_vars
    PROVE  \A k \in DOMAIN queue' : AfterCreate(k, queue[k])'
<1>1. /\ Refusals /\ DOMAIN queue \subseteq Keys
      /\ \A k \in DOMAIN queue : AfterCreate(k, queue[k])
      /\ draft # None => draft.key \in Keys /\ AfterCreate(draft.key, draft.mutation)
  BY DEF OrderInv, Targets, IndInv, TypeOK, DeviceTypeOK, IsTable, Draft
<1>2. ASSUME NEW k \in DOMAIN queue, k \in DOMAIN queue',
             queue'[k].method = queue[k].method,
             queue'[k].target = queue[k].target \/ queue'[k].target \in Nat
      PROVE  AfterCreate(k, queue[k])'
  <2>1. PICK n : n = queue'[k]
    OBVIOUS
  <2>2. AfterCreate(k, n)'
    BY <1>1, <1>2, <2>1, AfterCreateStays
  <2> QED
    BY <2>1, <2>2 DEF AfterCreate
<1>3. CASE OutsideStep
  <2>1. CASE ParkedGoBack
    BY <1>2, <2>1 DEF ParkedGoBack, SameEdit
  <2>2. CASE EndedLeave
    BY <1>2, <2>2 DEF EndedLeave
  <2>3. CASE Enqueued
    <3>1. PICK d, m : d = draft.key /\ m = draft.mutation
      OBVIOUS
    <3>2. draft # None /\ queue' = Put(queue, d, m)
      BY <2>3, <3>1 DEF Enqueued
    <3>3. AfterCreate(d, m)'
      BY <1>1, <3>1, <3>2, AfterCreateStays
    <3>4. /\ DOMAIN queue' = DOMAIN queue \cup {d} /\ queue'[d] = m
          /\ \A k \in DOMAIN queue : k # d => queue'[k] = queue[k]
      BY <3>2 DEF Put
    <3>5. AfterCreate(d, queue[d])'
      BY <3>3, <3>4 DEF AfterCreate
    <3> QED
      BY <1>2, <3>4, <3>5
  <2> QED
    BY <1>3, <2>1, <2>2, <2>3 DEF OutsideStep
<1>4. ASSUME NEW t \in Tabs, LoopSends(t) \/ LoopBegins(t) \/ LoopWorks(t) \/ LoopEnds(t),
             NEW k \in DOMAIN queue'
      PROVE  AfterCreate(k, queue[k])'
  <2>1. k \in DOMAIN queue
    BY <1>4 DEF LoopSends, LoopBegins, LoopWorks, LoopEnds, OthersKept
  <2>2. /\ queue'[k].method = queue[k].method
        /\ queue'[k].target = queue[k].target \/ queue'[k].target \in Nat
    BY <1>4, <2>1 DEF LoopSends, LoopBegins, LoopWorks, LoopEnds, OthersKept, SameEdit
  <2> QED
    BY <1>2, <1>4, <2>1, <2>2
<1> QED
  BY <1>1, <1>3, <1>4, StepForms

(* A new draft is for a row that is shown. *)
LEMMA DraftedTarget ==
    ASSUME IndInv, TempRows, NEW t \in Tabs, EditStep(t), draft' # draft
    PROVE  /\ draft'.key = nextKey /\ draft'.mutation.status = "pending"
           /\ draft'.mutation.method # "POST" =>
                draft'.mutation.target \in Int /\ Temporary(draft'.mutation.target)
<1>1. \A u \in Tabs : view[u] \subseteq Int
  BY DEF IndInv, TypeOK, DeviceTypeOK
<1>2. ASSUME NEW method, NEW target, NEW base, Drafted(t, method, target, base)
      PROVE  /\ draft'.key = nextKey /\ draft'.mutation.status = "pending"
             /\ draft'.mutation.method = method /\ draft'.mutation.target = target
  BY <1>2 DEF Drafted
<1>3. CASE CreateOffline(t)
  BY <1>2, <1>3 DEF CreateOffline
<1>4. ASSUME NEW id \in view[t], UpdateOffline(t, id) \/ DeleteOffline(t, id)
      PROVE  /\ draft'.key = nextKey /\ draft'.mutation.status = "pending"
             /\ draft'.mutation.target = id
  BY <1>2, <1>4 DEF UpdateOffline, DeleteOffline
<1>5. ~CreateOnline(t) /\ \A id \in view[t] : ~UpdateOnline(t, id) /\ ~DeleteOnline(t, id)
  BY DEF CreateOnline, UpdateOnline, DeleteOnline, EditOnline
<1>6. CASE \E id \in view[t] : UpdateOffline(t, id) \/ DeleteOffline(t, id)
  <2>1. PICK id \in view[t] : UpdateOffline(t, id) \/ DeleteOffline(t, id)
    BY <1>6
  <2> QED
    BY <1>1, <1>4, <2>1 DEF TempRows
<1> QED
  BY <1>3, <1>5, <1>6 DEF EditStep

(* Every edit comes after its create, and a draft last. *)
LEMMA NextTargets ==
    ASSUME IndInv, TokenInv, OrderInv, OneTab, Limit["reload"] = 0, [Next]_vars
    PROVE  Targets'
<1>1. /\ TypeOK /\ Targets /\ TempRows /\ DOMAIN queue \subseteq 1..(nextKey - 1) /\ nextKey \in Nat
      /\ draft # None => draft.key \in Keys
  BY DEF IndInv, TypeOK, DeviceTypeOK, OrderInv, KeysIssued, Draft
<1>2. SUFFICES ASSUME draft' # None
               PROVE  /\ AfterCreate(draft.key, draft.mutation)'
                      /\ draft'.mutation.status = "pending"
                      /\ \A k \in DOMAIN queue' : k < draft'.key
  BY NextQueueTargets DEF Targets
<1>3. ~Enqueue
  BY <1>2 DEF Enqueue
<1>4. CASE draft' = draft
  <2>1. AfterCreate(draft.key, draft.mutation)'
    <3>1. PICK d, m : d = draft.key /\ m = draft.mutation
      OBVIOUS
    <3>2. AfterCreate(d, m)'
      BY <1>1, <1>2, <1>4, <3>1, AfterCreateStays DEF Targets
    <3> QED
      BY <1>4, <3>1, <3>2 DEF AfterCreate
  <2>2. DOMAIN queue' \subseteq DOMAIN queue
    BY <1>1, <1>3, FlushStepKeys, ConflictStepKeys, TabStepKeys, EditStepKeys
       DEF Next, KeepsMethods, ServerStep, vars, deviceVars
  <2> QED
    BY <1>1, <1>2, <1>4, <2>1, <2>2 DEF Targets
<1>5. CASE draft' # draft
  <2>1. PICK t \in Tabs : EditStep(t)
    <3>1. ASSUME NEW t \in Tabs, FlushStep(t) \/ ConflictStep(t) \/ TabStep(t) PROVE draft' \in {draft, None}
      BY <1>1, <3>1, FlushStepKeys, ConflictStepKeys, TabStepKeys
    <3> QED
      BY <1>2, <1>3, <1>5, <3>1 DEF Next, ServerStep, vars, deviceVars
  <2>2. PICK d, m : d = draft'.key /\ m = draft'.mutation
    OBVIOUS
  <2>3. d = nextKey /\ m.status = "pending" /\ queue' = queue /\ nextKey \in Keys
    BY <1>1, <1>5, <2>1, <2>2, DraftedTarget, EditStepKeys
  <2>4. AfterCreate(d, m)'
    <3>1. m.method # "POST" => m.target \in Int /\ Temporary(m.target)
      BY <1>1, <1>5, <2>1, <2>2, DraftedTarget
    <3>2. PICK id : id = m.target
      OBVIOUS
    <3>3. m.method # "POST" => Temporary(id)' /\ -id < d
      <4>1. ASSUME m.method # "POST", id < 0 PROVE CreateKey(-id)' /\ -id < nextKey
        <5>1. PICK c : c = -id
          OBVIOUS
        <5>2. CreateKey(c)
          BY <3>1, <3>2, <4>1, <5>1 DEF Temporary
        <5>3. CreateKey(c)'
          BY <5>2, CreatesStay
        <5>4. c < nextKey
          BY <1>1, <5>2 DEF CreateKey
        <5> QED
          BY <5>1, <5>3, <5>4
      <4>2. m.method # "POST" => id \in Int
        BY <3>1, <3>2
      <4> QED
        BY <1>1, <2>3, <4>1, <4>2 DEF Temporary, Keys
    <3> QED
      BY <3>2, <3>3 DEF AfterCreate, Temporary
  <2>5. AfterCreate(draft.key, draft.mutation)'
    BY <2>2, <2>4 DEF AfterCreate
  <2> QED
    BY <1>1, <2>2, <2>3, <2>5
<1> QED
  BY <1>4, <1>5

-----------------------------------------------------------------------------
(* The invariant of the order. *)

(* Every step keeps the order. *)
LEMMA NextOrderInv ==
    ASSUME IndInv, IndInv', TokenInv, OrderInv, OneTab, Limit["reload"] = 0, [Next]_vars
    PROVE  OrderInv'
<1>1. Refusals'
  BY NextSound, NextSoundReply DEF Refusals
<1> QED
  BY <1>1, NextInFlight, NextTempRows, NextTargets, NextFifo DEF OrderInv

(* It holds of a device that has nothing to do. *)
LEMMA InitOrderInv == Init => OrderInv
<1> SUFFICES ASSUME Init PROVE OrderInv
  OBVIOUS
<1>1. /\ DOMAIN cache = InitRows /\ queue = Empty /\ draft = None
      /\ \A t \in Tabs : reply[t] = None /\ view[t] = InitRows
                         /\ Todo(t) = Empty /\ flush[t].step = "idle"
  BY DEF Init, ServerInit, Quiet, Loop, Todo
<1>2. \A id \in InitRows : Temporary(id)
  BY DEF InitRows, Temporary
<1> QED
  BY <1>1, <1>2, EmptyTable DEF OrderInv, InFlight, InHands, TempRows, Targets, Refusals, SoundReply,
     Fifo, FifoOf

(* What is in flight comes after its create, and the creates before what   *)
(* is still to be replayed have failed, on a device with one tab that is   *)
(* never reloaded.                                                         *)
THEOREM OrderKept ==
    ASSUME OneTab, Limit["reload"] = 0
    PROVE  Spec => []OrderInv
<1>1. IndInv /\ IndInv' /\ TokenInv /\ OrderInv /\ [Next]_vars => OrderInv'
  BY NextOrderInv
<1> QED
  BY <1>1, InitOrderInv, TokensKnown, Inductive, PTL DEF Spec

(* Only the loop fails an edit unsent, only the one it is at, and only     *)
(* because of its placeholder.                                             *)
LEMMA FailsInHand ==
    ASSUME IndInv, TokenInv, OrderInv, OneTab, Limit["reload"] = 0, [Next]_vars,
           NEW k \in DOMAIN queue \cap DOMAIN queue', FailsUnsent(k)
    PROVE  \E t \in Tabs : k = Current(t) /\ k \in DOMAIN Todo(t) /\ queue[k].target < 0
<1>1. queue[k].status = "pending" /\ queue'[k].status = "failed" /\ queue[k].method # "POST"
  BY DEF FailsUnsent
<1>2. ~OutsideStep
  <2>1. ASSUME Enqueued PROVE FALSE
    <3>1. PICK d, m : d = draft.key /\ m = draft.mutation
      OBVIOUS
    <3>2. queue' = Put(queue, d, m) /\ m.status = "pending"
      BY <2>1, <3>1 DEF Enqueued, OrderInv, Targets
    <3>3. queue'[k] = IF k = d THEN m ELSE queue[k]
      BY <3>2 DEF Put
    <3> QED
      BY <1>1, <3>2, <3>3
  <2> QED
    BY <1>1, <2>1 DEF OutsideStep, ParkedGoBack, EndedLeave
<1>3. ASSUME NEW t \in Tabs, LoopSends(t) \/ LoopBegins(t) \/ LoopWorks(t) \/ LoopEnds(t)
      PROVE  LoopEnds(t) /\ k = Current(t)
  BY <1>1, <1>3 DEF LoopSends, LoopBegins, LoopWorks, LoopEnds, OthersKept
<1>4. PICK t \in Tabs : LoopEnds(t) /\ k = Current(t)
  BY <1>2, <1>3, StepForms DEF OrderInv
<1>5. ~InHands(t)
  BY <1>1, <1>4 DEF OrderInv, InFlight
<1> QED
  BY <1>4, <1>5 DEF LoopEnds

(* By then its create has had its turn. *)
LEMMA CreateGone ==
    ASSUME IndInv, TokenInv, OrderInv, OneTab, Limit["reload"] = 0, [Next]_vars,
           NEW k \in DOMAIN queue \cap DOMAIN queue', FailsUnsent(k), queue[k].target < 0,
           -queue[k].target \in DOMAIN queue
    PROVE  queue[-queue[k].target].status = "failed"
<1>1. PICK t \in Tabs : k = Current(t) /\ k \in DOMAIN Todo(t)
  BY FailsInHand
<1>2. PICK j : j = -queue[k].target
  OBVIOUS
<1>3. queue[k].method # "POST" /\ j < k /\ j \in DOMAIN queue /\ queue[j].method = "POST"
  BY <1>2 DEF FailsUnsent, OrderInv, Targets, AfterCreate, Temporary, CreateKey
<1>4. j \notin DOMAIN Todo(t)
  <2>1. DOMAIN Todo(t) \subseteq Nat
    BY DEF IndInv, TypeOK, DeviceTypeOK, FlushType, Todo, IsTable, Keys
  <2>2. PICK S : S = DOMAIN Todo(t)
    OBVIOUS
  <2>3. k = Min(S) /\ S \subseteq Nat /\ S # {}
    BY <1>1, <2>1, <2>2 DEF Current
  <2>4. \A x \in S : k <= x
    BY <2>3, MinIsElement
  <2> QED
    BY <1>1, <1>3, <2>1, <2>2, <2>4
<1> QED
  BY <1>1, <1>2, <1>3, <1>4 DEF OrderInv, Fifo, FifoOf

(* "FIFO order guarantees the CREATE ran first", of a device with one tab  *)
(* that is never reloaded: an edit fails as unresolved only after its      *)
(* create has failed or is not queued any more.                            *)
THEOREM UnresolvedFollowsCreate ==
    ASSUME OneTab, Limit["reload"] = 0
    PROVE  Spec => UnresolvedMeansCreateGone
<1>1. IndInv /\ TokenInv /\ OrderInv /\ [Next]_vars =>
        [\A k \in DOMAIN queue \cap DOMAIN queue' :
            (FailsUnsent(k) /\ queue[k].target < 0) =>
                LET create == -queue[k].target
                IN  create \in DOMAIN queue => queue[create].status = "failed"]_vars
  BY CreateGone
<1> QED
  BY <1>1, OrderKept, TokensKnown, Inductive, PTL DEF Spec, UnresolvedMeansCreateGone

-----------------------------------------------------------------------------
(* Phantom rows: the edits are made before the device is online. *)

(* An offline edit leaves everything waiting. *)
LEMMA DraftsWait ==
    ASSUME IndInv, OneTab, NEW t \in Tabs, Untouched(t), EditStep(t), ~online[t]
    PROVE  Untouched(t)' /\ online' = online
<1>1. /\ TypeOK /\ DOMAIN view = Tabs /\ nextKey \in Nat
  BY DEF IndInv, TypeOK, DeviceTypeOK
<1>2. ~CreateOnline(t) /\ \A id \in view[t] : ~UpdateOnline(t, id) /\ ~DeleteOnline(t, id)
  BY DEF CreateOnline, UpdateOnline, DeleteOnline, EditOnline
<1>3. ASSUME NEW new, NEW method, NEW target, NEW base, Drafted(t, method, target, base),
             CanDraft(t, "create") \/ CanDraft(t, "update") \/ CanDraft(t, "delete"),
             DOMAIN cache' \cup view'[t] \subseteq DOMAIN cache \cup view[t] \cup {new},
             new \in view[t] \/ new = -nextKey
      PROVE  Untouched(t)' /\ online' = online
  <2>1. /\ UNCHANGED <<flush, wire, open, reply, queue, applied, online>> /\ draft = None
        /\ draft' # None /\ draft'.key = nextKey
    <3>1. draft' # None
      <4>1. keys' = keys /\ nextKey \notin DOMAIN keys
        BY <1>1, <1>3 DEF Drafted, serverVars, IndInv, KeysIssued
      <4>2. \A r : keys' # Put(keys, nextKey, r)
        BY <4>1 DEF Put
      <4> QED
        BY <1>1, <4>2, EditStepKeys
    <3> QED
      BY <1>3, <3>1 DEF Drafted, CanDraft, serverVars
  <2>2. ASSUME NEW id, Waiting(id) PROVE Waiting(id)'
    BY <2>1, <2>2 DEF Waiting, Drafting
  <2>3. Waiting(new)'
    BY <1>1, <1>3, <2>1, <2>2 DEF Waiting, Drafting, Untouched
  <2>4. \A id \in DOMAIN cache' \cup view'[t] : Waiting(id)'
    BY <1>3, <2>2, <2>3 DEF Untouched
  <2> QED
    BY <2>1, <2>4 DEF Untouched
<1>4. CASE CreateOffline(t)
  <2>1. PICK id : id = -nextKey
    OBVIOUS
  <2>2. DOMAIN cache' \cup view'[t] \subseteq DOMAIN cache \cup view[t] \cup {id}
    BY <1>1, <1>4, <2>1 DEF CreateOffline, Put
  <2> QED
    BY <1>3, <1>4, <2>1, <2>2 DEF CreateOffline
<1>5. ASSUME NEW id \in view[t], UpdateOffline(t, id) \/ DeleteOffline(t, id)
      PROVE  Untouched(t)' /\ online' = online
  <2>1. DOMAIN cache' \cup view'[t] \subseteq DOMAIN cache \cup view[t] \cup {id}
    BY <1>1, <1>5 DEF UpdateOffline, DeleteOffline, Put, Without, Restrict
  <2> QED
    BY <1>3, <1>5, <2>1 DEF UpdateOffline, DeleteOffline
<1> QED
  BY <1>2, <1>4, <1>5 DEF EditStep

(* Until the device is online, nothing is sent. *)
LEMMA UntouchedStays ==
    ASSUME IndInv, OrderInv, OneTab, Limit["reload"] = 0, [Next]_vars,
           NEW t \in Tabs, Untouched(t), ~online[t]
    PROVE  Untouched(t)' /\ (online'[t] => draft' = None)
<1>1. /\ TypeOK /\ \A u \in Tabs : u = t
      /\ DOMAIN view = Tabs /\ flush[t].step = "idle"
  BY DEF IndInv, TypeOK, DeviceTypeOK, OneTab, Untouched, Quiet, Loop
<1>2. CASE Enqueue
  <2>1. PICK d, m : d = draft.key /\ m = draft.mutation
    OBVIOUS
  <2>2. /\ draft # None /\ queue' = Put(queue, d, m) /\ m.status = "pending" /\ draft' = None
        /\ UNCHANGED <<flush, wire, open, reply, applied, cache, view, online>>
    BY <1>2, <2>1 DEF Enqueue, OrderInv, Targets, serverVars
  <2>3. DOMAIN queue' = DOMAIN queue \cup {d} /\ \A k \in DOMAIN queue' : queue'[k] = m \/ (k \in DOMAIN queue /\ queue'[k] = queue[k])
    BY <2>2 DEF Put
  <2>4. \A id : Waiting(id) => Waiting(id)'
    BY <2>1, <2>2, <2>3 DEF Waiting, Drafting
  <2>5. \A k \in DOMAIN queue' : queue'[k].status = "pending"
    BY <2>2, <2>3 DEF Untouched
  <2> QED
    BY <2>2, <2>4, <2>5 DEF Untouched
<1>3. CASE ServerStep
  <2>1. UNCHANGED <<wire, open, reply, applied>>
    BY <1>1, <1>3 DEF ServerStep, Untouched, GiveUp, CollabUpdate, CollabDelete, PurgeKey
  <2> QED
    BY <1>3, <2>1 DEF ServerStep, deviceVars, Untouched, Waiting, Drafting
<1>4. ASSUME EditStep(t) PROVE Untouched(t)' /\ (online'[t] => draft' = None)
  BY <1>4, DraftsWait
<1>5. ~FlushStep(t)
  BY <1>1 DEF FlushStep, Replays, FailUnresolved, HasNext, EndFlush, Remap, StoreEntity, Undisplay,
     Dequeue, ConflictTheirs, ConflictMine, ConflictAsk, Reject, Abort, Answered
<1>6. ~ConflictStep(t)
  BY DEF ConflictStep, KeepMine, KeepServer, Untouched
<1>7. ~StartFlush(t) /\ ~GoOffline(t) /\ ~Reload(t)
  BY DEF StartFlush, GoOffline, Reload, Spend, IndInv, TypeOK, ServerTypeOK, Faults
<1>8. CASE GoOnline(t)
  BY <1>8 DEF GoOnline, serverVars, Untouched, Waiting, Drafting
<1>9. CASE ShowTrip(t)
  <2>1. /\ UNCHANGED <<flush, wire, open, reply, queue, applied, online, draft, cache>>
        /\ view'[t] = DOMAIN cache
    BY <1>1, <1>9 DEF ShowTrip, serverVars
  <2> QED
    BY <2>1 DEF Untouched, Waiting, Drafting
<1>10. CASE Evict(t)
  <2>1. PICK S : S = {k \in DOMAIN queue : queue[k].status = "failed"}
    OBVIOUS
  <2>2. /\ queue' = Without(queue, S) /\ cache' = Empty /\ view'[t] = {}
        /\ UNCHANGED <<flush, wire, open, reply, applied, online>>
    BY <1>1, <1>10, <2>1 DEF Evict
  <2>3. \A k \in DOMAIN queue' : k \in DOMAIN queue /\ queue'[k] = queue[k]
    BY <2>2 DEF Without, Restrict
  <2> QED
    BY <2>2, <2>3, EmptyTable DEF Untouched
<1>11. CASE UNCHANGED vars
  BY <1>11 DEF vars, serverVars, deviceVars, Untouched, Waiting, Drafting
<1> QED
  BY <1>1, <1>2, <1>3, <1>4, <1>5, <1>6, <1>7, <1>8, <1>9, <1>10, <1>11 DEF Next, TabStep

(* Once online, the device stays so, and caches no temporary row any more. *)
LEMMA OnlineStays ==
    ASSUME IndInv, OrderInv, OneTab, Limit["reload"] = 0, Limit["offline"] = 0, [Next]_vars,
           NEW t \in Tabs, online[t], draft = None
    PROVE  /\ online'[t] /\ draft' = None
           /\ DOMAIN cache' \subseteq DOMAIN cache \cup Nat
<1>1. /\ TypeOK /\ (\A u \in Tabs : u = t) /\ Refusals
      /\ DOMAIN rows \subseteq Nat /\ nextId \in Nat
  BY DEF IndInv, TypeOK, ServerTypeOK, OneTab, OrderInv, IsTable
<1>2. CASE Enqueue \/ ServerStep \/ UNCHANGED vars
  BY <1>2 DEF Enqueue, ServerStep, vars, deviceVars
<1>3. CASE EditStep(t)
  <2>1. ~CreateOffline(t) /\ \A id \in view[t] : ~UpdateOffline(t, id) /\ ~DeleteOffline(t, id)
    BY DEF CreateOffline, UpdateOffline, DeleteOffline, CanDraft
  <2>2. CASE CreateOnline(t)
    BY <1>1, <2>2 DEF CreateOnline, EditOnline, Put
  <2>3. ASSUME NEW id \in view[t], UpdateOnline(t, id) \/ DeleteOnline(t, id)
        PROVE  /\ UNCHANGED <<online, draft>>
               /\ DOMAIN cache' \subseteq DOMAIN cache \cup Nat
    <3>1. UNCHANGED <<online, draft>>
      BY <2>3 DEF UpdateOnline, DeleteOnline, EditOnline
    <3>2. CASE UpdateOnline(t, id)
      <4>1. PICK q : q = Direct(t, "PUT", id)
        OBVIOUS
      <4>2. q.method = "PUT" /\ q.row = id /\ Execute(q)
        BY <3>2, <4>1 DEF UpdateOnline, EditOnline, Direct
      <4>3. id \in DOMAIN rows
        BY <4>2 DEF Execute, Creates, Updates, Deletes
      <4> QED
        BY <1>1, <3>1, <3>2, <4>3 DEF UpdateOnline, Put
    <3>3. CASE DeleteOnline(t, id)
      BY <3>1, <3>3 DEF DeleteOnline, Without, Restrict
    <3> QED
      BY <2>3, <3>2, <3>3
  <2> QED
    BY <1>3, <2>1, <2>2, <2>3 DEF EditStep
<1>4. ASSUME FlushStep(t) \/ ConflictStep(t) \/ TabStep(t)
      PROVE  /\ online'[t] /\ draft' = None
             /\ DOMAIN cache' \subseteq DOMAIN cache \cup Nat
  <2>1. draft' = None
    BY <1>1, <1>4, FlushStepKeys, ConflictStepKeys, TabStepKeys
  <2>2. FlushStep(t) => online' = online
    BY DEF FlushStep, Replays, FailUnresolved, EndFlush, Remap, StoreEntity, Undisplay,
       Dequeue, ConflictTheirs, ConflictMine, ConflictAsk, Reject, Abort
  <2>3. ConflictStep(t) => online' = online
    BY DEF ConflictStep, KeepMine, KeepServer
  <2>4. TabStep(t) => online' = online
    <3>1. ~GoOffline(t)
      BY DEF GoOffline, Spend, IndInv, TypeOK, ServerTypeOK, Faults
    <3> QED
      BY <3>1 DEF TabStep, StartFlush, GoOnline, ShowTrip, Evict, Reload
  <2> QED
    BY <1>1, <1>4, <2>1, <2>2, <2>3, <2>4, OtherShows
<1> QED
  BY <1>1, <1>2, <1>3, <1>4 DEF Next

(* What is confirmed stays so until the loop goes on. *)
LEMMA ConfirmedStays ==
    ASSUME IndInv, TokenInv, OrderInv, OneTab, Limit["reload"] = 0, [Next]_vars,
           NEW t \in Tabs, draft = None, ConfirmedOf(t),
           DOMAIN cache' \subseteq DOMAIN cache \cup Nat
    PROVE  ConfirmedOf(t)'
<1>1. SUFFICES ASSUME flush'[t].step \in {"store", "remove"}, Snapshot(t)'.method = "POST"
               PROVE  ConfirmedOf(t)'
  BY DEF ConfirmedOf
<1>2. \A u \in Tabs : u = t
  BY DEF OneTab
<1>3. PICK temp : temp = Snapshot(t)'.target
  OBVIOUS
<1>4. /\ InHands(t) /\ InHands(t)'
      /\ flush[t].step \in {"store", "remove"} \/ LoopWorks(t)
      /\ ~Enqueued /\ ~LoopSends(t) /\ ~LoopBegins(t) /\ ~LoopEnds(t)
      /\ OutsideStep \/ LoopWorks(t)
  BY <1>1, <1>2, StepForms DEF OrderInv, OutsideStep, MayBegin, Enqueued, LoopSends, LoopBegins,
     LoopWorks, LoopEnds, InHands
<1>5. Snapshot(t)' = Snapshot(t) /\ Todo(t)' = Todo(t)
  BY <1>4, HandsKept DEF OrderInv, Snapshot, Current
<1>6. temp \notin Nat /\ Snapshot(t).method = "POST" /\ temp = Snapshot(t).target
  <2>1. PICK m : m = Snapshot(t)
    OBVIOUS
  <2>2. DOMAIN Todo(t) # {}
    BY <1>4 DEF InHands, IndInv, Exchanges, ExchangeOf
  <2>3. Current(t) \in Keys /\ m.target = -Current(t)
    BY <1>1, <1>5, <2>1, <2>2, InHand DEF Follows, IndInv, TypeOK, DeviceTypeOK, IsTable
  <2> QED
    BY <1>1, <1>3, <1>5, <2>1, <2>3 DEF Keys
<1>7. CASE Remap(t)
  <2>1. PICK id : id = reply[t].id
    OBVIOUS
  <2>2. id \in Nat \ {0}
    BY <1>7, <2>1, AnswerCarriesRow DEF Remap, CarriesRow
  <2>3. temp \notin DOMAIN cache'
    BY <1>6, <1>7 DEF Remap, Without, Restrict
  <2>4. \A k \in DOMAIN queue' : queue'[k].method # "POST" => queue'[k].target # temp
    BY <1>6, <1>7, <2>1, <2>2, RemapDoes
  <2> QED
    BY <1>3, <2>3, <2>4 DEF ConfirmedOf
<1>8. CASE flush[t].step \in {"store", "remove"}
  <2>1. /\ temp \notin DOMAIN cache
        /\ \A k \in DOMAIN queue : queue[k].method # "POST" => queue[k].target # temp
    BY <1>6, <1>8 DEF ConfirmedOf
  <2>2. temp \notin DOMAIN cache'
    BY <1>6, <2>1
  <2>3. \A k \in DOMAIN queue' :
           /\ k \in DOMAIN queue /\ queue'[k].method = queue[k].method
           /\ queue'[k].target = queue[k].target \/ queue'[k].target \in Nat
    BY <1>4 DEF OutsideStep, ParkedGoBack, EndedLeave, LoopWorks, SameEdit
  <2> QED
    BY <1>3, <1>6, <2>1, <2>2, <2>3 DEF ConfirmedOf
<1>9. flush[t].step = "wait" => Remap(t)
  BY <1>4, <1>6 DEF LoopWorks
<1> QED
  BY <1>4, <1>7, <1>8, <1>9 DEF InHands

(* A temporary row goes when its create fails or leaves the queue. *)
LEMMA PhantomGoes ==
    ASSUME IndInv, TokenInv, OrderInv, OneTab, Limit["reload"] = 0, [Next]_vars,
           NEW t \in Tabs, draft = None, ConfirmedOf(t), NoPhantomRow,
           DOMAIN cache' \subseteq DOMAIN cache \cup Nat
    PROVE  NoPhantomRow'
<1>1. SUFFICES ASSUME NEW k, -k \in DOMAIN cache', -k < 0, k \in Nat
               PROVE  k \in DOMAIN queue' /\ queue'[k].status # "failed"
  <2>1. ASSUME NEW id \in DOMAIN cache', id < 0 PROVE -id \in Nat /\ -(-id) = id
    BY <2>1 DEF IndInv, TypeOK, DeviceTypeOK, IsTable
  <2>2. ASSUME NEW id \in DOMAIN cache', id < 0
        PROVE  -id \in DOMAIN queue' /\ queue'[-id].status # "failed"
    <3>1. PICK k : k = -id
      OBVIOUS
    <3>2. k \in Nat /\ -k = id
      BY <2>1, <2>2, <3>1
    <3> QED
      BY <1>1, <2>2, <3>1, <3>2
  <2> QED
    BY <2>2 DEF NoPhantomRow
<1>2. /\ \A u \in Tabs : u = t
      /\ -k \in DOMAIN cache /\ k \in DOMAIN queue /\ queue[k].status # "failed"
      /\ queue[k].method = "POST" /\ queue[k].status # "conflict"
  <2>1. -k \in DOMAIN cache /\ -(-k) = k
    BY <1>1
  <2>2. k \in DOMAIN queue /\ queue[k].status # "failed"
    BY <1>1, <2>1 DEF NoPhantomRow, Drafting
  <2>3. queue[k].method = "POST"
    BY <1>1, <2>1, <2>2 DEF OrderInv, TempRows, Temporary, CreateKey
  <2> QED
    BY <2>1, <2>2, <2>3 DEF OneTab, OrderInv, Refusals, Sound
<1>3. CASE OutsideStep
  BY <1>2, <1>3 DEF OutsideStep, ParkedGoBack, EndedLeave, Enqueued
<1>4. CASE LoopSends(t)
  BY <1>2, <1>4 DEF LoopSends, OthersKept
<1>5. CASE LoopBegins(t) \/ LoopWorks(t)
  BY <1>2, <1>5 DEF LoopBegins, LoopWorks
<1>6. CASE LoopEnds(t)
  <2>1. CASE k # Current(t)
    BY <1>2, <1>6, <2>1 DEF LoopEnds, OthersKept
  <2>2. CASE k = Current(t)
    <3>1. DOMAIN Todo(t) # {}
      BY <1>6 DEF LoopEnds
    <3>2. PICK m : m = Snapshot(t)
      OBVIOUS
    <3>3. m.method = "POST" /\ m.target = -k
      BY <1>2, <2>2, <3>1, <3>2, OneMethod, InHand DEF Follows
    <3>4. flush[t].step # "remove"
      BY <1>2, <3>2, <3>3 DEF ConfirmedOf
    <3> QED
      BY <1>1, <1>6, <2>2, <3>2, <3>3, <3>4 DEF LoopEnds
  <2> QED
    BY <2>1, <2>2
<1> QED
  BY <1>2, <1>3, <1>4, <1>5, <1>6, StepForms DEF OrderInv

(* No step of a device that goes online once leaves a phantom.             *)
LEMMA NextPhantomInv ==
    ASSUME IndInv, TokenInv, OrderInv, PhantomInv, OneTab,
           Limit["reload"] = 0, Limit["offline"] = 0, [Next]_vars
    PROVE  PhantomInv'
<1>1. PICK t \in Tabs : \A u \in Tabs : u = t
  BY TabsAssumption DEF OneTab
<1>2. CASE online[t]
  <2>1. draft = None /\ ConfirmedOf(t) /\ NoPhantomRow
    BY <1>2 DEF PhantomInv, Unsynced, Confirmed
  <2>2. online'[t] /\ draft' = None /\ DOMAIN cache' \subseteq DOMAIN cache \cup Nat
    BY <1>2, <2>1, OnlineStays
  <2>3. ConfirmedOf(t)' /\ NoPhantomRow'
    BY <2>1, <2>2, ConfirmedStays, PhantomGoes
  <2> QED
    BY <1>1, <2>2, <2>3 DEF PhantomInv, Unsynced, Confirmed
<1>3. CASE ~online[t]
  <2>1. Untouched(t)' /\ (online'[t] => draft' = None)
    BY <1>3, UntouchedStays DEF PhantomInv, Unsynced
  <2>2. ConfirmedOf(t)'
    BY <2>1 DEF Untouched, Quiet, Loop, ConfirmedOf
  <2>3. NoPhantomRow'
    BY <2>1 DEF Untouched, Waiting, NoPhantomRow
  <2> QED
    BY <1>1, <2>1, <2>2, <2>3 DEF PhantomInv, Unsynced, Confirmed
<1> QED
  BY <1>2, <1>3

(* A device starts offline, with the server's rows. *)
LEMMA InitPhantomInv == Init => PhantomInv
<1> SUFFICES ASSUME Init PROVE PhantomInv
  OBVIOUS
<1>1. /\ DOMAIN cache = InitRows /\ queue = Empty /\ wire = {}
      /\ \A k \in Keys : applied[k] = 0
      /\ \A t \in Tabs : /\ ~online[t] /\ reply[t] = None /\ open[t] = None
                         /\ view[t] = InitRows /\ flush[t] = Quiet
  BY DEF Init, ServerInit
<1>2. \A id \in InitRows : ~(id < 0)
  BY DEF InitRows
<1>3. Unsynced
  BY <1>1, <1>2, EmptyTable DEF Unsynced, Untouched, Waiting
<1>4. Confirmed
  BY <1>1 DEF Confirmed, ConfirmedOf, Quiet, Loop
<1>5. NoPhantomRow
  BY <1>1, <1>2 DEF NoPhantomRow
<1> QED
  BY <1>3, <1>4, <1>5 DEF PhantomInv

(* Of a device with one tab that is not reloaded, and that edits only      *)
(* before it goes online: a temporary row is in the cache only while its   *)
(* create is on its way.                                                   *)
THEOREM PhantomsRolledBack ==
    ASSUME OneTab, Limit["reload"] = 0, Limit["offline"] = 0
    PROVE  Spec => []NoPhantomRow
<1>1. IndInv /\ TokenInv /\ OrderInv /\ PhantomInv /\ [Next]_vars => PhantomInv'
  BY NextPhantomInv
<1>2. PhantomInv => NoPhantomRow
  BY DEF PhantomInv
<1> QED
  BY <1>1, <1>2, InitPhantomInv, OrderKept, TokensKnown, Inductive, PTL DEF Spec

-----------------------------------------------------------------------------
(* Creates that reached the server: no key is lost any more. *)

(* Each execution stores its key. *)
LEMMA Executions ==
    ASSUME IndInv, Limit["keyLoss"] = 0, [Next]_vars
    PROVE  \/ UNCHANGED <<keys, applied>>
           \/ \E j \in Keys :
                 /\ DOMAIN keys' = DOMAIN keys \cup {j}
                 /\ \A k \in Keys : applied'[k] = IF k = j THEN applied[k] + 1 ELSE applied[k]
                 /\ j = nextKey \/ \E q \in wire : q.key = j
<1>1. /\ TypeOK /\ applied \in [Keys -> Nat] /\ spent \in [Faults -> Nat] /\ "keyLoss" \in Faults
      /\ spent["keyLoss"] \in Nat
  BY DEF IndInv, TypeOK, ServerTypeOK, Faults
<1>2. CASE ServerStep
  <2>1. spent'["keyLoss"] = spent["keyLoss"]
    <3>1. \A f \in Faults : Spend(f) => spent'["keyLoss"] = spent["keyLoss"]
      BY <1>1 DEF Spend
    <3> QED
      BY <1>2, <3>1 DEF ServerStep, GiveUp, CollabUpdate, CollabDelete, PurgeKey, Serve, Deny, Replay,
         ExecuteAndStore, Refuse, ExecuteAndCrash, Faults
  <2>2. CASE UNCHANGED <<keys, applied>>
    BY <2>2
  <2>3. ASSUME NEW q \in wire, q.key \in Keys, keys' = Put(keys, q.key, Success(q)),
               applied' = [applied EXCEPT ![q.key] = @ + 1]
        PROVE  \E j \in Keys :
                 /\ DOMAIN keys' = DOMAIN keys \cup {j}
                 /\ \A k \in Keys : applied'[k] = IF k = j THEN applied[k] + 1 ELSE applied[k]
                 /\ j = nextKey \/ \E p \in wire : p.key = j
    <3>1. DOMAIN keys' = DOMAIN keys \cup {q.key}
      BY <2>3 DEF Put
    <3> QED
      BY <1>1, <2>3, <3>1
  <2> QED
    <3>1. spent'["keyLoss"] # spent["keyLoss"] + 1
      BY <1>1, <2>1
    <3>2. \/ UNCHANGED <<keys, applied>>
          \/ \E q \in wire : /\ q.key \in Keys /\ keys' = Put(keys, q.key, Success(q))
                             /\ applied' = [applied EXCEPT ![q.key] = @ + 1]
      BY <1>1, <1>2, <3>1, ServerExecutions
    <3> QED
      BY <2>2, <2>3, <3>2
<1>3. ASSUME NEW t \in Tabs, EditStep(t)
      PROVE  \/ UNCHANGED <<keys, applied>>
             \/ /\ nextKey \in Keys /\ DOMAIN keys' = DOMAIN keys \cup {nextKey}
                /\ \A k \in Keys : applied'[k] = IF k = nextKey THEN applied[k] + 1 ELSE applied[k]
  BY <1>1, <1>3, EditStepKeys DEF Put
<1> QED
  BY <1>2, <1>3, AppliedGrows

(* So what was executed has its key stored. *)
LEMMA NextAppliedStored ==
    ASSUME IndInv, Limit["keyLoss"] = 0, [Next]_vars, AppliedStored
    PROVE  AppliedStored'
BY Executions DEF AppliedStored

(* Only the loop sends, and only what it is at. *)
LEMMA WireGrows ==
    ASSUME IndInv, [Next]_vars, NEW q \in wire' \ wire
    PROVE  \E t \in Tabs : Replays(t) /\ q.key = Current(t)
<1>1. ASSUME NEW t \in Tabs, FlushStep(t)
      PROVE  Replays(t) /\ q.key = Current(t)
  <2>1. CASE Replays(t)
    <3>1. wire' = wire \cup {CurrentRequest(t)}
      BY <2>1 DEF Replays, Send
    <3>2. q = CurrentRequest(t)
      BY <3>1
    <3> QED
      BY <2>1, <3>2 DEF CurrentRequest
  <2>2. CASE ~Replays(t)
    BY <1>1, <2>2 DEF FlushStep, FailUnresolved, EndFlush, Remap, StoreEntity, Undisplay,
       Dequeue, ConflictTheirs, ConflictMine, ConflictAsk, Reject, Abort, Received, ServerStays, serverVars
  <2> QED
    BY <2>1, <2>2
<1>2. ASSUME NEW t \in Tabs, EditStep(t) \/ ConflictStep(t) \/ TabStep(t) PROVE FALSE
  BY <1>2, EditStepKeys, ConflictStepKeys, TabStepKeys DEF IndInv, serverVars
<1>3. ~Enqueue /\ ~ServerStep /\ ~UNCHANGED vars
  BY ServerStepKeys DEF Enqueue, vars, serverVars, IndInv
<1> QED
  BY <1>1, <1>2, <1>3 DEF Next

(* A create on its way stays so, unless it was executed or denied.         *)
LEMMA CreateLeaves ==
    ASSUME IndInv, TokenInv, OrderInv, OneTab, Limit["reload"] = 0, [Next]_vars,
           NEW j, Alive(j), queue[j].method = "POST"
    PROVE  \/ Alive(j)'
           \/ \E t \in Tabs : /\ j = Current(t) /\ Snapshot(t).method = "POST" /\ DOMAIN Todo(t) # {}
                              /\ \/ flush[t].step = "remove"
                                 \/ reply[t] # None /\ reply[t].status = "denied"
<1>1. j \in DOMAIN queue /\ queue[j].status \in {"pending", "syncing"}
  BY DEF Alive
<1>2. CASE OutsideStep
  <2>1. CASE ParkedGoBack \/ EndedLeave
    BY <1>1, <2>1 DEF ParkedGoBack, EndedLeave, Alive
  <2>2. CASE Enqueued
    <3>1. PICK d, m : d = draft.key /\ m = draft.mutation
      OBVIOUS
    <3>2. queue' = Put(queue, d, m) /\ d \notin DOMAIN queue
      BY <2>2, <3>1 DEF Enqueued, TokenInv, DraftFresh
    <3>3. j \in DOMAIN queue' /\ queue'[j] = queue[j]
      BY <1>1, <3>2 DEF Put
    <3> QED
      BY <1>1, <3>3 DEF Alive
  <2> QED
    BY <1>2, <2>1, <2>2 DEF OutsideStep
<1>3. ASSUME NEW t \in Tabs, LoopSends(t) \/ LoopBegins(t) \/ LoopWorks(t) PROVE Alive(j)'
  BY <1>1, <1>3 DEF LoopSends, LoopBegins, LoopWorks, OthersKept, Alive
<1>4. ASSUME NEW t \in Tabs, LoopEnds(t), j # Current(t) PROVE Alive(j)'
  BY <1>1, <1>4 DEF LoopEnds, OthersKept, Alive
<1>5. ASSUME NEW t \in Tabs, LoopEnds(t), j = Current(t), ~Alive(j)'
      PROVE  /\ Snapshot(t).method = "POST" /\ DOMAIN Todo(t) # {}
             /\ \/ flush[t].step = "remove"
                \/ reply[t] # None /\ reply[t].status = "denied"
  <2>1. DOMAIN Todo(t) # {}
    BY <1>5 DEF LoopEnds
  <2>2. Snapshot(t).method = "POST"
    BY <1>5, <2>1, OneMethod
  <2> QED
    BY <1>5, <2>1, <2>2 DEF LoopEnds, Alive
<1> QED
  BY <1>2, <1>3, <1>4, <1>5, StepForms DEF OrderInv

(* It cannot be denied or executed as long as a copy of it is on the wire  *)
(* that may be executed.                                                   *)
LEMMA SentStaysAlive ==
    ASSUME IndInv, TokenInv, OrderInv, CreateInv, OneTab, Limit["reload"] = 0, [Next]_vars,
           NEW q \in wire, q.method = "POST", applied[q.key] = 0
    PROVE  Alive(q.key) /\ queue[q.key].method = "POST" /\ Alive(q.key)'
<1>1. Alive(q.key)
  BY DEF CreateInv, WireAlive
<1>2. queue[q.key].method = "POST"
  <2>1. PICK mm \in [Keys -> Methods] : Agree(mm)
    BY DEF IndInv, MethodsAgree
  <2> QED
    BY <1>1, <2>1 DEF Agree, Alive
<1>3. ASSUME NEW t \in Tabs, q.key = Current(t), flush[t].step = "remove" PROVE FALSE
  BY <1>3 DEF IndInv, Exchanges, ExchangeOf, OkMeansExecuted
<1>4. ASSUME NEW t \in Tabs, q.key = Current(t), reply[t] # None, reply[t].status = "denied" PROVE FALSE
  BY <1>4 DEF CreateInv, DeniedOf
<1>5. PICK j : j = q.key
  OBVIOUS
<1>6. Alive(j)'
  BY <1>1, <1>2, <1>3, <1>4, <1>5, CreateLeaves
<1> QED
  BY <1>1, <1>2, <1>5, <1>6 DEF Alive

(* Whatever may be executed is on its way. *)
LEMMA NextWireAlive ==
    ASSUME IndInv, TokenInv, OrderInv, CreateInv, OneTab, Limit["reload"] = 0, [Next]_vars
    PROVE  WireAlive'
<1>1. SUFFICES ASSUME NEW q \in wire', q.method = "POST", applied'[q.key] = 0
               PROVE  q.key \in DOMAIN queue' /\ queue'[q.key].status \in {"pending", "syncing"}
  BY DEF WireAlive, Alive
<1>2. CASE q \in wire
  <2>1. q.key \in Keys /\ applied[q.key] \in Nat
    BY <1>2 DEF IndInv, TypeOK, ServerTypeOK, Request
  <2>2. applied[q.key] = 0
    BY <1>1, <2>1, AppliedGrows
  <2> QED
    BY <1>1, <1>2, <2>2, SentStaysAlive DEF Alive
<1>3. CASE q \notin wire
  <2>1. PICK t \in Tabs : Replays(t) /\ q.key = Current(t)
    BY <1>1, <1>3, WireGrows
  <2> QED
    BY <2>1, ReplaysForm DEF LoopSends
<1> QED
  BY <1>2, <1>3

(* What was denied is not executed any more. *)
LEMMA NextDenied ==
    ASSUME IndInv, TokenInv, OrderInv, CreateInv, OneTab, Limit["keyLoss"] = 0, [Next]_vars,
           NEW t \in Tabs
    PROVE  DeniedOf(t)'
<1>1. SUFFICES ASSUME reply'[t] # None, reply'[t].status = "denied"
               PROVE  applied'[Current(t)'] = 0 /\ \A q \in wire' : q.key # Current(t)'
  BY DEF DeniedOf
<1>2. CASE reply'[t] = reply[t] /\ Current(t)' = Current(t)
  <2>1. applied[Current(t)] = 0 /\ \A q \in wire : q.key # Current(t)
    BY <1>1, <1>2 DEF CreateInv, DeniedOf
  <2>2. Current(t) \in Keys /\ Current(t) # nextKey
    <3>1. Current(t) \in DOMAIN Todo(t) /\ Current(t) \in Keys
      BY <1>1, <1>2, ReplyInHand, HeadType DEF IndInv, TypeOK, DeviceTypeOK, FlushType, IsTable, Todo
    <3> QED
      BY <3>1 DEF IndInv, KeysIssued, TypeOK, DeviceTypeOK
  <2>3. applied'[Current(t)] = 0
    BY <2>1, <2>2, Executions
  <2>4. ASSUME NEW q \in wire' \ wire PROVE FALSE
    <3>1. PICK u \in Tabs : Replays(u)
      BY <2>4, WireGrows
    <3>2. flush[t].step = "next"
      BY <3>1 DEF Replays, HasNext, OneTab
    <3> QED
      BY <1>1, <1>2, <3>2, ReplyInHand DEF InHands
  <2> QED
    BY <1>2, <2>1, <2>3, <2>4
<1>3. CASE reply'[t] # reply[t] /\ ServerStep
  <2>1. Current(t)' = Current(t)
    BY <1>3 DEF ServerStep, deviceVars, Current, Todo
  <2>2. PICK q \in wire : open[t] = q /\ q.key = Current(t) /\ Deny(q)
    <3>1. \A q : Refusal(q).status # "denied"
      BY DEF Refusal, Bare
    <3> QED
      BY <1>1, <1>3, <3>1, ServerAnswers
  <2>3. q.key \in Keys /\ applied[q.key] \in Nat /\ \A p \in wire : p.tab \in Tabs
    BY DEF IndInv, TypeOK, ServerTypeOK, Request
  <2>4. applied'[q.key] = 0
    BY <2>2, <2>3 DEF Deny, CreateInv, AppliedStored
  <2>5. \A p \in wire' : p.key # q.key
    BY <2>2, <2>3 DEF Deny, OneTab
  <2> QED
    BY <2>1, <2>2, <2>4, <2>5
<1>4. ServerStep => Current(t)' = Current(t)
  BY DEF ServerStep, deviceVars, Current, Todo
<1> QED
  BY <1>1, <1>2, <1>3, <1>4, DeviceReplies

(* A create that was executed waits for its edits to know. *)
LEMMA NextDependentsWait ==
    ASSUME IndInv, TokenInv, OrderInv, PhantomInv, CreateInv, OneTab,
           Limit["reload"] = 0, Limit["keyLoss"] = 0, [Next]_vars, draft = None
    PROVE  DependentsWait'
<1>1. SUFFICES ASSUME NEW k \in DOMAIN queue', queue'[k].method # "POST", queue'[k].target < 0,
                      NEW j, j = -queue'[k].target, applied'[j] > 0
               PROVE  Alive(j)'
  BY DEF DependentsWait, Alive
<1>2. /\ k \in DOMAIN queue /\ queue[k].method # "POST" /\ queue[k].target = queue'[k].target
  <2>1. ASSUME NEW t \in Tabs, LoopSends(t) \/ LoopBegins(t) \/ LoopWorks(t) \/ LoopEnds(t)
        PROVE  /\ k \in DOMAIN queue /\ queue[k].method = queue'[k].method
               /\ queue'[k].target = queue[k].target \/ queue'[k].target \in Nat
    BY <1>1, <2>1 DEF LoopSends, LoopBegins, LoopWorks, LoopEnds, OthersKept, SameEdit
  <2>2. CASE OutsideStep
    BY <1>1, <2>2 DEF OutsideStep, ParkedGoBack, EndedLeave, Enqueued, SameEdit
  <2> QED
    BY <1>1, <2>1, <2>2, StepForms DEF OrderInv
<1>3. CreateKey(j) /\ j \in Keys /\ j < nextKey /\ nextKey \in Nat /\ -j = queue[k].target
  <2>1. CreateKey(j) /\ queue[k] \in Mutation
    BY <1>1, <1>2 DEF OrderInv, Targets, AfterCreate, Temporary, IndInv, TypeOK, DeviceTypeOK, IsTable
  <2> QED
    <3>1. j \in 1..(nextKey - 1) /\ nextKey \in Nat /\ nextKey <= MaxEdits + 1
      BY <2>1 DEF CreateKey, IndInv, TypeOK, DeviceTypeOK
    <3>2. j \in Keys /\ j < nextKey
      BY <3>1, MaxEditsAssumption DEF Keys
    <3>3. queue[k].target \in Int
      BY <2>1 DEF Mutation
    <3> QED
      BY <1>1, <1>2, <2>1, <3>1, <3>2, <3>3
<1>4. CASE applied[j] > 0
  <2>1. Alive(j) /\ queue[j].method = "POST"
    BY <1>1, <1>2, <1>3, <1>4 DEF CreateInv, DependentsWait, Alive, CreateKey
  <2>2. ASSUME NEW t \in Tabs, j = Current(t), Snapshot(t).method = "POST", DOMAIN Todo(t) # {},
               flush[t].step = "remove"
        PROVE  FALSE
    <3>1. PICK m : m = Snapshot(t)
      OBVIOUS
    <3>2. m.target = -j
      BY <2>2, <3>1, InHand DEF Follows
    <3> QED
      BY <1>2, <1>3, <2>2, <3>1, <3>2 DEF PhantomInv, Confirmed, ConfirmedOf
  <2>3. ASSUME NEW t \in Tabs, j = Current(t), reply[t] # None, reply[t].status = "denied"
        PROVE  FALSE
    BY <1>4, <2>3 DEF CreateInv, DeniedOf
  <2> QED
    BY <2>1, <2>2, <2>3, CreateLeaves
<1>5. CASE ~(applied[j] > 0)
  <2>1. applied[j] = 0
    BY <1>3, <1>5 DEF IndInv, TypeOK, ServerTypeOK
  <2>2. PICK q \in wire : q.key = j
    <3>1. PICK i \in Keys : /\ \A m \in Keys : applied'[m] = IF m = i THEN applied[m] + 1 ELSE applied[m]
                            /\ i = nextKey \/ \E q \in wire : q.key = i
      BY <1>1, <1>5, Executions
    <3>2. i = j
      BY <1>1, <1>3, <1>5, <3>1
    <3> QED
      BY <1>3, <3>1, <3>2
  <2>3. q.method = "POST"
    BY <1>3, <2>2 DEF CreateKey
  <2> QED
    BY <2>1, <2>2, <2>3, SentStaysAlive DEF Alive
<1> QED
  BY <1>4, <1>5

(* No step of a device that goes online once, with no key lost, strands an *)
(* edit of a create that was executed.                                     *)
LEMMA NextCreateInv ==
    ASSUME IndInv, TokenInv, OrderInv, PhantomInv, CreateInv, OneTab, Limit["reload"] = 0,
           Limit["offline"] = 0, Limit["keyLoss"] = 0, [Next]_vars
    PROVE  CreateInv'
<1>1. PICK t \in Tabs : \A u \in Tabs : u = t
  BY TabsAssumption DEF OneTab
<1>2. AppliedStored' /\ WireAlive' /\ DeniedOf(t)'
  BY NextAppliedStored, NextWireAlive, NextDenied DEF CreateInv
<1>3. CASE online[t]
  <2>1. DependentsWait'
    BY <1>3, NextDependentsWait DEF PhantomInv, Unsynced
  <2> QED
    BY <1>1, <1>2, <2>1 DEF CreateInv
<1>4. CASE ~online[t]
  <2>1. \A k \in Keys : applied'[k] = 0
    BY <1>4, UntouchedStays DEF PhantomInv, Unsynced, Untouched
  <2>2. \A k \in DOMAIN queue' : (queue'[k].method # "POST" /\ queue'[k].target < 0) =>
                                     -queue'[k].target \in Keys
    <3>1. /\ \A k \in DOMAIN queue' : AfterCreate(k, queue[k])'
          /\ TypeOK'
      BY NextQueueTargets, NextType DEF IndInv
    <3> QED
      BY <3>1 DEF AfterCreate, Temporary, CreateKey, TypeOK, DeviceTypeOK, Keys
  <2>3. DependentsWait'
    BY <2>1, <2>2 DEF DependentsWait
  <2> QED
    BY <1>1, <1>2, <2>3 DEF CreateInv
<1> QED
  BY <1>3, <1>4

(* Nothing was executed to begin with. *)
LEMMA InitCreateInv == Init => CreateInv
<1> SUFFICES ASSUME Init PROVE CreateInv
  OBVIOUS
<1>1. /\ queue = Empty /\ wire = {} /\ (\A k \in Keys : applied[k] = 0)
      /\ \A t \in Tabs : reply[t] = None
  BY DEF Init, ServerInit
<1> QED
  BY <1>1, EmptyTable DEF CreateInv, AppliedStored, DeniedOf, WireAlive, DependentsWait

(* An edit that fails unsent: had its create been executed, it would wait. *)
LEMMA CreateNeverSent ==
    ASSUME IndInv, TokenInv, OrderInv, CreateInv, OneTab, Limit["reload"] = 0, [Next]_vars,
           NEW k \in DOMAIN queue \cap DOMAIN queue', FailsUnsent(k)
    PROVE  queue[k].target < 0 /\ applied[-queue[k].target] = 0
<1>1. queue[k].target < 0 /\ queue[k].method # "POST"
  BY FailsInHand DEF FailsUnsent
<1>2. PICK j : j = -queue[k].target
  OBVIOUS
<1>3. j \in Keys /\ applied[j] \in Nat
  BY <1>1, <1>2 DEF OrderInv, Targets, AfterCreate, Temporary, CreateKey, Keys, IndInv, TypeOK,
     DeviceTypeOK, ServerTypeOK
<1>4. ~(applied[j] > 0)
  <2>1. SUFFICES ASSUME applied[j] > 0 PROVE FALSE
    OBVIOUS
  <2>2. Alive(j)
    BY <1>1, <1>2, <2>1 DEF CreateInv, DependentsWait
  <2>3. queue[j].status = "failed"
    BY <1>1, <1>2, <2>2, CreateGone DEF Alive
  <2> QED
    BY <2>2, <2>3 DEF Alive
<1> QED
  BY <1>1, <1>2, <1>3, <1>4

(* Of a device with one tab that is not reloaded, that edits only before   *)
(* it goes online, and whose keys the server does not lose: an edit that   *)
(* is failed as unresolved is of a create that never reached the server.   *)
THEOREM UnresolvedWithoutCreate ==
    ASSUME OneTab, Limit["reload"] = 0, Limit["offline"] = 0, Limit["keyLoss"] = 0
    PROVE  Spec => UnresolvedOnlyWithoutCreate
<1>1. IndInv /\ TokenInv /\ OrderInv /\ CreateInv /\ [Next]_vars =>
        [\A k \in DOMAIN queue \cap DOMAIN queue' :
            FailsUnsent(k) => queue[k].target < 0 /\ applied[-queue[k].target] = 0]_vars
  BY CreateNeverSent
<1>2. IndInv /\ TokenInv /\ OrderInv /\ PhantomInv /\ CreateInv /\ [Next]_vars => CreateInv'
  BY NextCreateInv
<1>3. IndInv /\ TokenInv /\ OrderInv /\ PhantomInv /\ [Next]_vars => PhantomInv'
  BY NextPhantomInv
<1> QED
  BY <1>1, <1>2, <1>3, InitCreateInv, InitPhantomInv, OrderKept, TokensKnown, Inductive, PTL
     DEF Spec, UnresolvedOnlyWithoutCreate

-----------------------------------------------------------------------------
(* A trip no collaborator has touched, of a device with one tab that goes  *)
(* online once and makes no edit around the queue: the device knows what   *)
(* the server has.                                                         *)

Alone == spent["collab"] = 0

(* The earliest edit that is to be sent. *)
Foremost(k) == Alive(k) /\ \A j \in DOMAIN queue : Alive(j) => k <= j

(* What was executed comes before what is still to be sent, only the       *)
(* foremost edit may be executed, and a pass holds all that is to be sent. *)
InOrder == \A k \in DOMAIN keys : \A j \in DOMAIN queue : Alive(j) => k <= j
WireForemost ==
    \A q \in wire :
        q.key \in DOMAIN keys \/ Foremost(q.key) \/ (q.method # "POST" /\ Gone(q.row))
WholePass ==
    \A t \in Tabs : DOMAIN Todo(t) # {} =>
        \A j \in DOMAIN queue : Alive(j) => j \in DOMAIN Todo(t)

(* A tab awaits the answer to the request it would send now; the answer is *)
(* the one stored under its key, or the row is gone.                       *)
AnswerOf(t) ==
    /\ open[t] # None => open[t] = CurrentRequest(t)
    /\ reply[t] # None =>
        /\ reply[t].status # "conflict"
        /\ reply[t].status = "ok" =>
              Current(t) \in DOMAIN keys /\ reply[t] = keys[Current(t)]
        /\ reply[t].status = "missing" =>
              Snapshot(t).method # "POST" /\ Gone(queue[Current(t)].target)
NoneParked == \A k \in DOMAIN queue : queue[k].status # "conflict"

(* The row of an executed edit is as the stored answer says until the next *)
(* edit is executed, and each row is the work of an executed edit.         *)
StoredRows ==
    \A k \in DOMAIN keys : (Alive(k) /\ queue[k].method # "DELETE") =>
        /\ keys[k].id \in DOMAIN rows /\ rows[keys[k].id] = keys[k].entity
        /\ queue[k].method = "PUT" => keys[k].id = queue[k].target
OwnRows == \A id \in DOMAIN rows : IsOwn(rows[id].by) => rows[id].by \in DOMAIN keys

(* An update has the token of its row, or the answer that brings it is on  *)
(* the way.                                                                *)
Due(id, base) == id \in DOMAIN rows => base \in {NoToken, Forced, rows[id].at}
Ahead(id) ==
    \E x \in DOMAIN keys :
        /\ Alive(x) /\ queue[x].method # "DELETE" /\ keys[x].id = id
        /\ \A t \in Tabs : flush[t].step = "remove" => x # Current(t)
TokenDue(id, base) == Due(id, base) \/ Ahead(id)
QueueDue ==
    \A k \in DOMAIN queue : (Alive(k) /\ queue[k].method = "PUT" /\ k \notin DOMAIN keys) =>
        TokenDue(queue[k].target, queue[k].base)
PassToken(t, k) ==
    LET id == Mapped(t, Todo(t)[k].target)
    IN  IF id \in DOMAIN flush[t].tokens THEN flush[t].tokens[id] ELSE Todo(t)[k].base
PassDue(t) ==
    \A k \in DOMAIN Todo(t) : (Todo(t)[k].method = "PUT" /\ k \notin DOMAIN keys) =>
        TokenDue(Mapped(t, Todo(t)[k].target), PassToken(t, k))
LocalDue ==
    /\ \A t \in Tabs : ~online[t] => \A id \in DOMAIN cache : Due(id, cache[id].at)
    /\ (draft # None /\ draft.mutation.method = "PUT") =>
          Due(draft.mutation.target, draft.mutation.base)

(* The server has issued every id an edit can name. *)
KnownIds ==
    /\ \A k \in DOMAIN queue : queue[k].target < nextId
    /\ draft # None => draft.mutation.target < nextId
    /\ \A t \in Tabs : ~online[t] => \A id \in DOMAIN cache \cup view[t] : id < nextId

SyncInv ==
    Alone =>
        /\ InOrder /\ WireForemost /\ WholePass
        /\ (\A t \in Tabs : AnswerOf(t)) /\ NoneParked
        /\ StoredRows /\ OwnRows
        /\ QueueDue /\ (\A t \in Tabs : PassDue(t)) /\ LocalDue /\ KnownIds

(* The cached row is the server's, or an edit of it is still to be sent or *)
(* to be confirmed, provided none has failed.                              *)
Same(id) ==
    /\ id \in DOMAIN cache <=> id \in DOMAIN rows
    /\ id \in DOMAIN rows => cache[id] = rows[id]
Concerns(k, id) ==
    \/ queue[k].target = id
    \/ queue[k].method = "POST" /\ k \in DOMAIN keys /\ keys[k].id = id
Covered(id) ==
    \/ Same(id)
    \/ \E k \in DOMAIN queue : Concerns(k, id)
    \/ draft # None /\ draft.mutation.target = id
Confirms(t) ==
    flush[t].step = "remove" => \A id \in Int : Concerns(Current(t), id) => Same(id)
NoneFailed == \A k \in DOMAIN queue : Alive(k)
CacheInv ==
    (Alone /\ NoneFailed) =>
        (\A id \in Int : Covered(id)) /\ \A t \in Tabs : Confirms(t)

-----------------------------------------------------------------------------
(* The device of these theorems, and what is known of it. *)

OneSession ==
    /\ OneTab /\ OnlineEdits = {}
    /\ Limit["reload"] = 0 /\ Limit["offline"] = 0 /\ Limit["keyLoss"] = 0
ReplayInv == IndInv /\ TokenInv /\ OrderInv /\ PhantomInv /\ CreateInv

(* A fault that is not among those of the run does not happen. *)
LEMMA NoFault ==
    ASSUME TypeOK, NEW f \in Faults, Limit[f] = 0, Spend(f)
    PROVE  FALSE
BY DEF TypeOK, ServerTypeOK, Spend

(* A collaborator, once there, is not forgotten. *)
LEMMA StaysAlone ==
    ASSUME TypeOK, [Next]_vars, Alone'
    PROVE  Alone /\ ~CollabUpdate /\ ~CollabDelete
<1>1. spent \in [Faults -> Nat] /\ "collab" \in Faults
  BY DEF TypeOK, ServerTypeOK, Faults
<1>2. ASSUME NEW f \in Faults, Spend(f)
      PROVE  spent'["collab"] >= spent["collab"] /\ (f = "collab" => ~Alone')
  BY <1>1, <1>2 DEF Spend, Alone
<1>3. spent' = spent \/ \E f \in Faults : Spend(f)
  <2>1. ASSUME ServerStep PROVE spent' = spent \/ \E f \in Faults : Spend(f)
    <3>1. ASSUME NEW q \in wire, Serve(q) PROVE spent' = spent \/ \E f \in Faults : Spend(f)
      BY <3>1 DEF Serve, Deny, Replay, ExecuteAndStore, Refuse, ExecuteAndCrash, Faults
    <3>2. ASSUME NEW t \in Tabs, GiveUp(t) PROVE \E f \in Faults : Spend(f)
      BY <3>2 DEF GiveUp, Faults
    <3>3. CollabUpdate \/ CollabDelete \/ PurgeKey => \E f \in Faults : Spend(f)
      BY DEF CollabUpdate, CollabDelete, PurgeKey, Faults
    <3> QED
      BY <2>1, <3>1, <3>2, <3>3 DEF ServerStep
  <2>2. ASSUME NEW t \in Tabs, EditStep(t) PROVE spent' = spent
    BY <2>2, EditStepKeys
  <2>3. ASSUME NEW t \in Tabs, FlushStep(t) PROVE spent' = spent
    BY <2>3 DEF FlushStep, Replays, Send, FailUnresolved, EndFlush, Remap, StoreEntity, Undisplay,
       Received, Dequeue, ConflictTheirs, ConflictMine, ConflictAsk, Reject, Abort, ServerStays,
       serverVars
  <2>4. ASSUME NEW t \in Tabs, ConflictStep(t) PROVE spent' = spent
    BY <2>4, ConflictStepKeys DEF serverVars
  <2>5. ASSUME NEW t \in Tabs, TabStep(t) PROVE spent' = spent \/ \E f \in Faults : Spend(f)
    BY <2>5 DEF TabStep, StartFlush, GoOnline, GoOffline, ShowTrip, Evict, Reload, serverVars, Faults
  <2>6. Enqueue => spent' = spent
    BY DEF Enqueue, serverVars
  <2> QED
    BY <2>1, <2>2, <2>3, <2>4, <2>5, <2>6 DEF Next, vars, serverVars
<1>4. CollabUpdate \/ CollabDelete => Spend("collab") /\ "collab" \in Faults
  BY DEF CollabUpdate, CollabDelete, Faults
<1> QED
  BY <1>1, <1>2, <1>3, <1>4 DEF Alone

-----------------------------------------------------------------------------
(* Before the device is online. *)

(* Nothing was sent: what concerns the exchange holds trivially. *)
NothingSent ==
    /\ InOrder /\ WireForemost /\ WholePass
    /\ (\A t \in Tabs : AnswerOf(t)) /\ NoneParked
    /\ StoredRows /\ (\A t \in Tabs : PassDue(t))
LEMMA UntouchedSends ==
    ASSUME IndInv', NEW t \in Tabs, \A u \in Tabs : u = t, Untouched(t)'
    PROVE  NothingSent' /\ DOMAIN keys' = {}
<1>1. DOMAIN keys' = {}
  <2>1. /\ DOMAIN keys' \subseteq Keys /\ \A k \in DOMAIN keys' : applied'[k] > 0
        /\ \A k \in Keys : applied'[k] = 0
    BY DEF Untouched, IndInv, OkMeansExecuted, TypeOK, ServerTypeOK, IsTable
  <2>2. SUFFICES ASSUME NEW k \in DOMAIN keys' PROVE FALSE
    OBVIOUS
  <2>3. applied'[k] = 0 /\ applied'[k] > 0
    BY <2>1, <2>2
  <2> QED
    BY <2>3
<1>2. flush'[t] = Quiet /\ wire' = {} /\ open'[t] = None /\ reply'[t] = None
  BY DEF Untouched
<1>3. DOMAIN Todo(t)' = {}
  BY <1>2, EmptyTable DEF Todo, Quiet, Loop
<1>4. InOrder' /\ WireForemost' /\ StoredRows'
  BY <1>1, <1>2 DEF InOrder, WireForemost, StoredRows
<1>5. WholePass' /\ (\A u \in Tabs : PassDue(u))'
  BY <1>3 DEF WholePass, PassDue
<1>6. (\A u \in Tabs : AnswerOf(u))'
  BY <1>2 DEF AnswerOf
<1>7. NoneParked'
  BY DEF Untouched, NoneParked
<1> QED
  BY <1>1, <1>4, <1>5, <1>6, <1>7 DEF NothingSent

(* What a device that has not been online does: edits, and looks at rows. *)
LEMMA OfflineSteps ==
    ASSUME IndInv, OneSession, [Next]_vars, Alone',
           NEW t \in Tabs, \A u \in Tabs : u = t, ~online[t], Untouched(t)
    PROVE  /\ UNCHANGED <<rows, nextId>>
           /\ \/ Enqueue \/ CreateOffline(t) \/ GoOnline(t) \/ Evict(t)
              \/ \E id \in view[t] : UpdateOffline(t, id) \/ DeleteOffline(t, id)
              \/ ShowTrip(t) /\ UNCHANGED cache
              \/ UNCHANGED vars
<1>1. TypeOK /\ flush[t].step = "idle" /\ wire = {} /\ open[t] = None
  BY DEF IndInv, Untouched, Quiet, Loop
<1>2. CASE Enqueue
  BY <1>2 DEF Enqueue, serverVars
<1>3. CASE ServerStep
  <2>1. ~CollabUpdate /\ ~CollabDelete
    BY <1>1, StaysAlone
  <2>2. ~PurgeKey
    <3>1. "keyLoss" \in Faults
      BY DEF Faults
    <3> QED
      BY <1>1, <3>1, NoFault DEF PurgeKey, OneSession
  <2> QED
    BY <1>1, <1>3, <2>1, <2>2 DEF ServerStep, GiveUp
<1>4. ASSUME NEW u \in Tabs, EditStep(u)
      PROVE  /\ CreateOffline(t) \/ \E id \in view[t] : UpdateOffline(t, id) \/ DeleteOffline(t, id)
             /\ UNCHANGED <<rows, nextId>>
  BY <1>4 DEF EditStep, CreateOnline, UpdateOnline, DeleteOnline, EditOnline, CreateOffline,
     UpdateOffline, DeleteOffline, Drafted, serverVars
<1>5. ASSUME NEW u \in Tabs, FlushStep(u) PROVE FALSE
  BY <1>1, <1>5 DEF FlushStep, Replays, FailUnresolved, HasNext, EndFlush, Remap, StoreEntity,
     Undisplay, Dequeue, ConflictTheirs, ConflictMine, ConflictAsk, Reject, Abort, Answered
<1>6. ASSUME NEW u \in Tabs, ConflictStep(u) PROVE FALSE
  BY <1>6 DEF ConflictStep, KeepMine, KeepServer, Untouched
<1>7. ASSUME NEW u \in Tabs, TabStep(u)
      PROVE  /\ GoOnline(t) \/ Evict(t) \/ (ShowTrip(t) /\ UNCHANGED cache)
             /\ UNCHANGED <<rows, nextId>>
  <2>1. u = t /\ "reload" \in Faults
    BY DEF Faults
  <2>2. ~Reload(t)
    BY <1>1, <2>1, NoFault DEF Reload, OneSession
  <2>3. ~StartFlush(t) /\ ~GoOffline(t)
    BY DEF StartFlush, GoOffline
  <2>4. ShowTrip(t) => UNCHANGED cache /\ UNCHANGED <<rows, nextId>>
    BY DEF ShowTrip, serverVars
  <2>5. GoOnline(t) \/ Evict(t) => UNCHANGED <<rows, nextId>>
    BY DEF GoOnline, Evict, serverVars
  <2>6. GoOnline(t) \/ Evict(t) \/ ShowTrip(t)
    BY <1>7, <2>1, <2>2, <2>3 DEF TabStep
  <2> QED
    BY <2>4, <2>5, <2>6
<1>8. CASE UNCHANGED vars
  BY <1>8 DEF vars, serverVars
<1> QED
  BY <1>2, <1>3, <1>4, <1>5, <1>6, <1>7, <1>8 DEF Next

(* An offline device has the tokens of the rows, and names ids it got.     *)
OfflineDue ==
    /\ \A id \in DOMAIN cache : Due(id, cache[id].at)
    /\ \A k \in DOMAIN queue : queue[k].method = "PUT" => Due(queue[k].target, queue[k].base)
    /\ (draft # None /\ draft.mutation.method = "PUT") =>
          Due(draft.mutation.target, draft.mutation.base)
LEMMA OfflineDueStays ==
    ASSUME IndInv, OfflineDue, KnownIds, UNCHANGED <<rows, nextId>>,
           NEW t \in Tabs, \A u \in Tabs : u = t, ~online[t],
           \/ Enqueue \/ CreateOffline(t) \/ GoOnline(t) \/ Evict(t)
           \/ \E id \in view[t] : UpdateOffline(t, id) \/ DeleteOffline(t, id)
           \/ ShowTrip(t) /\ UNCHANGED cache
           \/ UNCHANGED vars
    PROVE  OfflineDue' /\ KnownIds'
<1> USE DEF OfflineDue, KnownIds, Due
<1>1. /\ TypeOK /\ nextKey \in Nat \ {0} /\ nextId \in Nat \ {0} /\ DOMAIN view = Tabs
      /\ DOMAIN rows \subseteq Nat /\ rows' = rows /\ nextId' = nextId
  BY DEF IndInv, TypeOK, ServerTypeOK, DeviceTypeOK, IsTable
<1>2. \A id \in DOMAIN cache \cup view[t] : id < nextId
  OBVIOUS
<1>3. CASE Enqueue
  <2>1. PICK key, m : key = draft.key /\ m = draft.mutation
    OBVIOUS
  <2>2. queue' = Put(queue, key, m) /\ draft # None /\ draft' = None /\ UNCHANGED <<cache, view>>
    BY <1>3, <2>1 DEF Enqueue
  <2>3. /\ DOMAIN queue' = DOMAIN queue \cup {key} /\ queue'[key] = m
        /\ \A k \in DOMAIN queue : k # key => queue'[k] = queue[k]
    BY <2>2 DEF Put
  <2> QED
    BY <1>1, <1>2, <2>1, <2>2, <2>3
<1>4. CASE CreateOffline(t)
  <2>1. PICK key, row : key = -nextKey /\ row = [by |-> nextKey, at |-> NoToken]
    OBVIOUS
  <2>2. /\ cache' = Put(cache, key, row) /\ view'[t] = view[t] \cup {key} /\ queue' = queue
        /\ draft'.mutation.method = "POST" /\ draft'.mutation.target = key
    BY <1>1, <1>4, <2>1 DEF CreateOffline, Drafted
  <2>3. /\ DOMAIN cache' = DOMAIN cache \cup {key} /\ cache'[key] = row
        /\ \A i \in DOMAIN cache : i # key => cache'[i] = cache[i]
    BY <2>2 DEF Put
  <2>4. key < nextId /\ key \notin DOMAIN rows
    BY <1>1, <2>1
  <2> QED
    BY <1>1, <1>2, <2>2, <2>3, <2>4
<1>5. ASSUME NEW id \in view[t], UpdateOffline(t, id) PROVE OfflineDue' /\ KnownIds'
  <2>1. PICK token : token = IF id \in DOMAIN cache THEN cache[id].at ELSE NoToken
    OBVIOUS
  <2>2. PICK row : row = [by |-> nextKey, at |-> token]
    OBVIOUS
  <2>3. /\ cache' = Put(cache, id, row) /\ UNCHANGED <<queue, view>>
        /\ draft'.mutation.target = id /\ draft'.mutation.base = token
    BY <1>5, <2>1, <2>2 DEF UpdateOffline, Drafted
  <2>4. /\ DOMAIN cache' = DOMAIN cache \cup {id} /\ cache'[id] = row
        /\ \A i \in DOMAIN cache : i # id => cache'[i] = cache[i]
    BY <2>3 DEF Put
  <2>5. row.at = token /\ (id \in DOMAIN rows => token \in {NoToken, Forced, rows[id].at})
    BY <2>1, <2>2
  <2> QED
    BY <1>1, <1>2, <2>3, <2>4, <2>5
<1>6. ASSUME NEW id \in view[t], DeleteOffline(t, id) PROVE OfflineDue' /\ KnownIds'
  <2>1. PICK S : S = {id}
    OBVIOUS
  <2>2. /\ cache' = Without(cache, S) /\ view'[t] \subseteq view[t] /\ queue' = queue
        /\ draft'.mutation.method = "DELETE" /\ draft'.mutation.target = id
    BY <1>1, <1>6, <2>1 DEF DeleteOffline, Drafted
  <2>3. /\ DOMAIN cache' = DOMAIN cache \ S
        /\ \A i \in DOMAIN cache \ S : cache'[i] = cache[i]
    BY <2>2 DEF Without, Restrict
  <2> QED
    BY <1>1, <1>2, <2>2, <2>3
<1>7. CASE GoOnline(t)
  BY <1>1, <1>2, <1>7 DEF GoOnline
<1>8. CASE Evict(t)
  <2>1. PICK S : queue' = Without(queue, S)
    BY <1>8 DEF Evict
  <2>2. DOMAIN queue' = DOMAIN queue \ S /\ \A k \in DOMAIN queue \ S : queue'[k] = queue[k]
    BY <2>1 DEF Without, Restrict
  <2>3. DOMAIN cache' = {} /\ draft' = draft /\ view'[t] = {}
    BY <1>1, <1>8, EmptyTable DEF Evict
  <2> QED
    BY <1>1, <1>2, <2>2, <2>3
<1>9. CASE ShowTrip(t) /\ UNCHANGED cache
  <2>1. view'[t] = DOMAIN cache /\ UNCHANGED <<queue, draft, cache>>
    BY <1>1, <1>9 DEF ShowTrip
  <2> QED
    BY <1>1, <1>2, <2>1
<1>10. CASE UNCHANGED vars
  BY <1>1, <1>10 DEF vars, deviceVars
<1> QED
  BY <1>3, <1>4, <1>5, <1>6, <1>7, <1>8, <1>9, <1>10

(* So SyncInv holds as long as the device is offline.                      *)
LEMMA OfflineKeepsSync ==
    ASSUME ReplayInv, IndInv', OneSession, SyncInv, [Next]_vars, Alone',
           NEW t \in Tabs, \A u \in Tabs : u = t, ~online[t]
    PROVE  SyncInv'
<1>1. /\ IndInv /\ TypeOK /\ Untouched(t) /\ Alone /\ OrderInv
  BY StaysAlone DEF ReplayInv, IndInv, PhantomInv, Unsynced
<1>2. Untouched(t)' /\ (online'[t] => draft' = None)
  BY <1>1, UntouchedStays DEF OneSession
<1>3. DOMAIN keys = {}
  <2>1. /\ DOMAIN keys \subseteq Keys /\ \A k \in DOMAIN keys : applied[k] > 0
        /\ \A k \in Keys : applied[k] = 0
    BY <1>1 DEF Untouched, IndInv, OkMeansExecuted, TypeOK, ServerTypeOK, IsTable
  <2>2. SUFFICES ASSUME NEW k \in DOMAIN keys PROVE FALSE
    OBVIOUS
  <2>3. applied[k] = 0 /\ applied[k] > 0
    BY <2>1, <2>2
  <2> QED
    BY <2>3
<1>4. NothingSent' /\ DOMAIN keys' = {}
  BY <1>2, UntouchedSends
<1>5. /\ UNCHANGED <<rows, nextId>>
      /\ \/ Enqueue \/ CreateOffline(t) \/ GoOnline(t) \/ Evict(t)
         \/ \E id \in view[t] : UpdateOffline(t, id) \/ DeleteOffline(t, id)
         \/ ShowTrip(t) /\ UNCHANGED cache
         \/ UNCHANGED vars
  BY <1>1, OfflineSteps
<1>6. OwnRows'
  BY <1>1, <1>3, <1>4, <1>5 DEF SyncInv, OwnRows
<1>7. OfflineDue
  <2>1. \A id : ~Ahead(id)
    BY <1>3 DEF Ahead
  <2>2. \A k \in DOMAIN queue : Alive(k)
    BY <1>1 DEF Untouched, Alive
  <2> QED
    BY <1>1, <1>3, <2>1, <2>2 DEF SyncInv, QueueDue, TokenDue, LocalDue, OfflineDue
<1>8. OfflineDue' /\ KnownIds'
  BY <1>1, <1>5, <1>7, OfflineDueStays DEF SyncInv
<1>9. QueueDue' /\ LocalDue'
  <2>1. \A u \in Tabs : u = t
    OBVIOUS
  <2> QED
    BY <1>8, <2>1 DEF OfflineDue, QueueDue, LocalDue, TokenDue
<1> QED
  BY <1>4, <1>6, <1>8, <1>9 DEF NothingSent, SyncInv

-----------------------------------------------------------------------------
(* Once the device is online: nobody but its own loop writes the rows.     *)

(* What the server does then, and what the tab does.                       *)
Exchange(t) ==
    /\ UNCHANGED <<deviceVars, open>>
    /\ \/ wire' \subseteq wire /\ GiveUp(t)
       \/ \E q \in wire : Deny(q) /\ wire' \subseteq wire
       \/ \E q \in wire :
             /\ wire' = wire \ {q}
             /\ Replay(q) \/ ExecuteAndStore(q) \/ Refuse(q)
LoopGoesOn(t) ==
    \/ Replays(t) \/ FailUnresolved(t) \/ EndFlush(t) \/ Remap(t) \/ StoreEntity(t)
    \/ Undisplay(t) \/ Dequeue(t) \/ Reject(t) \/ Abort(t)

LEMMA OnlineSteps ==
    ASSUME ReplayInv, OneSession, SyncInv, [Next]_vars, Alone',
           NEW t \in Tabs, \A u \in Tabs : u = t, online[t]
    PROVE  /\ draft = None /\ draft' = None /\ online'[t]
           /\ \/ Exchange(t) \/ LoopGoesOn(t) \/ StartFlush(t) \/ ShowTrip(t) \/ Evict(t)
              \/ UNCHANGED vars
<1>1. /\ IndInv /\ TypeOK /\ OrderInv /\ draft = None /\ Alone
      /\ NoneParked /\ AnswerOf(t)
  BY StaysAlone DEF ReplayInv, IndInv, PhantomInv, Unsynced, SyncInv
<1>2. draft' = None /\ online'[t]
  BY <1>1, OnlineStays DEF OneSession
<1>3. ~Enqueue
  BY <1>1 DEF Enqueue
<1>4. CASE ServerStep
  <2>1. ~CollabUpdate /\ ~CollabDelete
    BY <1>1, StaysAlone
  <2>2. "keyLoss" \in Faults
    BY DEF Faults
  <2>3. ~PurgeKey /\ \A q : ~ExecuteAndCrash(q)
    BY <1>1, <2>2, NoFault DEF PurgeKey, ExecuteAndCrash, OneSession
  <2>4. ASSUME NEW q \in wire, Serve(q) PROVE Exchange(t)
    <3>1. UNCHANGED <<deviceVars, open>>
      BY <1>4, <2>4 DEF ServerStep, Serve
    <3>2. CASE Deny(q)
      BY <3>1, <3>2 DEF Deny, Exchange
    <3>3. CASE wire' = wire \ {q} /\ (Replay(q) \/ ExecuteAndStore(q) \/ Refuse(q))
      BY <3>1, <3>3 DEF Exchange
    <3> QED
      BY <2>3, <2>4, <3>2, <3>3 DEF Serve
  <2>5. ASSUME NEW u \in Tabs, GiveUp(u) PROVE Exchange(t)
    <3>1. u = t
      OBVIOUS
    <3> QED
      BY <1>4, <2>5, <3>1 DEF ServerStep, GiveUp, Exchange
  <2> QED
    BY <1>1, <1>2, <1>4, <2>1, <2>3, <2>4, <2>5 DEF ServerStep
<1>5. ASSUME NEW u \in Tabs, EditStep(u) PROVE FALSE
  <2>1. u = t
    OBVIOUS
  <2> QED
    BY <1>5, <2>1 DEF EditStep, CreateOnline, UpdateOnline, DeleteOnline, EditOnline, OneSession,
       CreateOffline, UpdateOffline, DeleteOffline, CanDraft
<1>6. ASSUME NEW u \in Tabs, FlushStep(u) PROVE LoopGoesOn(t)
  <2>1. u = t
    OBVIOUS
  <2>2. ~ConflictTheirs(t) /\ ~ConflictMine(t) /\ ~ConflictAsk(t)
    BY <1>1 DEF ConflictTheirs, ConflictMine, ConflictAsk, Answered, AnswerOf
  <2> QED
    BY <1>6, <2>1, <2>2 DEF FlushStep, LoopGoesOn
<1>7. ASSUME NEW u \in Tabs, ConflictStep(u) PROVE FALSE
  BY <1>1, <1>7 DEF ConflictStep, KeepMine, KeepServer, NoneParked
<1>8. ASSUME NEW u \in Tabs, TabStep(u) PROVE StartFlush(t) \/ ShowTrip(t) \/ Evict(t)
  <2>1. u = t /\ "reload" \in Faults /\ "offline" \in Faults
    BY DEF Faults
  <2>2. ~Reload(t) /\ ~GoOffline(t) /\ ~GoOnline(t)
    BY <1>1, <2>1, NoFault DEF Reload, GoOffline, GoOnline, OneSession
  <2> QED
    BY <1>8, <2>1, <2>2 DEF TabStep
<1> QED
  BY <1>1, <1>2, <1>3, <1>4, <1>5, <1>6, <1>7, <1>8 DEF Next

(* Only the foremost edit is executed, when no other that was executed is  *)
(* on its way still.                                                       *)
LEMMA OnlyForemost ==
    ASSUME ReplayInv, SyncInv, Alone, NEW t \in Tabs, \A u \in Tabs : u = t,
           NEW q \in wire, q.key \notin DOMAIN keys, Execute(q)
    PROVE  /\ Foremost(q.key) /\ queue[q.key].method = q.method
           /\ q.method # "POST" => queue[q.key].target = q.row
           /\ \A k \in DOMAIN keys : ~Alive(k)
           /\ flush[t].step \notin {"store", "remove"}
           /\ reply[t] # None => reply[t].status \notin {"ok", "missing"}
           /\ \A id : ~Ahead(id)
<1>1. /\ TypeOK /\ InOrder /\ WireForemost /\ WireTargets /\ WholePass /\ AnswerOf(t)
      /\ DOMAIN keys \subseteq Nat /\ DOMAIN queue \subseteq Nat /\ q \in Request
      /\ ExchangeOf(t)
  BY DEF ReplayInv, IndInv, TokenInv, SyncInv, TypeOK, ServerTypeOK, DeviceTypeOK, IsTable, Keys,
     Exchanges
<1>2. q.row \in DOMAIN rows \/ q.method = "POST"
  BY DEF Execute, Creates, Updates, Deletes
<1>3. Foremost(q.key)
  BY <1>1, <1>2 DEF WireForemost, Gone
<1>4. queue[q.key].method = q.method
  <2>1. PICK m \in [Keys -> Methods] : Agree(m)
    BY DEF ReplayInv, IndInv, MethodsAgree
  <2> QED
    BY <1>3, <2>1 DEF Agree, Foremost, Alive
<1>5. q.method # "POST" => queue[q.key].target = q.row
  BY <1>1, <1>3 DEF WireTargets, Foremost, Alive
<1>6. ASSUME NEW k \in DOMAIN keys, Alive(k) PROVE FALSE
  <2>1. k <= q.key /\ q.key <= k
    BY <1>1, <1>3, <1>6 DEF InOrder, Foremost, Alive
  <2> QED
    BY <1>1, <1>6, <2>1, <1>3 DEF Foremost, Alive
<1>7. DOMAIN Todo(t) # {} => Alive(Current(t)) /\ Current(t) \in DOMAIN Todo(t) /\ Current(t) \in DOMAIN queue
  BY InHand DEF Alive, ReplayInv
<1>8. reply[t] # None => reply[t].status # "ok"
  <2>1. reply[t] # None => DOMAIN Todo(t) # {}
    BY ReplyInHand DEF ReplayInv
  <2> QED
    BY <1>1, <1>6, <1>7, <2>1 DEF AnswerOf
<1>9. reply[t] # None => reply[t].status # "missing"
  <2>1. SUFFICES ASSUME reply[t] # None, reply[t].status = "missing" PROVE FALSE
    OBVIOUS
  <2>2. DOMAIN Todo(t) # {}
    BY <2>1, ReplyInHand DEF ReplayInv
  <2>3. q.key \in DOMAIN Todo(t) /\ q.key <= Current(t)
    BY <1>1, <1>3, <1>7, <2>2 DEF WholePass, Foremost, Alive
  <2>4. Current(t) <= q.key
    <3>1. DOMAIN Todo(t) \subseteq Nat
      BY <1>1 DEF TypeOK, DeviceTypeOK, FlushType, IsTable, Keys, Todo
    <3> QED
      BY <2>2, <2>3, <3>1, MinIsElement DEF Current
  <2>5. Current(t) = q.key
    BY <1>1, <1>7, <2>2, <2>3, <2>4, <1>3 DEF Foremost, Alive
  <2>6. Snapshot(t).method # "POST" /\ Gone(queue[q.key].target)
    BY <1>1, <2>1, <2>5 DEF AnswerOf
  <2>7. queue[q.key].method = Snapshot(t).method
    BY <2>2, <2>5, OneMethod DEF ReplayInv
  <2> QED
    BY <1>2, <1>4, <1>5, <2>6, <2>7 DEF Gone
<1>10. flush[t].step \notin {"store", "remove"}
  BY <1>1, <1>8 DEF ExchangeOf
<1>11. \A id : ~Ahead(id)
  BY <1>6 DEF Ahead
<1> QED
  BY <1>3, <1>4, <1>5, <1>6, <1>8, <1>9, <1>10, <1>11

(* The mutation in hand is the foremost.                                   *)
LEMMA HeadForemost ==
    ASSUME ReplayInv, SyncInv, Alone, NEW t \in Tabs, DOMAIN Todo(t) # {}
    PROVE  /\ Foremost(Current(t)) /\ Current(t) \in DOMAIN Todo(t) /\ Current(t) \in DOMAIN queue
           /\ Alive(Current(t))
           /\ \A k \in DOMAIN keys : Alive(k) => k = Current(t)
<1>1. /\ TypeOK /\ InOrder /\ WholePass /\ DOMAIN Todo(t) \subseteq Nat
      /\ DOMAIN keys \subseteq Nat
  BY DEF ReplayInv, IndInv, SyncInv, TypeOK, ServerTypeOK, DeviceTypeOK, FlushType, IsTable, Keys, Todo
<1>2. Alive(Current(t)) /\ Current(t) \in DOMAIN Todo(t) /\ Current(t) \in DOMAIN queue
  BY InHand DEF Alive, ReplayInv
<1>3. \A j \in DOMAIN queue : Alive(j) => Current(t) <= j
  BY <1>1, MinIsElement DEF WholePass, Current
<1>4. ASSUME NEW k \in DOMAIN keys, Alive(k) PROVE k = Current(t)
  <2>1. k <= Current(t) /\ Current(t) <= k
    BY <1>1, <1>2, <1>3, <1>4 DEF InOrder, Alive
  <2> QED
    BY <1>1, <1>2, <2>1
<1> QED
  BY <1>2, <1>3, <1>4 DEF Foremost

(* An update that is awaited has the token of its row.                     *)
LEMMA NeverStale ==
    ASSUME ReplayInv, SyncInv, Alone, NEW t \in Tabs, NEW q \in wire, open[t] = q,
           q.key \notin DOMAIN keys, Refuses(q)
    PROVE  /\ q.row \notin DOMAIN rows /\ q.method # "POST" /\ q.key = Current(t)
           /\ Snapshot(t).method = q.method /\ Gone(queue[Current(t)].target)
<1>1. /\ IndInv /\ TypeOK /\ AnswerOf(t) /\ PassDue(t) /\ KnownIds /\ ExchangeOf(t) /\ WireTargets
      /\ q \in Request /\ q # None
  BY DEF ReplayInv, IndInv, TokenInv, SyncInv, TypeOK, ServerTypeOK, Exchanges
<1>2. /\ q.key = Current(t) /\ q.method = Snapshot(t).method /\ q.base = BaseToken(t)
      /\ q.row = IF q.method = "POST" THEN 0 ELSE Target(t)
  BY <1>1 DEF AnswerOf, CurrentRequest
<1>3. DOMAIN Todo(t) # {}
  BY <1>1 DEF ExchangeOf
<1>4. q.method # "POST"
  BY DEF Refuses
<1>5. ASSUME q.row \in DOMAIN rows PROVE FALSE
  <2>1. q.method = "PUT" /\ Stale(q)
    BY <1>5 DEF Refuses
  <2>2. Current(t) \in DOMAIN Todo(t) /\ \A k \in DOMAIN keys : ~Alive(k)
    BY <1>2, <1>3, HeadForemost
  <2>3. TokenDue(Mapped(t, Snapshot(t).target), PassToken(t, Current(t)))
    BY <1>1, <1>2, <2>1, <2>2 DEF PassDue, Snapshot
  <2>4. Mapped(t, Snapshot(t).target) = q.row /\ PassToken(t, Current(t)) = q.base
    <3>1. Mapped(t, Snapshot(t).target) = Target(t)
      BY DEF Mapped, Target
    <3>2. PassToken(t, Current(t)) = BaseToken(t)
      BY <1>2, <2>1, <3>1 DEF PassToken, BaseToken, Snapshot
    <3> QED
      BY <1>2, <2>1, <3>1, <3>2
  <2>5. Due(q.row, q.base)
    BY <2>2, <2>3, <2>4 DEF TokenDue, Ahead
  <2> QED
    BY <1>5, <2>1, <2>5 DEF Due, Stale
<1>6. Gone(queue[Current(t)].target)
  BY <1>1, <1>2, <1>3, <1>4, <1>5, HeadForemost DEF WireTargets, KnownIds, Gone
<1> QED
  BY <1>2, <1>4, <1>5, <1>6

(* An answer that changes no row. *)
LEMMA AnswersKeepSync ==
    ASSUME ReplayInv, SyncInv, Alone, NEW t \in Tabs, \A u \in Tabs : u = t,
           UNCHANGED <<deviceVars, open>>, wire' \subseteq wire,
           GiveUp(t) \/ \E q \in wire : Deny(q) \/ Replay(q) \/ Refuse(q)
    PROVE  SyncInv'
<1>1. UNCHANGED <<rows, nextId, keys>>
  BY DEF GiveUp, Deny, Replay, Refuse
<1>2. /\ UNCHANGED <<queue, flush, draft, cache, view, online, open>>
      /\ TypeOK /\ AnswerOf(t) /\ DOMAIN reply = Tabs /\ \A k \in DOMAIN keys : keys[k].status = "ok"
  BY DEF deviceVars, ReplayInv, IndInv, OkMeansExecuted, SyncInv, TypeOK, ServerTypeOK
<1>3. /\ InOrder' /\ WireForemost' /\ WholePass' /\ NoneParked' /\ StoredRows' /\ OwnRows'
      /\ QueueDue' /\ LocalDue' /\ KnownIds' /\ (\A u \in Tabs : PassDue(u))'
  <2>1. \A k : Alive(k)' <=> Alive(k)
    BY <1>2 DEF Alive
  <2>2. \A id, base : TokenDue(id, base)' <=> TokenDue(id, base)
    BY <1>1, <1>2, <2>1 DEF TokenDue, Due, Ahead, Current, Todo
  <2>3. InOrder' /\ WireForemost'
    BY <1>1, <1>2, <2>1 DEF SyncInv, InOrder, WireForemost, Foremost, Gone
  <2>4. WholePass' /\ NoneParked'
    BY <1>2, <2>1 DEF SyncInv, WholePass, NoneParked, Todo
  <2>5. StoredRows' /\ OwnRows'
    BY <1>1, <1>2, <2>1 DEF SyncInv, StoredRows, OwnRows
  <2>6. QueueDue'
    BY <1>1, <1>2, <2>1, <2>2 DEF SyncInv, QueueDue
  <2>7. LocalDue' /\ KnownIds'
    BY <1>1, <1>2 DEF SyncInv, LocalDue, KnownIds, Due
  <2>8. (\A u \in Tabs : PassDue(u))'
    <3>1. \A k : PassToken(t, k)' = PassToken(t, k)
      BY <1>2 DEF PassToken, Mapped, Todo
    <3> QED
      BY <1>1, <1>2, <2>2, <3>1 DEF SyncInv, PassDue, Mapped, Todo
  <2> QED
    BY <2>3, <2>4, <2>5, <2>6, <2>7, <2>8
<1>4. /\ Current(t)' = Current(t) /\ Snapshot(t)' = Snapshot(t)
      /\ CurrentRequest(t)' = CurrentRequest(t)
  BY <1>2 DEF CurrentRequest, Current, Snapshot, Todo, BaseToken, Target
<1>5. AnswerOf(t)'
  <2>1. SUFFICES ASSUME reply'[t] # reply[t], reply'[t] # None
                 PROVE  /\ reply'[t].status # "conflict"
                        /\ reply'[t].status = "ok" =>
                              Current(t) \in DOMAIN keys /\ reply'[t] = keys[Current(t)]
                        /\ reply'[t].status = "missing" =>
                              Snapshot(t).method # "POST" /\ Gone(queue[Current(t)].target)
    BY <1>1, <1>2, <1>4 DEF AnswerOf, Gone
  <2>2. CASE GiveUp(t)
    BY <1>2, <2>2 DEF GiveUp, Bare
  <2>3. ASSUME NEW q \in wire, Deny(q)
        PROVE  reply'[t].status = "denied"
    BY <2>1, <2>3 DEF Deny, Answer, Bare
  <2>4. ASSUME NEW q \in wire, Replay(q)
        PROVE  Current(t) \in DOMAIN keys /\ reply'[t] = keys[Current(t)] /\ reply'[t].status = "ok"
    <3>1. open[t] = q /\ q.key \in DOMAIN keys /\ reply'[t] = keys[q.key]
      BY <2>1, <2>4 DEF Replay, Answer
    <3>2. q.key = Current(t)
      <4>1. q # None
        BY <1>2 DEF TypeOK, ServerTypeOK
      <4> QED
        BY <1>2, <3>1, <4>1 DEF AnswerOf, CurrentRequest
    <3> QED
      BY <1>2, <3>1, <3>2
  <2>5. ASSUME NEW q \in wire, Refuse(q)
        PROVE  /\ reply'[t].status = "missing"
               /\ Snapshot(t).method # "POST" /\ Gone(queue[Current(t)].target)
    <3>1. open[t] = q /\ q.key \notin DOMAIN keys /\ Refuses(q) /\ reply'[t] = Refusal(q)
      BY <2>1, <2>5 DEF Refuse, Answer
    <3> QED
      BY <3>1, NeverStale DEF Refusal, Bare
  <2> QED
    BY <2>2, <2>3, <2>4, <2>5
<1> QED
  BY <1>3, <1>5 DEF SyncInv

(* What an execution does to the rows: it writes or deletes one.           *)
WrittenRow(q) == IF q.method = "POST" THEN nextId ELSE q.row
LEMMA WritesOneRow ==
    ASSUME TypeOK, NEW q \in wire, Execute(q), NEW id, id = WrittenRow(q)
    PROVE  /\ \A i : i # id => (i \in DOMAIN rows' <=> i \in DOMAIN rows)
           /\ \A i \in DOMAIN rows : i # id => rows'[i] = rows[i]
           /\ q.method = "DELETE" => id \notin DOMAIN rows'
           /\ q.method # "DELETE" =>
                 /\ id \in DOMAIN rows' /\ Success(q).id = id /\ Success(q).entity = rows'[id]
                 /\ rows'[id].by = q.key
           /\ nextId' >= nextId
<1>1. nextId \in Nat
  BY DEF TypeOK, ServerTypeOK
<1>2. CASE Creates(q) \/ Updates(q)
  <2>1. Stamp(id, q.key) /\ q.method \in {"POST", "PUT"} /\ nextId' >= nextId
    BY <1>1, <1>2 DEF Creates, Updates, WrittenRow
  <2>2. PICK row : row = [by |-> q.key, at |-> clock']
    OBVIOUS
  <2>3. rows' = Put(rows, id, row) /\ row.by = q.key
    BY <2>1, <2>2 DEF Stamp
  <2>4. /\ DOMAIN rows' = DOMAIN rows \cup {id} /\ rows'[id] = row
        /\ \A i \in DOMAIN rows : i # id => rows'[i] = rows[i]
    BY <2>3 DEF Put
  <2>5. Success(q).id = id /\ Success(q).entity = rows'[id]
    BY <2>1 DEF Success, WrittenRow
  <2> QED
    BY <2>1, <2>3, <2>4, <2>5
<1>3. CASE Deletes(q)
  <2>1. PICK S : S = {id}
    OBVIOUS
  <2>2. q.method = "DELETE" /\ rows' = Without(rows, S) /\ nextId' = nextId
    BY <1>3, <2>1 DEF Deletes, WrittenRow
  <2>3. /\ DOMAIN rows' = DOMAIN rows \ S
        /\ \A i \in DOMAIN rows \ S : rows'[i] = rows[i]
    BY <2>2 DEF Without, Restrict
  <2> QED
    BY <1>1, <2>1, <2>2, <2>3
<1> QED
  BY <1>2, <1>3 DEF Execute

(* Executing an edit: the others of its row await its answer.              *)
LEMMA ExecutionKeepsSync ==
    ASSUME ReplayInv, IndInv', SyncInv, Alone, NEW t \in Tabs, \A u \in Tabs : u = t,
           online[t], draft = None,
           UNCHANGED <<deviceVars, open>>, NEW q \in wire, wire' = wire \ {q}, ExecuteAndStore(q)
    PROVE  SyncInv'
<1> DEFINE id == WrittenRow(q)
           sent == q.key
<1>1. /\ UNCHANGED <<queue, flush, draft, cache, view, online, open>>
      /\ TypeOK /\ AnswerOf(t) /\ DOMAIN reply = Tabs /\ q \in Request /\ Execute(q)
      /\ sent \notin DOMAIN keys
  BY DEF deviceVars, ReplayInv, IndInv, SyncInv, TypeOK, ServerTypeOK, ExecuteAndStore
<1>2. PICK body : body = Success(q)
  OBVIOUS
<1>3. /\ keys' = Put(keys, sent, body) /\ Answer(q, body)
  BY <1>2 DEF ExecuteAndStore
<1>4. /\ DOMAIN keys' = DOMAIN keys \cup {sent} /\ keys'[sent] = body
      /\ \A k \in DOMAIN keys : keys'[k] = keys[k]
  BY <1>1, <1>3 DEF Put
<1>5. /\ Foremost(sent) /\ queue[sent].method = q.method
      /\ q.method # "POST" => queue[sent].target = q.row
      /\ \A k \in DOMAIN keys : ~Alive(k)
      /\ flush[t].step \notin {"store", "remove"}
      /\ reply[t] # None => reply[t].status \notin {"ok", "missing"}
      /\ \A i : ~Ahead(i)
  BY <1>1, OnlyForemost
<1>6. \A k : Alive(k)' <=> Alive(k)
  BY <1>1 DEF Alive
<1>7. /\ \A i : i # id => (i \in DOMAIN rows' <=> i \in DOMAIN rows)
      /\ \A i \in DOMAIN rows : i # id => rows'[i] = rows[i]
      /\ q.method = "DELETE" => id \notin DOMAIN rows'
      /\ q.method # "DELETE" =>
            /\ id \in DOMAIN rows' /\ body.id = id /\ body.entity = rows'[id]
            /\ rows'[id].by = sent
      /\ nextId' >= nextId
  BY <1>1, <1>2, WritesOneRow
<1>8. InOrder'
  BY <1>1, <1>4, <1>5, <1>6 DEF SyncInv, InOrder, Foremost
<1>9. WireForemost'
  <2>1. GoneStays
    <3>1. Serve(q)
      BY <1>1 DEF Serve
    <3> QED
      BY <3>1, ServeDoes DEF ReplayInv
  <2>2. SUFFICES ASSUME NEW p \in wire, p.key \notin DOMAIN keys'
                 PROVE  Foremost(p.key)' \/ (p.method # "POST" /\ Gone(p.row)')
    BY <1>1 DEF WireForemost
  <2>3. Foremost(p.key) \/ (p.method # "POST" /\ Gone(p.row))
    BY <1>4, <2>2 DEF SyncInv, WireForemost
  <2>4. p.row \in Int
    BY <1>1 DEF TypeOK, ServerTypeOK, Request
  <2>5. Foremost(p.key) => Foremost(p.key)'
    BY <1>1, <1>6 DEF Foremost
  <2> QED
    BY <2>1, <2>3, <2>4, <2>5 DEF GoneStays
<1>10. WholePass' /\ NoneParked'
  BY <1>1, <1>6 DEF SyncInv, WholePass, NoneParked, Todo
<1>11. AnswerOf(t)'
  <2>1. /\ Current(t)' = Current(t) /\ CurrentRequest(t)' = CurrentRequest(t)
    BY <1>1 DEF CurrentRequest, Current, Snapshot, Todo, BaseToken, Target
  <2>2. body.status = "ok" /\ q # None
    <3>1. keys'[sent].status = "ok"
      BY <1>4 DEF IndInv, OkMeansExecuted
    <3> QED
      BY <1>1, <1>4, <3>1 DEF TypeOK, ServerTypeOK
  <2>3. CASE open[t] = q
    <3>1. reply'[t] = body /\ sent = Current(t)
      BY <1>1, <1>3, <2>2, <2>3 DEF Answer, AnswerOf, CurrentRequest
    <3> QED
      BY <1>1, <1>4, <2>1, <2>2, <3>1 DEF AnswerOf
  <2>4. CASE open[t] # q
    <3>1. reply'[t] = reply[t]
      BY <1>1, <1>3, <2>4 DEF Answer
    <3> QED
      BY <1>1, <1>5, <2>1, <3>1 DEF AnswerOf
  <2> QED
    BY <2>3, <2>4
<1>12. StoredRows'
  <2>1. SUFFICES ASSUME NEW k \in DOMAIN keys', Alive(k), queue[k].method # "DELETE"
                 PROVE  /\ keys'[k].id \in DOMAIN rows' /\ rows'[keys'[k].id] = keys'[k].entity
                        /\ queue[k].method = "PUT" => keys'[k].id = queue[k].target
    BY <1>1, <1>6 DEF StoredRows
  <2>2. k = sent
    BY <1>4, <1>5, <2>1
  <2> QED
    BY <1>4, <1>5, <1>7, <2>1, <2>2 DEF WrittenRow
<1>13. OwnRows'
  <2>1. SUFFICES ASSUME NEW i \in DOMAIN rows', IsOwn(rows'[i].by) PROVE rows'[i].by \in DOMAIN keys'
    BY DEF OwnRows, IsOwn
  <2> QED
    BY <1>4, <1>7, <2>1 DEF SyncInv, OwnRows
<1>14. ASSUME NEW i, NEW base, TokenDue(i, base) PROVE TokenDue(i, base)'
  <2>1. Due(i, base)
    BY <1>5, <1>14 DEF TokenDue
  <2>2. CASE i # id \/ q.method = "DELETE"
    BY <1>7, <2>1, <2>2 DEF Due, TokenDue
  <2>3. CASE i = id /\ q.method # "DELETE"
    <3>1. Ahead(i)'
      <4>1. Alive(sent)' /\ queue'[sent].method # "DELETE" /\ keys'[sent].id = i
        BY <1>1, <1>4, <1>5, <1>6, <1>7, <2>3 DEF Foremost
      <4>2. \A u \in Tabs : flush'[u].step # "remove"
        BY <1>1, <1>5
      <4> QED
        BY <1>4, <4>1, <4>2 DEF Ahead
    <3> QED
      BY <3>1 DEF TokenDue
  <2> QED
    BY <2>2, <2>3
<1>15. QueueDue'
  BY <1>1, <1>4, <1>6, <1>14 DEF SyncInv, QueueDue
<1>16. PassDue(t)'
  <2>1. \A k : PassToken(t, k)' = PassToken(t, k)
    BY <1>1 DEF PassToken, Mapped, Todo
  <2> QED
    BY <1>1, <1>4, <1>14, <2>1 DEF SyncInv, PassDue, Mapped, Todo
<1>17. LocalDue' /\ KnownIds'
  <2>1. nextId \in Nat /\ nextId' \in Nat /\ \A k \in DOMAIN queue : queue[k].target \in Int
    BY <1>1 DEF IndInv, TypeOK, ServerTypeOK, DeviceTypeOK, IsTable, Mutation
  <2>2. KnownIds'
    BY <1>1, <1>7, <2>1 DEF SyncInv, KnownIds
  <2> QED
    BY <1>1, <2>2 DEF LocalDue
<1> QED
  BY <1>8, <1>9, <1>10, <1>11, <1>12, <1>13, <1>15, <1>16, <1>17 DEF SyncInv

-----------------------------------------------------------------------------
(* What the loop does leaves the rows.                                     *)

ServerRowsStay == UNCHANGED <<rows, nextId, keys>>
FewerAlive == \A k : Alive(k)' => Alive(k) /\ queue'[k].method = queue[k].method
RowTargetsStay ==
    \A k : Alive(k)' => queue'[k].target = queue[k].target \/ queue[k].target \notin DOMAIN rows
Settles(q) == q.key \in DOMAIN keys \/ (q.method # "POST" /\ Gone(q.row))

(* What was in order is in order after a step that moves no row and        *)
(* brings no edit back to life.                                            *)
LEMMA OrderStays ==
    ASSUME SyncInv, Alone, ServerRowsStay, FewerAlive, RowTargetsStay,
           \A q \in wire' : Settles(q) \/ (Foremost(q.key) /\ Alive(q.key)')
    PROVE  InOrder' /\ WireForemost' /\ StoredRows' /\ OwnRows'
<1>1. /\ InOrder /\ StoredRows /\ OwnRows /\ rows' = rows /\ nextId' = nextId /\ keys' = keys
  BY DEF SyncInv, ServerRowsStay
<1>2. InOrder'
  BY <1>1 DEF InOrder, FewerAlive, Alive
<1>3. WireForemost'
  <2>1. \A q \in wire' : Foremost(q.key) /\ Alive(q.key)' => Foremost(q.key)'
    BY DEF Foremost, FewerAlive, Alive
  <2> QED
    BY <1>1, <2>1 DEF WireForemost, Settles, Gone
<1>4. StoredRows'
  <2>1. SUFFICES ASSUME NEW k \in DOMAIN keys, Alive(k)', queue'[k].method # "DELETE"
                 PROVE  /\ keys[k].id \in DOMAIN rows /\ rows[keys[k].id] = keys[k].entity
                        /\ queue'[k].method = "PUT" => keys[k].id = queue'[k].target
    BY <1>1 DEF StoredRows
  <2> QED
    BY <1>1, <2>1 DEF StoredRows, FewerAlive, RowTargetsStay
<1>5. OwnRows'
  BY <1>1 DEF OwnRows
<1> QED
  BY <1>2, <1>3, <1>4, <1>5

(* A token that is on the way is still, unless it has come.                *)
AheadStays == \A id : Ahead(id) => Ahead(id)'
LEMMA OnTheWay ==
    ASSUME NEW t \in Tabs, \A u \in Tabs : u = t, ServerRowsStay,
           \A x \in DOMAIN keys :
              (Alive(x) /\ queue[x].method # "DELETE"
               /\ (flush[t].step = "remove" => x # Current(t))) =>
                  /\ Alive(x)' /\ queue'[x].method = queue[x].method
                  /\ flush'[t].step = "remove" => x # Current(t)'
    PROVE  AheadStays
BY DEF AheadStays, Ahead, ServerRowsStay

(* The queue's tokens stay due after a step that changes neither targets   *)
(* nor tokens of what is to be sent.                                       *)
LEMMA QueueDueStays ==
    ASSUME SyncInv, Alone, ServerRowsStay, AheadStays, FewerAlive,
           \A k : Alive(k)' => /\ queue'[k].target = queue[k].target
                               /\ queue'[k].base = queue[k].base
    PROVE  QueueDue'
<1>1. SUFFICES ASSUME NEW k \in DOMAIN queue', Alive(k)', queue'[k].method = "PUT",
                      k \notin DOMAIN keys
               PROVE  TokenDue(queue[k].target, queue[k].base)'
  BY DEF QueueDue, ServerRowsStay, TokenDue, Due, Ahead
<1>2. Alive(k) /\ k \in DOMAIN queue /\ queue[k].method = "PUT"
  BY <1>1 DEF FewerAlive, Alive
<1> QED
  BY <1>1, <1>2 DEF SyncInv, QueueDue, TokenDue, Due, AheadStays, ServerRowsStay

(* So do the tokens of the pass, when the loop learns nothing new.         *)
LEMMA PassDueStays ==
    ASSUME SyncInv, Alone, ServerRowsStay, AheadStays, NEW t \in Tabs,
           flush'[t].idMap = flush[t].idMap, flush'[t].tokens = flush[t].tokens,
           DOMAIN Todo(t)' \subseteq DOMAIN Todo(t),
           \A k \in DOMAIN Todo(t)' : Todo(t)'[k] = Todo(t)[k]
    PROVE  PassDue(t)'
<1>1. SUFFICES ASSUME NEW k \in DOMAIN Todo(t)', Todo(t)'[k].method = "PUT", k \notin DOMAIN keys
               PROVE  TokenDue(Mapped(t, Todo(t)[k].target), PassToken(t, k))'
  BY DEF PassDue, ServerRowsStay
<1>2. PICK id, base : id = Mapped(t, Todo(t)[k].target) /\ base = PassToken(t, k)
  OBVIOUS
<1>3. id = Mapped(t, Todo(t)[k].target)' /\ base = PassToken(t, k)'
  BY <1>1, <1>2 DEF Mapped, PassToken
<1>4. TokenDue(id, base)
  BY <1>1, <1>2 DEF SyncInv, PassDue
<1>5. Due(id, base)' \/ Ahead(id)'
  BY <1>4 DEF TokenDue, Due, AheadStays, ServerRowsStay
<1> QED
  BY <1>3, <1>5 DEF TokenDue

(* The loop drops the mutation in hand: it is done, or never will be.      *)
LoopDrops(t) ==
    /\ DOMAIN Todo(t) # {} /\ Advance(t)
    /\ OthersKept({Current(t)})
    /\ Current(t) \in DOMAIN queue' =>
          queue'[Current(t)].status = "failed" /\ queue'[Current(t)].target = queue[Current(t)].target
    /\ ServerRowsStay /\ UNCHANGED <<wire, online, draft>>
    /\ open'[t] = None /\ reply'[t] = None
    /\ \A q \in wire : q.key = Current(t) => Settles(q)
    /\ (Current(t) \in DOMAIN keys /\ queue[Current(t)].method # "DELETE")
          => flush[t].step = "remove"

(* Dropping the mutation in hand keeps SyncInv.                            *)
LEMMA DropsKeepSync ==
    ASSUME ReplayInv, SyncInv, Alone, NEW t \in Tabs, \A u \in Tabs : u = t,
           online[t], draft = None, LoopDrops(t)
    PROVE  SyncInv'
<1> DEFINE head == Current(t)
<1>1. /\ TypeOK /\ ServerRowsStay /\ UNCHANGED <<wire, online, draft>>
      /\ open'[t] = None /\ reply'[t] = None /\ DOMAIN queue' \subseteq DOMAIN queue
      /\ \A k \in DOMAIN queue : k # head => k \in DOMAIN queue' /\ queue'[k] = queue[k]
  BY DEF ReplayInv, IndInv, LoopDrops, OthersKept
<1>2. /\ Foremost(head) /\ head \in DOMAIN Todo(t) /\ head \in DOMAIN queue
      /\ \A k \in DOMAIN keys : Alive(k) => k = head
  BY HeadForemost DEF LoopDrops
<1>3. \A k : Alive(k)' => Alive(k) /\ queue'[k] = queue[k] /\ k # head
  BY <1>1 DEF Alive, LoopDrops
<1>4. \A k : Alive(k) /\ k # head => Alive(k)'
  BY <1>1 DEF Alive
<1>5. InOrder' /\ WireForemost' /\ StoredRows' /\ OwnRows'
  <2>1. FewerAlive /\ RowTargetsStay
    BY <1>3 DEF FewerAlive, RowTargetsStay
  <2>2. \A q \in wire' : Settles(q) \/ (Foremost(q.key) /\ Alive(q.key)')
    <3>1. SUFFICES ASSUME NEW q \in wire, q.key # head PROVE Settles(q) \/ (Foremost(q.key) /\ Alive(q.key)')
      BY <1>1 DEF LoopDrops
    <3> QED
      BY <1>4, <3>1 DEF SyncInv, WireForemost, Settles, Foremost
  <2> QED
    BY <1>1, <2>1, <2>2, OrderStays
<1>6. /\ flush'[t].step = "next" /\ flush'[t].idMap = flush[t].idMap
      /\ flush'[t].tokens = flush[t].tokens /\ Todo(t)' = Without(Todo(t), {head})
  BY <1>1, AdvanceDone DEF LoopDrops
<1>7. /\ DOMAIN Todo(t)' = DOMAIN Todo(t) \ {head}
      /\ \A k \in DOMAIN Todo(t)' : Todo(t)'[k] = Todo(t)[k]
  BY <1>6 DEF Without, Restrict
<1>8. WholePass' /\ NoneParked'
  <2>1. NoneParked'
    BY <1>1 DEF LoopDrops, SyncInv, NoneParked
  <2>2. \A j \in DOMAIN queue' : Alive(j)' => j \in DOMAIN Todo(t)'
    BY <1>1, <1>2, <1>3, <1>7 DEF SyncInv, WholePass
  <2> QED
    BY <2>1, <2>2 DEF WholePass
<1>9. AnswerOf(t)'
  BY <1>1 DEF AnswerOf
<1>10. AheadStays
  <2>1. ASSUME NEW x \in DOMAIN keys, Alive(x), queue[x].method # "DELETE",
               flush[t].step = "remove" => x # Current(t)
        PROVE  FALSE
    BY <1>2, <2>1 DEF LoopDrops
  <2> QED
    BY <1>1, <2>1, OnTheWay
<1>11. QueueDue'
  <2>1. FewerAlive
    BY <1>3 DEF FewerAlive
  <2> QED
    BY <1>1, <1>3, <1>10, <2>1, QueueDueStays
<1>12. PassDue(t)'
  BY <1>1, <1>6, <1>7, <1>10, PassDueStays
<1>13. LocalDue' /\ KnownIds'
  <2>1. \A k \in DOMAIN queue' : queue'[k].target = queue[k].target
    BY <1>1 DEF LoopDrops
  <2> QED
    BY <1>1, <2>1 DEF LocalDue, KnownIds, SyncInv, ServerRowsStay
<1> QED
  BY <1>5, <1>8, <1>9, <1>11, <1>12, <1>13 DEF SyncInv

(* A mutation that is failed as unresolved is dropped: it was never sent.  *)
LEMMA FailUnresolvedDrops ==
    ASSUME ReplayInv, SyncInv, Alone, NEW t \in Tabs, FailUnresolved(t)
    PROVE  LoopDrops(t)
<1> DEFINE head == Current(t)
<1>1. /\ IndInv /\ TokenInv /\ TypeOK /\ DOMAIN Todo(t) # {} /\ Unresolved(t) /\ Advance(t)
      /\ flush[t].step = "next" /\ ExchangeOf(t) /\ WireTargets /\ StoredRows
      /\ UNCHANGED <<serverVars, online, draft>>
  BY DEF FailUnresolved, HasNext, ReplayInv, IndInv, TokenInv, Exchanges, SyncInv
<1>2. /\ head \in DOMAIN queue /\ queue[head].method = Snapshot(t).method
      /\ queue[head].method # "POST" /\ Alive(head)
  BY <1>1, OneMethod, HeadForemost DEF Unresolved
<1>3. queue[head].target < 0
  <2>1. PICK m : m = Snapshot(t)
    OBVIOUS
  <2>2. m.method # "POST" /\ Target(t) < 0 /\ Target(t) = Mapped(t, m.target)
    BY <1>1, <2>1 DEF Unresolved, Target, Mapped
  <2> QED
    BY <1>1, <2>1, <2>2, InHand DEF Follows
<1>4. /\ OthersKept({head}) /\ SameEdit(head) /\ queue'[head].status = "failed"
  BY <1>2, AmendKept DEF FailUnresolved, Change
<1>5. ServerRowsStay /\ wire' = wire /\ open'[t] = None /\ reply'[t] = None
  BY <1>1 DEF serverVars, ServerRowsStay, ExchangeOf
<1>6. \A q \in wire : q.key # head
  <2>1. SUFFICES ASSUME NEW q \in wire, q.key = head PROVE FALSE
    OBVIOUS
  <2>2. q.method = queue[head].method
    <3>1. PICK m \in [Keys -> Methods] : Agree(m)
      BY <1>1 DEF IndInv, MethodsAgree
    <3> QED
      BY <1>2, <2>1, <3>1 DEF Agree
  <2>3. q.row >= 0 /\ queue[head].target = q.row /\ q.row \in Int
    BY <1>1, <1>2, <2>1, <2>2 DEF WireTargets, TypeOK, ServerTypeOK, Request
  <2> QED
    BY <1>3, <2>3
<1>7. head \in DOMAIN keys => queue[head].method = "DELETE"
  <2>1. SUFFICES ASSUME head \in DOMAIN keys, queue[head].method = "PUT" PROVE FALSE
    BY <1>1, <1>2, OneMethod DEF Methods
  <2>2. queue[head].target \in DOMAIN rows
    BY <1>1, <1>2, <2>1 DEF StoredRows
  <2>3. DOMAIN rows \subseteq Nat
    BY <1>1 DEF TypeOK, ServerTypeOK, IsTable
  <2> QED
    BY <1>3, <2>2, <2>3
<1> QED
  BY <1>1, <1>4, <1>5, <1>6, <1>7 DEF LoopDrops, SameEdit

(* A mutation that is done is dropped: it was executed.                    *)
LEMMA DequeueDrops ==
    ASSUME ReplayInv, SyncInv, Alone, NEW t \in Tabs, Dequeue(t)
    PROVE  LoopDrops(t)
<1> DEFINE head == Current(t)
<1>1. /\ IndInv /\ TypeOK /\ DOMAIN Todo(t) # {} /\ Advance(t) /\ flush[t].step = "remove"
      /\ reply[t] # None /\ reply[t].status = "ok" /\ AnswerOf(t)
      /\ DOMAIN open = Tabs /\ DOMAIN reply = Tabs
  BY DEF Dequeue, ReplayInv, IndInv, Exchanges, ExchangeOf, SyncInv, TypeOK, ServerTypeOK
<1>2. /\ open'[t] = None /\ reply'[t] = None /\ ServerRowsStay /\ UNCHANGED <<wire, online, draft>>
  BY <1>1 DEF Dequeue, HangUp, ServerStays, ServerRowsStay
<1>3. OthersKept({head}) /\ head \notin DOMAIN queue'
  <2>1. PICK S : S = {head}
    OBVIOUS
  <2>2. OthersKept(S) /\ DOMAIN queue' = DOMAIN queue \ S
    BY <2>1, WithoutKept DEF Dequeue
  <2> QED
    BY <2>1, <2>2
<1>4. head \in DOMAIN keys
  BY <1>1 DEF AnswerOf
<1> QED
  BY <1>1, <1>2, <1>3, <1>4 DEF LoopDrops, Settles

(* A refused mutation is dropped: its row is gone, or it was denied and    *)
(* no copy of its request is left.                                         *)
LEMMA RejectDrops ==
    ASSUME ReplayInv, SyncInv, Alone, NEW t \in Tabs, Reject(t)
    PROVE  LoopDrops(t)
<1> DEFINE head == Current(t)
<1>1. /\ IndInv /\ TokenInv /\ TypeOK /\ DOMAIN Todo(t) # {} /\ Advance(t) /\ flush[t].step = "wait"
      /\ reply[t] # None /\ AnswerOf(t) /\ DeniedOf(t) /\ WireTargets /\ StoredRows
      /\ reply[t].status \in {"missing", "denied"}
      /\ DOMAIN open = Tabs /\ DOMAIN reply = Tabs
  BY DEF Reject, Answered, ReplayInv, IndInv, TokenInv, CreateInv, Exchanges, ExchangeOf, SyncInv,
     TypeOK, ServerTypeOK
<1>2. /\ open'[t] = None /\ reply'[t] = None /\ ServerRowsStay /\ UNCHANGED <<wire, online, draft>>
  BY <1>1 DEF Reject, HangUp, ServerStays, ServerRowsStay
<1>3. /\ head \in DOMAIN queue /\ queue[head].method = Snapshot(t).method
      /\ queue[head].method \in Methods /\ Alive(head)
  BY <1>1, OneMethod, HeadForemost
<1>4. /\ OthersKept({head}) /\ SameEdit(head) /\ queue'[head].status = "failed"
  BY <1>3, AmendKept DEF Reject, Change
<1>5. ASSUME NEW q \in wire, q.key = head PROVE Settles(q)
  <2>1. q.method = queue[head].method
    <3>1. PICK m \in [Keys -> Methods] : Agree(m)
      BY <1>1 DEF IndInv, MethodsAgree
    <3> QED
      BY <1>3, <1>5, <3>1 DEF Agree
  <2>2. CASE reply[t].status = "denied"
    BY <1>1, <1>5, <2>2 DEF DeniedOf
  <2>3. CASE reply[t].status = "missing"
    <3>1. Snapshot(t).method # "POST" /\ Gone(queue[head].target)
      BY <1>1, <2>3 DEF AnswerOf
    <3> QED
      BY <1>1, <1>3, <1>5, <2>1, <3>1 DEF WireTargets, Settles
  <2> QED
    BY <1>1, <2>2, <2>3
<1>6. head \in DOMAIN keys => queue[head].method = "DELETE"
  <2>1. SUFFICES ASSUME head \in DOMAIN keys, queue[head].method # "DELETE" PROVE FALSE
    OBVIOUS
  <2>2. applied[head] > 0
    BY <1>1, <2>1 DEF IndInv, OkMeansExecuted
  <2>3. reply[t].status # "denied"
    BY <1>1, <2>2 DEF DeniedOf
  <2>4. Snapshot(t).method # "POST" /\ Gone(queue[head].target)
    BY <1>1, <2>3 DEF AnswerOf
  <2>5. queue[head].method = "PUT"
    BY <1>3, <2>1, <2>4 DEF Methods
  <2> QED
    BY <1>1, <1>3, <2>1, <2>4, <2>5 DEF StoredRows, Gone
<1> QED
  BY <1>1, <1>2, <1>4, <1>5, <1>6 DEF LoopDrops, SameEdit

(* The mutation in hand is marked, and stays what it is.                   *)
MarksHead(t) ==
    /\ DOMAIN queue' = DOMAIN queue
    /\ \A k \in DOMAIN queue : k # Current(t) => queue'[k] = queue[k]
    /\ Current(t) \in DOMAIN queue =>
          /\ SameEdit(Current(t)) /\ queue'[Current(t)].base = queue[Current(t)].base
          /\ queue'[Current(t)].status \in {"pending", "syncing"}

(* Marking the mutation in hand keeps what SyncInv says of the queue and   *)
(* of the rows.                                                            *)
LEMMA MarkKeepsSync ==
    ASSUME ReplayInv, SyncInv, Alone, NEW t \in Tabs, \A u \in Tabs : u = t,
           online[t], draft = None, DOMAIN Todo(t) # {}, MarksHead(t),
           ServerRowsStay, UNCHANGED <<online, draft>>, flush'[t].step # "remove",
           flush[t].step # "remove",
           \A q \in wire' : q \in wire \/ q.key = Current(t)
    PROVE  /\ InOrder' /\ WireForemost' /\ StoredRows' /\ OwnRows' /\ NoneParked'
           /\ QueueDue' /\ LocalDue' /\ KnownIds' /\ AheadStays
           /\ \A k : Alive(k)' <=> Alive(k)
<1> DEFINE head == Current(t)
<1>1. /\ Foremost(head) /\ head \in DOMAIN queue
      /\ \A k \in DOMAIN keys : Alive(k) => k = head
  BY HeadForemost
<1>2. \A k \in DOMAIN queue : /\ queue'[k].method = queue[k].method
                              /\ queue'[k].target = queue[k].target
                              /\ queue'[k].base = queue[k].base
  BY DEF MarksHead, SameEdit
<1>3. \A k : Alive(k)' <=> Alive(k)
  BY <1>1 DEF MarksHead, Alive, Foremost
<1>4. FewerAlive /\ RowTargetsStay
  BY <1>2, <1>3 DEF FewerAlive, RowTargetsStay, Alive
<1>5. \A q \in wire' : Settles(q) \/ (Foremost(q.key) /\ Alive(q.key)')
  <2>1. SUFFICES ASSUME NEW q \in wire' PROVE Settles(q) \/ (Foremost(q.key) /\ Alive(q.key)')
    OBVIOUS
  <2>2. Settles(q) \/ Foremost(q.key)
    BY <1>1 DEF SyncInv, WireForemost, Settles
  <2> QED
    BY <1>3, <2>2 DEF Foremost
<1>6. InOrder' /\ WireForemost' /\ StoredRows' /\ OwnRows'
  BY <1>4, <1>5, OrderStays
<1>7. AheadStays
  <2>1. \A x \in DOMAIN keys : Alive(x) => Alive(x)' /\ queue'[x].method = queue[x].method
    BY <1>2, <1>3 DEF Alive
  <2> QED
    BY <2>1, OnTheWay
<1>8. QueueDue'
  BY <1>2, <1>3, <1>4, <1>7, QueueDueStays DEF Alive
<1>9. NoneParked' /\ LocalDue' /\ KnownIds'
  BY <1>1, <1>2 DEF SyncInv, MarksHead, NoneParked, LocalDue, KnownIds, ServerRowsStay
<1> QED
  BY <1>3, <1>6, <1>7, <1>8, <1>9

(* Sending the mutation in hand. *)
LEMMA ReplaysKeepSync ==
    ASSUME ReplayInv, SyncInv, Alone, NEW t \in Tabs, \A u \in Tabs : u = t,
           online[t], draft = None, Replays(t)
    PROVE  SyncInv'
<1> DEFINE head == Current(t)
<1>1. /\ IndInv /\ TypeOK /\ DOMAIN Todo(t) # {} /\ flush[t].step = "next" /\ ExchangeOf(t)
      /\ Send(t, CurrentRequest(t)) /\ flush' = [flush EXCEPT ![t].step = "wait"]
      /\ UNCHANGED <<online, draft>> /\ DOMAIN flush = Tabs /\ DOMAIN open = Tabs
      /\ FlushType(flush[t])
  BY DEF Replays, HasNext, ReplayInv, IndInv, Exchanges, TypeOK, ServerTypeOK, DeviceTypeOK
<1>2. PICK req : req = CurrentRequest(t)
  OBVIOUS
<1>3. /\ wire' = wire \cup {req} /\ open'[t] = req /\ reply' = reply /\ reply[t] = None
      /\ req.key = head /\ ServerRowsStay
  BY <1>1, <1>2 DEF Send, ExchangeOf, CurrentRequest, ServerRowsStay
<1>4. MarksHead(t)
  BY DEF Replays, Amend, Change, Revised, MarksHead, SameEdit
<1>5. flush'[t] = [step |-> "wait", todo |-> flush[t].todo, idMap |-> flush[t].idMap,
                   tokens |-> flush[t].tokens, retry |-> flush[t].retry]
  BY <1>1 DEF FlushType
<1>6. /\ Todo(t)' = Todo(t) /\ flush'[t].step = "wait" /\ flush'[t].idMap = flush[t].idMap
      /\ flush'[t].tokens = flush[t].tokens
  BY <1>5 DEF Todo
<1>7. /\ InOrder' /\ WireForemost' /\ StoredRows' /\ OwnRows' /\ NoneParked'
      /\ QueueDue' /\ LocalDue' /\ KnownIds' /\ AheadStays
      /\ \A k : Alive(k)' <=> Alive(k)
  BY <1>1, <1>3, <1>4, <1>6, MarkKeepsSync
<1>8. WholePass'
  BY <1>4, <1>6, <1>7 DEF SyncInv, WholePass, MarksHead
<1>9. AnswerOf(t)'
  <2>1. CurrentRequest(t)' = req
    BY <1>2, <1>6 DEF CurrentRequest, Current, Snapshot, BaseToken, Target
  <2> QED
    BY <1>3, <2>1 DEF AnswerOf
<1>10. PassDue(t)'
  BY <1>3, <1>6, <1>7, PassDueStays
<1> QED
  BY <1>7, <1>8, <1>9, <1>10 DEF SyncInv

(* The mutation in hand goes back, and the pass is over. *)
LEMMA AbortKeepsSync ==
    ASSUME ReplayInv, SyncInv, Alone, NEW t \in Tabs, \A u \in Tabs : u = t,
           online[t], draft = None, Abort(t)
    PROVE  SyncInv'
<1> DEFINE head == Current(t)
<1>1. /\ IndInv /\ TypeOK /\ DOMAIN Todo(t) # {} /\ flush[t].step = "wait"
      /\ flush' = [flush EXCEPT ![t].step = "next", ![t].todo = Empty]
      /\ UNCHANGED <<online, draft>> /\ DOMAIN flush = Tabs /\ DOMAIN open = Tabs
      /\ DOMAIN reply = Tabs /\ FlushType(flush[t])
  BY DEF Abort, Answered, ReplayInv, IndInv, Exchanges, ExchangeOf, TypeOK, ServerTypeOK, DeviceTypeOK
<1>2. wire' = wire /\ open'[t] = None /\ reply'[t] = None /\ ServerRowsStay
  BY <1>1 DEF Abort, HangUp, ServerStays, ServerRowsStay
<1>3. MarksHead(t)
  BY DEF Abort, Amend, Change, Revised, MarksHead, SameEdit
<1>4. flush'[t] = [step |-> "next", todo |-> Empty, idMap |-> flush[t].idMap,
                   tokens |-> flush[t].tokens, retry |-> flush[t].retry]
  BY <1>1 DEF FlushType
<1>5. flush'[t].step = "next" /\ DOMAIN Todo(t)' = {}
  BY <1>4, EmptyTable DEF Todo
<1>6. /\ InOrder' /\ WireForemost' /\ StoredRows' /\ OwnRows' /\ NoneParked'
      /\ QueueDue' /\ LocalDue' /\ KnownIds'
  BY <1>1, <1>2, <1>3, <1>5, MarkKeepsSync
<1>7. WholePass' /\ PassDue(t)' /\ AnswerOf(t)'
  BY <1>2, <1>5 DEF WholePass, PassDue, AnswerOf
<1> QED
  BY <1>6, <1>7 DEF SyncInv

(* A step that leaves what is to be sent.                                  *)
LEMMA AsideKeepsSync ==
    ASSUME ReplayInv, SyncInv, Alone, NEW t \in Tabs, \A u \in Tabs : u = t, draft = None,
           ServerRowsStay, UNCHANGED <<wire, online, draft>>, online[t], AheadStays,
           DOMAIN queue' \subseteq DOMAIN queue,
           \A k \in DOMAIN queue' : queue'[k] = queue[k],
           \A k : Alive(k) => k \in DOMAIN queue'
    PROVE  /\ InOrder' /\ WireForemost' /\ StoredRows' /\ OwnRows' /\ NoneParked'
           /\ QueueDue' /\ LocalDue' /\ KnownIds'
           /\ \A k : Alive(k)' <=> Alive(k)
<1>1. \A k : Alive(k)' <=> Alive(k)
  BY DEF Alive
<1>2. FewerAlive /\ RowTargetsStay
  BY <1>1 DEF FewerAlive, RowTargetsStay, Alive
<1>3. \A q \in wire' : Settles(q) \/ (Foremost(q.key) /\ Alive(q.key)')
  <2>1. \A q \in wire : Settles(q) \/ Foremost(q.key)
    BY DEF SyncInv, WireForemost, Settles
  <2> QED
    BY <1>1, <2>1 DEF Foremost
<1>4. InOrder' /\ WireForemost' /\ StoredRows' /\ OwnRows'
  BY <1>2, <1>3, OrderStays
<1>5. QueueDue'
  BY <1>1, <1>2, QueueDueStays DEF Alive
<1>6. NoneParked' /\ LocalDue' /\ KnownIds'
  BY DEF SyncInv, NoneParked, LocalDue, KnownIds, ServerRowsStay
<1> QED
  BY <1>1, <1>4, <1>5, <1>6

(* A new pass holds all that is to be sent. *)
LEMMA BeginKeepsSync ==
    ASSUME ReplayInv, SyncInv, Alone, NEW t \in Tabs, \A u \in Tabs : u = t,
           online[t], draft = None, StartFlush(t) \/ EndFlush(t)
    PROVE  SyncInv'
<1>1. /\ IndInv /\ TypeOK /\ flush[t].step \in {"idle", "next"} /\ ExchangeOf(t)
      /\ UNCHANGED <<serverVars, online, queue, draft>> /\ DOMAIN flush = Tabs
      /\ Begin(t, queue) \/ flush' = [flush EXCEPT ![t] = Quiet]
  BY DEF StartFlush, EndFlush, ReplayInv, IndInv, Exchanges, TypeOK, DeviceTypeOK
<1>2. /\ wire' = wire /\ open'[t] = None /\ reply'[t] = None /\ ServerRowsStay
  BY <1>1 DEF serverVars, ServerRowsStay, ExchangeOf
<1>3. PICK todo : todo = Restrict(queue, Pending(queue))
  OBVIOUS
<1>4. \/ flush'[t] = Loop("next", todo)
      \/ flush'[t] = Loop("idle", Empty)
  BY <1>1, <1>3 DEF Begin, Quiet
<1>5. /\ flush'[t].step \in {"idle", "next"} /\ flush'[t].idMap = Empty /\ flush'[t].tokens = Empty
      /\ Todo(t)' = todo \/ Todo(t)' = Empty
  BY <1>4 DEF Loop, Todo
<1>6. /\ \A k \in DOMAIN todo : k \in DOMAIN queue /\ todo[k] = queue[k] /\ Alive(k)
      /\ \A k \in DOMAIN queue : Alive(k) => k \in DOMAIN todo
  <2>1. /\ DOMAIN todo = {k \in DOMAIN queue : queue[k].status = "pending"}
        /\ \A k \in DOMAIN todo : todo[k] = queue[k]
    BY <1>3 DEF Restrict, Pending
  <2>2. \A k \in DOMAIN queue : queue[k].status # "syncing"
    <3>1. InFlight
      BY DEF ReplayInv, OrderInv
    <3> QED
      BY <1>1, <3>1 DEF InFlight, InHands
  <2> QED
    BY <2>1, <2>2 DEF Alive
<1>7. AheadStays
  BY <1>1, <1>2, <1>5, OnTheWay DEF Alive
<1>8. /\ InOrder' /\ WireForemost' /\ StoredRows' /\ OwnRows' /\ NoneParked'
      /\ QueueDue' /\ LocalDue' /\ KnownIds'
      /\ \A k : Alive(k)' <=> Alive(k)
  BY <1>1, <1>2, <1>7, AsideKeepsSync DEF Alive
<1>9. WholePass'
  BY <1>1, <1>5, <1>6, <1>8, EmptyTable DEF WholePass
<1>10. PassDue(t)'
  <2>1. SUFFICES ASSUME NEW k \in DOMAIN Todo(t)', Todo(t)'[k].method = "PUT", k \notin DOMAIN keys'
                 PROVE  TokenDue(Mapped(t, Todo(t)[k].target), PassToken(t, k))'
    BY DEF PassDue
  <2>2. k \in DOMAIN todo /\ Todo(t)' = todo
    BY <1>5, <2>1, EmptyTable
  <2>3. PICK id, base : id = queue[k].target /\ base = queue[k].base
    OBVIOUS
  <2>4. id = Mapped(t, Todo(t)[k].target)' /\ base = PassToken(t, k)'
    BY <1>5, <1>6, <2>2, <2>3, EmptyTable DEF Mapped, PassToken
  <2>5. TokenDue(id, base)
    BY <1>2, <1>6, <2>1, <2>2, <2>3 DEF SyncInv, QueueDue, ServerRowsStay
  <2>6. TokenDue(id, base)'
    BY <1>2, <1>7, <2>5 DEF TokenDue, Due, AheadStays, ServerRowsStay
  <2> QED
    BY <2>4, <2>6 DEF TokenDue
<1>11. AnswerOf(t)'
  BY <1>2 DEF AnswerOf
<1> QED
  BY <1>8, <1>9, <1>10, <1>11 DEF SyncInv

(* The pages load, and the cache is cleared. *)
LEMMA TabKeepsSync ==
    ASSUME ReplayInv, SyncInv, Alone, NEW t \in Tabs, \A u \in Tabs : u = t,
           online[t], draft = None, ShowTrip(t) \/ Evict(t) \/ UNCHANGED vars
    PROVE  SyncInv'
<1>1. /\ ServerRowsStay /\ UNCHANGED <<wire, open, reply, online, draft, flush>>
  BY DEF ShowTrip, Evict, vars, serverVars, deviceVars, ServerRowsStay
<1>2. /\ DOMAIN queue' \subseteq DOMAIN queue
      /\ \A k \in DOMAIN queue' : queue'[k] = queue[k]
      /\ \A k : Alive(k) => k \in DOMAIN queue'
  <2>1. CASE ShowTrip(t) \/ UNCHANGED vars
    BY <2>1 DEF ShowTrip, vars, deviceVars, Alive
  <2>2. CASE Evict(t)
    <3>1. PICK failed : /\ failed = {k \in DOMAIN queue : queue[k].status = "failed"}
                        /\ queue' = Without(queue, failed)
      BY <2>2 DEF Evict
    <3> QED
      BY <3>1 DEF Without, Restrict, Alive
  <2> QED
    BY <2>1, <2>2
<1>3. \A k : Alive(k) => Alive(k)'
  BY <1>2 DEF Alive
<1>4. AheadStays
  <2>1. Current(t)' = Current(t) /\ flush'[t].step = flush[t].step
    BY <1>1 DEF Current, Todo
  <2> QED
    BY <1>1, <1>2, <1>3, <2>1, OnTheWay DEF Alive
<1>5. /\ InOrder' /\ WireForemost' /\ StoredRows' /\ OwnRows' /\ NoneParked'
      /\ QueueDue' /\ LocalDue' /\ KnownIds'
      /\ \A k : Alive(k)' <=> Alive(k)
  BY <1>1, <1>2, <1>4, AsideKeepsSync
<1>6. Todo(t)' = Todo(t)
  BY <1>1 DEF Todo
<1>7. WholePass'
  BY <1>2, <1>5, <1>6 DEF SyncInv, WholePass
<1>8. PassDue(t)'
  BY <1>1, <1>4, <1>6, PassDueStays
<1>9. AnswerOf(t)'
  <2>1. Current(t)' = Current(t) /\ CurrentRequest(t)' = CurrentRequest(t) /\ Snapshot(t)' = Snapshot(t)
    BY <1>1, <1>6 DEF CurrentRequest, Current, Snapshot, BaseToken, Target
  <2>2. reply[t] # None => queue'[Current(t)] = queue[Current(t)]
    <3>1. SUFFICES ASSUME reply[t] # None PROVE Current(t) \in DOMAIN queue'
      BY <1>2
    <3>2. DOMAIN Todo(t) # {}
      BY <3>1, ReplyInHand DEF ReplayInv
    <3> QED
      BY <1>2, <3>2, HeadForemost
  <2> QED
    BY <1>1, <2>1, <2>2 DEF SyncInv, AnswerOf, ServerRowsStay, Gone
<1> QED
  BY <1>5, <1>7, <1>8, <1>9 DEF SyncInv

(* A delete is applied. *)
LEMMA UndisplayKeepsSync ==
    ASSUME ReplayInv, SyncInv, Alone, NEW t \in Tabs, \A u \in Tabs : u = t,
           online[t], draft = None, Undisplay(t)
    PROVE  SyncInv'
<1>1. /\ IndInv /\ TypeOK /\ DOMAIN Todo(t) # {} /\ flush[t].step = "wait" /\ reply[t] # None
      /\ reply[t].status = "ok" /\ Snapshot(t).method = "DELETE" /\ AnswerOf(t)
      /\ flush' = [flush EXCEPT ![t].step = "remove"]
      /\ UNCHANGED <<wire, reply, online, queue, draft>> /\ ServerRowsStay
      /\ DOMAIN flush = Tabs /\ DOMAIN open = Tabs /\ FlushType(flush[t])
  BY DEF Undisplay, Answered, Received, ReplayInv, IndInv, Exchanges, ExchangeOf, SyncInv, TypeOK,
     ServerTypeOK, DeviceTypeOK, ServerRowsStay
<1>2. open'[t] = None
  BY <1>1 DEF Undisplay, Received
<1>3. flush'[t] = [step |-> "remove", todo |-> flush[t].todo, idMap |-> flush[t].idMap,
                   tokens |-> flush[t].tokens, retry |-> flush[t].retry]
  BY <1>1 DEF FlushType
<1>4. /\ Todo(t)' = Todo(t) /\ flush'[t].step = "remove" /\ flush'[t].idMap = flush[t].idMap
      /\ flush'[t].tokens = flush[t].tokens
  BY <1>3 DEF Todo
<1>5. Current(t)' = Current(t) /\ Snapshot(t)' = Snapshot(t)
  BY <1>4 DEF Current, Snapshot
<1>6. AheadStays
  <2>1. queue[Current(t)].method = "DELETE"
    BY <1>1, OneMethod DEF ReplayInv
  <2> QED
    BY <1>1, <1>5, <2>1, OnTheWay DEF Alive
<1>7. /\ InOrder' /\ WireForemost' /\ StoredRows' /\ OwnRows' /\ NoneParked'
      /\ QueueDue' /\ LocalDue' /\ KnownIds'
      /\ \A k : Alive(k)' <=> Alive(k)
  BY <1>1, <1>6, AsideKeepsSync DEF Alive
<1>8. WholePass'
  BY <1>1, <1>4, <1>7 DEF SyncInv, WholePass
<1>9. PassDue(t)'
  BY <1>1, <1>4, <1>6, PassDueStays
<1>10. AnswerOf(t)'
  BY <1>1, <1>2, <1>5 DEF AnswerOf, ServerRowsStay
<1> QED
  BY <1>7, <1>8, <1>9, <1>10 DEF SyncInv

(* A create got its id: its edits wait for the answer to be stored. *)
LEMMA RemapKeepsSync ==
    ASSUME ReplayInv, SyncInv, Alone, NEW t \in Tabs, \A u \in Tabs : u = t,
           online[t], draft = None, Remap(t)
    PROVE  SyncInv'
<1> DEFINE head == Current(t)
<1>1. /\ IndInv /\ TokenInv /\ TypeOK /\ DOMAIN Todo(t) # {} /\ flush[t].step = "wait"
      /\ reply[t] # None /\ reply[t].status = "ok" /\ Snapshot(t).method = "POST" /\ AnswerOf(t)
      /\ UNCHANGED <<wire, reply, online, draft>> /\ ServerRowsStay /\ StoredRows
      /\ open'[t] = None /\ nextKey \in Nat
  BY DEF Remap, Answered, Received, ReplayInv, IndInv, Exchanges, ExchangeOf, SyncInv, TypeOK,
     ServerTypeOK, DeviceTypeOK, ServerRowsStay
<1>2. PICK temp, id : temp = Snapshot(t).target /\ id = reply[t].id
  OBVIOUS
<1>3. /\ Todo(t)' = Todo(t) /\ flush'[t].step = "store" /\ flush'[t].tokens = flush[t].tokens
      /\ flush'[t].idMap = Put(flush[t].idMap, temp, id)
      /\ DOMAIN queue' = DOMAIN queue
      /\ \A k \in DOMAIN queue :
            /\ queue'[k].method = queue[k].method /\ queue'[k].base = queue[k].base
            /\ queue'[k].status = queue[k].status
            /\ queue'[k].target = IF queue[k].method # "POST" /\ queue[k].target = temp
                                  THEN id ELSE queue[k].target
  BY <1>1, <1>2, RemapDoes
<1>4. /\ head \in DOMAIN queue /\ Alive(head) /\ queue[head].method = "POST"
      /\ head \in DOMAIN keys /\ reply[t] = keys[head] /\ id \in DOMAIN rows
  <2>1. head \in DOMAIN queue /\ Alive(head) /\ queue[head].method = "POST"
    BY <1>1, HeadForemost, OneMethod
  <2> QED
    BY <1>1, <1>2, <2>1 DEF AnswerOf, StoredRows
<1>5. /\ temp < 0 /\ temp \notin DOMAIN rows /\ id \in Nat /\ id < nextId
      /\ temp \notin DOMAIN flush[t].idMap
  <2>1. head \in Nat \ {0} /\ temp = -head
    <3>1. PICK m : m = Snapshot(t)
      OBVIOUS
    <3>2. head \in DOMAIN queue /\ m.target = -head
      BY <1>1, <3>1, InHand DEF Follows
    <3> QED
      BY <1>1, <1>2, <3>1, <3>2 DEF TypeOK, DeviceTypeOK, IsTable, Keys
  <2>2. DOMAIN rows \subseteq Nat /\ id < nextId
    BY <1>1, <1>4 DEF TypeOK, ServerTypeOK, IsTable
  <2>3. SnapshotFollows(t) /\ head \in DOMAIN Todo(t)
    BY <1>1, HeadForemost DEF TokenInv
  <2>4. temp \notin DOMAIN flush[t].idMap
    <3>1. -temp = head
      BY <2>1
    <3> QED
      BY <1>1, <2>3, <3>1 DEF SnapshotFollows
  <2> QED
    BY <1>4, <2>1, <2>2, <2>4
<1>6. \A k : Alive(k)' <=> Alive(k)
  BY <1>3 DEF Alive
<1>7. FewerAlive /\ RowTargetsStay
  BY <1>3, <1>5, <1>6 DEF FewerAlive, RowTargetsStay, Alive
<1>8. InOrder' /\ WireForemost' /\ StoredRows' /\ OwnRows'
  <2>1. \A q \in wire : Settles(q) \/ Foremost(q.key)
    BY DEF SyncInv, WireForemost, Settles
  <2>2. \A q \in wire' : Settles(q) \/ (Foremost(q.key) /\ Alive(q.key)')
    BY <1>1, <1>6, <2>1 DEF Foremost
  <2> QED
    BY <1>1, <1>7, <2>2, OrderStays
<1>9. AheadStays
  <2>1. \A x \in DOMAIN keys : Alive(x) => Alive(x)' /\ queue'[x].method = queue[x].method
    BY <1>3, <1>6 DEF Alive
  <2> QED
    BY <1>1, <1>3, <2>1, OnTheWay
<1>10. Ahead(id)'
  <2>1. Alive(head) /\ queue'[head].method # "DELETE" /\ keys'[head].id = id /\ head \in DOMAIN keys'
    BY <1>1, <1>2, <1>3, <1>4 DEF ServerRowsStay
  <2>2. \A u \in Tabs : flush'[u].step # "remove"
    BY <1>3
  <2>3. PICK x : x = head
    OBVIOUS
  <2>4. Alive(x)'
    BY <1>6, <2>1, <2>3
  <2> QED
    BY <2>1, <2>2, <2>3, <2>4 DEF Ahead
<1>11. QueueDue'
  <2>1. SUFFICES ASSUME NEW k \in DOMAIN queue', Alive(k)', queue'[k].method = "PUT",
                        k \notin DOMAIN keys
                 PROVE  TokenDue(queue[k].target, queue[k].base)'
    BY <1>1 DEF QueueDue, ServerRowsStay, TokenDue, Due, Ahead
  <2>2. k \in DOMAIN queue /\ Alive(k) /\ queue[k].method = "PUT"
    BY <1>3, <1>6, <2>1
  <2>3. TokenDue(queue[k].target, queue[k].base)
    BY <2>1, <2>2 DEF SyncInv, QueueDue
  <2>4. CASE queue[k].target = temp
    BY <1>3, <1>10, <2>2, <2>4 DEF TokenDue
  <2>5. CASE queue[k].target # temp
    <3>1. queue'[k].target = queue[k].target /\ queue'[k].base = queue[k].base
      BY <1>3, <2>2, <2>5
    <3> QED
      BY <1>1, <1>9, <2>3, <3>1 DEF TokenDue, Due, AheadStays, ServerRowsStay
  <2> QED
    BY <2>4, <2>5
<1>12. /\ DOMAIN flush'[t].idMap = DOMAIN flush[t].idMap \cup {temp} /\ flush'[t].idMap[temp] = id
       /\ \A i \in DOMAIN flush[t].idMap : flush'[t].idMap[i] = flush[t].idMap[i]
  BY <1>3, <1>5 DEF Put
<1>13. PassDue(t)'
  <2>1. SUFFICES ASSUME NEW k \in DOMAIN Todo(t), Todo(t)[k].method = "PUT", k \notin DOMAIN keys
                 PROVE  TokenDue(Mapped(t, Todo(t)[k].target), PassToken(t, k))'
    BY <1>1, <1>3 DEF PassDue, ServerRowsStay
  <2>2. CASE Todo(t)[k].target = temp
    <3>1. Mapped(t, Todo(t)[k].target)' = id
      BY <1>3, <1>12, <2>2 DEF Mapped
    <3> QED
      BY <1>10, <3>1 DEF TokenDue
  <2>3. CASE Todo(t)[k].target # temp
    <3>1. PICK i, base : i = Mapped(t, Todo(t)[k].target) /\ base = PassToken(t, k)
      OBVIOUS
    <3>2. i = Mapped(t, Todo(t)[k].target)' /\ base = PassToken(t, k)'
      BY <1>3, <1>12, <2>3, <3>1 DEF Mapped, PassToken
    <3>3. TokenDue(i, base)
      BY <2>1, <3>1 DEF SyncInv, PassDue
    <3>4. TokenDue(i, base)'
      BY <1>1, <1>9, <3>3 DEF TokenDue, Due, AheadStays, ServerRowsStay
    <3> QED
      BY <3>2, <3>4 DEF TokenDue
  <2> QED
    BY <2>2, <2>3
<1>14. WholePass' /\ NoneParked'
  BY <1>3, <1>6 DEF SyncInv, WholePass, NoneParked
<1>15. AnswerOf(t)'
  <2>1. Current(t)' = Current(t)
    BY <1>3 DEF Current
  <2> QED
    BY <1>1, <2>1 DEF AnswerOf, ServerRowsStay
<1>16. LocalDue' /\ KnownIds'
  BY <1>1, <1>3, <1>5 DEF SyncInv, LocalDue, KnownIds, ServerRowsStay
<1> QED
  BY <1>8, <1>11, <1>13, <1>14, <1>15, <1>16 DEF SyncInv

(* The answer is stored: the edits of its row get its token. *)
LEMMA StoreEntityKeepsSync ==
    ASSUME ReplayInv, SyncInv, Alone, NEW t \in Tabs, \A u \in Tabs : u = t,
           online[t], draft = None, StoreEntity(t)
    PROVE  SyncInv'
<1> DEFINE head == Current(t)
<1>1. /\ IndInv /\ TokenInv /\ TypeOK /\ flush[t].step \in {"wait", "store"} /\ reply[t] # None
      /\ reply[t].status = "ok" /\ Snapshot(t).method \in {"PUT", "POST"} /\ AnswerOf(t)
      /\ ExchangeOf(t) /\ DOMAIN open = Tabs
      /\ UNCHANGED <<wire, reply, online, draft>> /\ ServerRowsStay /\ StoredRows
  BY DEF StoreEntity, Answered, Received, ReplayInv, IndInv, Exchanges, ExchangeOf, SyncInv, TypeOK,
     ServerTypeOK, DeviceTypeOK, ServerRowsStay
<1>2. DOMAIN Todo(t) # {} /\ open'[t] = None
  BY <1>1 DEF ExchangeOf, StoreEntity, Received
<1>3. PICK id, token : id = reply[t].id /\ token = reply[t].entity.at
  OBVIOUS
<1>4. /\ Todo(t)' = Todo(t) /\ flush'[t].step = "remove" /\ flush'[t].idMap = flush[t].idMap
      /\ flush'[t].tokens = Put(flush[t].tokens, id, token)
      /\ DOMAIN queue' = DOMAIN queue
      /\ \A k \in DOMAIN queue :
            /\ queue'[k].method = queue[k].method /\ queue'[k].target = queue[k].target
            /\ queue'[k].status = queue[k].status
            /\ queue'[k].base = IF /\ k # head /\ queue[k].target = id
                                   /\ queue[k].status \in {"pending", "syncing"}
                                THEN token ELSE queue[k].base
  BY <1>1, <1>3, StoreEntityDoes
<1>5. /\ head \in DOMAIN queue /\ Alive(head) /\ queue[head].method = Snapshot(t).method
      /\ head \in DOMAIN keys /\ reply[t] = keys[head]
      /\ id \in DOMAIN rows /\ rows[id] = reply[t].entity /\ rows[id].at = token
  <2>1. head \in DOMAIN queue /\ Alive(head) /\ queue[head].method = Snapshot(t).method
    BY <1>1, <1>2, HeadForemost, OneMethod
  <2>2. head \in DOMAIN keys /\ reply[t] = keys[head] /\ queue[head].method # "DELETE"
    BY <1>1, <2>1 DEF AnswerOf
  <2> QED
    BY <1>1, <1>3, <2>1, <2>2 DEF StoredRows
<1>6. \A k : Alive(k)' <=> Alive(k)
  BY <1>4 DEF Alive
<1>7. FewerAlive /\ RowTargetsStay
  BY <1>4, <1>6 DEF FewerAlive, RowTargetsStay, Alive
<1>8. InOrder' /\ WireForemost' /\ StoredRows' /\ OwnRows'
  <2>1. \A q \in wire : Settles(q) \/ Foremost(q.key)
    BY DEF SyncInv, WireForemost, Settles
  <2>2. \A q \in wire' : Settles(q) \/ (Foremost(q.key) /\ Alive(q.key)')
    BY <1>1, <1>6, <2>1 DEF Foremost
  <2> QED
    BY <1>1, <1>7, <2>2, OrderStays
<1>9. \A i : i # id => ~Ahead(i)
  <2>1. \A k \in DOMAIN keys : Alive(k) => k = head
    BY <1>2, HeadForemost
  <2> QED
    BY <1>3, <1>5, <2>1 DEF Ahead
<1>10. Due(id, token)' /\ \A i, base : i # id /\ TokenDue(i, base) => Due(i, base)'
  BY <1>1, <1>5, <1>9 DEF TokenDue, Due, ServerRowsStay
<1>11. QueueDue'
  <2>1. SUFFICES ASSUME NEW k \in DOMAIN queue', Alive(k)', queue'[k].method = "PUT",
                        k \notin DOMAIN keys
                 PROVE  Due(queue[k].target, queue[k].base)'
    BY <1>1 DEF QueueDue, ServerRowsStay, TokenDue
  <2>2. k \in DOMAIN queue /\ Alive(k) /\ queue[k].method = "PUT" /\ k # head
    BY <1>4, <1>5, <1>6, <2>1
  <2>3. TokenDue(queue[k].target, queue[k].base)
    BY <2>1, <2>2 DEF SyncInv, QueueDue
  <2>4. PICK i, base : i = queue'[k].target /\ base = queue'[k].base
    OBVIOUS
  <2>5. Due(i, base)'
    <3>1. CASE queue[k].target = id
      <4>1. i = id /\ base = token
        BY <1>4, <2>2, <2>4, <3>1 DEF Alive
      <4> QED
        BY <1>10, <4>1
    <3>2. CASE queue[k].target # id
      <4>1. i = queue[k].target /\ base = queue[k].base
        BY <1>4, <2>2, <2>4, <3>2
      <4> QED
        BY <1>10, <2>3, <3>2, <4>1
    <3> QED
      BY <3>1, <3>2
  <2> QED
    BY <2>4, <2>5 DEF Due
<1>12. /\ DOMAIN flush'[t].tokens = DOMAIN flush[t].tokens \cup {id} /\ flush'[t].tokens[id] = token
       /\ \A i \in DOMAIN flush[t].tokens : i # id => flush'[t].tokens[i] = flush[t].tokens[i]
  BY <1>4 DEF Put
<1>13. PassDue(t)'
  <2>1. SUFFICES ASSUME NEW k \in DOMAIN Todo(t), Todo(t)[k].method = "PUT", k \notin DOMAIN keys
                 PROVE  TokenDue(Mapped(t, Todo(t)[k].target), PassToken(t, k))'
    BY <1>1, <1>4 DEF PassDue, ServerRowsStay
  <2>2. PICK i, base : i = Mapped(t, Todo(t)[k].target) /\ base = PassToken(t, k)'
    OBVIOUS
  <2>3. i = Mapped(t, Todo(t)[k].target)'
    BY <1>4, <2>2 DEF Mapped
  <2>4. Due(i, base)'
    <3>1. CASE i = id
      <4>1. base = token
        BY <1>12, <2>2, <2>3, <3>1 DEF PassToken
      <4> QED
        BY <1>10, <3>1, <4>1
    <3>2. CASE i # id
      <4>1. base = PassToken(t, k)
        BY <1>4, <1>12, <2>2, <2>3, <3>2 DEF PassToken
      <4>2. TokenDue(i, base)
        BY <2>1, <2>2, <4>1 DEF SyncInv, PassDue
      <4> QED
        BY <1>10, <3>2, <4>2
    <3> QED
      BY <3>1, <3>2
  <2> QED
    BY <2>2, <2>3, <2>4 DEF TokenDue
<1>14. WholePass' /\ NoneParked'
  BY <1>4, <1>6 DEF SyncInv, WholePass, NoneParked
<1>15. AnswerOf(t)'
  <2>1. Current(t)' = Current(t)
    BY <1>4 DEF Current
  <2> QED
    BY <1>1, <1>2, <2>1 DEF AnswerOf, ServerRowsStay
<1>16. LocalDue' /\ KnownIds'
  BY <1>1, <1>4 DEF SyncInv, LocalDue, KnownIds, ServerRowsStay
<1> QED
  BY <1>8, <1>11, <1>13, <1>14, <1>15, <1>16 DEF SyncInv

(* SyncInv is an invariant, with what was known before.                    *)
LEMMA NextSyncInv ==
    ASSUME ReplayInv, IndInv', OneSession, SyncInv, [Next]_vars
    PROVE  SyncInv'
<1>1. SUFFICES ASSUME Alone' PROVE SyncInv'
  BY DEF SyncInv
<1>2. Alone
  BY <1>1, StaysAlone DEF ReplayInv, IndInv
<1>3. PICK t \in Tabs : \A u \in Tabs : u = t
  BY TabsAssumption DEF OneSession, OneTab
<1>4. CASE ~online[t]
  BY <1>1, <1>3, <1>4, OfflineKeepsSync
<1>5. CASE online[t]
  <2>1. /\ draft = None
        /\ \/ Exchange(t) \/ LoopGoesOn(t) \/ StartFlush(t) \/ ShowTrip(t) \/ Evict(t)
           \/ UNCHANGED vars
    BY <1>1, <1>3, <1>5, OnlineSteps
  <2>2. CASE Exchange(t)
    <3>1. ASSUME NEW q \in wire, wire' = wire \ {q}, ExecuteAndStore(q) PROVE SyncInv'
      BY <1>2, <1>3, <1>5, <2>1, <2>2, <3>1, ExecutionKeepsSync DEF Exchange
    <3>2. ASSUME wire' \subseteq wire,
                 GiveUp(t) \/ \E q \in wire : Deny(q) \/ Replay(q) \/ Refuse(q)
          PROVE  SyncInv'
      BY <1>2, <1>3, <2>2, <3>2, AnswersKeepSync DEF Exchange
    <3> QED
      BY <2>2, <3>1, <3>2 DEF Exchange
  <2>3. CASE FailUnresolved(t) \/ Dequeue(t) \/ Reject(t)
    <3>1. LoopDrops(t)
      BY <1>2, <2>3, FailUnresolvedDrops, DequeueDrops, RejectDrops
    <3> QED
      BY <1>2, <1>3, <1>5, <2>1, <3>1, DropsKeepSync
  <2>4. CASE Replays(t)
    BY <1>2, <1>3, <1>5, <2>1, <2>4, ReplaysKeepSync
  <2>5. CASE Abort(t)
    BY <1>2, <1>3, <1>5, <2>1, <2>5, AbortKeepsSync
  <2>6. CASE EndFlush(t) \/ StartFlush(t)
    BY <1>2, <1>3, <1>5, <2>1, <2>6, BeginKeepsSync
  <2>7. CASE Remap(t)
    BY <1>2, <1>3, <1>5, <2>1, <2>7, RemapKeepsSync
  <2>8. CASE StoreEntity(t)
    BY <1>2, <1>3, <1>5, <2>1, <2>8, StoreEntityKeepsSync
  <2>9. CASE Undisplay(t)
    BY <1>2, <1>3, <1>5, <2>1, <2>9, UndisplayKeepsSync
  <2>10. CASE ShowTrip(t) \/ Evict(t) \/ UNCHANGED vars
    BY <1>2, <1>3, <1>5, <2>1, <2>10, TabKeepsSync
  <2> QED
    BY <2>1, <2>2, <2>3, <2>4, <2>5, <2>6, <2>7, <2>8, <2>9, <2>10 DEF LoopGoesOn
<1> QED
  BY <1>4, <1>5

(* At first nothing was sent, and the cache is the server's table.         *)
LEMMA InitSyncInv == Init => SyncInv
<1> SUFFICES ASSUME Init PROVE SyncInv
  OBVIOUS
<1>1. /\ rows = [i \in InitRows |-> [by |-> 0, at |-> 1]] /\ cache = rows /\ nextId = FirstRows + 1
      /\ queue = Empty /\ keys = Empty /\ wire = {} /\ draft = None
      /\ \A t \in Tabs : flush[t] = Quiet /\ open[t] = None /\ reply[t] = None /\ view[t] = InitRows
  BY DEF Init, ServerInit
<1>2. \A t \in Tabs : DOMAIN Todo(t) = {}
  BY <1>1, EmptyTable DEF Todo, Quiet, Loop
<1>3. DOMAIN queue = {} /\ DOMAIN keys = {} /\ DOMAIN rows = InitRows
  BY <1>1, EmptyTable
<1>4. InOrder /\ WireForemost /\ NoneParked /\ StoredRows /\ QueueDue
  BY <1>1, <1>3 DEF InOrder, WireForemost, NoneParked, StoredRows, QueueDue
<1>5. WholePass /\ (\A t \in Tabs : AnswerOf(t)) /\ (\A t \in Tabs : PassDue(t))
  BY <1>1, <1>2 DEF WholePass, AnswerOf, PassDue
<1>6. OwnRows
  BY <1>1, <1>3 DEF OwnRows, IsOwn, Keys
<1>7. LocalDue
  BY <1>1 DEF LocalDue, Due
<1>8. KnownIds
  BY <1>1, <1>3 DEF KnownIds, InitRows
<1> QED
  BY <1>4, <1>5, <1>6, <1>7, <1>8 DEF SyncInv

-----------------------------------------------------------------------------
(* What follows for the conflicts and for the rows.                        *)

(* A tab is told of a conflict only when a collaborator was there.         *)
LEMMA OwnAnswers ==
    ASSUME ReplayInv, SyncInv, Alone, [Next]_vars,
           NEW t \in Tabs, reply'[t] # reply[t], reply'[t] # None
    PROVE  reply'[t].status # "conflict"
<1>1. IndInv
  BY DEF ReplayInv
<1>2. ServerStep
  BY <1>1, DeviceReplies
<1>3. \/ reply'[t].status \in {"ok", "lost", "denied"}
      \/ \E q \in wire : open[t] = q /\ Refuse(q) /\ reply'[t] = Refusal(q)
  BY <1>1, <1>2, ServerAnswers
<1>4. ASSUME NEW q \in wire, open[t] = q, Refuse(q)
      PROVE  Refusal(q).status = "missing"
  BY <1>4, NeverStale DEF Refuse, Refusal, Bare
<1> QED
  BY <1>3, <1>4

(* The rows change when an edit is executed, or by a collaborator.         *)
LEMMA RowsWritten ==
    ASSUME TypeOK, OneSession, [Next]_vars
    PROVE  \/ rows' = rows
           \/ CollabUpdate \/ CollabDelete
           \/ \E q \in wire : q.key \notin DOMAIN keys /\ Execute(q)
<1>1. CASE ServerStep
  BY <1>1 DEF ServerStep, Serve, Deny, Replay, ExecuteAndStore, ExecuteAndCrash, Refuse, GiveUp, PurgeKey
<1>2. ASSUME NEW t \in Tabs, EditStep(t) PROVE rows' = rows
  BY <1>2 DEF EditStep, CreateOnline, UpdateOnline, DeleteOnline, EditOnline, OneSession,
     CreateOffline, UpdateOffline, DeleteOffline, Drafted, serverVars
<1>3. ASSUME NEW t \in Tabs, FlushStep(t) PROVE rows' = rows
  BY <1>3 DEF FlushStep, Replays, Send, FailUnresolved, EndFlush, Remap, StoreEntity, Undisplay,
     Received, Dequeue, ConflictTheirs, ConflictMine, ConflictAsk, Reject, Abort, ServerStays,
     serverVars
<1>4. ASSUME NEW t \in Tabs, ConflictStep(t) PROVE rows' = rows
  BY <1>4, ConflictStepKeys DEF serverVars
<1>5. ASSUME NEW t \in Tabs, TabStep(t) PROVE rows' = rows
  BY <1>5 DEF TabStep, StartFlush, GoOnline, GoOffline, ShowTrip, Evict, Reload, serverVars
<1>6. Enqueue \/ UNCHANGED vars => rows' = rows
  BY DEF Enqueue, vars, serverVars
<1> QED
  BY <1>1, <1>2, <1>3, <1>4, <1>5, <1>6 DEF Next

(* What replaces the content of an edit in a row is a later edit.          *)
LEMMA LaterReplaces ==
    ASSUME ReplayInv, SyncInv, Alone, OneSession, [Next]_vars,
           NEW id \in DOMAIN rows \cap DOMAIN rows', IsOwn(rows[id].by), IsOwn(rows'[id].by)
    PROVE  rows'[id].by >= rows[id].by
<1>1. /\ TypeOK /\ rows[id].by \in Nat /\ OwnRows /\ InOrder
  BY DEF ReplayInv, IndInv, TypeOK, ServerTypeOK, IsTable, Entity, SyncInv
<1>2. CASE rows' = rows
  BY <1>1, <1>2
<1>3. CASE CollabUpdate
  <2>1. PICK i \in DOMAIN rows : Stamp(i, Collab)
    BY <1>3 DEF CollabUpdate
  <2>2. PICK row : row = [by |-> Collab, at |-> clock']
    OBVIOUS
  <2>3. rows' = Put(rows, i, row) /\ row.by = Collab
    BY <2>1, <2>2 DEF Stamp
  <2>4. ~IsOwn(Collab)
    BY DEF IsOwn, Collab, Keys, Alone
  <2>5. id # i
    BY <2>3, <2>4 DEF Put
  <2> QED
    BY <1>1, <2>3, <2>5 DEF Put
<1>4. CASE CollabDelete
  <2>1. PICK S : rows' = Without(rows, S)
    BY <1>4 DEF CollabDelete
  <2> QED
    BY <1>1, <2>1 DEF Without, Restrict
<1>5. ASSUME NEW q \in wire, q.key \notin DOMAIN keys, Execute(q)
      PROVE  rows'[id].by >= rows[id].by
  <2>1. PICK t \in Tabs : \A u \in Tabs : u = t
    BY TabsAssumption DEF OneSession, OneTab
  <2>2. Foremost(q.key)
    BY <1>5, <2>1, OnlyForemost
  <2>3. PICK row : row = WrittenRow(q)
    OBVIOUS
  <2>4. /\ \A i \in DOMAIN rows : i # row => rows'[i] = rows[i]
        /\ q.method = "DELETE" => row \notin DOMAIN rows'
        /\ q.method # "DELETE" => rows'[row].by = q.key
    BY <1>1, <1>5, <2>3, WritesOneRow
  <2>5. rows[id].by <= q.key
    BY <1>1, <2>2 DEF OwnRows, InOrder, Foremost, Alive
  <2>6. q.key \in Nat
    BY <1>1 DEF TypeOK, ServerTypeOK, Request, Keys
  <2> QED
    BY <1>1, <2>4, <2>5, <2>6
<1> QED
  BY <1>1, <1>2, <1>3, <1>4, <1>5, RowsWritten

(* All invariants of this module, together. *)
LEMMA NextAll ==
    ASSUME OneSession
    PROVE  ReplayInv /\ SyncInv /\ [Next]_vars /\ IndInv' /\ TokenInv' /\ OrderInv'
              => (ReplayInv /\ SyncInv)'
<1> SUFFICES ASSUME ReplayInv, SyncInv, [Next]_vars, IndInv', TokenInv', OrderInv'
             PROVE  PhantomInv' /\ CreateInv' /\ SyncInv'
  BY DEF ReplayInv
<1>1. PhantomInv'
  BY NextPhantomInv DEF ReplayInv, OneSession
<1>2. CreateInv'
  BY NextCreateInv DEF ReplayInv, OneSession
<1> QED
  BY <1>1, <1>2, NextSyncInv

(* The invariants hold of a device with one tab that is not reloaded, that *)
(* edits before it goes online, and whose keys the server does not lose.   *)
THEOREM InStep ==
    ASSUME OneSession
    PROVE  Spec => [](ReplayInv /\ SyncInv)
<1>1. Init => PhantomInv /\ CreateInv /\ SyncInv
  BY InitPhantomInv, InitCreateInv, InitSyncInv
<1>2. OneTab /\ Limit["reload"] = 0
  BY DEF OneSession
<1>3. Spec => [](IndInv /\ TokenInv /\ OrderInv)
  BY <1>2, Inductive, TokensKnown, OrderKept, PTL
<1>4. IndInv /\ TokenInv /\ OrderInv /\ PhantomInv /\ CreateInv => ReplayInv
  BY DEF ReplayInv
<1> QED
  BY <1>1, <1>3, <1>4, NextAll, PTL DEF Spec

(* Of such a device: as long as no collaborator has touched the trip, no   *)
(* replay is told of a conflict, however often its exchanges break.        *)
THEOREM NeverInConflictWithItself ==
    ASSUME OneSession
    PROVE  Spec => NoSelfConflict
<1>1. ReplayInv /\ SyncInv /\ [Next]_vars =>
        [\A t \in Tabs :
            (spent["collab"] = 0 /\ reply'[t] # reply[t] /\ reply'[t] # None)
            => reply'[t].status # "conflict"]_vars
  BY OwnAnswers DEF Alone
<1> QED
  BY <1>1, InStep, PTL DEF Spec, NoSelfConflict

(* Of such a device: as long as no collaborator has touched the trip, an   *)
(* earlier edit never replaces what a later one has put into a row.        *)
THEOREM LaterEditsStay ==
    ASSUME OneSession
    PROVE  Spec => LaterEditStays
<1>1. ReplayInv /\ SyncInv /\ [Next]_vars =>
        [\A id \in DOMAIN rows \cap DOMAIN rows' :
            (spent["collab"] = 0 /\ IsOwn(rows[id].by) /\ IsOwn(rows'[id].by))
            => rows'[id].by >= rows[id].by]_vars
  BY LaterReplaces DEF Alone
<1> QED
  BY <1>1, InStep, PTL DEF Spec, LaterEditStays

-----------------------------------------------------------------------------
(* The cache follows: a row it does not share with the server is that of   *)
(* an edit still under way.                                                *)

(* An id stays covered when its row and its edits stay. *)
LEMMA CoveredStays ==
    ASSUME NEW id,
           Same(id) => Same(id)',
           \A k \in DOMAIN queue :
              Concerns(k, id) => Same(id)' \/ (k \in DOMAIN queue' /\ Concerns(k, id)'),
           (draft # None /\ draft.mutation.target = id) =>
              \/ draft' # None /\ draft'.mutation.target = id
              \/ \E k \in DOMAIN queue' : Concerns(k, id)',
           Covered(id)
    PROVE  Covered(id)'
BY DEF Covered

(* While the device is offline, the queue and the draft account for each   *)
(* row it has changed.                                                     *)
LEMMA OfflineCovers ==
    ASSUME ReplayInv, IndInv', OneSession, Limit["evict"] = 0, CacheInv, [Next]_vars, Alone',
           NEW t \in Tabs, \A u \in Tabs : u = t, ~online[t]
    PROVE  CacheInv'
<1>1. /\ IndInv /\ TokenInv /\ TypeOK /\ Untouched(t) /\ Alone /\ OrderInv /\ DraftFresh
  BY StaysAlone DEF ReplayInv, IndInv, TokenInv, PhantomInv, Unsynced
<1>2. Untouched(t)'
  BY <1>1, UntouchedStays DEF OneSession
<1>3. DOMAIN keys' = {} /\ flush'[t].step # "remove"
  <2>1. DOMAIN keys' = {}
    BY <1>2, UntouchedSends
  <2>2. flush'[t].step = "idle"
    BY <1>2 DEF Untouched, Quiet, Loop
  <2> QED
    BY <2>1, <2>2
<1>4. DOMAIN keys = {}
  <2>1. /\ DOMAIN keys \subseteq Keys /\ \A k \in DOMAIN keys : applied[k] > 0
        /\ \A k \in Keys : applied[k] = 0
    BY <1>1 DEF Untouched, IndInv, OkMeansExecuted, TypeOK, ServerTypeOK, IsTable
  <2>2. SUFFICES ASSUME NEW k \in DOMAIN keys PROVE FALSE
    OBVIOUS
  <2>3. applied[k] = 0 /\ applied[k] > 0
    BY <2>1, <2>2
  <2> QED
    BY <2>3
<1>5. NoneFailed
  BY <1>1 DEF Untouched, NoneFailed, Alive
<1>6. \A id \in Int : Covered(id)
  BY <1>1, <1>5 DEF CacheInv
<1>7. /\ rows' = rows
      /\ \/ Enqueue \/ CreateOffline(t) \/ GoOnline(t)
         \/ \E id \in view[t] : UpdateOffline(t, id) \/ DeleteOffline(t, id)
         \/ ShowTrip(t) /\ UNCHANGED cache
         \/ UNCHANGED vars
  <2>1. "evict" \in Faults
    BY DEF Faults
  <2>2. ~Evict(t)
    BY <1>1, <2>1, NoFault DEF Evict
  <2> QED
    BY <1>1, <2>2, OfflineSteps
<1>8. SUFFICES ASSUME NEW id \in Int PROVE Covered(id)'
  <2>1. \A u \in Tabs : Confirms(u)'
    BY <1>3 DEF Confirms
  <2> QED
    BY <1>8, <2>1 DEF CacheInv
<1>9. Covered(id)
  BY <1>6
<1>10. CASE Enqueue
  <2>1. PICK key, m : key = draft.key /\ m = draft.mutation
    OBVIOUS
  <2>2. queue' = Put(queue, key, m) /\ draft # None /\ draft' = None /\ cache' = cache
        /\ key \notin DOMAIN queue
    BY <1>1, <1>10, <2>1 DEF Enqueue, DraftFresh
  <2>3. /\ DOMAIN queue' = DOMAIN queue \cup {key} /\ queue'[key] = m
        /\ \A k \in DOMAIN queue : queue'[k] = queue[k]
    BY <2>2 DEF Put
  <2>4. \A k \in DOMAIN queue : Concerns(k, id) => k \in DOMAIN queue' /\ Concerns(k, id)'
    BY <1>3, <1>4, <2>3 DEF Concerns
  <2>5. draft.mutation.target = id => \E k \in DOMAIN queue' : Concerns(k, id)'
    BY <2>1, <2>3 DEF Concerns
  <2>6. Same(id) => Same(id)'
    BY <1>7, <2>2 DEF Same
  <2> QED
    BY <1>9, <2>4, <2>5, <2>6, CoveredStays
<1>11. ASSUME draft = None, draft' # None, queue' = queue,
              draft'.mutation.target # id => (id \in DOMAIN cache' <=> id \in DOMAIN cache)
                                             /\ (id \in DOMAIN cache => cache'[id] = cache[id])
       PROVE  Covered(id)'
  <2>1. CASE draft'.mutation.target = id
    BY <1>11, <2>1 DEF Covered
  <2>2. CASE draft'.mutation.target # id
    <3>1. \A k \in DOMAIN queue : Concerns(k, id) => k \in DOMAIN queue' /\ Concerns(k, id)'
      BY <1>3, <1>4, <1>11 DEF Concerns
    <3>2. Same(id) => Same(id)'
      BY <1>7, <1>11, <2>2 DEF Same
    <3> QED
      BY <1>9, <1>11, <3>1, <3>2, CoveredStays
  <2> QED
    BY <2>1, <2>2
<1>12. EditStep(t) => draft' # None
  <2>1. SUFFICES ASSUME EditStep(t) PROVE draft' # None
    OBVIOUS
  <2>2. \A r : keys' # Put(keys, nextKey, r)
    BY <1>3 DEF Put
  <2> QED
    BY <1>1, <2>1, <2>2, EditStepKeys
<1>13. CASE CreateOffline(t)
  <2>1. PICK key, row : key = -nextKey /\ row = [by |-> nextKey, at |-> NoToken]
    OBVIOUS
  <2>2. /\ cache' = Put(cache, key, row) /\ queue' = queue /\ draft = None
        /\ draft'.mutation.target = key
    BY <1>13, <2>1 DEF CreateOffline, CanDraft, Drafted
  <2>3. draft' # None
    BY <1>12, <1>13 DEF EditStep
  <2> QED
    BY <1>11, <2>2, <2>3 DEF Put
<1>14. ASSUME NEW i \in view[t], UpdateOffline(t, i) PROVE Covered(id)'
  <2>1. PICK row : cache' = Put(cache, i, row)
    BY <1>14 DEF UpdateOffline
  <2>2. /\ queue' = queue /\ draft = None /\ draft'.mutation.target = i
    BY <1>14 DEF UpdateOffline, CanDraft, Drafted
  <2>3. draft' # None
    BY <1>12, <1>14 DEF EditStep
  <2> QED
    BY <1>11, <2>1, <2>2, <2>3 DEF Put
<1>15. ASSUME NEW i \in view[t], DeleteOffline(t, i) PROVE Covered(id)'
  <2>1. PICK S : S = {i}
    OBVIOUS
  <2>2. /\ cache' = Without(cache, S) /\ queue' = queue /\ draft = None
        /\ draft'.mutation.target = i
    BY <1>15, <2>1 DEF DeleteOffline, CanDraft, Drafted
  <2>3. draft' # None
    BY <1>12, <1>15 DEF EditStep
  <2> QED
    BY <1>11, <2>1, <2>2, <2>3 DEF Without, Restrict
<1>16. CASE GoOnline(t) \/ (ShowTrip(t) /\ UNCHANGED cache) \/ UNCHANGED vars
  <2>1. UNCHANGED <<queue, draft, cache>>
    BY <1>16 DEF GoOnline, ShowTrip, vars, deviceVars
  <2>2. \A k \in DOMAIN queue : Concerns(k, id) => k \in DOMAIN queue' /\ Concerns(k, id)'
    BY <1>3, <1>4, <2>1 DEF Concerns
  <2>3. Same(id) => Same(id)'
    BY <1>7, <2>1 DEF Same
  <2> QED
    BY <1>9, <2>1, <2>2, <2>3, CoveredStays
<1> QED
  BY <1>7, <1>10, <1>13, <1>14, <1>15, <1>16

(* A step of the online device that leaves cache and rows, and what the    *)
(* edits are.                                                              *)
EditsStay ==
    /\ DOMAIN queue' = DOMAIN queue
    /\ \A k \in DOMAIN queue : SameEdit(k) /\ (Alive(k)' => Alive(k))
(* What was covered is covered after such a step.                          *)
LEMMA QuietCovers ==
    ASSUME CacheInv, Alone, NEW t \in Tabs, \A u \in Tabs : u = t, draft = None,
           ServerRowsStay, UNCHANGED cache, EditsStay, flush'[t].step # "remove"
    PROVE  CacheInv'
<1>1. SUFFICES ASSUME NoneFailed' PROVE \A id \in Int : Covered(id)'
  <2>1. \A u \in Tabs : Confirms(u)'
    BY DEF Confirms
  <2> QED
    BY <1>1, <2>1 DEF CacheInv
<1>2. NoneFailed
  BY <1>1 DEF NoneFailed, EditsStay
<1>3. SUFFICES ASSUME NEW id \in Int PROVE Covered(id)'
  OBVIOUS
<1>4. Covered(id)
  BY <1>2 DEF CacheInv
<1>5. Same(id) => Same(id)'
  BY DEF Same, ServerRowsStay
<1>6. \A k \in DOMAIN queue : Concerns(k, id) => k \in DOMAIN queue' /\ Concerns(k, id)'
  BY DEF Concerns, EditsStay, SameEdit, ServerRowsStay
<1> QED
  BY <1>4, <1>5, <1>6, CoveredStays

(* The server executes an edit: it is still in the queue.                  *)
LEMMA ExecutionCovers ==
    ASSUME ReplayInv, SyncInv, CacheInv, Alone, NEW t \in Tabs, \A u \in Tabs : u = t,
           draft = None, UNCHANGED <<deviceVars, open>>, NEW q \in wire, ExecuteAndStore(q)
    PROVE  CacheInv'
<1>1. /\ UNCHANGED <<queue, flush, draft, cache>> /\ TypeOK /\ Execute(q) /\ q.key \notin DOMAIN keys
  BY DEF deviceVars, ReplayInv, IndInv, ExecuteAndStore
<1>2. /\ Foremost(q.key) /\ queue[q.key].method = q.method
      /\ q.method # "POST" => queue[q.key].target = q.row
      /\ flush[t].step \notin {"store", "remove"}
  BY <1>1, OnlyForemost
<1>3. PICK body, w : body = Success(q) /\ w = WrittenRow(q)
  OBVIOUS
<1>4. keys' = Put(keys, q.key, body)
  BY <1>3 DEF ExecuteAndStore
<1>5. /\ DOMAIN keys' = DOMAIN keys \cup {q.key} /\ keys'[q.key] = body
      /\ \A k \in DOMAIN keys : keys'[k] = keys[k]
  BY <1>1, <1>4 DEF Put
<1>6. /\ \A i : i # w => (i \in DOMAIN rows' <=> i \in DOMAIN rows)
      /\ \A i \in DOMAIN rows : i # w => rows'[i] = rows[i]
      /\ q.method # "DELETE" => body.id = w
  BY <1>1, <1>3, WritesOneRow
<1>7. SUFFICES ASSUME NoneFailed', NEW id \in Int PROVE Covered(id)'
  <2>1. \A u \in Tabs : Confirms(u)'
    BY <1>1, <1>2 DEF Confirms
  <2> QED
    BY <1>7, <2>1 DEF CacheInv
<1>8. Covered(id)
  BY <1>1, <1>7 DEF CacheInv, NoneFailed, Alive
<1>9. \A k \in DOMAIN queue : Concerns(k, id) => k \in DOMAIN queue' /\ Concerns(k, id)'
  BY <1>1, <1>5 DEF Concerns
<1>10. CASE id = w
  <2>1. q.key \in DOMAIN queue
    BY <1>2 DEF Foremost, Alive
  <2>2. Concerns(q.key, id)'
    BY <1>1, <1>2, <1>3, <1>5, <1>6, <1>10, <2>1 DEF Concerns, WrittenRow
  <2> QED
    BY <1>1, <2>1, <2>2 DEF Covered
<1>11. CASE id # w
  <2>1. Same(id) => Same(id)'
    BY <1>1, <1>6, <1>11 DEF Same
  <2> QED
    BY <1>1, <1>8, <1>9, <2>1, CoveredStays
<1> QED
  BY <1>10, <1>11

(* The trip page stores what the server has.                               *)
LEMMA ShowCovers ==
    ASSUME CacheInv, Alone, NEW t \in Tabs, \A u \in Tabs : u = t, draft = None, ShowTrip(t)
    PROVE  CacheInv'
<1>1. ServerRowsStay /\ UNCHANGED <<queue, draft, flush>>
  BY DEF ShowTrip, serverVars, ServerRowsStay
<1>2. \A id : Same(id) => Same(id)'
  BY <1>1 DEF ShowTrip, PutAll, Same, ServerRowsStay
<1>3. \A k, id : Concerns(k, id)' <=> Concerns(k, id)
  BY <1>1 DEF Concerns, ServerRowsStay
<1>4. SUFFICES ASSUME NoneFailed' PROVE (\A id \in Int : Covered(id)') /\ (Confirms(t))'
  <2>1. \A u \in Tabs : u = t
    OBVIOUS
  <2> QED
    BY <1>4, <2>1 DEF CacheInv
<1>5. (\A id \in Int : Covered(id)) /\ Confirms(t)
  BY <1>1, <1>4 DEF CacheInv, NoneFailed, Alive
<1>6. ASSUME NEW id \in Int PROVE Covered(id)'
  BY <1>1, <1>2, <1>3, <1>5, CoveredStays
<1>7. Confirms(t)'
  <2>1. Current(t)' = Current(t)
    BY <1>1 DEF Current, Todo
  <2> QED
    BY <1>1, <1>2, <1>3, <1>5, <2>1 DEF Confirms
<1> QED
  BY <1>6, <1>7

(* Answers, sends, new passes and returned edits move no row.              *)
LEMMA LoopQuietCovers ==
    ASSUME ReplayInv, SyncInv, CacheInv, Alone, NEW t \in Tabs, \A u \in Tabs : u = t,
           draft = None, Replays(t) \/ Abort(t) \/ StartFlush(t) \/ EndFlush(t)
    PROVE  CacheInv'
<1>1. /\ TypeOK /\ DOMAIN flush = Tabs /\ FlushType(flush[t]) /\ UNCHANGED cache /\ ServerRowsStay
  BY DEF Replays, Send, Abort, HangUp, ServerStays, StartFlush, EndFlush, serverVars,
     ServerRowsStay, ReplayInv, IndInv, TypeOK, DeviceTypeOK
<1>2. CASE Replays(t) \/ Abort(t)
  <2>1. MarksHead(t)
    BY <1>2 DEF Replays, Abort, Amend, Change, Revised, MarksHead, SameEdit
  <2>2. DOMAIN Todo(t) # {}
    BY <1>2 DEF Replays, HasNext, Abort, Answered, ReplayInv, IndInv, Exchanges, ExchangeOf
  <2>3. Alive(Current(t))
    BY <2>2, HeadForemost
  <2>4. EditsStay
    BY <2>1, <2>3 DEF MarksHead, EditsStay, SameEdit, Alive
  <2>5. flush'[t].step # "remove"
    <3>1. \/ flush' = [flush EXCEPT ![t].step = "wait"]
          \/ flush' = [flush EXCEPT ![t].step = "next", ![t].todo = Empty]
      BY <1>2 DEF Replays, Abort
    <3>2. \E todo : \/ flush'[t] = [step |-> "wait", todo |-> flush[t].todo, idMap |-> flush[t].idMap,
                                    tokens |-> flush[t].tokens, retry |-> flush[t].retry]
                    \/ flush'[t] = [step |-> "next", todo |-> todo, idMap |-> flush[t].idMap,
                                    tokens |-> flush[t].tokens, retry |-> flush[t].retry]
      BY <1>1, <3>1 DEF FlushType
    <3> QED
      BY <3>2
  <2> QED
    BY <1>1, <2>4, <2>5, QuietCovers
<1>3. CASE StartFlush(t) \/ EndFlush(t)
  <2>1. UNCHANGED queue /\ (Begin(t, queue) \/ flush' = [flush EXCEPT ![t] = Quiet])
    BY <1>3 DEF StartFlush, EndFlush
  <2>2. flush'[t].step \in {"next", "idle"}
    BY <1>1, <2>1 DEF Begin, Quiet, Loop
  <2>3. EditsStay
    BY <2>1 DEF EditsStay, SameEdit, Alive
  <2> QED
    BY <1>1, <2>2, <2>3, QuietCovers
<1> QED
  BY <1>2, <1>3

(* Neither the answer to a request nor a stutter changes what is compared. *)
LEMMA AnswersCover ==
    ASSUME CacheInv, Alone, UNCHANGED <<queue, flush, draft, cache, rows, keys>>
    PROVE  CacheInv'
<1>1. UNCHANGED <<queue, flush, draft, cache, rows, keys>>
  OBVIOUS
<1>2. (\A id : Same(id)' <=> Same(id)) /\ (\A k, id : Concerns(k, id)' <=> Concerns(k, id))
  BY <1>1 DEF Same, Concerns
<1>3. \A t \in Tabs : Current(t)' = Current(t)
  BY <1>1 DEF Current, Todo
<1>4. \A t \in Tabs : Confirms(t)' <=> Confirms(t)
  BY <1>1, <1>2, <1>3 DEF Confirms
<1>5. \A id : Covered(id)' <=> Covered(id)
  BY <1>1, <1>2 DEF Covered
<1>6. NoneFailed' <=> NoneFailed
  BY <1>1 DEF NoneFailed, Alive
<1> QED
  BY <1>1, <1>4, <1>5, <1>6 DEF CacheInv

(* Once an edit has failed, nothing is promised. *)
LEMMA FailureCovers ==
    ASSUME ReplayInv, SyncInv, Alone, NEW t \in Tabs, FailUnresolved(t) \/ Reject(t)
    PROVE  CacheInv'
<1>1. DOMAIN Todo(t) # {}
  BY DEF FailUnresolved, HasNext, Reject, Answered, ReplayInv, IndInv, Exchanges, ExchangeOf
<1>2. Current(t) \in DOMAIN queue
  BY <1>1, HeadForemost
<1>3. PICK k : k = Current(t)
  OBVIOUS
<1>4. PICK m : m.status = "failed" /\ queue' = Amend(queue, k, m)
  BY <1>3 DEF FailUnresolved, Reject, Change, Revised
<1>5. k \in DOMAIN queue' /\ queue'[k].status = "failed"
  BY <1>2, <1>3, <1>4 DEF Amend
<1> QED
  BY <1>5 DEF CacheInv, NoneFailed, Alive

(* The mutation that leaves the queue has its rows as the server does. *)
LEMMA DequeueCovers ==
    ASSUME ReplayInv, SyncInv, CacheInv, Alone, NEW t \in Tabs, \A u \in Tabs : u = t,
           draft = None, Dequeue(t)
    PROVE  CacheInv'
<1>1. PICK head, S : head = Current(t) /\ S = {head}
  OBVIOUS
<1>2. /\ UNCHANGED <<rows, keys, cache, draft>> /\ queue' = Without(queue, S) /\ Advance(t)
      /\ flush[t].step = "remove"
  BY <1>1 DEF Dequeue, ServerStays
<1>3. /\ DOMAIN queue' = DOMAIN queue \ S /\ \A k \in DOMAIN queue \ S : queue'[k] = queue[k]
  BY <1>2 DEF Without, Restrict
<1>4. /\ flush'[t].step # "remove" /\ Alive(head)
  <2>1. TypeOK /\ DOMAIN Todo(t) # {}
    BY <1>2 DEF ReplayInv, IndInv, Exchanges, ExchangeOf
  <2> QED
    BY <1>1, <1>2, <2>1, AdvanceDone, HeadForemost
<1>5. SUFFICES ASSUME NoneFailed', NEW id \in Int PROVE Covered(id)'
  <2>1. \A u \in Tabs : Confirms(u)'
    BY <1>4 DEF Confirms
  <2> QED
    BY <1>5, <2>1 DEF CacheInv
<1>6. NoneFailed
  BY <1>1, <1>3, <1>4, <1>5 DEF NoneFailed, Alive
<1>7. Covered(id) /\ Confirms(t)
  BY <1>6 DEF CacheInv
<1>8. Same(id) => Same(id)'
  BY <1>2 DEF Same
<1>9. \A k \in DOMAIN queue : Concerns(k, id) => Same(id)' \/ (k \in DOMAIN queue' /\ Concerns(k, id)')
  <2>1. SUFFICES ASSUME NEW k \in DOMAIN queue, Concerns(k, id)
                 PROVE  Same(id)' \/ (k \in DOMAIN queue' /\ Concerns(k, id)')
    OBVIOUS
  <2>2. CASE k = head
    BY <1>1, <1>2, <1>7, <1>8, <2>1, <2>2 DEF Confirms
  <2>3. CASE k # head
    BY <1>1, <1>2, <1>3, <2>1, <2>3 DEF Concerns
  <2> QED
    BY <2>2, <2>3
<1> QED
  BY <1>2, <1>7, <1>8, <1>9, CoveredStays

(* A deleted row leaves the cache, as it has left the server. *)
LEMMA UndisplayCovers ==
    ASSUME ReplayInv, SyncInv, CacheInv, Alone, NEW t \in Tabs, \A u \in Tabs : u = t,
           draft = None, Undisplay(t)
    PROVE  CacheInv'
<1>1. /\ IndInv /\ TokenInv /\ TypeOK /\ FlushType(flush[t]) /\ DOMAIN flush = Tabs
      /\ reply[t] # None /\ reply[t].status = "ok" /\ Snapshot(t).method = "DELETE"
      /\ flush' = [flush EXCEPT ![t].step = "remove"]
      /\ UNCHANGED <<rows, keys, queue, draft>>
  BY DEF Undisplay, Answered, Received, ReplayInv, IndInv, TypeOK, DeviceTypeOK
<1>2. PICK head, id, S : head = Current(t) /\ id = Target(t) /\ S = {id}
  OBVIOUS
<1>3. /\ head \in DOMAIN queue /\ queue[head].target = id /\ queue[head].method = "DELETE"
      /\ id \notin DOMAIN rows
  BY <1>1, <1>2, DeleteTarget DEF TokenInv, DeletedGone, Gone
<1>4. /\ DOMAIN cache' = DOMAIN cache \ S /\ \A i \in DOMAIN cache \ S : cache'[i] = cache[i]
  <2>1. cache' = Without(cache, S)
    BY <1>2 DEF Undisplay
  <2> QED
    BY <2>1 DEF Without, Restrict
<1>5. Same(id)' /\ \A i : i # id /\ Same(i) => Same(i)'
  BY <1>1, <1>2, <1>3, <1>4 DEF Same
<1>6. \A k, i : Concerns(k, i)' <=> Concerns(k, i)
  BY <1>1 DEF Concerns
<1>7. SUFFICES ASSUME NoneFailed' PROVE (\A i \in Int : Covered(i)') /\ (Confirms(t))'
  <2>1. \A u \in Tabs : u = t
    OBVIOUS
  <2> QED
    BY <1>7, <2>1 DEF CacheInv
<1>8. \A i \in Int : Covered(i)
  BY <1>1, <1>7 DEF CacheInv, NoneFailed, Alive
<1>9. ASSUME NEW i \in Int PROVE Covered(i)'
  BY <1>1, <1>5, <1>6, <1>8, CoveredStays DEF Covered
<1>10. Confirms(t)'
  <2>1. Current(t)' = head
    <3>1. flush'[t] = [step |-> "remove", todo |-> flush[t].todo, idMap |-> flush[t].idMap,
                       tokens |-> flush[t].tokens, retry |-> flush[t].retry]
      BY <1>1 DEF FlushType
    <3> QED
      BY <1>2, <3>1 DEF Current, Todo
  <2>2. \A i : Concerns(head, i)' => i = id
    BY <1>1, <1>3 DEF Concerns
  <2> QED
    BY <1>5, <2>1, <2>2 DEF Confirms
<1> QED
  BY <1>9, <1>10

(* A create got its id: its temporary row is nobody's any more. *)
LEMMA RemapCovers ==
    ASSUME ReplayInv, SyncInv, CacheInv, Alone, NEW t \in Tabs, \A u \in Tabs : u = t,
           draft = None, Remap(t)
    PROVE  CacheInv'
<1>1. /\ IndInv /\ TypeOK /\ DOMAIN Todo(t) # {} /\ Snapshot(t).method = "POST"
      /\ UNCHANGED <<rows, keys, draft>> /\ DOMAIN rows \subseteq Nat
  BY DEF Remap, Answered, Received, ReplayInv, IndInv, Exchanges, ExchangeOf, TypeOK,
     ServerTypeOK, IsTable
<1>2. PICK temp, id, S : temp = Snapshot(t).target /\ id = reply[t].id /\ S = {temp}
  OBVIOUS
<1>3. /\ flush'[t].step = "store" /\ DOMAIN queue' = DOMAIN queue
      /\ \A k \in DOMAIN queue :
            /\ queue'[k].method = queue[k].method /\ queue'[k].status = queue[k].status
            /\ queue'[k].target = IF queue[k].method # "POST" /\ queue[k].target = temp
                                  THEN id ELSE queue[k].target
  BY <1>1, <1>2, RemapDoes
<1>4. temp \notin DOMAIN rows
  <2>1. PICK m : m = Snapshot(t)
    OBVIOUS
  <2>2. Current(t) \in DOMAIN queue /\ m.target = -Current(t)
    BY <1>1, <2>1, InHand DEF Follows, ReplayInv
  <2>3. Current(t) \in Nat \ {0}
    BY <1>1, <2>2 DEF TypeOK, DeviceTypeOK, IsTable, Keys
  <2> QED
    BY <1>1, <1>2, <2>1, <2>2, <2>3
<1>5. /\ DOMAIN cache' = DOMAIN cache \ S /\ \A i \in DOMAIN cache \ S : cache'[i] = cache[i]
  <2>1. cache' = Without(cache, S)
    BY <1>2 DEF Remap
  <2> QED
    BY <2>1 DEF Without, Restrict
<1>6. Same(temp)' /\ \A i : i # temp /\ Same(i) => Same(i)'
  BY <1>1, <1>2, <1>4, <1>5 DEF Same
<1>7. \A k \in DOMAIN queue : \A i : i # temp /\ Concerns(k, i) => Concerns(k, i)'
  BY <1>1, <1>3 DEF Concerns
<1>8. SUFFICES ASSUME NoneFailed', NEW i \in Int PROVE Covered(i)'
  <2>1. \A u \in Tabs : Confirms(u)'
    BY <1>3 DEF Confirms
  <2> QED
    BY <1>8, <2>1 DEF CacheInv
<1>9. Covered(i)
  BY <1>3, <1>8 DEF CacheInv, NoneFailed, Alive
<1>10. CASE i = temp
  BY <1>6, <1>10 DEF Covered
<1>11. CASE i # temp
  BY <1>3, <1>6, <1>7, <1>9, <1>11, CoveredStays
<1> QED
  BY <1>10, <1>11

(* The answer is stored: it is the row the server has. *)
LEMMA StoreEntityCovers ==
    ASSUME ReplayInv, SyncInv, CacheInv, Alone, NEW t \in Tabs, \A u \in Tabs : u = t,
           draft = None, StoreEntity(t)
    PROVE  CacheInv'
<1>1. /\ IndInv /\ TokenInv /\ TypeOK /\ flush[t].step \in {"wait", "store"} /\ reply[t] # None
      /\ reply[t].status = "ok" /\ Snapshot(t).method \in {"PUT", "POST"}
      /\ Snapshot(t).method = "POST" => flush[t].step = "store"
      /\ AnswerOf(t) /\ StoredRows /\ DOMAIN Todo(t) # {} /\ ConfirmedOf(t) /\ QueueTokens
      /\ UNCHANGED <<rows, keys, draft>> /\ DOMAIN rows \subseteq Nat /\ DOMAIN queue \subseteq Nat \ {0}
  BY DEF StoreEntity, Answered, Received, ReplayInv, IndInv, TokenInv, PhantomInv, Confirmed,
     Exchanges, ExchangeOf, SyncInv, TypeOK, ServerTypeOK, DeviceTypeOK, IsTable, Keys
<1>2. PICK head, id, token, entity : /\ head = Current(t) /\ id = reply[t].id
                                     /\ entity = reply[t].entity /\ token = reply[t].entity.at
  OBVIOUS
<1>3. /\ Todo(t)' = Todo(t) /\ DOMAIN queue' = DOMAIN queue
      /\ \A k \in DOMAIN queue :
            /\ queue'[k].method = queue[k].method /\ queue'[k].target = queue[k].target
            /\ queue'[k].status = queue[k].status
  BY <1>1, <1>2, StoreEntityDoes
<1>4. /\ head \in DOMAIN queue /\ Alive(head) /\ queue[head].method = Snapshot(t).method
  BY <1>1, <1>2, HeadForemost, OneMethod
<1>5. /\ head \in DOMAIN keys /\ keys[head].id = id /\ id \in DOMAIN rows /\ rows[id] = entity
      /\ queue[head].method = "PUT" => queue[head].target = id
  BY <1>1, <1>2, <1>4 DEF AnswerOf, StoredRows
<1>6. /\ DOMAIN cache' = DOMAIN cache \cup {id} /\ cache'[id] = entity
      /\ \A i \in DOMAIN cache : i # id => cache'[i] = cache[i]
  <2>1. cache' = Put(cache, id, entity)
    BY <1>2 DEF StoreEntity
  <2> QED
    BY <2>1 DEF Put
<1>7. Same(id)' /\ \A i : i # id => (Same(i)' <=> Same(i))
  BY <1>1, <1>5, <1>6 DEF Same
<1>8. \A k \in DOMAIN queue : \A i : Concerns(k, i)' <=> Concerns(k, i)
  BY <1>1, <1>3 DEF Concerns
<1>9. SUFFICES ASSUME NoneFailed' PROVE (\A i \in Int : Covered(i)') /\ (Confirms(t))'
  <2>1. \A u \in Tabs : u = t
    OBVIOUS
  <2> QED
    BY <1>9, <2>1 DEF CacheInv
<1>10. \A i \in Int : Covered(i)
  BY <1>3, <1>9 DEF CacheInv, NoneFailed, Alive
<1>11. ASSUME NEW i \in Int PROVE Covered(i)'
  <2>1. Same(i) => Same(i)'
    BY <1>7
  <2> QED
    BY <1>1, <1>3, <1>8, <1>10, <2>1, CoveredStays
<1>12. Confirms(t)'
  <2>1. Current(t)' = head
    BY <1>2, <1>3 DEF Current
  <2>2. ASSUME NEW i \in Int, Concerns(head, i) PROVE Same(i)'
    <3>1. CASE queue[head].method = "PUT"
      BY <1>5, <1>7, <2>2, <3>1 DEF Concerns
    <3>2. CASE queue[head].method = "POST"
      <4>1. queue[head].target = -head
        BY <1>1, <1>4, <3>2 DEF QueueTokens, HasToken
      <4>2. Snapshot(t).target = -head
        <5>1. PICK m : m = Snapshot(t)
          OBVIOUS
        <5> QED
          BY <1>1, <1>2, <1>4, <3>2, <5>1, InHand DEF Follows
      <4>3. -head \notin DOMAIN cache /\ -head \notin DOMAIN rows
        BY <1>1, <1>4, <3>2, <4>2 DEF ConfirmedOf
      <4>4. Same(-head)
        BY <4>3 DEF Same
      <4> QED
        BY <1>5, <1>7, <2>2, <4>1, <4>4 DEF Concerns
    <3> QED
      BY <1>1, <1>4, <3>1, <3>2
  <2> QED
    BY <1>4, <1>8, <2>1, <2>2 DEF Confirms
<1> QED
  BY <1>11, <1>12

(* CacheInv is an invariant of a device whose cache is not cleared. *)
LEMMA NextCacheInv ==
    ASSUME ReplayInv, IndInv', OneSession, Limit["evict"] = 0, SyncInv, CacheInv, [Next]_vars
    PROVE  CacheInv'
<1>1. SUFFICES ASSUME Alone' PROVE CacheInv'
  BY DEF CacheInv
<1>2. Alone /\ TypeOK
  BY <1>1, StaysAlone DEF ReplayInv, IndInv
<1>3. PICK t \in Tabs : \A u \in Tabs : u = t
  BY TabsAssumption DEF OneSession, OneTab
<1>4. CASE ~online[t]
  BY <1>1, <1>3, <1>4, OfflineCovers
<1>5. CASE online[t]
  <2>1. /\ draft = None
        /\ \/ Exchange(t) \/ LoopGoesOn(t) \/ StartFlush(t) \/ ShowTrip(t) \/ Evict(t)
           \/ UNCHANGED vars
    BY <1>1, <1>3, <1>5, OnlineSteps
  <2>2. CASE Exchange(t)
    <3>1. ASSUME NEW q \in wire, ExecuteAndStore(q) PROVE CacheInv'
      BY <1>2, <1>3, <2>1, <2>2, <3>1, ExecutionCovers DEF Exchange
    <3>2. ASSUME GiveUp(t) \/ \E q \in wire : Deny(q) \/ Replay(q) \/ Refuse(q)
          PROVE  UNCHANGED <<rows, keys>>
      BY <3>2 DEF GiveUp, Deny, Replay, Refuse
    <3>3. ASSUME GiveUp(t) \/ \E q \in wire : Deny(q) \/ Replay(q) \/ Refuse(q) PROVE CacheInv'
      <4>1. UNCHANGED <<queue, flush, draft, cache, rows, keys>>
        BY <2>2, <3>2, <3>3 DEF Exchange, deviceVars
      <4> QED
        BY <1>2, <4>1, AnswersCover
    <3> QED
      BY <2>2, <3>1, <3>3 DEF Exchange
  <2>3. CASE FailUnresolved(t) \/ Reject(t)
    BY <1>2, <2>3, FailureCovers
  <2>4. CASE Replays(t) \/ Abort(t) \/ EndFlush(t) \/ StartFlush(t)
    BY <1>2, <1>3, <2>1, <2>4, LoopQuietCovers
  <2>5. CASE Dequeue(t)
    BY <1>2, <1>3, <2>1, <2>5, DequeueCovers
  <2>6. CASE Remap(t)
    BY <1>2, <1>3, <2>1, <2>6, RemapCovers
  <2>7. CASE StoreEntity(t)
    BY <1>2, <1>3, <2>1, <2>7, StoreEntityCovers
  <2>8. CASE Undisplay(t)
    BY <1>2, <1>3, <2>1, <2>8, UndisplayCovers
  <2>9. CASE ShowTrip(t)
    BY <1>2, <1>3, <2>1, <2>9, ShowCovers
  <2>10. ~Evict(t)
    <3>1. "evict" \in Faults
      BY DEF Faults
    <3> QED
      BY <1>2, <3>1, NoFault DEF Evict
  <2>11. CASE UNCHANGED vars
    <3>1. UNCHANGED <<queue, flush, draft, cache, rows, keys>>
      BY <2>11 DEF vars, deviceVars, serverVars
    <3> QED
      BY <1>2, <3>1, AnswersCover
  <2> QED
    BY <2>1, <2>2, <2>3, <2>4, <2>5, <2>6, <2>7, <2>8, <2>9, <2>10, <2>11 DEF LoopGoesOn
<1> QED
  BY <1>4, <1>5

(* At first the cache is the server's table.                               *)
LEMMA InitCacheInv == Init => CacheInv
<1> SUFFICES ASSUME Init PROVE CacheInv
  OBVIOUS
<1>1. cache = rows /\ \A t \in Tabs : flush[t].step = "idle"
  BY DEF Init, Quiet, Loop
<1>2. (\A id \in Int : Covered(id)) /\ \A t \in Tabs : Confirms(t)
  BY <1>1 DEF Covered, Same, Confirms
<1> QED
  BY <1>2 DEF CacheInv

(* With nothing under way, the cache is the server's table. *)
LEMMA NothingUnderWay ==
    ASSUME IndInv, CacheInv
    PROVE  CacheConverges
<1>1. SUFFICES ASSUME Alone, queue = Empty, draft = None PROVE cache = rows
  BY DEF CacheConverges, Alone
<1>2. /\ DOMAIN cache \subseteq Int /\ cache \in [DOMAIN cache -> Entity]
      /\ DOMAIN rows \subseteq Nat /\ rows \in [DOMAIN rows -> Entity]
  BY DEF IndInv, TypeOK, ServerTypeOK, DeviceTypeOK, IsTable
<1>3. DOMAIN queue = {}
  BY <1>1, EmptyTable
<1>4. NoneFailed
  BY <1>3 DEF NoneFailed
<1>5. \A id \in Int : Same(id)
  BY <1>1, <1>3, <1>4 DEF CacheInv, Covered
<1>6. /\ DOMAIN cache = DOMAIN rows /\ \A id \in DOMAIN rows : cache[id] = rows[id]
  BY <1>2, <1>5 DEF Same
<1> QED
  BY <1>2, <1>6

(* Of such a device, unless its cache was cleared: as long as no           *)
(* collaborator has touched the trip, once all its edits are done its      *)
(* cache is the server's table.                                            *)
THEOREM CacheIsServers ==
    ASSUME OneSession, Limit["evict"] = 0
    PROVE  Spec => []CacheConverges
<1>1. Spec => [](ReplayInv /\ SyncInv)
  BY InStep
<1>2. Init => CacheInv
  BY InitCacheInv
<1>3. ReplayInv /\ SyncInv /\ (ReplayInv /\ SyncInv)' /\ CacheInv /\ [Next]_vars => CacheInv'
  BY NextCacheInv DEF ReplayInv
<1>4. ReplayInv /\ CacheInv => CacheConverges
  BY NothingUnderWay DEF ReplayInv
<1> QED
  BY <1>1, <1>2, <1>3, <1>4, PTL DEF Spec
=============================================================================
