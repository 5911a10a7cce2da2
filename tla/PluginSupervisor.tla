-------------------------- MODULE PluginSupervisor --------------------------
(***************************************************************************)
(* The life of one plugin: the supervisor's entry for it and its child     *)
(* process, the timers that guard a start, the redelivery buffer for core  *)
(* events, the plugin's row in the database, and the durable queue of user *)
(* erasures that is drained into whichever child is active.                *)
(*                                                                         *)
(* Entries of different plugin ids share only the drain's lock, so one id  *)
(* is modelled.  Entry n is the n-th Supervised object made for it, child  *)
(* n the n-th process forked.  A timer is a bit: armed or not; it may fire *)
(* whenever it is armed.  A child may exit at any time (a crash, or the    *)
(* SIGKILL of reapStale or of a kill's grace timer), and what it wrote to  *)
(* its channel before may be read after its exit event.                    *)
(***************************************************************************)
EXTENDS Integers, Sequences

CONSTANTS
    MaxEntries,   \* activations that make an entry (bound)
    MaxKids,      \* processes forked (bound)
    CrashLimit,   \* tuning.crashLimit
    EventMax,     \* EVENT_BUFFER_MAX
    MaxEvents,    \* core events (bound)
    Erasers,      \* the users whose accounts are deleted
    Null

Entries == 1 .. MaxEntries
Kids == 1 .. MaxKids

ASSUME PluginAssumption ==
    /\ MaxEntries \in Nat /\ MaxKids \in Nat /\ MaxEvents \in Nat
    /\ CrashLimit \in Nat \ {0} /\ EventMax \in Nat \ {0}
    /\ Null \notin Nat /\ Null \notin Erasers

VARIABLES
    (* the supervisor: the current entry, and the Supervised objects *)
    running,    \* running.get(id), or Null
    made,       \* entries made so far
    status,     \* per entry; "none" before it is made
    child,      \* per entry: its process, or Null
    deadline,   \* the entries whose activationTimer is armed
    respawn,    \* the entries whose respawnTimer is armed
    crashes,    \* per entry: crashes in the window
    cron,       \* per entry: its node-cron task sets that tick
    tasks,      \* the entries whose jobTasks refers to a task set
    listens,    \* the entries whose child has reported its subscriptions
    promise,    \* per entry: the promise of the activate that made it
    killing,    \* per entry: what follows the kill it awaits ("row": the
                \* rest of deactivate, which writes the plugin's row)
    raced, \* history: entries made while a deactivate awaited its kill
    (* the child processes *)
    forked,     \* children forked so far
    proc,       \* per child: none, up, dying (told to stop), gone
    owner,      \* per child: its entry
    mail,       \* per child: what it said of its load ("late" once it was
                \* handled after the child's exit)
    asked,      \* per child: the users it was asked to erase
    (* core events *)
    buffer,     \* pendingEvents.get(id)
    events,     \* core events fired so far
    sent,       \* history: the events sent to a child, in order
    (* the database *)
    enabled,    \* plugins.enabled, the admin's intent
    queue,      \* plugin_user_erasure_queue
    deleted,    \* the users whose account is gone
    erased,     \* the users whose data the plugin has erased
    (* drainInFlight *)
    drain,      \* is a pass in flight: idle or busy
    todo,       \* the users this pass has still to ask for
    waiting,    \* the user of the invoke it awaits, or Null
    via         \* the child that was asked

timers == <<deadline, respawn>>
jobs == <<cron, tasks>>
entries == <<running, made, status, child, timers, crashes, jobs, listens,
             promise, killing, raced>>
procs == <<forked, proc, owner, mail, asked>>
coreEvents == <<buffer, events, sent>>
pass == <<drain, todo, waiting, via>>
erasure == <<queue, deleted, erased, pass>>
pluginVars == <<entries, procs, coreEvents, enabled, erasure>>

PluginInit ==
    /\ running = Null /\ made = 0
    /\ status = [e \in Entries |-> "none"] /\ child = [e \in Entries |-> Null]
    /\ deadline = {} /\ respawn = {} /\ crashes = [e \in Entries |-> 0]
    /\ cron = [e \in Entries |-> 0] /\ tasks = {} /\ listens = {}
    /\ promise = [e \in Entries |-> "none"] /\ killing = [e \in Entries |-> "none"]
    /\ raced = {}
    /\ forked = 0 /\ proc = [k \in Kids |-> "none"] /\ owner = [k \in Kids |-> Null]
    /\ mail = [k \in Kids |-> "unsent"] /\ asked = [k \in Kids |-> {}]
    /\ buffer = << >> /\ events = 0 /\ sent = << >>
    /\ enabled = 0
    /\ queue = {} /\ deleted = {} /\ erased = {}
    /\ drain = "idle" /\ todo = {} /\ waiting = Null /\ via = Null

Live == running # Null /\ status[running] \in {"starting", "active"}
IsActive == running # Null /\ status[running] = "active"
Starting(e) == running # Null /\ running = e /\ status[e] = "starting"

-----------------------------------------------------------------------------
(* Helpers of the supervisor. *)

ClearTimers(e) == deadline' = deadline \ {e} /\ respawn' = respawn \ {e}

(* Mutant: the tasks of the dead child go on ticking. *)
KeepJobs(e) == UNCHANGED jobs

StopJobs(e) ==
    /\ cron' = IF e \in tasks THEN [cron EXCEPT ![e] = @ - 1] ELSE cron
    /\ tasks' = tasks \ {e}

Settle(e, how) ==
    promise' = IF promise[e] = "open" THEN [promise EXCEPT ![e] = how] ELSE promise

(* Mutant: an active entry stays so until it is deactivated. *)
SetStatusOnce(e, s) ==
    status' = IF status[e] = "active" /\ s = "starting" THEN status ELSE [status EXCEPT ![e] = s]

SetStatus(e, s) == status' = [status EXCEPT ![e] = s]

(* Mutant: the entry lets go of its child, which is never told to stop. *)
KillEntryOnly(e, next) ==
    /\ StopJobs(e)
    /\ child' = [child EXCEPT ![e] = Null]
    /\ UNCHANGED <<killing, proc>>

(* kill, up to its await: without a child there is nothing to wait for. *)
Kill(e, next) ==
    /\ StopJobs(e)
    /\ child' = [child EXCEPT ![e] = Null]
    /\ IF child[e] = Null
       THEN UNCHANGED <<killing, proc>>
       ELSE /\ killing' = [killing EXCEPT ![e] = next]
            /\ proc' = [proc EXCEPT ![child[e]] = "dying"]

(* spawn: fork a child for entry e. *)
Spawn(e) ==
    /\ forked' = forked + 1
    /\ child' = [child EXCEPT ![e] = forked + 1]
    /\ proc' = [proc EXCEPT ![forked + 1] = "up"]
    /\ owner' = [owner EXCEPT ![forked + 1] = e]

(* A fork is left for the entry that waits for its respawn (bound). *)
CanFork == forked + (IF respawn = {} THEN 0 ELSE 1) < MaxKids

(* sendEvent for each event of s: invoke needs a live child. *)
SendEvents(e, s) == sent' = IF child[e] = Null THEN sent ELSE sent \o s

(* Mutant: what was replayed is kept. *)
FlushKeepingBuffer(e) == SendEvents(e, buffer) /\ UNCHANGED buffer

FlushPendingEvents(e) == SendEvents(e, buffer) /\ buffer' = << >>

-----------------------------------------------------------------------------
(* Activation and deactivation (the runtime service and the supervisor). *)

(* A starting or active entry makes activate a no-op. *)
ActivateAgain ==
    /\ Live
    /\ enabled' = 1
    /\ UNCHANGED <<entries, procs, coreEvents, erasure>>

(* A dead entry is dropped; its buffer stays, it is keyed by the plugin. *)
Activate ==
    /\ ~Live
    /\ made < MaxEntries /\ CanFork
    /\ enabled' = 1
    /\ made' = made + 1 /\ running' = made + 1
    /\ SetStatus(made + 1, "starting")
    /\ deadline' = deadline \cup {made + 1}
    /\ promise' = [promise EXCEPT ![made + 1] = "open"]
    /\ raced' = IF \E e \in Entries : killing[e] = "row"
                     THEN raced \cup {made + 1} ELSE raced
    /\ Spawn(made + 1)
    /\ UNCHANGED <<respawn, crashes, jobs, listens, killing, mail, asked, coreEvents, erasure>>

(* The activation deadline fires: the entry is removed, then killed. *)
ActivationTimeout(e) ==
    /\ e \in deadline /\ status[e] # "active"
    /\ deadline' = deadline \ {e}
    /\ SetStatus(e, "error") /\ Settle(e, "rejected")
    /\ running' = Null /\ buffer' = << >>
    /\ Kill(e, "dispose")
    /\ UNCHANGED <<made, respawn, crashes, listens, raced, forked, owner, mail, asked,
                   events, sent, enabled, erasure>>

(* deactivate awaits disable, then writes the row. *)
DeactivateIdle ==
    /\ running = Null
    /\ enabled' = 0
    /\ UNCHANGED <<entries, procs, coreEvents, erasure>>

Deactivate ==
    /\ running # Null
    /\ running' = Null /\ buffer' = << >>
    /\ ClearTimers(running) /\ SetStatus(running, "stopped")
    /\ Kill(running, "row")
    /\ enabled' = IF child[running] = Null THEN 0 ELSE enabled
    /\ UNCHANGED <<made, crashes, listens, promise, raced, forked, owner, mail, asked,
                   events, sent, erasure>>

(* Mutant: whatever called kill, the row is written after it. *)
KillDoneWritesRow(e) ==
    /\ killing[e] # "none"
    /\ killing' = [killing EXCEPT ![e] = "none"]
    /\ enabled' = 0
    /\ UNCHANGED <<running, made, status, child, timers, crashes, jobs, listens, promise,
                   raced, procs, coreEvents, erasure>>

(* The awaited kill is over: the child's exit was seen or its grace is up. *)
KillDone(e) ==
    /\ killing[e] # "none"
    /\ killing' = [killing EXCEPT ![e] = "none"]
    /\ enabled' = IF killing[e] = "row" THEN 0 ELSE enabled
    /\ UNCHANGED <<running, made, status, child, timers, crashes, jobs, listens, promise,
                   raced, procs, coreEvents, erasure>>

(* shutdownAll: the host goes down, or a restore is applied. *)
Shutdown ==
    /\ running # Null
    /\ running' = Null /\ buffer' = << >>
    /\ ClearTimers(running) /\ SetStatus(running, "stopped") /\ Settle(running, "rejected")
    /\ Kill(running, "dispose")
    /\ UNCHANGED <<made, crashes, listens, raced, forked, owner, mail, asked,
                   events, sent, enabled, erasure>>

(* The host process dies: the children lose their channel and exit, the     *)
(* database stays.  The next boot activates an enabled plugin.              *)
HostCrash ==
    /\ running' = Null /\ buffer' = << >>
    /\ status' = [e \in Entries |-> IF status[e] = "none" THEN "none" ELSE "stopped"]
    /\ child' = [e \in Entries |-> Null]
    /\ deadline' = {} /\ respawn' = {}
    /\ cron' = [e \in Entries |-> 0] /\ tasks' = {}
    /\ promise' = [e \in Entries |-> "none"] /\ killing' = [e \in Entries |-> "none"]
    /\ proc' = [k \in Kids |-> IF proc[k] = "none" THEN "none" ELSE "gone"]
    /\ mail' = [k \in Kids |-> IF mail[k] \in {"loaded", "failed"} THEN "read" ELSE mail[k]]
    /\ drain' = "idle" /\ todo' = {} /\ waiting' = Null /\ via' = Null
    /\ UNCHANGED <<made, crashes, listens, raced, forked, owner, asked,
                   events, sent, enabled, queue, deleted, erased>>

-----------------------------------------------------------------------------
(* What the child says, and its exit. *)

(* External: the child reports the outcome of its load. *)
KidReports(k, what) ==
    /\ proc[k] \in {"up", "dying"} /\ mail[k] = "unsent"
    /\ mail' = [mail EXCEPT ![k] = what]
    /\ UNCHANGED <<entries, forked, proc, owner, asked, coreEvents, enabled, erasure>>

Read(k) == mail' = [mail EXCEPT ![k] = IF proc[k] = "gone" THEN "late" ELSE "read"]

(* loaded, for the current, still starting entry: timers off, jobs on, and  *)
(* the buffered events are replayed.                                        *)
Loaded(k) ==
    LET e == owner[k]
    IN  /\ mail[k] = "loaded" /\ Starting(e)
        /\ Read(k)
        /\ ClearTimers(e) /\ SetStatus(e, "active") /\ Settle(e, "resolved")
        /\ listens' = listens \cup {e}
        /\ cron' = [cron EXCEPT ![e] = @ + 1] /\ tasks' = tasks \cup {e}
        /\ FlushPendingEvents(e)
        /\ UNCHANGED <<running, made, child, crashes, killing, raced,
                       forked, proc, owner, asked, events, enabled, erasure>>

LoadFailed(k) ==
    LET e == owner[k]
    IN  /\ mail[k] = "failed" /\ Starting(e)
        /\ Read(k)
        /\ ClearTimers(e) /\ SetStatus(e, "error") /\ Settle(e, "rejected")
        /\ Kill(e, "dispose")
        /\ UNCHANGED <<running, made, crashes, listens, raced,
                       forked, owner, asked, coreEvents, enabled, erasure>>

(* Anything else said of a load is dropped. *)
IgnoreReport(k) ==
    /\ mail[k] \in {"loaded", "failed"} /\ ~Starting(owner[k])
    /\ Read(k)
    /\ UNCHANGED <<entries, forked, proc, owner, asked, coreEvents, enabled, erasure>>

(* The part of onExit that every exit runs; rejectPending settles the       *)
(* drain's invoke if it waits for one of this entry.                        *)
Exited(k) ==
    /\ proc' = [proc EXCEPT ![k] = "gone"]
    /\ child' = [child EXCEPT ![owner[k]] = Null]
    /\ StopJobs(owner[k])
    /\ IF waiting # Null /\ owner[via] = owner[k]
       THEN waiting' = Null /\ via' = Null ELSE UNCHANGED <<waiting, via>>
    /\ UNCHANGED <<running, made, listens, killing, raced, forked, owner, mail, asked,
                   coreEvents, enabled, queue, deleted, erased, drain, todo>>

(* The exit of a child that was stopped, or when no entry is current. *)
Exit(k) ==
    /\ proc[k] \in {"up", "dying"}
    /\ status[owner[k]] \in {"stopped", "error"} \/ running = Null
    /\ Exited(k)
    /\ UNCHANGED <<status, timers, crashes, promise>>

(* A crash: n crashes are in the window, this one included.  While the      *)
(* entry was starting none can have left the window: the limit's starts and *)
(* backoffs take less time than it.                                         *)
Crash(k, n) ==
    LET e == owner[k]
    IN  /\ proc[k] \in {"up", "dying"}
        /\ status[e] \notin {"stopped", "error"} /\ running # Null
        /\ n \in 1 .. crashes[e] + 1
        /\ status[e] = "starting" => n = crashes[e] + 1
        /\ crashes' = [crashes EXCEPT ![e] = n]
        /\ Exited(k)
        /\ deadline' = deadline \ {e}
        /\ IF n >= CrashLimit
           THEN /\ SetStatus(e, "error") /\ Settle(e, "rejected")
                /\ respawn' = respawn \ {e}
           ELSE /\ CanFork
                /\ SetStatus(e, "starting") /\ UNCHANGED promise
                /\ respawn' = respawn \cup {e}

(* Mutant: a restarted child has no deadline. *)
RespawnUnguarded(e) ==
    /\ e \in respawn
    /\ respawn' = respawn \ {e}
    /\ IF Starting(e) THEN Spawn(e) ELSE UNCHANGED <<child, forked, proc, owner>>
    /\ UNCHANGED <<running, made, status, deadline, crashes, jobs, listens, promise, killing,
                   raced, mail, asked, coreEvents, enabled, erasure>>

(* The backoff is over.  It is a second or more, in which the channel of   *)
(* the dead child has been read to its end.                                *)
Respawn(e) ==
    /\ e \in respawn
    /\ \A k \in Kids : owner[k] = e => mail[k] \notin {"loaded", "failed"}
    /\ respawn' = respawn \ {e}
    /\ IF Starting(e)
       THEN Spawn(e) /\ deadline' = deadline \cup {e}
       ELSE UNCHANGED <<child, forked, proc, owner, deadline>>
    /\ UNCHANGED <<running, made, status, crashes, jobs, listens, promise, killing, raced,
                   mail, asked, coreEvents, enabled, erasure>>

-----------------------------------------------------------------------------
(* Core events. *)

(* bufferEvent: drop the oldest past the cap. *)
Buffered(q, ev) ==
    IF Len(q) < EventMax THEN Append(q, ev) ELSE Append(Tail(q), ev)

DeliverEvent ==
    /\ events < MaxEvents
    /\ events' = events + 1
    /\ IF running = Null \/ running \notin listens
       THEN UNCHANGED <<buffer, sent>>
       ELSE IF IsActive
            THEN SendEvents(running, <<events + 1>>) /\ UNCHANGED buffer
            ELSE buffer' = Buffered(buffer, events + 1) /\ UNCHANGED sent
    /\ UNCHANGED <<entries, procs, enabled, erasure>>

(* reapStale, or the flush itself, drops the events past their TTL. *)
ExpireEvent ==
    /\ buffer # << >>
    /\ buffer' = Tail(buffer)
    /\ UNCHANGED <<entries, procs, events, sent, enabled, erasure>>

-----------------------------------------------------------------------------
(* The erasure queue. *)

(* drainUserErasures: a pass in flight is joined; one that finds the plugin *)
(* inactive, or no row, ends at once.                                       *)
StartDrain(rows) ==
    IF drain = "idle" /\ IsActive /\ rows # {}
    THEN drain' = "busy" /\ todo' = rows
    ELSE UNCHANGED <<drain, todo>>

(* An account is deleted: the row is stored, then a pass is started. *)
EnqueueErasure(u) ==
    /\ u \notin deleted
    /\ deleted' = deleted \cup {u} /\ queue' = queue \cup {u}
    /\ StartDrain(queue \cup {u})
    /\ UNCHANGED <<entries, procs, coreEvents, enabled, erased, waiting, via>>

(* The 30 s sweep. *)
SweepErasures ==
    /\ drain = "idle" /\ IsActive /\ queue # {}
    /\ StartDrain(queue)
    /\ UNCHANGED <<entries, procs, coreEvents, enabled, queue, deleted, erased, waiting, via>>

(* Ask the child to erase u's data; without a live one u is left for later. *)
AskErasure(u) ==
    /\ drain = "busy" /\ waiting = Null /\ u \in todo
    /\ todo' = todo \ {u}
    /\ IF IsActive /\ child[running] # Null
       THEN /\ asked' = [asked EXCEPT ![child[running]] = @ \cup {u}]
            /\ waiting' = u /\ via' = child[running]
       ELSE UNCHANGED <<asked, waiting, via>>
    /\ UNCHANGED <<entries, forked, proc, owner, mail, coreEvents, enabled,
                   queue, deleted, erased, drain>>

(* External: a child does what it was asked, even after the invoke's timeout. *)
KidErases(k, u) ==
    /\ proc[k] \in {"up", "dying"} /\ u \in asked[k] \ erased
    /\ erased' = erased \cup {u}
    /\ UNCHANGED <<entries, procs, coreEvents, enabled, queue, deleted, pass>>

(* Mutant: an error answer drops the row as well. *)
ErasureAnsweredAtAll(ok) ==
    /\ waiting # Null /\ proc[via] \in {"up", "dying"}
    /\ ok => waiting \in erased
    /\ queue' = queue \ {waiting}
    /\ waiting' = Null /\ via' = Null
    /\ UNCHANGED <<entries, procs, coreEvents, enabled, deleted, erased, drain, todo>>

(* The child answers the invoke: only an ACK, which it sends when it has   *)
(* erased the data, drops the row.                                         *)
ErasureAnswered(ok) ==
    /\ waiting # Null
    /\ proc[via] \in {"up", "dying"}
    /\ ok => waiting \in erased
    /\ queue' = IF ok THEN queue \ {waiting} ELSE queue
    /\ waiting' = Null /\ via' = Null
    /\ UNCHANGED <<entries, procs, coreEvents, enabled, deleted, erased, drain, todo>>

(* Mutant: only the end of the child ends the wait. *)
InvokeTimeoutOfGone ==
    /\ waiting # Null /\ proc[via] = "gone"
    /\ waiting' = Null /\ via' = Null
    /\ UNCHANGED <<entries, procs, coreEvents, enabled, queue, deleted, erased, drain, todo>>

InvokeTimeout ==
    /\ waiting # Null
    /\ waiting' = Null /\ via' = Null
    /\ UNCHANGED <<entries, procs, coreEvents, enabled, queue, deleted, erased, drain, todo>>

DrainEnds ==
    /\ drain = "busy" /\ waiting = Null /\ todo = {}
    /\ drain' = "idle"
    /\ UNCHANGED <<entries, procs, coreEvents, enabled, queue, deleted, erased, todo, waiting, via>>

-----------------------------------------------------------------------------

PluginNext ==
    \/ ActivateAgain \/ Activate \/ DeactivateIdle \/ Deactivate \/ Shutdown \/ HostCrash
    \/ \E e \in Entries : ActivationTimeout(e) \/ KillDone(e) \/ Respawn(e)
    \/ \E k \in Kids :
         \/ KidReports(k, "loaded") \/ KidReports(k, "failed")
         \/ Loaded(k) \/ LoadFailed(k) \/ IgnoreReport(k)
         \/ Exit(k)
         \/ \E n \in 1 .. CrashLimit : Crash(k, n)
         \/ \E u \in Erasers : KidErases(k, u)
    \/ DeliverEvent \/ ExpireEvent
    \/ \E u \in Erasers : EnqueueErasure(u) \/ AskErasure(u)
    \/ SweepErasures
    \/ \E ok \in BOOLEAN : ErasureAnswered(ok)
    \/ InvokeTimeout \/ DrainEnds

(* Armed timers fire, awaits continue, and what is in a channel is read. *)
PluginFairness ==
    /\ \A e \in Entries :
         /\ WF_pluginVars(ActivationTimeout(e))
         /\ WF_pluginVars(Respawn(e))
         /\ WF_pluginVars(KillDone(e))
    /\ \A k \in Kids :
         WF_pluginVars(Loaded(k) \/ LoadFailed(k) \/ IgnoreReport(k))
    /\ WF_pluginVars(InvokeTimeout)
    /\ WF_pluginVars(DrainEnds)
    /\ \A u \in Erasers : WF_pluginVars(AskErasure(u))

PluginSpec == PluginInit /\ [][PluginNext]_pluginVars /\ PluginFairness

-----------------------------------------------------------------------------
(* Properties. *)

(* Type invariant. *)
EntriesType ==
    /\ running \in Entries \cup {Null} /\ made \in 0 .. MaxEntries
    /\ status \in [Entries -> {"none", "starting", "active", "error", "stopped"}]
    /\ child \in [Entries -> Kids \cup {Null}]
    /\ deadline \subseteq Entries /\ respawn \subseteq Entries
    /\ crashes \in [Entries -> 0 .. CrashLimit]
    /\ cron \in [Entries -> Int] /\ tasks \subseteq Entries /\ listens \subseteq Entries
    /\ promise \in [Entries -> {"none", "open", "resolved", "rejected"}]
    /\ killing \in [Entries -> {"none", "dispose", "row"}]
    /\ raced \subseteq Entries

KidsType ==
    /\ forked \in 0 .. MaxKids
    /\ proc \in [Kids -> {"none", "up", "dying", "gone"}]
    /\ owner \in [Kids -> Entries \cup {Null}]
    /\ \A k \in Kids : proc[k] # "none" => owner[k] # Null
    /\ mail \in [Kids -> {"unsent", "loaded", "failed", "read", "late"}]
    /\ asked \in [Kids -> SUBSET Erasers]

EventsType ==
    /\ buffer \in Seq(1 .. MaxEvents) /\ Len(buffer) <= EventMax
    /\ sent \in Seq(1 .. MaxEvents)
    /\ events \in 0 .. MaxEvents

ErasureType ==
    /\ enabled \in {0, 1}
    /\ queue \subseteq Erasers /\ deleted \subseteq Erasers /\ erased \subseteq Erasers
    /\ drain \in {"idle", "busy"} /\ todo \subseteq Erasers
    /\ waiting \in Erasers \cup {Null} /\ via \in Kids \cup {Null}

PluginTypeOK == EntriesType /\ KidsType /\ EventsType /\ ErasureType

(* A process that nobody is stopping is the child of the current entry:     *)
(* whatever timers, late answers, crashes and re-activations do, no ghost   *)
(* child runs beside it and none is left behind a removed entry.            *)
NoGhostChild ==
    \A k \in Kids : proc[k] = "up" =>
        /\ running = owner[k]
        /\ child[running] = k
        /\ status[running] \in {"starting", "active"}

(* A job's cron task lives once, and only for the current, active entry:    *)
(* crash cycles and re-activations never make a tick fire twice.            *)
JobsTickOnce ==
    \A e \in Entries : cron[e] # 0 =>
        cron[e] = 1 /\ running = e /\ status[e] = "active"

(* An active entry has its child, except when a loaded that was read after  *)
(* the child's exit made it active during the backoff.                      *)
ActiveHasChild ==
    IsActive /\ child[running] = Null =>
        \E k \in Kids : owner[k] = running /\ mail[k] = "late"

(* Whoever awaits activate is answered once the start is over; only a       *)
(* deactivate during the start leaves the promise open.                     *)
PromiseSettled ==
    \A e \in Entries : promise[e] = "open" =>
        status[e] = "stopped" \/ Starting(e)

(* A starting entry is current and has a timer that ends its start. *)
StartGuarded ==
    \A e \in Entries : status[e] = "starting" =>
        running = e /\ (e \in deadline \/ e \in respawn)

(* No event reaches the plugin twice or out of order: the replay after a    *)
(* restart comes before later events, and what it sent is not kept.         *)
Increasing(q) == \A i, j \in 1 .. Len(q) : i < j => q[i] < q[j]

EventsInOrder ==
    /\ Increasing(sent) /\ Increasing(buffer)
    /\ \A i \in 1 .. Len(sent), j \in 1 .. Len(buffer) : sent[i] < buffer[j]

(* The erasure of a deleted user is in the queue until the plugin has done  *)
(* it, across timeouts, crashes of the child and of the host.               *)
ErasureKept == deleted \subseteq queue \cup erased

(* While the plugin is current its row says enabled, except when it was     *)
(* activated while an earlier deactivate still awaited its kill.            *)
RowFollowsPlugin ==
    running # Null /\ enabled = 0 => running \in raced

(* What makes the above inductive: which entries and children exist, which   *)
(* child an entry holds, which timers run in which status, and who holds    *)
(* cron tasks.                                                              *)
EntriesInv ==
    /\ respawn # {} => forked < MaxKids
    /\ running # Null => running <= made /\ status[running] \in {"starting", "active", "error"}
    /\ \A e \in Entries :
         /\ e > made => /\ status[e] = "none" /\ child[e] = Null
                        /\ promise[e] = "none" /\ killing[e] = "none"
         /\ status[e] \in {"starting", "active"} => running = e
         /\ e \in deadline \cup respawn => status[e] = "starting"
         /\ e \in respawn => child[e] = Null /\ e \notin deadline
         /\ cron[e] = (IF e \in tasks THEN 1 ELSE 0)
         /\ e \in tasks => status[e] = "active"
         /\ killing[e] = "row" /\ running # Null => running \in raced

KidsInv ==
    /\ \A e \in Entries : child[e] # Null =>
         /\ proc[child[e]] = "up" /\ owner[child[e]] = e
         /\ status[e] \in {"starting", "active"}
    /\ \A k \in Kids :
         /\ k > forked => proc[k] = "none" /\ owner[k] = Null
         /\ owner[k] # Null => owner[k] <= made
         /\ proc[k] = "none" => mail[k] = "unsent"
         /\ proc[k] = "up" => child[owner[k]] = k
         /\ proc[k] = "dying" => status[owner[k]] \in {"stopped", "error"}
    /\ waiting # Null => via \in Kids

(* What makes EventsInOrder inductive. *)
EventsInv ==
    /\ EventsInOrder
    /\ \A i \in 1 .. Len(sent) : sent[i] <= events
    /\ \A j \in 1 .. Len(buffer) : buffer[j] <= events
    /\ IsActive => buffer = << >>

PluginInv == PluginTypeOK /\ EntriesInv /\ KidsInv

(* A start ends: by loaded, a failure, the deadline, a stop or a crash that *)
(* is one too many.                                                         *)
StartEnds ==
    \A e \in Entries : status[e] = "starting" ~> status[e] # "starting"

(* A drain pass ends, so that the next sweep can start one: an invoke that  *)
(* the child never answers does not hold the lock for good.                 *)
DrainTerminates == drain = "busy" ~> drain = "idle"

=============================================================================
