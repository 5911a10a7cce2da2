# A TLA+ model of TREK

TREK is a collaborative trip planner: a React PWA (`client/`), a NestJS server
on SQLite (`server/`), a shared types package, and a plugin host. This
directory holds TLA+ specifications of the parts of it in which the order of
events matters, TLC configurations that check them on small instances, and
proofs that the TLA+ proof system checks for all instances.

## Inventory

| Component | State | Operations | What makes it hard | What makes it correct |
|---|---|---|---|---|
| Mutation queue (`client/src/sync/mutationQueue.ts`) | Dexie table of mutations (pending, syncing, failed, conflict); per page `_flushing`, and per flush `idMap`, `tokenMap`, `needsRetry` | `enqueue`, `flush`, `resolveKeepMine`, `resolveKeepServer` | an await after every step; the table is shared by tabs, the flush loop is not; retries, timeouts, reloads | no edit is lost, none is executed twice, order is kept, conflicts are surfaced |
| Repos (`client/src/repo/packingRepo.ts`, `placeRepo.ts`) | the Dexie tables of rows | `list`, `create`, `update`, `delete`, `deleteMany`, `updateMany`, each with an online and an offline path | optimistic row and queued mutation are two transactions | the cache shows what the server has or will have |
| Server rows (`server/src/services/packingService.ts`, `placeService.ts` and their controllers) | SQLite rows with `updated_at` | create, update with a compare of `X-Base-Updated-At`, delete | tokens of one-second resolution; requests served after the client gave up | no silent overwrite |
| Idempotency keys (`server/src/nest/common/idempotency.interceptor.ts`, `scheduler.ts`) | table `idempotency_keys` | look up, store a 2xx, nightly purge | commit and key insert are two statements; keys expire | one key, one execution |
| Offline cache (`client/src/db/offlineDb.ts`) | one database per user, blobs with a budget | upserts, `clearTripData`, `clearAll`, the swap at login and logout | the swap happens under running loops | data never crosses users; unsynced edits survive an eviction |
| Trip sync (`client/src/sync/tripSyncManager.ts`) | `_syncing` | `syncAll`, `prepareForOffline` | a fetched bundle is written after later local edits | the cache never goes backwards |
| Auth gate, session, triggers (`authGate.ts`, `authStore.ts`, `syncTriggers.ts`, `networkMode.ts`) | `_authed`, `authSequence`, `_registered`, the current database | login, logout, loadUser, register and unregister | each is a chain of awaits that races the others and the flush | after a logout nothing touches the user's data; a session that is back online syncs |
| Realtime (`client/src/api/websocket.ts`, `server/src/websocket.ts`) | the page's socket, its flags and timer, the trips it shows; sockets and rooms of the server | connect, disconnect, join, leave, reconnect | a token is awaited, a socket closes slowly, the server drops it silently | one socket, never stranded, in the room of the trip it shows |
| Day assignments and live events (`client/src/store/slices/assignmentsSlice.ts`, `remoteEventHandler.ts`, `server/src/services/assignmentService.ts`) | the list on the page and in Dexie, optimistic rows, requests in flight; the rows of the server | assign, remove, reorder, events, refetch, rollback | answer, echo, refetch and rollback of one edit come in any order | no row twice; a page at rest shows the server's rows |
| Plugin supervisor (`server/src/nest/plugins/supervisor/plugin-supervisor.ts`, `plugin-runtime.service.ts`) | entry per plugin, child process, timers, job tasks, event buffer, the erasure queue | activate, deactivate, deliver, invoke, drain, crash, shut down | late answers of a child that was replaced, awaits of a kill | one live child per plugin, jobs tick once, erasures are never lost |
| Vacation plans (`server/src/services/vacayService.ts`) | plans, memberships, entries | invite, accept, decline, cancel, dissolve, toggle | long sequences of calls of several users; several statements without a transaction | a user's days are where the user looks |
| Trip days (`server/src/services/tripService.ts`, `dayService.ts`, `reservationService.ts`) | rows of days with number and date; stays, bookings | create and update the trip, reorder, insert, create, delete | positions and dates move under rows that others refer to | dates match the trip; stays keep their order, bookings their day |
| Budget settlement (`server/src/services/budgetService.ts`) | bills, transfers | enter, calculate, settle | odd cents, a threshold on floats | the flows square everyone up |
| Other services (to-do, collab, journey, auth, OAuth, backups, external APIs) | SQLite tables | one synchronous handler per request | little: no interleaving inside a handler | local to the handler |

The components of the first half interact through three kinds of shared state:
the Dexie tables (repos, queue, sync, all tabs), the HTTP exchanges (queue and
repos with the server), and the flags of the page (gate, network mode,
triggers). Day assignments depend on the socket: whether the page gets an event
is whether its current socket is in the room. Plugins, vacation plans, trip days
and settlement share no state with the rest nor with one another.

## Modules

- **Tables** - functions as tables: `put`, `bulkPut`, `update`, `delete`.
- **TripServer** - the server's half of a replay. `rows`, `nextId` and `clock`
  are the SQLite table, its AUTOINCREMENT and `CURRENT_TIMESTAMP`; `keys` is
  `idempotency_keys`; `wire`, `open` and `reply` are the HTTP exchanges.
  `Serve` is one request through the interceptor and the handler, with its
  outcomes: the stored answer is replayed (`Replay`), the write is executed and
  stored (`ExecuteAndStore`), refused with 404 or 409 (`Refuse`), denied with
  another 4xx (`Deny`), or executed by a process that dies before the key is
  stored (`ExecuteAndCrash`). better-sqlite3 is synchronous and these handlers
  await nothing, so a request is served in one step. `GiveUp` is the 8 s
  timeout or a broken connection: the request stays on the wire.
- **OfflineSync** - the device's half. `cache` and `queue` are Dexie tables,
  shared by all tabs; `flush[t]` is the local state of tab t's running
  `flush()`: where it is, what is left of its snapshot, `idMap`, `tokenMap`
  (`tokens`) and `needsRetry` (`retry`). The actions are what the code does
  between two awaits at which another actor can matter:
  `CreateOffline`, `UpdateOffline`, `DeleteOffline` write the optimistic row,
  `Enqueue` the mutation; `StartFlush` takes the snapshot; `Replays` marks and
  sends; `FailUnresolved` gives up on a `{id}` placeholder; `Remap`,
  `StoreEntity`, `Undisplay`, `Dequeue` apply a 2xx; `ConflictTheirs`,
  `ConflictMine`, `ConflictAsk` a 409; `Reject` any other terminal 4xx;
  `Abort` a missing or transient answer; `EndFlush` ends the loop or starts the
  extra pass of "mine". `Reload` kills the page at any await, `Evict` is
  `clearTripData`, `ShowTrip` loads a trip page.
- **EditLedger** - the abstract specification: the fate of each edit, and the
  promise that it ends once and stays ended. `OfflineSync!Ledger` instantiates
  it with the fate read off queue, draft and server; `KeepsLedger` is the
  refinement.
- **AuthSession** - one page of a device that several users share. `authed` is
  the gate, `seq` is `authSequence`, `user` and `signedIn` are the persisted
  store, `db` is the database behind the proxy, `registered` the triggers,
  `public` whether the page shown is /login or its like. `login`, `logout`, `me`
  are the three calls at their awaits, `sync`, `flush` the two loops, `read` a
  request of the pages. No login asks the gate: `SubmitLogin` needs a form only,
  and the gate behind it may be open (/register loads the user; a signed-in user
  may walk to /login, `Navigate`). `SubmitLogin`, `LoginSucceeds`, `LoginFails`,
  `LoginEnters` are login cut at its awaits; `Logout`, `LogoutAnswered`,
  `LogoutDone` likewise; `LoadUser`, `MeConfirms`, `MeUnanswered`, `MeDenied`
  are loadUser and its outcomes; `Denied` is the 401 interceptor; `StartSync` to
  `FlushEnds` are syncAll and flush with one gate check each; `Browse`,
  `ReadArrives` the repos' reads and online writes, which do not ask the gate;
  `Reload` a page start, `Expire` a session the server ends. `mixed`, `astray`,
  `spilled` and the last field of `sent` are history, which no guard reads:
  `astray` is the calls under which the database or the cookie was changed to
  another user's, or which began in a mixed session; `mixed` a session that came
  of a login overlapping a logout, a loadUser or a page load; `spilled` the
  databases an astray call has written to since they were deleted.
- **Realtime** - the WebSocket manager of a page and the server's room for a
  trip. `should`, `fetching`, `timer`, `socket` are `shouldReconnect`,
  `connecting`, `reconnectTimer`, `socket` of websocket.ts; `state` is each
  socket's readyState, `muted` the ones whose onclose is null. `Connect` and
  `TimerFires` run `connectInternal` up to its await; `TokenArrives`,
  `TokenFails`, `TokenRefused` are what follows it; `Opens`, `Closes` the
  callbacks; `ServerReads`, `ServerCloses` the server's half.
- **TripReplica** - extends Realtime with the list of one day. `shown` is the
  store's list, `cached` the Dexie row, `live` the server's rows. A request is
  `kind`, `phase`, `target`: `Assign`, `RemoveAssignment`, `Reorder` are the
  slices' actions up to their await, `CreateAnswered`, `Answered`, `Fails`,
  `GiveUp` what follows; `ServerDoes` is the write with its broadcast;
  `ReadEvent` is `remoteEventHandler`; `Refetch` to `FetchFails` is
  `hydrateActiveTrip` after a reconnect. `doubt`, `spoiled`, `overlapped` and
  `swallowed` are history: they remember the races for which the code makes no
  promise, so that the properties can name exactly these.
- **PluginSupervisor** - one plugin. Entry n is the n-th `Supervised` object,
  child n the n-th process. `Activate`, `ActivationTimeout`, `Loaded`,
  `LoadFailed`, `Exit`, `Crash`, `Respawn`, `Deactivate`, `KillDone`,
  `Shutdown` are the supervisor's methods and handlers cut at their awaits,
  `KidReports` a message in the child's channel, which may be read after its
  exit (`IgnoreReport`, `Loaded`). `DeliverEvent`, `ExpireEvent` are the event
  buffer; `EnqueueErasure` to `DrainEnds` the queue of user erasures and its
  drain. `HostCrash` may come at any time and keeps the database only.
- **VacayFusion** - plans, memberships and entries of vacayService.ts, one
  action per call, with the statement that may fail half way. `tangled`
  remembers the users of whom the code loses track.
- **TripDays** - the day rows of a trip with one stay and one booking.
  `Undated` and `Dated` are the two halves of `generateDays`, `Restamped`,
  `Reanchored`, `ResyncedStay` what moves bookings and stays after it. A stay is
  put on any two days, a booking on any day beside any date; `DaysFor` is the day
  that the code finds for a date alone, clamped to the nearest.
- **Settlement** - bills, their shares, and `calculateSettlement` one matched
  pair at a time.
- **MCOfflineSync**, **MCAuthSession**, **MCSideBySide** - the small instances.
- **OfflineSyncProofs**, **OfflineTokenProofs**, **OfflineOrderProofs** (each
  extends the one before), **AuthSessionProofs**, **PluginSupervisorProofs**,
  **TripReplicaProofs** (with the proofs of Realtime), **VacayProofs**,
  **TripDaysProofs** - proofs, see below.

Definitions named as mutants (for example `TargetOfSnapshot`) are plausible
mistakes; each is the measure of one property and no specification uses them.

### What is abstracted

- One trip and one resource stand for packing items and places, whose offline
  paths have the same shape. A bulk operation is its sequence of single edits.
- A row's content is its author: the key of an edit, 0, or a collaborator.
  The key of an edit is a number that is at once its `createdAt` order and its
  idempotency key; the temp id of a create with key k is -k.
- The clock moves only when a row is stamped, by one or not at all: the two
  cases, same second or later, are all that a comparison of tokens sees.
- `NoToken` and `Forced` are both the absent header. The code does not tell
  them apart either; the properties do.
- Between the two writes of an offline edit, other local steps and a reload
  fit in, a network exchange does not (the gap is one IndexedDB transaction).
- Merged steps: marking as 'syncing' and sending; marking and failing an
  unresolved mutation; storing a row and advancing its token; a reload
  between the merged parts is not considered. An online edit is one step.
- `online` of a tab means: not forced offline, on the network, and with a
  session confirmed since the page was started. The gate itself is in
  AuthSession, where a row or an edit is only the user it belongs to.
- AuthSession has one page and one request of each kind at a time. A cookie is
  the user whose session it is; a request carries the cookie of the moment it
  is sent. `completeMfaLogin` and `register` have the shape of `login`. There is
  one login at a time. The passkey and OIDC logins are not modelled: they set the
  cookie without a step of `authSequence` and then call loadUser
  (useLogin.ts:107-112), so that the answer to an earlier loadUser still counts.
  What syncAll asks for beside its trips and awaits nowhere (tags, categories)
  counts as one of the loop's own requests.
- A timer of Realtime or PluginSupervisor is armed or not; it may fire whenever
  it is armed. Backoff, deadline and time to live are such timers.
- Realtime has one trip and one page; the server's nextSocketId never starts
  again. A page that has left the trip is not in TripReplica. `ServerReads` leaves
  out that a join may be denied (websocket.ts:153-156) or a message dropped by
  the limit on messages per socket (126-138): `RoomFollowsPage` says nothing of
  such a page.
- The list of TripReplica is a bag: how often each row is shown, not where.
  Offline edits of assignments do not exist in the code (the slices call the
  API at once).
- Vacation plans: years, colours and statistics hang on a plan and are left
  out; company holidays are the removal of entries they cause (`ClearDates`).
- TripDays: a date is a number, hours are left out. Stay and booking are one
  each: the code treats every row of these tables alike, and apart. A booking
  is not a hotel's (those follow their stay), and its day is one of the trip. A
  change of a booking is any booking in its place, whichever fields the call gives.
- Settlement counts in cents where the code has floats. What is exactly one
  cent may compare either way with 0.01; equal amounts may be sorted in any
  order. One currency.
- "lost" stands for every answer after which the code retries: none, a
  timeout, a 5xx, a retryable 4xx. A denial lasts.

## Runs

The runs of MCOfflineSync have one row at first. The first table gives the
number of edits the user makes and the faults that may happen (each once).

| Run | Edits | Faults | Checks |
|---|---|---|---|
| `offline_trip` | 3 offline | outside edit, broken exchange, denial | `TypeOK`, `NoEditLost`, `TokenInv`, `NoPhantomRow`, `CacheConverges`, `NoSilentOverwrite`, `NoSelfConflict`, `LaterEditStays`, `UnresolvedOnlyWithoutCreate`, `UnresolvedMeansCreateGone` |
| `faults` | 2, offline or online | reload, lost key, broken exchange, denial, eviction | `IndInv` (which implies `AtMostOnce`), `KeepsLedger` |
| `two_tabs` | 2 offline, from either of two tabs | broken exchange | `NoEditLost`, `AtMostOnce` |
| `drain` | 2 offline | outside edit, broken exchange, denial, network lost again | `QueueDrains` |

Bounds. Three edits are what the hazards need: a create, an edit of it and a
second edit, or two edits of a row and one of another. Two edits and two tabs
suffice for every pair of replays. One row at first allows both an edit of an
existing row and, with creates, several rows. Each fault once puts it at every
point of the protocol. `Tabs` are interchangeable, hence the symmetry in
`two_tabs`, which has no liveness property. Deadlock is checked in every run: a
tab can always load its trip.

`sessions` checks AuthSession with two users, two logins, an offline edit, and two
of the acts that break in on the rest: a logout, a page load, an outage, a revoked
session (`SharedDevice`; 3,161,227 distinct states). Two logins are what a mix-up
of users needs, and with two acts any pair of them meets it, at any await.
`DataStaysApart`, `EditsSentAsAuthor`, `GateMatchesSession` (and `SessionInv`, see
Proofs) hold, because of `authSequence` and the synchronous swap. Deadlock is not
checked there: a signed-out page whose user does nothing more stops.

`side_by_side` checks the components that share nothing with the offline core, in
one instance that chooses a part and leaves the others at rest (461,694 distinct
states). A component too large for one set of bounds has several parts.

| Part | Bounds | Checks |
|---|---|---|
| `starts` | two activations, three forks, two crashes to the limit, host crashes; no core events, no deleted accounts | `NoGhostChild`, `JobsTickOnce`, `ActiveHasChild`, `RowFollowsPlugin`, `StartEnds` |
| `events` | two core events, a buffer of one, two forks, a host that stays up | `EventsInOrder`, and the above |
| `erasure` | one deleted account, two forks, host crashes | `ErasureKept`, `DrainTerminates`, and those of `starts` |
| `connection` | two sockets, one message on the wire | `NeverStranded`, `OneSocket`, `QuietAfterDisconnect`, `RoomFollowsPage` |
| `list` | a connection that holds; two requests of any kind, one edit of another member, three rows | `NoDuplicates`, `Converges` |
| `reconnect` | the socket is lost once; one request (no reorder), one edit of another member | `NoDuplicates`, `Converges` |
| `echo` | the socket is lost once; two creates that are answered | `NoDuplicates`, `Converges` |
| `plans` | three users, one date, three invitations | `DaysFollowUser`, `DaysKept` |
| `days` | three day rows, dates 1 to 3, a maximum of two days, three calls; stays and bookings of any day and date | `DatesMatchTrip`, `StaysKeepOrder`, `BookingKeepsItsDay` |
| `costs` | three persons, two bills of 4 or 11 cents, one transfer | `SettlesUp` |

Why these suffice. A child that answers late needs a second one beside it; a
third fork is a restart of the second entry or a second restart of the first. A
buffer of one with two events meets its cap. Two sockets are one reconnect.
Two requests and one foreign edit are every pair that can cross; one reconnect
puts a refetch between them. Three users make a chain (one fused into the plan
of another, who is fused into a third's). Three day rows and a maximum of two
days reach generateDays' cut, its surplus and its gaps; `MaxDayRows = 4`,
`MaxTripDays = 3` and three calls were run separately (48,517 states) and agree.
4 and 11 cents among three leave odd cents for one and for two members. Each
part ends at its bounds: deadlock is not checked there.

What the properties except is part of what they say. `ActiveHasChild` excepts a
plugin made active by a `loaded` that is read after the child's exit: the guard
of onMessage asks for "starting", which a crash sets again
(plugin-supervisor.ts:576, 684). `RowFollowsPlugin` excepts a plugin activated
while an earlier deactivate awaits its kill: its row then says disabled
(plugin-runtime.service.ts:588-592). `OneSocket` excepts a connect while the old
socket is still closing (websocket.ts:95). `QuietAfterDisconnect` excepts the
socket whose token was awaited when disconnect was called (websocket.ts:100).
`NoDuplicates` excepts an event that took the place of another request's
temporary row (remoteEventHandler.ts:220), `Converges` that and the races its
comment lists. `DaysFollowUser` excepts users who accepted two invitations, or
fused a plan others had joined, or were members of a dissolution that stopped
half way (vacayService.ts:386, 447-455). `StaysKeepOrder` excepts a stay that the
call itself puts down, which nothing checks (dayService.ts:504-560), and trips with
a dateless day before a dated one, `BookingKeepsItsDay` a call on the booking
itself, whose day need not fit its date (reservationService.ts:306-317, 443-456), `DatesMatchTrip` a trip since a day was created
with a date of its own, or deleted. `DataStaysApart` and `EditsSentAsAuthor` except the calls
that went astray, `GateMatchesSession` the cookie of a mixed session: when a user
logs in over an open gate (authStore.ts:109-113), the syncAll or flush that runs
there goes on with the other user's cookie, and stores what it gets in the other
user's database (offlineDb.ts:186-199); a logout does the same to it, and a login
during a logout ends with an open gate over the anonymous database
(authStore.ts:207). Without its exception each of these is violated.

Six runs look for a behaviour the documentation or a comment rules out, and
find it:

| Run | Property | What happens |
|---|---|---|
| `reload_strands` | `QueueDrains` | `flush()` stores 'syncing' (mutationQueue.ts:131), and selects 'pending'. A page that dies in between strands the mutation: no flush picks it up, and it counts as pending for ever |
| `edit_after_sync` | `UnresolvedOnlyWithoutCreate` | the page shows a row under its temp id until it loads the trip again. Back offline, an edit of it is queued after the create has synced; the next flush does not know the temp id and fails the edit as "dependent create did not sync" |
| `two_tabs_dependent` | `UnresolvedMeansCreateGone` | tab 2 takes its snapshot while tab 1 is sending a create: the create is 'syncing' and not in it, the edit that depends on it fails |
| `reload_loses_token` | `NoSilentOverwrite` | the rewrite of temp ids is durable before the token is; a reload in between leaves a dependent edit with the final id and no token, and it overwrites a collaborator without a conflict |
| `logout_mid_sync` | `CachedDataNeverCrosses` | syncAll asks the gate once, at its start; the bundle that arrives after logout is written into the anonymous database |
| `cold_start` | `BackOnlineSyncs` | the one `loadUser` of a page gets no answer; the gate stays closed for the life of the page, and the queue is never replayed although network, cookie and reads are fine |

`NoSelfConflict` and `LaterEditStays` are stated for trips no collaborator has
touched. With one, an old edit parked as a conflict may be kept as "mine" after
a newer one was executed, and the advance of tokens (mutationQueue.ts:211-220)
gives a mutation decided as "mine" a token again, so that it can meet a second
conflict.

### Fairness

`FairSpec` asks for weak fairness of `Enqueue` and of each tab's flush steps
(the event loop continues awaits), of `StartFlush` (the 30 s timer of
syncTriggers.ts), and of the server serving a request that is awaited. It asks
nothing of the network, of the user or of late requests: that the device
comes back online for good is the premise of `QueueDrains`, and that transient
failures end is the bound on `giveUp`. A server that answers 5xx for ever does
block the queue.

`AuthSession!FairSpec` asks that awaits end, that the timer starts a flush, that
the network comes back, and (strong fairness) that a request sent again and
again, by flush or by loadUser, is answered in the end. It does not ask that
anybody calls loadUser: in the code no timer does.

`PluginFairness` asks that armed timers fire (the activation deadline, the
backoff, the invoke's timeout), that awaited kills end (their grace timer sends
SIGKILL), that the messages of a child are read, and that a drain pass goes on.
It asks nothing of the child: it may never answer and never exit. `StartEnds` and
`DrainTerminates` hold by the timers alone.

## Proofs

`OfflineSyncProofs` proves, for any set of tabs, any number of edits, rows and
faults:

- `Inductive`: `Spec => []IndInv`
- `TypeCorrect`: `Spec => []TypeOK`
- `ExecutedAtMostOnce`: `Spec => []AtMostOnce`
- `EditsAccountedFor`: `Spec => []NoEditLost`
- `LedgerButForLateCopies`: `Spec => LedgerOrLate`, for one tab (`OneTab`)
- `LedgerKept`: `Spec => KeepsLedger`, for one tab and no exchange that breaks
  (`Limit["giveUp"] = 0`)

The argument. `TypeOK` is not inductive alone: `StoreEntity` puts the row of an
answer into the cache, and must know that a 2xx for a POST or PUT carries one.
That holds because the answer belongs to the head of the tab's snapshot
(`Exchanges`) and because an edit has the same method wherever it is recorded,
in the draft, queue, snapshots, wire and key store (`MethodsAgree`). `NoEditLost`
rests on `OkMeansExecuted`: a tab is told "ok" only of an executed edit, so
`Dequeue` removes nothing that was not executed. `AtMostOnce` rests on
`OncePerKey`: an edit is executed only when its key is not stored, and a key
that is not stored was either never used or lost. `KeysIssued` says that a
fresh key has no trace anywhere. `IndInv` is the conjunction; the run `faults`
checks it. One lemma per action and group of conjuncts, then the temporal step.

The refinement. With one tab, a pass holds only mutations marked 'pending' or
'syncing' (`TodoToSend`), an edit not yet queued has no trace elsewhere
(`Unqueued`), and one not yet made has not ended (`Unmade`). So each step moves
the fate of one edit, from where `EditLedger` has it (`PassForms` for the loop),
or of no edit; an eviction takes all failed ones. The exception is the server: it
executes whatever copy arrives, and a copy sent before its answer was given up
may arrive when the edit has ended - it was repeated and parked or dropped after a
409, or refused with a 4xx. `LedgerOrLate` is the ledger with that one step more
(`LateApply`); the user may then see as dropped an edit that took effect. If no
answer is given up, a copy that may still be executed is the only one, of an edit
marked 'syncing' that the loop waits for (`WireSent`), and `LateApply` cannot
happen. A reload needs no hypothesis here: what it leaves 'syncing' is in no later
pass. The run `faults` checks `KeepsLedger` with one answer given up.

`OfflineTokenProofs` proves, for one tab that is never reloaded (`OneTab`,
`Limit["reload"] = 0`), any number of edits, rows and collaborators' edits, and
any of the other faults:

- `TokensKnown`: `Spec => []TokenInv`
- `NeverOverwritesSilently`: `Spec => NoSilentOverwrite`

The argument. An update without a token is let through by the server, so the
proof has to say when an edit has none. A row once stamped has a token, and the
rows of the cache come from answers and loads, so an edit of such a row carries
one (`TokenInv`). What is left is an edit made under a temporary id. It gets its
token from the answer of its create, in the step after the one that gives it its
id; until then it waits behind that create in the loop's hands. And if the row
the edit was made on has left the cache, it was deleted; an id is never used twice,
so what is gone stays gone, and the server answers 404. Both hypotheses are
needed: the run `reload_loses_token` shows what a reload does between the two
steps, and a second tab can lose the token by evicting the trip there.

`OfflineOrderProofs` proves, for one tab that is never reloaded:

- `OrderKept`: `Spec => []OrderInv`
- `UnresolvedFollowsCreate`: `Spec => UnresolvedMeansCreateGone`
- `PhantomsRolledBack`: `Spec => []NoPhantomRow`, if edits are made only before
  the device goes online (`Limit["offline"] = 0`)
- `UnresolvedWithoutCreate`: `Spec => UnresolvedOnlyWithoutCreate`, if also the
  server loses no key (`Limit["keyLoss"] = 0`)

The argument. Every step has one of a few forms: the loop sends, begins, works
on or ends the mutation in its hands, or something happens outside it
(`StepForms`). In each form what is in hand is what is marked 'syncing'
(`InFlight`), every temporary id is that of an issued create with a smaller key
than its edits (`TempRows`, `Targets`), a create is never a conflict
(`Refusals`), and an earlier create the pass does not hold any more has failed
(`Fifo`). An edit fails as unresolved at the head of a pass, so its create, which
has a smaller key, is not in the pass any more. For phantoms, the cache is in
step with the queue until the first pass (`Unsynced`), and the loop puts the real
row in the place of the temporary one before it removes the create
(`Confirmed`). For the last theorem: what was executed has its key stored, so it
cannot be denied later (`AppliedStored`, `DeniedOf`), a copy on the wire that may
still be executed is of a create still queued (`WireAlive`), and a create that was
executed stays queued until its edits have the real id (`DependentsWait`). The
hypotheses are needed: the runs `two_tabs_dependent` and `edit_after_sync` show
what a second tab and a second time offline do; a reload between the cache write
and the enqueue leaves a row without a create; and a create executed by a server
that crashes before it stores the key may be denied when it is retried.

For one such tab that makes no edits around the queue either, of a server that
loses no key (`OneSession`), with any rows, edits, broken exchanges and denials:

- `InStep`: `Spec => [](ReplayInv /\ SyncInv)`
- `NeverInConflictWithItself`: `Spec => NoSelfConflict`
- `LaterEditsStay`: `Spec => LaterEditStays`
- `CacheIsServers`: `Spec => []CacheConverges`, if the cache is not cleared
  (`Limit["evict"] = 0`)

The argument. All four are about a trip no collaborator has touched, so `SyncInv`
says what the device knows of the server then. Everything executed is older than
everything still to be sent (`InOrder`), and a copy on the wire that could still
be executed is of the earliest edit to be sent (`WireForemost`, which needs that
a pass has all that is to be sent, `WholePass`): an execution is always of the
youngest edit so far, which is `LaterEditStays`. A conflict needs a token that is
not that of its row. Offline, tokens are read from rows the server still has
(`LocalDue`). Later only an execution changes a row, and what stands behind it in
the queue and in the pass then has the old token; but the answer that carries the
new one is stored under the key and its edit is still queued, so it reaches the
loop, at once or when the edit is repeated after a broken exchange, before any of
the others is sent (`TokenDue`, `Ahead`). `KnownIds` and `StoredRows` see to it
that the row named in the answer is the row as it is. `CacheInv` adds that a
cached row that differs from the server's belongs to an edit that is drafted or
queued, and that the loop takes an edit off the queue only when all it has
changed is equal on both sides (`Confirms`).

The hypotheses are needed. Edits around the queue get later keys than those still
queued; a create or update whose key was lost is executed again when it is
repeated, and an update is then in conflict with itself; a reload strands an edit
that is marked 'syncing' but was executed, so that its cached row stays as it was
drafted; an edit drafted after the device has gone offline in the middle of a pass
takes the token of a row that the pass is about to change; and clearing the cache
leaves it empty. `CacheInv` promises nothing once an edit has failed, but then the
queue is not empty: only an eviction removes failed edits.

`AuthSessionProofs` proves, for any set of users and any budget:

- `SessionInductive`: `Spec => []SessionInv`
- `DataNeverCrossesUsers`: `Spec => []DataStaysApart`
- `EditsNeverCrossUsers`: `Spec => []EditsSentAsAuthor`
- `OpenGateIsOneUser`: `Spec => []GateMatchesSession`
- `SessionTypeCorrect`: `Spec => []TypeOK`

The argument. A persisted session names one user for the store and the database,
and for the cookie unless it is mixed (`SessionAgrees`). A call that is not astray
began in such a session and no change of user has overtaken it, so it carries that
user's cookie and writes to that user's database (`InFlightIsUsers`): what it stores
and what it replays is where it belongs. The user changes with a login, a logout,
an answer of loadUser and a page load, and each of them marks what is in flight. An
answer of loadUser counts only while no login has begun since it was asked, and then
its user is still the cookie's, unless a login was under way when it was asked
(`FreshAnswers`); this is where `authSequence` is needed. `SessionInv`
is the conjunction with the types and the two properties of data and edits, and the
run `sessions` checks it. One lemma per action.

`PluginSupervisorProofs` proves, for any numbers of entries, children and
events, any crash limit, buffer cap and set of users:

- `PluginInvariant`: `PluginSpec => []PluginInv`
- `PluginNoGhostChild`, `PluginJobsTickOnce`, `PluginActiveHasChild`,
  `PluginStartGuarded`, `PluginPromiseSettled`, `PluginRowFollows`,
  `PluginErasureKept`, `PluginEventsInOrder`: the property of that name, always.

The argument. `EntriesInv` and `KidsInv` say that a child that runs and the
entry that holds it name each other, that only the current entry is starting or
active, which timers run in which status, and that an entry's tasks are what it
can stop. No ghost follows: a child that is up is its owner's child, its owner
is starting or active, hence current. The tasks are counted by `tasks`, because
every exit and every kill stops them before the entry can become active again.
`PromiseSettled`, `ActiveHasChild` and `RowFollowsPlugin` are inductive on top of
`PluginInv`. `EventsInOrder` needs that buffered events are younger than the sent
ones and that an active plugin has none (`EventsInv`): then what is delivered at
once comes after all that was sent.

`TripReplicaProofs` proves first, of the connection, for any number of sockets
and messages:

- `RealtimeInvariant`: `RealtimeSpec => []RealtimeInv`
- `RealtimeNeverStranded`, `RealtimeOneSocket`, `RealtimeQuiet`,
  `RealtimeRoomFollows`.

The argument. As long as no socket was made while another was closing, the
socket the page knows is the only one whose onclose will run (`CurrentInv`), so
a page that wants the connection loses its last hope only in an onclose or a
failed token, and both arm the timer. The room follows the page because the last
message under way says what the page shows (`TracksInv`), and a socket starts
with nothing under way and outside the room (`LifeInv`).

and then, of the list, for any numbers of sockets, requests, rows and edits of
others:

- `ReplicaInvariant`: `ReplicaSpec => []ReplicaInv`
- `ReplicaNoDuplicates`: `ReplicaSpec => []NoDuplicates`
- `ReplicaInStep`: `ReplicaSpec => []ConvergeInv`
- `ReplicaConverges`: `ReplicaSpec => []Converges`

The argument. `NoDuplicates` speaks of the list shown, but a rollback puts back
`before` and a failed refetch `cached`, so each of them must be good too
(`GoodList`): only inserted rows, none twice, and not both a temporary row and
the row its request has made. The last part is what lets an answer put its row
in the temporary row's place. A row that is just being inserted is in no list,
because lists have rows up to `born` only; and an event that finds a temporary
row of its place either takes its own away, since no two requests make one row
(`RowsInv`), or has swallowed another's, which the property excepts.

`Converges` speaks of a page at rest only; its invariant, `ConvergeInv`, says what
the list is while things are under way, without computing what they will make of
it. A list L is in step (`InStep`) if it has a temporary row for every create
whose row it does not have yet, and none other (`HoldsTemps`); each of the server's
rows, unless an unread event or an answer will bring it or the page is removing it
(`HoldsLive`); and a row that is gone only while its deletion is unread
(`DropsGone`). Deletions come after creations in the channel (`DeletionsFollow`), so
a row that an old event brings back does not stay. At rest nothing is unread or
under way, and what is left of `InStep` is equality with `live` (`AtRestShows`).
The list shown is in step while `doubt` is "no". So is the response of every
refetch that is not `spoiled` (`AnswersInv`), which is why a clean refetch may take
back a doubt; what a rollback puts back differs from the list shown by the removed
row at most, unless the list has changed in between (`RollbackInv`); and no two
requests remove one row (`RemovalsInv`). Of the connection it needs that there is
one attempt at a time and that nothing is sent to a socket outside the room
(`LineInv`). One lemma per action.

The invariant, checked with TLC first, showed that the history which `Converges`
uses was incomplete. A refetch may be answered while the page has still to read
events of a socket which the server has already dropped: the page then misses a
deletion, and applies a creation that is older than the response. Such a response is
not a clean one (`Overtakes` in `TripReplica`); the bounds of `side_by_side` were
too small to meet the case.

`VacayProofs` proves, for any users, dates and invitations:

- `VacayInvariant`: `VacaySpec => []VacayInv`
- `VacayDaysFollowUser`: `VacaySpec => []DaysFollowUser`
- `VacayDaysKept`: `VacaySpec => DaysKept`, for finite sets of users and dates

The argument. A user of whom the code has not lost track has accepted at most
one plan and hosts nobody while being a guest (`OnePlan`), so accepting moves all
its days, and none collides: the days were where it looked, that is, not in the
new plan. Leaving and dissolving move them back. `DaysKept` counts: a move is a
bijection between a user's entries before and after it, since a move that would
make two of them one fails and rolls back (`Collides`).

`TripDaysProofs` proves, for any number of rows, dates and calls:

- `TripDaysInvariant`: `TripDaysSpec => []TripDaysInv`
- `DaysMatchTrip`: `TripDaysSpec => []DatesMatchTrip`
- `StayNotInverted`: `TripDaysSpec => StaysKeepOrder`
- `BookingFollowsDay`: `TripDaysSpec => BookingKeepsItsDay`

The argument. Every list in that code is a sort by a column, so the proof first
shows what `ByNumber` returns: the rank of a row (how many rows come before it) is
a bijection onto 1 to n, therefore the list enumerates the rows once each and in
order (`Lists`, `Ascending`). The two halves of `generateDays` then give
back a list of rows without repetition, whose k-th row gets the k-th date. The
invariant adds `RowsSound` to the property: no two rows in one slot, no date, stay
or booking on a row that does not exist, and no gap in the numbers while no day was
deleted; the last is why a new row's number is free and why `Undated` does not fail.
Stay and booking are proved step by step from the invariant: a call that moves
days can move both only to the row that has the former date, and the dates ascend
with the slots (`StepGood`). One lemma per call.

Assumptions used: `MaxEdits` and `FirstRows` are natural numbers, `Limit` bounds
each fault by a natural number, `None` is none of the other values
(`NoneAssumption`, `DraftAssumption`); `Nobody` is no user and `Budget` gives
each act a natural number; `PluginAssumption`, `RealtimeAssumption`,
`ReplicaAssumption` and `VacayAssumption` ask for bounds that are (positive) numbers and for a null that
is no number; `TripDaysAssumption` for bounds that are numbers. `VacayDaysKept`
counts, and takes `Users` and `Dates` to be finite. The theorems of
`OfflineTokenProofs` and `OfflineOrderProofs` have `OneTab` and the absence of the
faults named there as hypotheses; the runs `offline_trip` and `drain` have such
constants. The first section of `OfflineSyncProofs` has the facts about tables.

Only model-checked:

- `KeepsLedger` where answers are given up: the theorem there is the weaker
  `LedgerOrLate`; and with two tabs, where a pass may hold what the other tab ended;
- `SettlesUp`, about sums over pairs of any number of persons: a fold, that is,
  induction over data;
- `QueueDrains`, `StartEnds`, `DrainTerminates` and `BackOnlineSyncs`, whose
  fairness is out of the prover's reach.

## Plan

1. OfflineSync with TripServer and EditLedger: done.
2. AuthSession: done for one page. Left: several tabs with one cookie, a bundle
   fetched before and written after a local edit.
3. Realtime and TripReplica: done for one trip and one day. Left: the order in
   the list and moves between days, the restart of the server's socket numbers.
4. PluginSupervisor: done for one plugin. Left: the calls of a plugin to the
   host with their grants, install and update.
5. VacayFusion, TripDays, Settlement: done. Left: the years of a vacation plan
   with their carry-over, hotel bookings linked to stays, several currencies,
   the blob budget (`enforceBlobBudget`).
6. Proofs left: `SettlesUp` if the prover learns induction over data; the
   theorems on a trip without collaborators for a device that goes offline again
   only when no pass is under way.

## Not modelled, and why

The other synchronous single-request services (to-do, collab, journeys, atlas:
nothing interleaves inside them), external APIs and file downloads (I/O),
rendering and layout, which are the larger part of the client, accounts and
tokens (OAuth, OIDC, passkeys: token life cycles outside this project's scope),
backups (one archive swap), the migrations (a list of SQL statements), the UI
counters of the queue (they read only), private packing items, bags and templates
(further columns and tables behind the same handlers), and imports.
