---------------------------- MODULE AuthSession -----------------------------
(***************************************************************************)
(* One browser page of a shared device: who is signed in, the gate that    *)
(* lets background work touch the offline database, the swap of the        *)
(* per-user database, and the loops (flush, syncAll) and calls (login,     *)
(* logout, loadUser) that are chains of awaits over these.                 *)
(*                                                                         *)
(* offlineDb is a proxy: a loop that started under one database writes     *)
(* into whichever is current when its answer arrives.  A row or a queued   *)
(* edit is abstracted to the user it belongs to.  The session cookie lives *)
(* in the browser: a request carries the cookie of the moment it is sent,  *)
(* and login and logout change it when their answers arrive.               *)
(***************************************************************************)
EXTENDS Integers, FiniteSets

CONSTANTS
    Users,    \* the accounts used on the device
    Nobody,   \* no user; also the name of the anonymous database
    Budget    \* how often users log in and edit, and how often a logout, a
              \* page load, an outage or a revoked cookie breaks in (bound)

Acts == {"login", "edit", "break"}
Databases == Users \cup {Nobody}

ASSUME NobodyAssumption == Nobody \notin Users
ASSUME BudgetAssumption == Budget \in [Acts -> Nat]

VARIABLES
    public,      \* the page shown is /login, /register, ...
    authed,      \* the gate of authGate.ts
    seq,         \* authSequence
    user,        \* the auth store's user, persisted in localStorage
    signedIn,    \* isAuthenticated, persisted too
    registered,  \* the sync triggers are registered
    db,          \* the database behind the proxy
    cookie,      \* whose session cookie the browser holds
    online,
    held,        \* per database: the users whose rows it holds
    queued,      \* per database: the users whose unsent edits it holds
    login,       \* the login call: for whom, and the await it is at
    logout,      \* the logout call, and the database it is deleting
    me,          \* loadUser's request: sequence number and cookie
    sync,        \* syncAll's request: its cookie
    read,        \* a request of the open page: its cookie
    flush,       \* flush: authors left to replay, and the request in flight
    mixed,       \* history: what is signed in came of calls that overlapped
    astray,      \* history: the calls in flight the session left behind
    spilled,     \* history: the databases an astray call wrote to
    sent,        \* history: each replayed edit: author, cookie, flush astray?
    left         \* what is left of the budget

page == <<public, authed, seq, user, signedIn, registered, db>>
calls == <<login, logout, me, sync, read, flush>>
store == <<held, queued>>
marks == <<mixed, astray, spilled>>
vars == <<page, calls, store, marks, cookie, online, sent, left>>

NoLogin == [for |-> Nobody, step |-> "idle"]
NoLogout == [step |-> "idle", target |-> Nobody]
NoRequest == [busy |-> FALSE, seq |-> 0, as |-> Nobody]
NoFlush == [busy |-> FALSE, todo |-> {}, author |-> Nobody, as |-> Nobody]

(* Mutant: loadUser counts its own request. *)
AskCounting(n) == [busy |-> TRUE, seq |-> n + 1, as |-> cookie]

(* A request carries the cookie of the moment it is sent. *)
Ask(n) == [busy |-> TRUE, seq |-> n, as |-> cookie]

Spend(act) == left[act] > 0 /\ left' = [left EXCEPT ![act] = @ - 1]

(* Mutant: the database is swapped by a later step. *)
AdmitWithoutSwap(u) ==
    /\ user' = u /\ signedIn' = TRUE /\ authed' = TRUE /\ db' = db

(* onAuthSuccess: the gate opens and the proxy swaps in one synchronous    *)
(* run, together with the store's update before it.                        *)
Admit(u) ==
    /\ user' = u /\ signedIn' = TRUE /\ authed' = TRUE /\ db' = u

-----------------------------------------------------------------------------
(* What the history variables record.  A call goes astray when the         *)
(* database or the cookie is changed to another user's under it, and when  *)
(* it starts in a mixed session: one whose gate a login opened during a    *)
(* logout, whose user was named by a loadUser a login overtook, or         *)
(* whose cookie a login or logout changed across a page load.  No guard    *)
(* reads them.                                                             *)

InFlight == {c \in {"sync", "read", "flush"} :
               \/ c = "sync" /\ sync.busy
               \/ c = "read" /\ read.busy
               \/ c = "flush" /\ flush.busy}

Overtaken == IF db' = db /\ cookie' = cookie THEN astray ELSE astray \cup InFlight
Begun(call) == IF mixed THEN astray \cup {call} ELSE astray
Ended(call) == astray \ {call}

-----------------------------------------------------------------------------
(* login (and completeMfaLogin, register, demoLogin): a form of a public   *)
(* page.  The gate may be open and loops may run: /register loads the      *)
(* user, and a signed-in user may walk to /login.                          *)

SubmitLogin(u) ==
    /\ public /\ login = NoLogin
    /\ Spend("login")
    /\ seq' = seq + 1
    /\ login' = [for |-> u, step |-> "asked"]
    /\ UNCHANGED <<public, authed, user, signedIn, registered, db, logout, me, sync, read, flush,
                   store, marks, cookie, online, sent>>

LoginSucceeds ==
    /\ login.step = "asked" /\ online
    /\ cookie' = login.for
    /\ Admit(login.for)
    /\ login' = [login EXCEPT !.step = "opening"]
    /\ mixed' = FALSE /\ astray' = Overtaken
    /\ UNCHANGED <<public, seq, registered, logout, me, sync, read, flush, store, spilled, online, sent, left>>

LoginFails ==
    /\ login.step = "asked"
    /\ login' = NoLogin
    /\ astray' = Ended("me")
    /\ UNCHANGED <<page, logout, me, sync, read, flush, store, mixed, spilled, cookie, online, sent, left>>

(* What syncAll asks before it starts. *)
MaySync == authed /\ online /\ ~sync.busy

(* The database is open: a first syncAll; then the app's pages, unless the *)
(* form stays for a new password.                                          *)
LoginEnters ==
    /\ login.step = "opening"
    /\ login' = NoLogin
    /\ public' \in {public} \cup (IF signedIn THEN {FALSE} ELSE {})
    /\ IF MaySync THEN sync' = Ask(0) /\ astray' = Begun("sync")
                  ELSE UNCHANGED <<sync, astray>>
    /\ UNCHANGED <<authed, seq, user, signedIn, registered, db, logout, me, read, flush,
                   store, mixed, spilled, cookie, online, sent, left>>

-----------------------------------------------------------------------------
(* logout *)

Logout ==
    /\ ~public /\ signedIn /\ logout = NoLogout
    /\ Spend("break")
    /\ authed' = FALSE /\ signedIn' = FALSE /\ registered' = FALSE /\ public' = TRUE
    /\ logout' = [step |-> "asked", target |-> Nobody]
    /\ UNCHANGED <<seq, user, db, login, me, sync, read, flush, store, marks, cookie, online, sent>>

(* The server has cleared the cookie, or the request failed: best effort.  *)
(* Then the current database is deleted, whosever it is by now.            *)
LogoutAnswered ==
    /\ logout.step = "asked"
    /\ cookie' \in {cookie} \cup (IF online THEN {Nobody} ELSE {})
    /\ logout' = [step |-> "deleting", target |-> db]
    /\ UNCHANGED <<page, login, me, sync, read, flush, store, marks, online, sent, left>>

Emptied(f, d) == IF d = Nobody THEN f ELSE [f EXCEPT ![d] = {}]

LogoutDone ==
    /\ logout.step = "deleting"
    /\ held' = Emptied(held, logout.target)
    /\ queued' = Emptied(queued, logout.target)
    /\ db' = Nobody /\ user' = Nobody /\ signedIn' = FALSE /\ public' = TRUE
    /\ logout' = NoLogout
    /\ UNCHANGED cookie
    /\ mixed' = (mixed \/ authed) /\ astray' = Overtaken
    /\ spilled' = spilled \ ({logout.target} \ {Nobody})
    /\ UNCHANGED <<authed, seq, registered, login, me, sync, read, flush, online, sent, left>>

-----------------------------------------------------------------------------
(* loadUser: called when a page starts, by pages of a signed-in user and   *)
(* by the login form after a new password.                                 *)

LoadUser ==
    /\ signedIn /\ (public => authed) /\ ~me.busy
    /\ me' = Ask(seq)
    /\ astray' = IF login.step = "asked" THEN astray \cup {"me"} ELSE astray
    /\ UNCHANGED <<page, login, logout, sync, read, flush, store, mixed, spilled, cookie, online, sent, left>>

(* Mutant: a late answer is taken for a fresh one. *)
FreshAlways == TRUE

(* No login or register happened since the request was sent. *)
Fresh == me.seq = seq

MeConfirms ==
    /\ me.busy /\ online /\ me.as # Nobody
    /\ me' = NoRequest
    /\ UNCHANGED cookie
    /\ IF Fresh
       THEN /\ Admit(me.as) /\ UNCHANGED <<public, seq, registered>>
            /\ mixed' = ("me" \in astray /\ login.step # "asked")
            /\ astray' = Overtaken \ {"me"}
       ELSE UNCHANGED <<page, mixed>> /\ astray' = Ended("me")
    /\ UNCHANGED <<login, logout, sync, read, flush, store, spilled, online, sent, left>>

(* No answer: the persisted session is kept, the gate stays as it is; with *)
(* no session ProtectedRoute shows /login.                                 *)
MeUnanswered ==
    /\ me.busy
    /\ me' = NoRequest /\ astray' = Ended("me")
    /\ public' = (public \/ ~signedIn)
    /\ UNCHANGED <<authed, seq, user, signedIn, registered, db, login, logout, sync, read, flush,
                   store, mixed, spilled, cookie, online, sent, left>>

-----------------------------------------------------------------------------
(* A page starts: flags and calls are gone, the persisted store decides    *)
(* which database is opened, App registers the triggers.  A login or       *)
(* logout on its way may still reach the server and change the cookie.     *)

StartPage(p, u, s) ==
    /\ public' = p
    /\ authed' = FALSE /\ seq' = 0 /\ registered' = TRUE
    /\ user' = u /\ signedIn' = s /\ db' = u
    /\ login' = NoLogin /\ logout' = NoLogout
    /\ sync' = NoRequest /\ read' = NoRequest /\ flush' = NoFlush
    /\ cookie' \in {cookie}
          \cup (IF login.step = "asked" THEN {login.for} ELSE {})
          \cup (IF logout.step = "asked" THEN {Nobody} ELSE {})
    /\ mixed' = (mixed \/ cookie' \notin {cookie, Nobody, u})
    /\ astray' = {} /\ UNCHANGED spilled

(* A full page load by the user.  Every page but /login calls loadUser. *)
Reload ==
    /\ Spend("break")
    /\ \E p \in BOOLEAN :
          /\ StartPage(p, user, signedIn)
          /\ \/ me' = [busy |-> TRUE, seq |-> 0, as |-> cookie']
             \/ p /\ me' = NoRequest
    /\ UNCHANGED <<store, online, sent>>

(* A 401 to a request of an app page: the interceptor loads /login, a full *)
(* page load without loadUser.                                             *)
SentToLogin(u, s) == ~public /\ StartPage(TRUE, u, s) /\ me' = NoRequest

(* 401 to loadUser clears the store, unless stale. *)
MeDenied ==
    /\ me.busy /\ online /\ me.as = Nobody
    /\ LET u == IF Fresh THEN Nobody ELSE user
           s == ~Fresh /\ signedIn
       IN  \/ SentToLogin(u, s)
           \/ /\ public /\ me' = NoRequest
              /\ user' = u /\ signedIn' = s /\ astray' = Ended("me")
              /\ UNCHANGED <<public, authed, seq, registered, db, login, logout, sync, read, flush,
                             mixed, spilled, cookie>>
    /\ UNCHANGED <<store, online, sent, left>>

(* 401 to any other request. *)
Denied ==
    /\ online
    /\ \/ \E request \in {sync, read} : request.busy /\ request.as = Nobody
       \/ flush.author # Nobody /\ flush.as = Nobody
    /\ SentToLogin(user, signedIn)
    /\ UNCHANGED <<store, online, sent, left>>

-----------------------------------------------------------------------------
(* The loops.  Each passes the gate once, at its start. *)

(* A database that is being deleted takes no writes. *)
Open == logout.step = "deleting" => logout.target # db

Keep(u) == IF Open THEN held' = [held EXCEPT ![db] = @ \cup {u}] ELSE UNCHANGED held

Spilled(call) == IF Open /\ call \in astray THEN spilled \cup {db} ELSE spilled

(* onOnline after its flush, or prepareForOffline from an app page. *)
StartSync ==
    /\ MaySync /\ (registered \/ (~public /\ signedIn))
    /\ sync' = Ask(0) /\ astray' = Begun("sync")
    /\ UNCHANGED <<page, login, logout, me, read, flush, store, mixed, spilled, cookie, online, sent, left>>

(* A bundle is written, and the loop goes on with the next trip or ends. *)
SyncArrives ==
    /\ sync.busy /\ online /\ sync.as # Nobody
    /\ Keep(sync.as)
    /\ spilled' = Spilled("sync")
    /\ \/ sync' = NoRequest /\ astray' = Ended("sync")
       \/ sync' = Ask(0) /\ UNCHANGED astray
    /\ UNCHANGED <<page, login, logout, me, read, flush, queued, mixed, cookie, online, sent, left>>

(* The list of trips fails and the loop ends, or a trip fails and it goes  *)
(* on with the next.                                                       *)
SyncFails ==
    /\ sync.busy
    /\ \/ sync' = NoRequest /\ astray' = Ended("sync")
       \/ sync' = Ask(0) /\ UNCHANGED astray
    /\ UNCHANGED <<page, login, logout, me, read, flush, store, mixed, spilled, cookie, online, sent, left>>

StartFlush ==
    /\ registered /\ authed /\ online /\ ~flush.busy
    /\ queued[db] # {}
    /\ flush' = [busy |-> TRUE, todo |-> queued[db], author |-> Nobody, as |-> Nobody]
    /\ astray' = Begun("flush")
    /\ UNCHANGED <<page, login, logout, me, sync, read, store, mixed, spilled, cookie, online, sent, left>>

(* The loop sends the next edit of its snapshot. *)
FlushSends(author) ==
    /\ flush.busy /\ flush.author = Nobody /\ author \in flush.todo
    /\ flush' = [flush EXCEPT !.author = author, !.as = cookie]
    /\ UNCHANGED <<page, login, logout, me, sync, read, store, marks, cookie, online, sent, left>>

(* 2xx: the row is stored and the mutation leaves the current queue; the  *)
(* loop ends with an error when the database does not take it.             *)
FlushArrives ==
    /\ flush.busy /\ flush.author # Nobody /\ flush.as # Nobody /\ online
    /\ sent' = sent \cup {[author |-> flush.author, as |-> flush.as, astray |-> "flush" \in astray]}
    /\ Keep(flush.as)
    /\ spilled' = Spilled("flush")
    /\ IF Open
       THEN /\ queued' = [queued EXCEPT ![db] = @ \ {flush.author}]
            /\ flush' = [flush EXCEPT !.todo = @ \ {flush.author}, !.author = Nobody, !.as = Nobody]
            /\ UNCHANGED astray
       ELSE flush' = NoFlush /\ astray' = Ended("flush") /\ UNCHANGED queued
    /\ UNCHANGED <<page, login, logout, me, sync, read, mixed, cookie, online, left>>

(* No answer, or a 401 on a public page, breaks the loop. *)
FlushBreaks ==
    /\ flush.busy /\ flush.author # Nobody
    /\ flush' = NoFlush /\ astray' = Ended("flush")
    /\ UNCHANGED <<page, login, logout, me, sync, read, store, mixed, spilled, cookie, online, sent, left>>

FlushEnds ==
    /\ flush.busy /\ flush.todo = {}
    /\ flush' = NoFlush /\ astray' = Ended("flush")
    /\ UNCHANGED <<page, login, logout, me, sync, read, store, mixed, spilled, cookie, online, sent, left>>

-----------------------------------------------------------------------------
(* The pages of a signed-in user: reads and online writes keep what the    *)
(* server answers; they do not ask the gate.                               *)

Browse ==
    /\ ~public /\ signedIn /\ online /\ ~read.busy
    /\ read' = Ask(0) /\ astray' = Begun("read")
    /\ UNCHANGED <<page, login, logout, me, sync, flush, store, mixed, spilled, cookie, online, sent, left>>

ReadArrives ==
    /\ read.busy /\ online /\ read.as # Nobody
    /\ Keep(read.as)
    /\ spilled' = Spilled("read")
    /\ read' = NoRequest /\ astray' = Ended("read")
    /\ UNCHANGED <<page, login, logout, me, sync, flush, queued, mixed, cookie, online, sent, left>>

ReadFails ==
    /\ read.busy
    /\ read' = NoRequest /\ astray' = Ended("read")
    /\ UNCHANGED <<page, login, logout, me, sync, flush, store, mixed, spilled, cookie, online, sent, left>>

-----------------------------------------------------------------------------
(* The user's edits and the world. *)

(* A link or the Back button, without a page load: ProtectedRoute shows    *)
(* the app to a signed-in user only.                                       *)
Navigate ==
    /\ public => signedIn
    /\ public' = ~public
    /\ UNCHANGED <<authed, seq, user, signedIn, registered, db, calls, store, marks, cookie, online, sent, left>>

EditOffline ==
    /\ ~public /\ signedIn /\ ~online /\ Open
    /\ Spend("edit")
    /\ queued' = [queued EXCEPT ![db] = @ \cup {user}]
    /\ Keep(user)
    /\ UNCHANGED <<page, calls, marks, cookie, online, sent>>

LoseNetwork ==
    /\ online
    /\ Spend("break")
    /\ online' = FALSE
    /\ UNCHANGED <<page, calls, store, marks, cookie, sent>>

RegainNetwork ==
    /\ ~online
    /\ online' = TRUE
    /\ UNCHANGED <<page, calls, store, marks, cookie, sent, left>>

(* The server ends the session: the cookie is worth nothing any more. *)
Expire ==
    /\ Spend("break")
    /\ cookie' = Nobody
    /\ UNCHANGED <<page, calls, store, marks, online, sent>>

Init ==
    /\ public = TRUE /\ authed = FALSE /\ seq = 0 /\ user = Nobody /\ signedIn = FALSE
    /\ registered = TRUE /\ db = Nobody /\ cookie = Nobody /\ online = TRUE
    /\ held = [d \in Databases |-> {}] /\ queued = [d \in Databases |-> {}]
    /\ login = NoLogin /\ logout = NoLogout /\ me = NoRequest
    /\ sync = NoRequest /\ read = NoRequest /\ flush = NoFlush
    /\ mixed = FALSE /\ astray = {} /\ spilled = {} /\ sent = {} /\ left = Budget

Session ==
    \/ \E u \in Users : SubmitLogin(u)
    \/ LoginSucceeds \/ LoginFails \/ LoginEnters
    \/ Logout \/ LogoutAnswered \/ LogoutDone
    \/ LoadUser \/ MeConfirms \/ MeUnanswered \/ MeDenied \/ Denied

Background ==
    \/ StartSync \/ SyncArrives \/ SyncFails
    \/ StartFlush \/ (\E a \in Users : FlushSends(a))
    \/ FlushArrives \/ FlushBreaks \/ FlushEnds

World ==
    \/ Browse \/ ReadArrives \/ ReadFails \/ Navigate
    \/ EditOffline \/ Reload \/ LoseNetwork \/ RegainNetwork \/ Expire

Next == Session \/ Background \/ World

Spec == Init /\ [][Next]_vars

(* Timers and events start the loops, awaits end, a request that is sent   *)
(* again and again is answered in the end.                                 *)
Fairness ==
    /\ WF_vars(LoginEnters) /\ WF_vars(LoginSucceeds \/ LoginFails)
    /\ WF_vars(LogoutAnswered) /\ WF_vars(LogoutDone)
    /\ SF_vars(MeConfirms) /\ WF_vars(MeUnanswered)
    /\ WF_vars(StartFlush) /\ WF_vars(\E a \in Users : FlushSends(a)) /\ WF_vars(FlushEnds)
    /\ SF_vars(FlushArrives) /\ WF_vars(FlushBreaks)
    /\ WF_vars(RegainNetwork)

FairSpec == Spec /\ Fairness

-----------------------------------------------------------------------------
(* Properties *)

Logins == [for : Databases, step : {"idle", "asked", "opening"}]
Logouts == [step : {"idle", "asked", "deleting"}, target : Databases]
Requests == [busy : BOOLEAN, seq : Nat, as : Databases]
Flushes == [busy : BOOLEAN, todo : SUBSET Users, author : Databases, as : Databases]
Replays == [author : Users, as : Users, astray : BOOLEAN]

(* Types; loadUser's request never carries a sequence number from the      *)
(* future (authStore.ts:218-219), and a call that ended is not astray.     *)
TypeOK ==
    /\ public \in BOOLEAN /\ authed \in BOOLEAN /\ signedIn \in BOOLEAN /\ registered \in BOOLEAN
    /\ online \in BOOLEAN /\ mixed \in BOOLEAN
    /\ seq \in Nat /\ me.seq <= seq
    /\ user \in Databases /\ db \in Databases /\ cookie \in Databases
    /\ held \in [Databases -> SUBSET Users] /\ queued \in [Databases -> SUBSET Users]
    /\ login \in Logins /\ logout \in Logouts
    /\ me \in Requests /\ sync \in Requests /\ read \in Requests /\ flush \in Flushes
    /\ astray \subseteq {"me", "sync", "read", "flush"} /\ spilled \subseteq Databases
    /\ sent \subseteq Replays
    /\ left \in [Acts -> Nat]

(* "So cached data never crosses users" (authStore.ts:77-78): a user's     *)
(* database holds that user's rows and edits only, the anonymous one none. *)
CachedDataNeverCrosses ==
    \A d \in Databases : held[d] \cup queued[d] \subseteq {d} \ {Nobody}

(* What the code keeps of it: an edit is queued in its author's database,  *)
(* whatever overlaps; a row of another user comes into a database only by  *)
(* the answer to a call that a change of session overtook (authStore.ts:   *)
(* 77-87, offlineDb.ts:186-199), and goes when the database is deleted.    *)
DataStaysApart ==
    \A d \in Databases :
        /\ queued[d] \subseteq {d} \ {Nobody}
        /\ d \in spilled \/ held[d] \subseteq {d} \ {Nobody}

(* flush replays a queued edit under the account of the user who made it,  *)
(* unless a change of session overtook it between two requests: the queue  *)
(* it read, the cookie and the signed-in user agree at every page start,   *)
(* loadUser answer, login, logout and 401.                                 *)
EditsSentAsAuthor == \A s \in sent : s.astray \/ s.as = s.author

(* Store and database name one user, and while the gate is open so does    *)
(* the cookie, which may have been revoked; a mixed session is left out of *)
(* the latter only.                                                        *)
GateMatchesSession ==
    /\ signedIn => user # Nobody /\ db = user
    /\ authed => user \in {db, Nobody}
    /\ authed /\ ~mixed => db # Nobody /\ cookie \in {db, Nobody}

(* Why the above holds: a session names one user for store and database,   *)
(* and for the cookie unless it is mixed, ...                              *)
AtHome == db # Nobody /\ cookie \in {db, Nobody}

SessionAgrees ==
    /\ signedIn => user # Nobody /\ db = user
    /\ authed => user \in {db, Nobody}
    /\ (authed \/ signedIn) /\ ~mixed => AtHome

(* ... an answer that loadUser may still believe is about the cookie's     *)
(* user, unless a login was on its way, ...                                *)
FreshAnswers ==
    (me.busy /\ Fresh) =>
        /\ login.step = "asked" => "me" \in astray
        /\ login.step = "asked" \/ "me" \notin astray => cookie \in {me.as, Nobody}

(* ... and a call that is not astray works for the user of the database.   *)
InFlightIsUsers ==
    /\ sync.busy /\ "sync" \notin astray => AtHome /\ sync.as \in {db, Nobody}
    /\ read.busy /\ "read" \notin astray => AtHome /\ read.as \in {db, Nobody}
    /\ flush.busy /\ "flush" \notin astray =>
          /\ AtHome /\ flush.todo \subseteq {db}
          /\ flush.author # Nobody => flush.author = db /\ flush.as \in {db, Nobody}

CallsNamed ==
    /\ login.step # "idle" => login.for \in Users
    /\ flush.author # Nobody => flush.busy

(* The inductive invariant of the proofs. *)
SessionInv ==
    /\ TypeOK /\ SessionAgrees /\ FreshAnswers /\ InFlightIsUsers /\ CallsNamed
    /\ DataStaysApart /\ EditsSentAsAuthor

(* A device that is back online for good, showing the app to a user signed *)
(* in with a valid cookie, sends what was queued ("queued changes are      *)
(* replayed", Offline-Mode-and-PWA.md:57).                                 *)
BackOnlineSyncs ==
    <>[](online /\ ~public /\ signedIn /\ cookie = user /\ db = user) => []<>(queued[db] = {})
=============================================================================
