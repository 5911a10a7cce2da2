------------------------- MODULE AuthSessionProofs --------------------------
(***************************************************************************)
(* Proofs of what keeps data and edits of users apart (AuthSession), for   *)
(* any users and any budget.                                               *)
(***************************************************************************)
EXTENDS AuthSession, TLAPS

(* The idle calls and requests have their types. *)
LEMMA Idle ==
    /\ NoLogin \in Logins /\ NoLogout \in Logouts
    /\ NoRequest \in Requests /\ NoRequest.seq = 0 /\ NoFlush \in Flushes
  BY DEF NoLogin, NoLogout, NoRequest, NoFlush, Logins, Logouts, Requests,
         Flushes, Databases

(* A request that is sent has its type and its number. *)
LEMMA Asked ==
    ASSUME TypeOK, NEW n \in Nat
    PROVE  Ask(n) \in Requests /\ Ask(n).seq = n
  BY DEF TypeOK, Ask, Requests

(* The budget stays a budget. *)
LEMMA Spent ==
    ASSUME TypeOK, NEW act \in Acts, Spend(act)
    PROVE  left' \in [Acts -> Nat]
  BY DEF TypeOK, Spend

(* The history variables keep their types, ... *)
LEMMA Marked ==
    ASSUME TypeOK, NEW call \in {"me", "sync", "read", "flush"}
    PROVE  /\ Begun(call) \subseteq {"me", "sync", "read", "flush"}
           /\ Ended(call) \subseteq {"me", "sync", "read", "flush"}
           /\ Spilled(call) \subseteq Databases
           /\ Overtaken \subseteq {"me", "sync", "read", "flush"}
  BY DEF TypeOK, Begun, Ended, Spilled, Overtaken, InFlight

(* ... a change of session marks all the calls that run, ... *)
LEMMA AllOvertaken ==
    ASSUME db' # db \/ cookie' # cookie
    PROVE  /\ sync.busy => "sync" \in Overtaken
           /\ read.busy => "read" \in Overtaken
           /\ flush.busy => "flush" \in Overtaken
  BY DEF Overtaken, InFlight

(* ... and no step that comes to the same session marks any. *)
LEMMA NoneOvertaken ==
    ASSUME db' = db, cookie' = cookie
    PROVE  Overtaken = astray
  BY DEF Overtaken

(* A row that is kept is a user's. *)
LEMMA KeepTyped ==
    ASSUME TypeOK, NEW u \in Users, Keep(u)
    PROVE  held' \in [Databases -> SUBSET Users]
  BY DEF TypeOK, Keep

(* A row kept by an astray call is recorded, one kept by any other is the  *)
(* user's whose database is open.                                          *)
LEMMA KeepApart ==
    ASSUME TypeOK, DataStaysApart, NEW u, Keep(u), NEW call,
           call \in astray \/ (u = db /\ db # Nobody),
           spilled' = Spilled(call),
           \A d \in Databases : queued'[d] \subseteq queued[d]
    PROVE  DataStaysApart'
<1>1. CASE Open
  <2>1. held' = [held EXCEPT ![db] = @ \cup {u}]
    BY <1>1 DEF Keep
  <2>2. spilled \subseteq spilled' /\ (call \in astray => db \in spilled')
    BY <1>1 DEF Spilled
  <2> QED BY <2>1, <2>2 DEF DataStaysApart, TypeOK
<1>2. CASE ~Open
  <2>1. held' = held /\ spilled' = spilled
    BY <1>2 DEF Keep, Spilled
  <2> QED BY <2>1 DEF DataStaysApart
<1> QED BY <1>1, <1>2

(* A flush whose answer is kept goes on with the rest of its snapshot. *)
LEMMA FlushGoesOn ==
    ASSUME TypeOK, FlushArrives, Open
    PROVE  /\ flush' \in Flushes
           /\ flush'.busy = flush.busy
           /\ flush'.todo = flush.todo \ {flush.author}
           /\ flush'.author = Nobody /\ flush'.as = Nobody
<1>1. flush' = [flush EXCEPT !.todo = @ \ {flush.author}, !.author = Nobody,
                             !.as = Nobody]
  BY DEF FlushArrives
<1>2. flush \in Flushes /\ Nobody \in Databases
  BY DEF TypeOK, Databases
<1> QED BY <1>1, <1>2 DEF Flushes

(* What it sent is recorded: as its author, or as an astray flush. *)
LEMMA FlushRecords ==
    ASSUME TypeOK, FlushArrives
    PROVE  /\ sent' \subseteq Replays
           /\ (/\ EditsSentAsAuthor
               /\ "flush" \in astray \/ flush.as = flush.author)
              => EditsSentAsAuthor'
<1> DEFINE replay == [author |-> flush.author, as |-> flush.as,
                      astray |-> "flush" \in astray]
<1>1. sent' = sent \cup {replay}
  BY DEF FlushArrives
<1>2. replay \in Replays
  <2>1. flush.as \in Users /\ flush.author \in Users
    BY DEF TypeOK, FlushArrives, Flushes, Databases
  <2>2. ("flush" \in astray) \in BOOLEAN
    OBVIOUS
  <2> QED BY <2>1, <2>2 DEF Replays
<1>3. ("flush" \in astray \/ flush.as = flush.author)
      => (replay.astray \/ replay.as = replay.author)
  OBVIOUS
<1> HIDE DEF replay
<1>4. sent' \subseteq Replays
  BY <1>1, <1>2 DEF TypeOK
<1>5. EditsSentAsAuthor /\ ("flush" \in astray \/ flush.as = flush.author)
      => EditsSentAsAuthor'
  BY <1>1, <1>3 DEF EditsSentAsAuthor
<1> QED BY <1>4, <1>5

-----------------------------------------------------------------------------
(* A page starts. *)

(* A started page has the types. *)
LEMMA StartPageTyped ==
    ASSUME TypeOK, NEW p \in BOOLEAN, NEW u \in Databases, NEW s \in BOOLEAN,
           StartPage(p, u, s), me' \in Requests, me'.seq = 0,
           left' \in [Acts -> Nat], UNCHANGED <<store, online, sent>>
    PROVE  TypeOK'
<1>1. /\ login' \in Logins /\ logout' \in Logouts
      /\ sync' \in Requests /\ read' \in Requests /\ flush' \in Flushes
  BY Idle DEF StartPage
<1>2. /\ public' \in BOOLEAN /\ authed' \in BOOLEAN /\ mixed' \in BOOLEAN
      /\ registered' \in BOOLEAN /\ signedIn' \in BOOLEAN
  BY DEF StartPage
<1>3. /\ user' \in Databases /\ db' \in Databases
      /\ seq' \in Nat /\ me'.seq <= seq'
  BY DEF StartPage
<1>4. cookie' \in Databases
  BY DEF TypeOK, StartPage, Logins, Databases
<1>5. astray' = {} /\ spilled' = spilled
  BY DEF StartPage
<1> QED BY <1>1, <1>2, <1>3, <1>4, <1>5 DEF TypeOK, store

(* It names the user the store named, or none, and nothing is in flight. *)
LEMMA StartPageKeeps ==
    ASSUME SessionInv, NEW p \in BOOLEAN, NEW u \in Databases, NEW s \in BOOLEAN,
           StartPage(p, u, s), s => signedIn /\ u = user,
           me' = NoRequest \/ me' = [busy |-> TRUE, seq |-> 0, as |-> cookie'],
           left' \in [Acts -> Nat], UNCHANGED <<store, online, sent>>
    PROVE  SessionInv'
<1>1. cookie' \in Databases
  BY DEF SessionInv, TypeOK, StartPage, Logins, Databases
<1>2. me' \in Requests /\ me'.seq = 0
  <2>1. CASE me' = NoRequest
    BY <2>1, Idle
  <2>2. CASE me' = [busy |-> TRUE, seq |-> 0, as |-> cookie']
    BY <1>1, <2>2 DEF Requests
  <2> QED BY <2>1, <2>2
<1>3. TypeOK'
  BY <1>2, StartPageTyped DEF SessionInv
<1>4. SessionAgrees'
  BY DEF SessionInv, SessionAgrees, AtHome, TypeOK, StartPage
<1>5. FreshAnswers'
  BY DEF FreshAnswers, StartPage, NoLogin, NoRequest
<1>6. InFlightIsUsers' /\ CallsNamed'
  BY DEF InFlightIsUsers, CallsNamed, StartPage, NoLogin, NoRequest, NoFlush
<1>7. DataStaysApart' /\ EditsSentAsAuthor'
  BY DEF SessionInv, DataStaysApart, EditsSentAsAuthor, StartPage, store
<1> QED
  BY <1>3, <1>4, <1>5, <1>6, <1>7 DEF SessionInv

(* A full page load. *)
LEMMA ReloadKeeps ==
    ASSUME SessionInv, Reload
    PROVE  SessionInv'
<1>1. left' \in [Acts -> Nat]
  BY Spent DEF SessionInv, Reload, Acts
<1>2. PICK p \in BOOLEAN :
        /\ StartPage(p, user, signedIn)
        /\ me' = NoRequest \/ me' = [busy |-> TRUE, seq |-> 0, as |-> cookie']
  BY DEF Reload
<1>3. user \in Databases /\ signedIn \in BOOLEAN
  BY DEF SessionInv, TypeOK
<1> QED
  BY <1>1, <1>2, <1>3, StartPageKeeps DEF Reload

(* A 401 to loadUser clears the store, or starts a page that names no other *)
(* user.                                                                   *)
LEMMA MeDeniedKeeps ==
    ASSUME SessionInv, MeDenied
    PROVE  SessionInv'
<1> DEFINE u == IF Fresh THEN Nobody ELSE user
           s == ~Fresh /\ signedIn
<1>1. u \in Databases /\ s \in BOOLEAN /\ (s => signedIn /\ u = user)
  BY DEF SessionInv, TypeOK, Databases
<1>2. left' \in [Acts -> Nat] /\ UNCHANGED <<store, online, sent>>
  BY DEF SessionInv, TypeOK, MeDenied
<1>3. CASE SentToLogin(u, s)
  <2>1. StartPage(TRUE, u, s) /\ me' = NoRequest
    BY <1>3 DEF SentToLogin
  <2> HIDE DEF u, s
  <2> QED BY <1>1, <1>2, <2>1, StartPageKeeps
<1>4. CASE ~SentToLogin(u, s)
  <2>1. /\ me' = NoRequest /\ user' = u /\ signedIn' = s
        /\ astray' = Ended("me")
        /\ UNCHANGED <<public, authed, seq, registered, db, login, logout,
                       sync, read, flush, mixed, spilled, cookie>>
    BY <1>4 DEF MeDenied
  <2>2. TypeOK'
    BY <1>1, <1>2, <2>1, Idle, Marked DEF SessionInv, TypeOK, store
  <2>3. SessionAgrees'
    BY <2>1 DEF SessionInv, SessionAgrees, AtHome
  <2>4. FreshAnswers' /\ CallsNamed'
    BY <2>1 DEF SessionInv, FreshAnswers, CallsNamed, NoRequest
  <2>5. InFlightIsUsers'
    BY <2>1 DEF SessionInv, InFlightIsUsers, AtHome, Ended
  <2>6. DataStaysApart' /\ EditsSentAsAuthor'
    BY <1>2, <2>1 DEF SessionInv, DataStaysApart, EditsSentAsAuthor, store
  <2> QED
    BY <2>2, <2>3, <2>4, <2>5, <2>6 DEF SessionInv
<1> QED BY <1>3, <1>4

(* Any other 401 starts a page for the user of the store. *)
LEMMA DeniedKeeps ==
    ASSUME SessionInv, Denied
    PROVE  SessionInv'
<1>1. /\ user \in Databases /\ signedIn \in BOOLEAN
      /\ left' \in [Acts -> Nat] /\ UNCHANGED <<store, online, sent>>
  BY DEF SessionInv, TypeOK, Denied
<1>2. StartPage(TRUE, user, signedIn) /\ me' = NoRequest
  BY DEF Denied, SentToLogin
<1> QED BY <1>1, <1>2, StartPageKeeps

-----------------------------------------------------------------------------
(* One lemma per action. *)

(* A request of loadUser becomes stale, and nothing else is touched. *)
LEMMA SubmitLoginKeeps ==
    ASSUME NEW u \in Users, SessionInv, SubmitLogin(u)
    PROVE  SessionInv'
<1>1. TypeOK'
  <2>1. left' \in [Acts -> Nat]
    BY Spent DEF SessionInv, SubmitLogin, Acts
  <2>2. login' \in Logins /\ seq' \in Nat /\ me'.seq <= seq'
    BY DEF SessionInv, TypeOK, SubmitLogin, Logins, Databases, Requests
  <2> QED BY <2>1, <2>2 DEF SessionInv, TypeOK, SubmitLogin, store, marks
<1>2. SessionAgrees' /\ InFlightIsUsers' /\ CallsNamed' /\ DataStaysApart'
      /\ EditsSentAsAuthor'
  BY DEF SessionInv, SessionAgrees, AtHome, InFlightIsUsers, CallsNamed,
       DataStaysApart, EditsSentAsAuthor, SubmitLogin, page, store, marks
<1>3. FreshAnswers'
  BY DEF SessionInv, FreshAnswers, Fresh, TypeOK, Requests, SubmitLogin,
       page, store, marks
<1> QED
  BY <1>1, <1>2, <1>3 DEF SessionInv

(* What was in flight for another user or database goes astray. *)
LEMMA LoginSucceedsKeeps ==
    ASSUME SessionInv, LoginSucceeds
    PROVE  SessionInv'
<1>1. TypeOK'
  BY Marked DEF SessionInv, TypeOK, LoginSucceeds, Admit, Logins, page,
       store, marks
<1>2. CallsNamed' /\ DataStaysApart' /\ EditsSentAsAuthor'
  BY DEF SessionInv, CallsNamed, DataStaysApart, EditsSentAsAuthor,
       LoginSucceeds, Admit, page, store, marks
<1>3. FreshAnswers'
  BY DEF SessionInv, FreshAnswers, Fresh, Overtaken, LoginSucceeds, Admit,
       page, store, marks
<1>4. SessionAgrees'
  BY NobodyAssumption DEF SessionInv, SessionAgrees, AtHome, CallsNamed,
       LoginSucceeds, Admit, page, store, marks
<1>5. InFlightIsUsers'
  BY AllOvertaken, NoneOvertaken, NobodyAssumption DEF SessionInv,
       InFlightIsUsers, AtHome, CallsNamed, LoginSucceeds, Admit, page,
       store, marks
<1> QED
  BY <1>1, <1>2, <1>3, <1>4, <1>5 DEF SessionInv

(* A failed login leaves the session as it was. *)
LEMMA LoginFailsKeeps ==
    ASSUME SessionInv, LoginFails
    PROVE  SessionInv'
<1>1. TypeOK'
  BY Idle, Marked DEF SessionInv, TypeOK, LoginFails, page, store, marks
<1>2. SessionAgrees' /\ InFlightIsUsers' /\ CallsNamed' /\ DataStaysApart'
      /\ EditsSentAsAuthor'
  BY DEF SessionInv, SessionAgrees, AtHome, InFlightIsUsers, CallsNamed,
       DataStaysApart, EditsSentAsAuthor, LoginFails, NoLogin, Ended, page,
       store, marks
<1>3. FreshAnswers'
  BY DEF SessionInv, FreshAnswers, Fresh, LoginFails, NoLogin, Ended, page,
       store, marks
<1> QED
  BY <1>1, <1>2, <1>3 DEF SessionInv

(* The first syncAll carries the cookie of the database's user, or is astray. *)
LEMMA LoginEntersKeeps ==
    ASSUME SessionInv, LoginEnters
    PROVE  SessionInv'
<1>1. TypeOK'
  <2>1. sync' \in Requests
    BY Asked DEF SessionInv, TypeOK, LoginEnters
  <2>2. astray' \subseteq {"me", "sync", "read", "flush"}
    BY Marked DEF SessionInv, TypeOK, LoginEnters
  <2>3. login' \in Logins /\ public' \in BOOLEAN
    BY Idle DEF SessionInv, TypeOK, LoginEnters
  <2> QED
    BY <2>1, <2>2, <2>3 DEF SessionInv, TypeOK, LoginEnters, store
<1>2. SessionAgrees' /\ CallsNamed' /\ DataStaysApart' /\ EditsSentAsAuthor'
  BY DEF SessionInv, SessionAgrees, AtHome, CallsNamed, DataStaysApart,
       EditsSentAsAuthor, LoginEnters, NoLogin, page, store, marks
<1>3. FreshAnswers'
  BY DEF SessionInv, FreshAnswers, Fresh, Begun, LoginEnters, NoLogin, page,
       store, marks
<1>4. InFlightIsUsers'
  BY DEF SessionInv, InFlightIsUsers, AtHome, SessionAgrees, MaySync, Ask,
       Begun, LoginEnters, NoLogin, page, store, marks
<1> QED
  BY <1>1, <1>2, <1>3, <1>4 DEF SessionInv

(* A logout stops nothing that is in flight. *)
LEMMA LogoutKeeps ==
    ASSUME SessionInv, Logout
    PROVE  SessionInv'
<1>1. TypeOK'
  BY Spent DEF SessionInv, TypeOK, Logout, Logouts, Databases, Acts, page,
       store, marks
<1>2. SessionAgrees' /\ FreshAnswers' /\ InFlightIsUsers' /\ CallsNamed'
      /\ DataStaysApart' /\ EditsSentAsAuthor'
  BY DEF SessionInv, SessionAgrees, AtHome, FreshAnswers, Fresh,
       InFlightIsUsers, CallsNamed, DataStaysApart, EditsSentAsAuthor,
       Logout, page, store, marks
<1> QED
  BY <1>1, <1>2 DEF SessionInv

(* The cookie goes, or stays. *)
LEMMA LogoutAnsweredKeeps ==
    ASSUME SessionInv, LogoutAnswered
    PROVE  SessionInv'
<1>1. TypeOK'
  BY DEF SessionInv, TypeOK, LogoutAnswered, Logouts, Databases, page,
       store, marks
<1>2. SessionAgrees' /\ FreshAnswers' /\ InFlightIsUsers' /\ CallsNamed'
      /\ DataStaysApart' /\ EditsSentAsAuthor'
  BY DEF SessionInv, SessionAgrees, AtHome, FreshAnswers, Fresh,
       InFlightIsUsers, CallsNamed, DataStaysApart, EditsSentAsAuthor,
       LogoutAnswered, page, store, marks
<1> QED
  BY <1>1, <1>2 DEF SessionInv

(* The deleted database is empty, and what runs on goes astray. *)
LEMMA LogoutDoneKeeps ==
    ASSUME SessionInv, LogoutDone
    PROVE  SessionInv'
<1>1. TypeOK'
  BY Idle, Marked DEF SessionInv, TypeOK, LogoutDone, Emptied, Databases,
       page, store, marks
<1>2. SessionAgrees' /\ CallsNamed' /\ EditsSentAsAuthor'
  BY DEF SessionInv, SessionAgrees, AtHome, CallsNamed, EditsSentAsAuthor,
       LogoutDone, Emptied, page, store, marks
<1>3. FreshAnswers'
  BY DEF SessionInv, FreshAnswers, Fresh, Overtaken, InFlight, LogoutDone,
       Emptied, page, store, marks
<1>4. InFlightIsUsers'
  BY AllOvertaken, NoneOvertaken DEF SessionInv, InFlightIsUsers, AtHome,
       SessionAgrees, LogoutDone, Emptied, page, store, marks
<1>5. DataStaysApart'
  BY DEF SessionInv, DataStaysApart, TypeOK, LogoutDone, Emptied, page,
       store, marks
<1> QED
  BY <1>1, <1>2, <1>3, <1>4, <1>5 DEF SessionInv

(* loadUser asks with the cookie of the moment. *)
LEMMA LoadUserKeeps ==
    ASSUME SessionInv, LoadUser
    PROVE  SessionInv'
<1>1. TypeOK'
  BY Asked DEF SessionInv, TypeOK, LoadUser, page, store, marks
<1>2. SessionAgrees' /\ InFlightIsUsers' /\ CallsNamed' /\ DataStaysApart'
      /\ EditsSentAsAuthor'
  BY DEF SessionInv, SessionAgrees, AtHome, InFlightIsUsers, CallsNamed,
       DataStaysApart, EditsSentAsAuthor, LoadUser, page, store, marks
<1>3. FreshAnswers'
  BY DEF SessionInv, FreshAnswers, Fresh, Ask, LoadUser, page, store, marks
<1> QED
  BY <1>1, <1>2, <1>3 DEF SessionInv

(* A fresh answer names the cookie's user, or leaves a mixed session. *)
LEMMA MeConfirmsKeeps ==
    ASSUME SessionInv, MeConfirms
    PROVE  SessionInv'
<1>1. TypeOK'
  <2>1. me.as \in Databases /\ me' \in Requests /\ me'.seq <= seq'
    BY Idle DEF SessionInv, TypeOK, MeConfirms, Requests, page
  <2>2. /\ user' \in Databases /\ db' \in Databases
        /\ authed' \in BOOLEAN /\ signedIn' \in BOOLEAN
        /\ mixed' \in BOOLEAN
    BY <2>1 DEF SessionInv, TypeOK, MeConfirms, Admit, page
  <2>3. astray' \subseteq {"me", "sync", "read", "flush"}
    BY Marked DEF SessionInv, MeConfirms
  <2>4. UNCHANGED <<public, seq, registered>>
    BY DEF MeConfirms, page
  <2> QED
    BY <2>1, <2>2, <2>3, <2>4 DEF SessionInv, TypeOK, MeConfirms, store
<1>2. CallsNamed' /\ DataStaysApart' /\ EditsSentAsAuthor'
  BY DEF SessionInv, CallsNamed, DataStaysApart, EditsSentAsAuthor,
       MeConfirms, Admit, page, store, marks
<1>3. SessionAgrees'
  BY DEF SessionInv, SessionAgrees, AtHome, FreshAnswers, MeConfirms, Admit,
       page, store, marks
<1>4. FreshAnswers'
  BY DEF SessionInv, FreshAnswers, Fresh, NoRequest, MeConfirms, Admit,
       page, store, marks
<1>5. InFlightIsUsers'
  BY AllOvertaken, NoneOvertaken DEF SessionInv, InFlightIsUsers, AtHome,
       Ended, MeConfirms, Admit, page, store, marks
<1> QED
  BY <1>1, <1>2, <1>3, <1>4, <1>5 DEF SessionInv

(* No answer changes nothing but the page shown. *)
LEMMA MeUnansweredKeeps ==
    ASSUME SessionInv, MeUnanswered
    PROVE  SessionInv'
<1>1. TypeOK'
  BY Idle, Marked DEF SessionInv, TypeOK, MeUnanswered, page, store, marks
<1>2. SessionAgrees' /\ FreshAnswers' /\ InFlightIsUsers' /\ CallsNamed'
      /\ DataStaysApart' /\ EditsSentAsAuthor'
  BY DEF SessionInv, SessionAgrees, AtHome, FreshAnswers, Fresh,
       InFlightIsUsers, CallsNamed, DataStaysApart, EditsSentAsAuthor,
       MeUnanswered, NoRequest, Ended, page, store, marks
<1> QED
  BY <1>1, <1>2 DEF SessionInv

(* syncAll asks with the cookie of the moment. *)
LEMMA StartSyncKeeps ==
    ASSUME SessionInv, StartSync
    PROVE  SessionInv'
<1>1. TypeOK'
  BY Asked, Marked DEF SessionInv, TypeOK, StartSync, page, store, marks
<1>2. SessionAgrees' /\ FreshAnswers' /\ CallsNamed' /\ DataStaysApart'
      /\ EditsSentAsAuthor'
  BY DEF SessionInv, SessionAgrees, AtHome, FreshAnswers, Fresh, CallsNamed,
       DataStaysApart, EditsSentAsAuthor, StartSync, Begun, page, store,
       marks
<1>3. InFlightIsUsers'
  BY DEF SessionInv, InFlightIsUsers, AtHome, SessionAgrees, MaySync, Ask,
       StartSync, Begun, page, store, marks
<1> QED
  BY <1>1, <1>2, <1>3 DEF SessionInv

(* A bundle is the user's and goes to the user's database, or is recorded. *)
LEMMA SyncArrivesKeeps ==
    ASSUME SessionInv, SyncArrives
    PROVE  SessionInv'
<1>1. TypeOK'
  <2>1. sync.as \in Users /\ sync' \in Requests
    BY Idle, Asked DEF SessionInv, TypeOK, SyncArrives, Requests, Databases
  <2>2. /\ astray' \subseteq {"me", "sync", "read", "flush"}
        /\ spilled' \subseteq Databases
    BY Marked DEF SessionInv, TypeOK, SyncArrives
  <2>3. held' \in [Databases -> SUBSET Users]
    BY <2>1, KeepTyped DEF SessionInv, SyncArrives
  <2> QED
    BY <2>1, <2>2, <2>3 DEF SessionInv, TypeOK, SyncArrives, page
<1>2. SessionAgrees' /\ FreshAnswers' /\ CallsNamed' /\ EditsSentAsAuthor'
  BY DEF SessionInv, SessionAgrees, AtHome, FreshAnswers, Fresh, CallsNamed,
       EditsSentAsAuthor, SyncArrives, Ended, page, store, marks
<1>3. InFlightIsUsers'
  BY DEF SessionInv, InFlightIsUsers, AtHome, Ask, NoRequest, SyncArrives,
       Ended, page, store, marks
<1>4. DataStaysApart'
  <2>1. "sync" \in astray \/ (sync.as = db /\ db # Nobody)
    BY DEF SessionInv, InFlightIsUsers, AtHome, SyncArrives
  <2>2. TypeOK /\ DataStaysApart
    BY DEF SessionInv
  <2> QED BY <2>1, <2>2, KeepApart DEF SyncArrives
<1> QED
  BY <1>1, <1>2, <1>3, <1>4 DEF SessionInv

(* syncAll goes on or ends. *)
LEMMA SyncFailsKeeps ==
    ASSUME SessionInv, SyncFails
    PROVE  SessionInv'
<1>1. TypeOK'
  <2>1. sync' \in Requests
    BY Idle, Asked DEF SessionInv, SyncFails
  <2>2. astray' \subseteq {"me", "sync", "read", "flush"}
    BY Marked DEF SessionInv, TypeOK, SyncFails
  <2> QED BY <2>1, <2>2 DEF SessionInv, TypeOK, SyncFails, page, store
<1>2. SessionAgrees' /\ FreshAnswers' /\ CallsNamed' /\ DataStaysApart'
      /\ EditsSentAsAuthor'
  BY DEF SessionInv, SessionAgrees, AtHome, FreshAnswers, Fresh, CallsNamed,
       DataStaysApart, EditsSentAsAuthor, SyncFails, Ended, page, store,
       marks
<1>3. InFlightIsUsers'
  BY DEF SessionInv, InFlightIsUsers, AtHome, Ask, NoRequest, SyncFails,
       Ended, page, store, marks
<1> QED
  BY <1>1, <1>2, <1>3 DEF SessionInv

(* The snapshot holds the edits of the database's user. *)
LEMMA StartFlushKeeps ==
    ASSUME SessionInv, StartFlush
    PROVE  SessionInv'
<1>1. TypeOK'
  BY Marked DEF SessionInv, TypeOK, StartFlush, Databases, Flushes, page,
       store, marks
<1>2. SessionAgrees' /\ FreshAnswers' /\ CallsNamed' /\ DataStaysApart'
      /\ EditsSentAsAuthor'
  BY DEF SessionInv, SessionAgrees, AtHome, FreshAnswers, Fresh, CallsNamed,
       DataStaysApart, EditsSentAsAuthor, StartFlush, Begun, page, store,
       marks
<1>3. InFlightIsUsers'
  BY DEF SessionInv, InFlightIsUsers, AtHome, SessionAgrees, DataStaysApart,
       TypeOK, StartFlush, Begun, page, store, marks
<1> QED
  BY <1>1, <1>2, <1>3 DEF SessionInv

(* A replayed edit is the user's and carries the user's cookie. *)
LEMMA FlushSendsKeeps ==
    ASSUME NEW u \in Users, SessionInv, FlushSends(u)
    PROVE  SessionInv'
<1>1. TypeOK'
  BY DEF SessionInv, TypeOK, FlushSends, Databases, Flushes, page, store,
       marks
<1>2. SessionAgrees' /\ FreshAnswers' /\ InFlightIsUsers' /\ CallsNamed'
      /\ DataStaysApart' /\ EditsSentAsAuthor'
  BY DEF SessionInv, SessionAgrees, AtHome, FreshAnswers, Fresh,
       InFlightIsUsers, CallsNamed, DataStaysApart, EditsSentAsAuthor,
       FlushSends, page, store, marks
<1> QED
  BY <1>1, <1>2 DEF SessionInv

(* Its answer goes to the user's database. *)
LEMMA FlushArrivesKeeps ==
    ASSUME SessionInv, FlushArrives
    PROVE  SessionInv'
<1>1. TypeOK'
  <2>1. flush.as \in Users /\ flush.author \in Users
    BY DEF SessionInv, TypeOK, FlushArrives, Flushes, Databases
  <2>2. held' \in [Databases -> SUBSET Users]
    BY <2>1, KeepTyped DEF SessionInv, FlushArrives
  <2>3. queued' \in [Databases -> SUBSET Users]
    BY DEF SessionInv, TypeOK, FlushArrives
  <2>4. flush' \in Flushes
    BY FlushGoesOn, Idle DEF SessionInv, FlushArrives
  <2>5. sent' \subseteq Replays
    BY FlushRecords DEF SessionInv
  <2>6. /\ astray' \subseteq {"me", "sync", "read", "flush"}
        /\ spilled' \subseteq Databases
    BY Marked DEF SessionInv, TypeOK, FlushArrives
  <2> QED
    BY <2>2, <2>3, <2>4, <2>5, <2>6 DEF SessionInv, TypeOK, FlushArrives, page
<1>2. SessionAgrees'
  BY DEF SessionInv, SessionAgrees, AtHome, FlushArrives, NoFlush, Ended,
       page, store, marks
<1>3. FreshAnswers'
  BY DEF SessionInv, FreshAnswers, Fresh, NoFlush, FlushArrives, Ended,
       page, store, marks
<1>4. InFlightIsUsers'
  <2>1. sync' = sync /\ read' = read /\ UNCHANGED <<db, cookie>>
    BY DEF FlushArrives, page
  <2>2. CASE Open
    BY <2>1, <2>2, FlushGoesOn DEF SessionInv, InFlightIsUsers, AtHome,
         FlushArrives
  <2>3. CASE ~Open
    BY <2>1, <2>3 DEF SessionInv, InFlightIsUsers, AtHome, FlushArrives,
         NoFlush, Ended
  <2> QED BY <2>2, <2>3
<1>5. CallsNamed'
  <2>1. flush'.author = Nobody
    <3>1. CASE Open
      BY <3>1, FlushGoesOn DEF SessionInv
    <3>2. CASE ~Open
      BY <3>2 DEF FlushArrives, NoFlush
    <3> QED BY <3>1, <3>2
  <2> QED
    BY <2>1 DEF SessionInv, CallsNamed, FlushArrives
<1>6. DataStaysApart'
  <2>1. "flush" \in astray \/ (flush.as = db /\ db # Nobody)
    BY DEF SessionInv, InFlightIsUsers, AtHome, FlushArrives
  <2>2. TypeOK /\ DataStaysApart
    BY DEF SessionInv
  <2>3. \A d \in Databases : queued'[d] \subseteq queued[d]
    BY DEF SessionInv, TypeOK, FlushArrives
  <2> QED BY <2>1, <2>2, <2>3, KeepApart DEF FlushArrives
<1>7. EditsSentAsAuthor'
  <2>1. "flush" \in astray \/ flush.as = flush.author
    BY DEF SessionInv, InFlightIsUsers, AtHome, FlushArrives
  <2> QED
    BY <2>1, FlushRecords DEF SessionInv
<1> QED
  BY <1>1, <1>2, <1>3, <1>4, <1>5, <1>6, <1>7 DEF SessionInv

(* flush stops at an error. *)
LEMMA FlushBreaksKeeps ==
    ASSUME SessionInv, FlushBreaks
    PROVE  SessionInv'
<1>1. TypeOK'
  BY Idle, Marked DEF SessionInv, TypeOK, FlushBreaks, page, store, marks
<1>2. SessionAgrees' /\ FreshAnswers' /\ InFlightIsUsers' /\ CallsNamed'
      /\ DataStaysApart' /\ EditsSentAsAuthor'
  BY DEF SessionInv, SessionAgrees, AtHome, FreshAnswers, Fresh,
       InFlightIsUsers, CallsNamed, DataStaysApart, EditsSentAsAuthor,
       FlushBreaks, NoFlush, Ended, page, store, marks
<1> QED
  BY <1>1, <1>2 DEF SessionInv

(* flush ends. *)
LEMMA FlushEndsKeeps ==
    ASSUME SessionInv, FlushEnds
    PROVE  SessionInv'
<1>1. TypeOK'
  BY Idle, Marked DEF SessionInv, TypeOK, FlushEnds, page, store, marks
<1>2. SessionAgrees' /\ FreshAnswers' /\ InFlightIsUsers' /\ CallsNamed'
      /\ DataStaysApart' /\ EditsSentAsAuthor'
  BY DEF SessionInv, SessionAgrees, AtHome, FreshAnswers, Fresh,
       InFlightIsUsers, CallsNamed, DataStaysApart, EditsSentAsAuthor,
       FlushEnds, NoFlush, Ended, page, store, marks
<1> QED
  BY <1>1, <1>2 DEF SessionInv

(* A page asks with the cookie of the moment. *)
LEMMA BrowseKeeps ==
    ASSUME SessionInv, Browse
    PROVE  SessionInv'
<1>1. TypeOK'
  BY Asked, Marked DEF SessionInv, TypeOK, Browse, page, store, marks
<1>2. SessionAgrees' /\ FreshAnswers' /\ CallsNamed' /\ DataStaysApart'
      /\ EditsSentAsAuthor'
  BY DEF SessionInv, SessionAgrees, AtHome, FreshAnswers, Fresh, CallsNamed,
       DataStaysApart, EditsSentAsAuthor, Browse, Begun, page, store, marks
<1>3. InFlightIsUsers'
  BY DEF SessionInv, InFlightIsUsers, AtHome, SessionAgrees, Ask, Browse,
       Begun, page, store, marks
<1> QED
  BY <1>1, <1>2, <1>3 DEF SessionInv

(* Its answer goes to the user's database, or is recorded. *)
LEMMA ReadArrivesKeeps ==
    ASSUME SessionInv, ReadArrives
    PROVE  SessionInv'
<1>1. TypeOK'
  BY Idle, Marked, KeepTyped DEF SessionInv, TypeOK, ReadArrives, Requests,
       Databases, page, store, marks
<1>2. SessionAgrees' /\ FreshAnswers' /\ InFlightIsUsers' /\ CallsNamed'
      /\ EditsSentAsAuthor'
  BY DEF SessionInv, SessionAgrees, AtHome, FreshAnswers, Fresh,
       InFlightIsUsers, CallsNamed, EditsSentAsAuthor, ReadArrives,
       NoRequest, Ended, page, store, marks
<1>3. DataStaysApart'
  <2>1. "read" \in astray \/ (read.as = db /\ db # Nobody)
    BY DEF SessionInv, InFlightIsUsers, AtHome, ReadArrives
  <2>2. TypeOK /\ DataStaysApart
    BY DEF SessionInv
  <2> QED BY <2>1, <2>2, KeepApart DEF ReadArrives
<1> QED
  BY <1>1, <1>2, <1>3 DEF SessionInv

(* A page's request fails. *)
LEMMA ReadFailsKeeps ==
    ASSUME SessionInv, ReadFails
    PROVE  SessionInv'
<1>1. TypeOK'
  BY Idle, Marked DEF SessionInv, TypeOK, ReadFails, page, store, marks
<1>2. SessionAgrees' /\ FreshAnswers' /\ InFlightIsUsers' /\ CallsNamed'
      /\ DataStaysApart' /\ EditsSentAsAuthor'
  BY DEF SessionInv, SessionAgrees, AtHome, FreshAnswers, Fresh,
       InFlightIsUsers, CallsNamed, DataStaysApart, EditsSentAsAuthor,
       ReadFails, NoRequest, Ended, page, store, marks
<1> QED
  BY <1>1, <1>2 DEF SessionInv

(* Another page is shown. *)
LEMMA NavigateKeeps ==
    ASSUME SessionInv, Navigate
    PROVE  SessionInv'
<1>1. TypeOK'
  BY DEF SessionInv, TypeOK, Navigate, calls, store, marks
<1>2. SessionAgrees' /\ FreshAnswers' /\ InFlightIsUsers' /\ CallsNamed'
      /\ DataStaysApart' /\ EditsSentAsAuthor'
  BY DEF SessionInv, SessionAgrees, AtHome, FreshAnswers, Fresh,
       InFlightIsUsers, CallsNamed, DataStaysApart, EditsSentAsAuthor,
       Navigate, calls, store, marks
<1> QED
  BY <1>1, <1>2 DEF SessionInv

(* An edit is queued in its author's database. *)
LEMMA EditOfflineKeeps ==
    ASSUME SessionInv, EditOffline
    PROVE  SessionInv'
<1>1. TypeOK'
  BY Spent, KeepTyped DEF SessionInv, TypeOK, EditOffline, SessionAgrees,
       Databases, Acts, page, calls, marks
<1>2. SessionAgrees' /\ FreshAnswers' /\ InFlightIsUsers' /\ CallsNamed'
      /\ EditsSentAsAuthor'
  BY DEF SessionInv, SessionAgrees, AtHome, FreshAnswers, Fresh,
       InFlightIsUsers, CallsNamed, EditsSentAsAuthor, EditOffline, page,
       calls, marks
<1>3. DataStaysApart'
  BY DEF SessionInv, DataStaysApart, SessionAgrees, Keep, TypeOK,
       EditOffline, page, calls, marks
<1> QED
  BY <1>1, <1>2, <1>3 DEF SessionInv

(* The network goes. *)
LEMMA LoseNetworkKeeps ==
    ASSUME SessionInv, LoseNetwork
    PROVE  SessionInv'
<1>1. TypeOK'
  BY Spent DEF SessionInv, TypeOK, LoseNetwork, Acts, page, calls, store,
       marks
<1>2. SessionAgrees' /\ FreshAnswers' /\ InFlightIsUsers' /\ CallsNamed'
      /\ DataStaysApart' /\ EditsSentAsAuthor'
  BY DEF SessionInv, SessionAgrees, AtHome, FreshAnswers, Fresh,
       InFlightIsUsers, CallsNamed, DataStaysApart, EditsSentAsAuthor,
       LoseNetwork, page, calls, store, marks
<1> QED
  BY <1>1, <1>2 DEF SessionInv

(* The network comes back. *)
LEMMA RegainNetworkKeeps ==
    ASSUME SessionInv, RegainNetwork
    PROVE  SessionInv'
<1>1. TypeOK'
  BY DEF SessionInv, TypeOK, RegainNetwork, page, calls, store, marks
<1>2. SessionAgrees' /\ FreshAnswers' /\ InFlightIsUsers' /\ CallsNamed'
      /\ DataStaysApart' /\ EditsSentAsAuthor'
  BY DEF SessionInv, SessionAgrees, AtHome, FreshAnswers, Fresh,
       InFlightIsUsers, CallsNamed, DataStaysApart, EditsSentAsAuthor,
       RegainNetwork, page, calls, store, marks
<1> QED
  BY <1>1, <1>2 DEF SessionInv

(* The cookie becomes worthless. *)
LEMMA ExpireKeeps ==
    ASSUME SessionInv, Expire
    PROVE  SessionInv'
<1>1. TypeOK'
  BY Spent DEF SessionInv, TypeOK, Expire, Acts, Databases, page, calls,
       store, marks
<1>2. SessionAgrees' /\ FreshAnswers' /\ InFlightIsUsers' /\ CallsNamed'
      /\ DataStaysApart' /\ EditsSentAsAuthor'
  BY DEF SessionInv, SessionAgrees, AtHome, FreshAnswers, Fresh,
       InFlightIsUsers, CallsNamed, DataStaysApart, EditsSentAsAuthor,
       Expire, page, calls, store, marks
<1> QED
  BY <1>1, <1>2 DEF SessionInv

-----------------------------------------------------------------------------
(* The first page of a device starts with no session and empty databases. *)
LEMMA InitKeeps ==
    ASSUME Init
    PROVE  SessionInv
<1>1. TypeOK
  <2>1. /\ held \in [Databases -> SUBSET Users]
        /\ queued \in [Databases -> SUBSET Users]
    BY DEF Init
  <2>2. user \in Databases /\ db \in Databases /\ cookie \in Databases
    BY DEF Init, Databases
  <2>3. seq \in Nat /\ me.seq <= seq
    BY Idle DEF Init
  <2>4. login \in Logins /\ logout \in Logouts
    BY Idle DEF Init
  <2>5. /\ me \in Requests /\ sync \in Requests
        /\ read \in Requests /\ flush \in Flushes
    BY Idle DEF Init
  <2>6. /\ sent \subseteq Replays /\ left \in [Acts -> Nat]
        /\ astray \subseteq {"me", "sync", "read", "flush"}
        /\ spilled \subseteq Databases
    BY BudgetAssumption DEF Init
  <2>7. /\ public \in BOOLEAN /\ authed \in BOOLEAN /\ signedIn \in BOOLEAN
        /\ registered \in BOOLEAN /\ online \in BOOLEAN /\ mixed \in BOOLEAN
    BY DEF Init
  <2> QED
    BY <2>1, <2>2, <2>3, <2>4, <2>5, <2>6, <2>7 DEF TypeOK
<1>2. SessionAgrees /\ FreshAnswers /\ InFlightIsUsers
  BY DEF Init, SessionAgrees, FreshAnswers, InFlightIsUsers, NoRequest, NoFlush
<1>3. CallsNamed
  BY DEF Init, CallsNamed, NoLogin, NoFlush
<1>4. DataStaysApart /\ EditsSentAsAuthor
  BY DEF Init, DataStaysApart, EditsSentAsAuthor
<1> QED
  BY <1>1, <1>2, <1>3, <1>4 DEF SessionInv

(* A stuttering step changes nothing the invariant speaks of. *)
LEMMA StutterKeeps ==
    ASSUME SessionInv, UNCHANGED vars
    PROVE  SessionInv'
<1> USE DEF vars, page, calls, store, marks
<1>1. TypeOK'
  BY DEF SessionInv, TypeOK
<1>2. SessionAgrees' /\ FreshAnswers' /\ InFlightIsUsers' /\ CallsNamed'
  BY DEF SessionInv, SessionAgrees, AtHome, FreshAnswers, Fresh,
         InFlightIsUsers, CallsNamed
<1>3. DataStaysApart' /\ EditsSentAsAuthor'
  BY DEF SessionInv, DataStaysApart, EditsSentAsAuthor
<1> QED
  BY <1>1, <1>2, <1>3 DEF SessionInv

(* Every step of the specification keeps the invariant. *)
LEMMA NextKeeps ==
    ASSUME SessionInv, Next
    PROVE  SessionInv'
<1>1. CASE Session
  BY <1>1, SubmitLoginKeeps, LoginSucceedsKeeps, LoginFailsKeeps,
     LoginEntersKeeps, LogoutKeeps, LogoutAnsweredKeeps, LogoutDoneKeeps,
     LoadUserKeeps, MeConfirmsKeeps, MeUnansweredKeeps, MeDeniedKeeps,
     DeniedKeeps
     DEF Session
<1>2. CASE Background
  BY <1>2, StartSyncKeeps, SyncArrivesKeeps, SyncFailsKeeps, StartFlushKeeps,
     FlushSendsKeeps, FlushArrivesKeeps, FlushBreaksKeeps, FlushEndsKeeps
     DEF Background
<1>3. CASE World
  BY <1>3, BrowseKeeps, ReadArrivesKeeps, ReadFailsKeeps, NavigateKeeps,
     EditOfflineKeeps, ReloadKeeps, LoseNetworkKeeps, RegainNetworkKeeps,
     ExpireKeeps
     DEF World
<1> QED
  BY <1>1, <1>2, <1>3 DEF Next

(* SessionInv is an invariant: whatever login, logout, loadUser, the 401   *)
(* interceptor, the loops and the pages do between their awaits, on a      *)
(* public page with the gate open too, a call that works for a user other  *)
(* than the database's is one that a change of session overtook, or that   *)
(* started in a mixed session.                                             *)
THEOREM SessionInductive == Spec => []SessionInv
<1>1. Init => SessionInv
  BY InitKeeps
<1>2. SessionInv /\ [Next]_vars => SessionInv'
  BY NextKeeps, StutterKeeps
<1> QED
  BY <1>1, <1>2, PTL DEF Spec

(* An edit is queued in its author's database, always; a row of another    *)
(* user comes into a database only by the answer to a call that is astray  *)
(* (authStore.ts:77-78).                                                   *)
THEOREM DataNeverCrossesUsers == Spec => []DataStaysApart
<1>1. SessionInv => DataStaysApart
  BY DEF SessionInv
<1> QED
  BY SessionInductive, <1>1, PTL

(* flush sends a queued edit with the cookie of the user who made it,      *)
(* unless a change of session overtook it (mutationQueue.ts:165-170).      *)
THEOREM EditsNeverCrossUsers == Spec => []EditsSentAsAuthor
<1>1. SessionInv => EditsSentAsAuthor
  BY DEF SessionInv
<1> QED
  BY SessionInductive, <1>1, PTL

(* The store and the database name one user, and while isAuthed()          *)
(* (authGate.ts:16-18) so does the cookie, in a session that is not mixed. *)
THEOREM OpenGateIsOneUser == Spec => []GateMatchesSession
<1>1. SessionInv => GateMatchesSession
  BY DEF SessionInv, SessionAgrees, AtHome, GateMatchesSession
<1> QED
  BY SessionInductive, <1>1, PTL

(* Every variable keeps its type; in particular only a user's edits are    *)
(* ever queued or replayed.                                                *)
THEOREM SessionTypeCorrect == Spec => []TypeOK
<1>1. SessionInv => TypeOK
  BY DEF SessionInv
<1> QED
  BY SessionInductive, <1>1, PTL
=============================================================================
