------------------------------ MODULE Realtime ------------------------------
(***************************************************************************)
(* The page's WebSocket manager and the server's room for one trip.        *)
(*                                                                         *)
(* connect and disconnect are called by the auth store, joinTrip and       *)
(* leaveTrip by the trip page, all of them at any time; between them run   *)
(* the await of the one-time token, the socket's callbacks and the         *)
(* reconnect timer.  Trips share nothing but the socket, so one is         *)
(* modelled.  The server may have dropped a socket that the page still     *)
(* takes for open, and a socket may be closing for a while before its      *)
(* onclose runs.                                                           *)
(***************************************************************************)
EXTENDS Integers, Sequences

CONSTANTS
    MaxSockets,  \* sockets the page creates (bound)
    MaxWire,     \* join and leave messages under way on a socket (bound)
    Nil

Sockets == 1 .. MaxSockets

ASSUME RealtimeAssumption ==
    /\ MaxSockets \in Nat \ {0} /\ MaxWire \in Nat \ {0} /\ Nil \notin Nat

VARIABLES
    should,     \* shouldReconnect
    fetching,   \* connecting: the token is awaited
    timer,      \* reconnectTimer
    socket,     \* socket, or Nil
    state,      \* per socket: readyState, "none" before it is made
    muted,      \* the sockets whose onclose was set to null
    opened,     \* sockets made so far
    active,     \* is the trip in activeTrips
    hooks,      \* the sockets whose onopen awaits preReconnectHook
    wire,       \* per socket: joins and leaves the server has not read
    up,         \* the sockets the server holds
    room,       \* rooms.get(trip)
    late,       \* history: sockets made while shouldReconnect was false
    crossed     \* history: a socket was made while an older one was closing

page == <<should, fetching, timer, socket, state, muted, opened, active, hooks>>
server == <<up, room>>
histories == <<late, crossed>>
realtimeVars == <<page, wire, server, histories>>

RealtimeInit ==
    /\ should = "no" /\ fetching = "no" /\ timer = "off"
    /\ socket = Nil /\ state = [s \in Sockets |-> "none"]
    /\ muted = {} /\ opened = 0
    /\ active = "no" /\ hooks = {}
    /\ wire = [s \in Sockets |-> << >>] /\ up = {} /\ room = {}
    /\ late = {} /\ crossed = "no"

Running == {"connecting", "open"}
IsOpen == socket # Nil /\ state[socket] = "open"

(* Mutant: a trip is left without a word. *)
SayJoin(msg) ==
    wire' = IF IsOpen /\ msg = "join" THEN [wire EXCEPT ![socket] = Append(@, msg)] ELSE wire

(* joinTrip and leaveTrip speak only on an open socket, as does onopen. *)
Say(msg) == wire' = IF IsOpen THEN [wire EXCEPT ![socket] = Append(@, msg)] ELSE wire

-----------------------------------------------------------------------------
(* Connecting. *)

(* Mutant: the current socket is not looked at. *)
ConnectAlways == fetching' = "yes"

(* connectInternal, up to its await of the token. *)
ConnectInternal ==
    fetching' = IF socket # Nil /\ state[socket] \in Running THEN fetching ELSE "yes"

Connect ==
    /\ should' = "yes" /\ timer' = "off"
    /\ ConnectInternal
    /\ UNCHANGED <<socket, state, muted, opened, active, hooks, wire, server, histories>>

TimerFires ==
    /\ timer = "armed"
    /\ timer' = "off"
    /\ IF should = "yes" THEN ConnectInternal ELSE UNCHANGED fetching
    /\ UNCHANGED <<should, socket, state, muted, opened, active, hooks, wire, server, histories>>

(* The token arrives: a socket is made, whatever happened in the meantime. *)
TokenArrives ==
    /\ fetching = "yes" /\ opened < MaxSockets
    /\ fetching' = "no"
    /\ opened' = opened + 1 /\ socket' = opened + 1
    /\ state' = [state EXCEPT ![opened + 1] = "connecting"]
    /\ late' = IF should = "no" THEN late \cup {opened + 1} ELSE late
    /\ crossed' = IF socket # Nil /\ state[socket] = "closing" THEN "yes" ELSE crossed
    /\ UNCHANGED <<should, timer, muted, active, hooks, wire, server>>

TokenFails ==
    /\ fetching = "yes"
    /\ fetching' = "no"
    /\ timer' = IF should = "yes" THEN "armed" ELSE timer
    /\ UNCHANGED <<should, socket, state, muted, opened, active, hooks, wire, server, histories>>

(* 401: the session is over, no more attempts. *)
TokenRefused ==
    /\ fetching = "yes"
    /\ fetching' = "no" /\ should' = "no"
    /\ UNCHANGED <<timer, socket, state, muted, opened, active, hooks, wire, server, histories>>

(* The server has taken the socket and onopen runs: it joins the trip on    *)
(* the current socket, which need not be s, then awaits the hook.           *)
Opens(s) ==
    /\ state[s] = "connecting"
    /\ state' = [state EXCEPT ![s] = "open"]
    /\ up' = up \cup {s}
    /\ IF active = "yes"
       THEN /\ hooks' = hooks \cup {s}
            /\ wire' = IF socket # Nil /\ (socket = s \/ state[socket] = "open")
                       THEN [wire EXCEPT ![socket] = Append(@, "join")] ELSE wire
       ELSE UNCHANGED <<hooks, wire>>
    /\ UNCHANGED <<should, fetching, timer, socket, muted, opened, active, room, histories>>

(* The hook, a flush of the queue, is over or failed: the refetch starts. *)
HookDone(s) ==
    /\ s \in hooks
    /\ hooks' = hooks \ {s}
    /\ UNCHANGED <<should, fetching, timer, socket, state, muted, opened, active,
                   wire, server, histories>>

-----------------------------------------------------------------------------
(* Closing. *)

(* The close frame of the server has come, the connection is still up. *)
CloseFrame(s) ==
    /\ state[s] = "open" /\ s \notin up
    /\ state' = [state EXCEPT ![s] = "closing"]
    /\ UNCHANGED <<should, fetching, timer, socket, muted, opened, active, hooks,
                   wire, server, histories>>

(* Mutant: a socket that never opened is not tried again. *)
ClosesForGood(s) ==
    /\ state[s] \in {"connecting", "open", "closing"}
    /\ state' = [state EXCEPT ![s] = "closed"]
    /\ socket' = IF s \in muted THEN socket ELSE Nil
    /\ timer' = IF s \notin muted /\ should = "yes" /\ state[s] # "connecting" THEN "armed" ELSE timer
    /\ UNCHANGED <<should, fetching, muted, opened, active, hooks, wire, server, histories>>

(* onclose: a failed connect, a finished close or a lost network. *)
Closes(s) ==
    /\ state[s] \in {"connecting", "open", "closing"}
    /\ state' = [state EXCEPT ![s] = "closed"]
    /\ IF s \in muted
       THEN UNCHANGED <<socket, timer>>
       ELSE socket' = Nil /\ timer' = IF should = "yes" THEN "armed" ELSE timer
    /\ UNCHANGED <<should, fetching, muted, opened, active, hooks, wire, server, histories>>

(* Mutant: the socket is forgotten, not closed. *)
DisconnectForgetting ==
    /\ should' = "no" /\ timer' = "off" /\ active' = "no"
    /\ socket' = Nil
    /\ UNCHANGED <<fetching, state, muted, opened, hooks, wire, server, histories>>

Disconnect ==
    /\ should' = "no" /\ timer' = "off" /\ active' = "no"
    /\ IF socket = Nil
       THEN UNCHANGED <<socket, state, muted>>
       ELSE /\ muted' = muted \cup {socket}
            /\ state' = [state EXCEPT ![socket] = "closing"]
            /\ socket' = Nil
    /\ UNCHANGED <<fetching, opened, hooks, wire, server, histories>>

-----------------------------------------------------------------------------
(* The trip page, and the server. *)

JoinTrip ==
    /\ active = "no"
    /\ IsOpen => Len(wire[socket]) < MaxWire
    /\ active' = "yes" /\ Say("join")
    /\ UNCHANGED <<should, fetching, timer, socket, state, muted, opened, hooks, server, histories>>

LeaveTrip ==
    /\ active = "yes"
    /\ IsOpen => Len(wire[socket]) < MaxWire
    /\ active' = "no" /\ Say("leave")
    /\ UNCHANGED <<should, fetching, timer, socket, state, muted, opened, hooks, server, histories>>

ServerReads(s) ==
    /\ s \in up /\ wire[s] # << >>
    /\ room' = IF Head(wire[s]) = "join" THEN room \cup {s} ELSE room \ {s}
    /\ wire' = [wire EXCEPT ![s] = Tail(@)]
    /\ UNCHANGED <<page, up, histories>>

(* The heartbeat found it dead, a close arrived, or the server went down. *)
ServerCloses(s) ==
    /\ s \in up
    /\ up' = up \ {s} /\ room' = room \ {s}
    /\ wire' = [wire EXCEPT ![s] = << >>]
    /\ UNCHANGED <<page, histories>>

RealtimeNext ==
    \/ Connect \/ Disconnect \/ TimerFires
    \/ TokenArrives \/ TokenFails \/ TokenRefused
    \/ JoinTrip \/ LeaveTrip
    \/ \E s \in Sockets :
         \/ Opens(s) \/ HookDone(s) \/ CloseFrame(s) \/ Closes(s)
         \/ ServerReads(s) \/ ServerCloses(s)

(* Timers fire, awaits and callbacks come. *)
RealtimeFairness ==
    /\ WF_realtimeVars(TimerFires)
    /\ WF_realtimeVars(TokenArrives \/ TokenFails \/ TokenRefused)
    /\ \A s \in Sockets : /\ WF_realtimeVars(state[s] # "open" /\ (Opens(s) \/ Closes(s)))
                          /\ WF_realtimeVars(ServerReads(s))

RealtimeSpec == RealtimeInit /\ [][RealtimeNext]_realtimeVars /\ RealtimeFairness

-----------------------------------------------------------------------------
(* Properties. *)

(* Type invariant. *)
RealtimeTypeOK ==
    /\ should \in {"yes", "no"} /\ fetching \in {"yes", "no"} /\ timer \in {"off", "armed"}
    /\ socket \in Sockets \cup {Nil}
    /\ state \in [Sockets -> {"none", "connecting", "open", "closing", "closed"}]
    /\ muted \subseteq Sockets /\ opened \in 0 .. MaxSockets
    /\ active \in {"yes", "no"} /\ hooks \subseteq Sockets
    /\ wire \in [Sockets -> Seq({"join", "leave"})]
    /\ up \subseteq Sockets /\ room \subseteq Sockets
    /\ late \subseteq Sockets /\ crossed \in {"yes", "no"}

(* A page that wants the connection is never left without an attempt under  *)
(* way: whatever the order of the token's await, the callbacks and connect  *)
(* and disconnect, a token, a timer or the onclose of a socket is still due. *)
NeverStranded ==
    should = "yes" =>
        \/ fetching = "yes"
        \/ timer = "armed"
        \/ socket # Nil /\ state[socket] \in {"connecting", "open", "closing"}

(* The page holds at most one running socket, the one it knows; only a      *)
(* connect while the old socket is still closing can lose track of one.     *)
OneSocket ==
    crossed = "no" => \A s \in Sockets : state[s] \in Running => s = socket

(* After disconnect, or a 401, no socket runs, save one whose token was     *)
(* awaited when disconnect was called.                                      *)
QuietAfterDisconnect ==
    should = "no" /\ crossed = "no" =>
        \A s \in Sockets : state[s] \in Running => s \in late

(* Once the server has read what the page said on its open socket, it is in *)
(* the room exactly if the trip is open on the page: a reconnect joins      *)
(* again, and a leave or a join during the reconnect is not lost.           *)
RoomFollowsPage ==
    IsOpen /\ socket \in up /\ wire[socket] = << >> =>
        (socket \in room <=> active = "yes")

(* What makes the above inductive: the current socket is not closed and, if *)
(* none was lost track of, the only one with an onclose to run; the server  *)
(* knows a socket only after it opened; and the last message under way says *)
(* what activeTrips says.                                                   *)
CurrentInv ==
    /\ socket # Nil => state[socket] \in {"connecting", "open", "closing"} /\ socket \notin muted
    /\ crossed = "no" /\ fetching = "yes" /\ socket # Nil => state[socket] = "closing"
    /\ crossed = "no" => \A s \in Sockets \ muted :
                            state[s] \in {"connecting", "open", "closing"} => s = socket

LifeInv ==
    \A s \in Sockets :
        /\ s > opened <=> state[s] = "none"
        /\ s \in muted => state[s] \in {"closing", "closed"}
        /\ s \in room => s \in up
        /\ state[s] \in {"none", "connecting"} => s \notin up /\ wire[s] = << >>

Tracks(s) ==
    IF wire[s] = << >> THEN s \in room <=> active = "yes"
    ELSE wire[s][Len(wire[s])] = "join" <=> active = "yes"

TracksInv == IsOpen /\ socket \in up => Tracks(socket)

RealtimeInv ==
    /\ RealtimeTypeOK /\ CurrentInv /\ LifeInv /\ TracksInv
    /\ NeverStranded /\ QuietAfterDisconnect

=============================================================================
