------------------------- MODULE TripReplicaProofs -------------------------
(***************************************************************************)
(* The connection and the list it feeds.  Of Realtime: one socket at most, *)
(* none after disconnect, an attempt always under way, and the room that   *)
(* follows the page.  Of TripReplica: the list of a day never shows a row  *)
(* twice, whatever the order of the answers, echoes, refetches, fallbacks  *)
(* and rollbacks; and when nothing is under way it shows the server's rows *)
(* exactly.  For any number of sockets, messages, requests, rows and other *)
(* members' edits.                                                         *)
(***************************************************************************)
EXTENDS TripReplica, SequenceTheorems, TLAPS

-----------------------------------------------------------------------------
(* The connection. *)

LEMMA SocketFacts == Nil \notin Sockets /\ \A s \in Sockets : s \in Nat
  BY RealtimeAssumption DEF Sockets

LEMMA LastAppended ==
    ASSUME NEW q \in Seq({"join", "leave"}), NEW msg \in {"join", "leave"}
    PROVE  /\ Append(q, msg) \in Seq({"join", "leave"}) /\ Append(q, msg) # << >>
           /\ Append(q, msg)[Len(Append(q, msg))] = msg
  BY AppendProperties

LEMMA LastOfTail ==
    ASSUME NEW q \in Seq({"join", "leave"}), q # << >>
    PROVE  /\ Tail(q) = << >> => q[Len(q)] = Head(q)
           /\ Tail(q) # << >> => Tail(q)[Len(Tail(q))] = q[Len(q)]
<1>1. /\ Tail(q) \in Seq({"join", "leave"}) /\ Len(Tail(q)) = Len(q) - 1
      /\ \A i \in 1 .. Len(Tail(q)) : Tail(q)[i] = q[i + 1]
      /\ Len(q) \in Nat \ {0}
  BY HeadTailProperties, EmptySeq
<1>2. Tail(q) = << >> => Len(q) = 1
  <2>1. Tail(q) = << >> => Len(Tail(q)) = 0
    BY EmptySeq
  <2> QED
    BY <1>1, <2>1
<1>4. Head(q) = q[1]
  OBVIOUS
<1>3. Tail(q) # << >> => Len(Tail(q)) \in Nat \ {0}
  BY <1>1, EmptySeq
<1> QED
  BY <1>1, <1>2, <1>3, <1>4

LEMMA RealtimeTypeStep ==
    ASSUME RealtimeTypeOK, LifeInv, [RealtimeNext]_realtimeVars PROVE RealtimeTypeOK'
<1> USE RealtimeAssumption, SocketFacts DEF RealtimeTypeOK, page, server, histories
<1>1. CASE Connect
  BY <1>1 DEF Connect, ConnectInternal
<1>2. CASE Disconnect
  BY <1>2 DEF Disconnect
<1>3. CASE TimerFires
  BY <1>3 DEF TimerFires, ConnectInternal
<1>4. CASE TokenArrives
  BY <1>4 DEF TokenArrives, Sockets
<1>5. CASE TokenFails
  BY <1>5 DEF TokenFails
<1>6. CASE TokenRefused
  BY <1>6 DEF TokenRefused
<1>7. CASE JoinTrip
  BY <1>7 DEF JoinTrip, Say, IsOpen
<1>8. CASE LeaveTrip
  BY <1>8 DEF LeaveTrip, Say, IsOpen
<1>9. ASSUME NEW s \in Sockets, Opens(s) PROVE RealtimeTypeOK'
  <2>1. wire' \in [Sockets -> Seq({"join", "leave"})]
    <3>1. CASE wire' = wire
      BY <3>1
    <3>2. CASE socket # Nil /\ wire' = [wire EXCEPT ![socket] = Append(@, "join")]
      <4>1. socket \in Sockets /\ Append(wire[socket], "join") \in Seq({"join", "leave"})
        BY <3>2, LastAppended
      <4> QED
        BY <3>2, <4>1
    <3> QED
      BY <1>9, <3>1, <3>2 DEF Opens
  <2> QED
    BY <1>9, <2>1 DEF Opens
<1>10. ASSUME NEW s \in Sockets, HookDone(s) PROVE RealtimeTypeOK'
  BY <1>10 DEF HookDone
<1>11. ASSUME NEW s \in Sockets, CloseFrame(s) PROVE RealtimeTypeOK'
  BY <1>11 DEF CloseFrame
<1>12. ASSUME NEW s \in Sockets, Closes(s) PROVE RealtimeTypeOK'
  BY <1>12 DEF Closes
<1>13. ASSUME NEW s \in Sockets, ServerReads(s) PROVE RealtimeTypeOK'
  BY <1>13 DEF ServerReads
<1>14. ASSUME NEW s \in Sockets, ServerCloses(s) PROVE RealtimeTypeOK'
  BY <1>14 DEF ServerCloses
<1>15. CASE UNCHANGED realtimeVars
  BY <1>15 DEF realtimeVars
<1> QED
  BY <1>1, <1>2, <1>3, <1>4, <1>5, <1>6, <1>7, <1>8, <1>9, <1>10, <1>11, <1>12, <1>13, <1>14, <1>15 DEF RealtimeNext

LEMMA CurrentStep ==
    ASSUME RealtimeTypeOK, CurrentInv, LifeInv, [RealtimeNext]_realtimeVars PROVE CurrentInv'
<1> USE RealtimeAssumption, SocketFacts DEF RealtimeTypeOK, CurrentInv, page, server, histories
<1>1. CASE Connect
  BY <1>1 DEF Connect, ConnectInternal, Running
<1>2. CASE Disconnect
  BY <1>2 DEF Disconnect
<1>3. CASE TimerFires
  BY <1>3 DEF TimerFires, ConnectInternal, Running
<1>4. CASE TokenArrives
  <2>0. opened + 1 \in Sockets /\ opened + 1 > opened
    BY <1>4 DEF TokenArrives, Sockets
  <2>1. state[opened + 1] = "none" /\ opened + 1 \notin muted
    BY <2>0 DEF LifeInv
  <2>2. /\ socket' = opened + 1 /\ UNCHANGED muted /\ fetching' = "no"
        /\ \A s \in Sockets : state'[s] = IF s = opened + 1 THEN "connecting" ELSE state[s]
        /\ crossed' = "no" => crossed = "no" /\ (socket # Nil => state[socket] # "closing")
    BY <1>4 DEF TokenArrives
  <2>3. fetching = "yes"
    BY <1>4 DEF TokenArrives
  <2>4. crossed' = "no" => socket = Nil /\ crossed = "no"
    BY <2>2, <2>3
  <2>5. socket' # Nil => state'[socket'] \in {"connecting", "open", "closing"} /\ socket' \notin muted'
    BY <2>0, <2>1, <2>2
  <2>6. crossed' = "no" /\ fetching' = "yes" /\ socket' # Nil => state'[socket'] = "closing"
    BY <2>2
  <2>7. ASSUME crossed' = "no", NEW s \in Sockets \ muted',
               state'[s] \in {"connecting", "open", "closing"}
        PROVE  s = socket'
    BY <2>0, <2>2, <2>4, <2>7
  <2> QED
    BY <2>5, <2>6, <2>7
<1>5. CASE TokenFails
  BY <1>5 DEF TokenFails
<1>6. CASE TokenRefused
  BY <1>6 DEF TokenRefused
<1>7. CASE JoinTrip
  BY <1>7 DEF JoinTrip
<1>8. CASE LeaveTrip
  BY <1>8 DEF LeaveTrip
<1>9. ASSUME NEW s \in Sockets, Opens(s) PROVE CurrentInv'
  BY <1>9 DEF Opens
<1>10. ASSUME NEW s \in Sockets, HookDone(s) PROVE CurrentInv'
  BY <1>10 DEF HookDone
<1>11. ASSUME NEW s \in Sockets, CloseFrame(s) PROVE CurrentInv'
  BY <1>11 DEF CloseFrame
<1>12. ASSUME NEW s \in Sockets, Closes(s) PROVE CurrentInv'
  BY <1>12 DEF Closes
<1>13. ASSUME NEW s \in Sockets, ServerReads(s) PROVE CurrentInv'
  BY <1>13 DEF ServerReads
<1>14. ASSUME NEW s \in Sockets, ServerCloses(s) PROVE CurrentInv'
  BY <1>14 DEF ServerCloses
<1>15. CASE UNCHANGED realtimeVars
  BY <1>15 DEF realtimeVars
<1> QED
  BY <1>1, <1>2, <1>3, <1>4, <1>5, <1>6, <1>7, <1>8, <1>9, <1>10, <1>11, <1>12, <1>13, <1>14, <1>15 DEF RealtimeNext

LEMMA LifeStep ==
    ASSUME RealtimeTypeOK, CurrentInv, LifeInv, [RealtimeNext]_realtimeVars PROVE LifeInv'
<1> USE RealtimeAssumption, SocketFacts DEF RealtimeTypeOK, LifeInv, page, server, histories
<1>1. CASE Connect
  BY <1>1 DEF Connect
<1>2. CASE Disconnect
  BY <1>2 DEF Disconnect, CurrentInv
<1>3. CASE TimerFires
  BY <1>3 DEF TimerFires
<1>4. CASE TokenArrives
  <2>1. opened + 1 \in Sockets /\ opened \in Nat /\ \A s \in Sockets : s \in Nat
    BY <1>4 DEF TokenArrives, Sockets
  <2>0. opened + 1 > opened
    BY <2>1
  <2>2. state[opened + 1] = "none" /\ opened + 1 \notin muted
    BY <2>0, <2>1
  <2>3. /\ opened' = opened + 1
        /\ \A s \in Sockets : state'[s] = IF s = opened + 1 THEN "connecting" ELSE state[s]
        /\ UNCHANGED <<muted, room, up, wire>>
    BY <1>4 DEF TokenArrives
  <2> QED
    BY <2>1, <2>2, <2>3
<1>5. CASE TokenFails
  BY <1>5 DEF TokenFails
<1>6. CASE TokenRefused
  BY <1>6 DEF TokenRefused
<1>7. CASE JoinTrip
  BY <1>7 DEF JoinTrip, Say, IsOpen
<1>8. CASE LeaveTrip
  BY <1>8 DEF LeaveTrip, Say, IsOpen
<1>9. ASSUME NEW s \in Sockets, Opens(s) PROVE LifeInv'
  BY <1>9 DEF Opens
<1>10. ASSUME NEW s \in Sockets, HookDone(s) PROVE LifeInv'
  BY <1>10 DEF HookDone
<1>11. ASSUME NEW s \in Sockets, CloseFrame(s) PROVE LifeInv'
  BY <1>11 DEF CloseFrame
<1>12. ASSUME NEW s \in Sockets, Closes(s) PROVE LifeInv'
  BY <1>12 DEF Closes
<1>13. ASSUME NEW s \in Sockets, ServerReads(s) PROVE LifeInv'
  BY <1>13 DEF ServerReads
<1>14. ASSUME NEW s \in Sockets, ServerCloses(s) PROVE LifeInv'
  BY <1>14 DEF ServerCloses
<1>15. CASE UNCHANGED realtimeVars
  BY <1>15 DEF realtimeVars
<1> QED
  BY <1>1, <1>2, <1>3, <1>4, <1>5, <1>6, <1>7, <1>8, <1>9, <1>10, <1>11, <1>12, <1>13, <1>14, <1>15 DEF RealtimeNext

LEMMA TracksStep ==
    ASSUME RealtimeTypeOK, CurrentInv, LifeInv, TracksInv, [RealtimeNext]_realtimeVars PROVE TracksInv'
<1> USE RealtimeAssumption, SocketFacts DEF RealtimeTypeOK, TracksInv, Tracks, IsOpen, page, server, histories
<1>1. CASE Connect
  BY <1>1 DEF Connect
<1>2. CASE Disconnect
  BY <1>2 DEF Disconnect
<1>3. CASE TimerFires
  BY <1>3 DEF TimerFires
<1>4. CASE TokenArrives
  BY <1>4 DEF TokenArrives, Sockets, LifeInv
<1>5. CASE TokenFails
  BY <1>5 DEF TokenFails
<1>6. CASE TokenRefused
  BY <1>6 DEF TokenRefused
<1>7. CASE JoinTrip
  BY <1>7, LastAppended DEF JoinTrip, Say
<1>8. CASE LeaveTrip
  BY <1>8, LastAppended DEF LeaveTrip, Say
<1>9. ASSUME NEW s \in Sockets, Opens(s) PROVE TracksInv'
  BY <1>9, LastAppended DEF Opens, LifeInv
<1>10. ASSUME NEW s \in Sockets, HookDone(s) PROVE TracksInv'
  BY <1>10 DEF HookDone
<1>11. ASSUME NEW s \in Sockets, CloseFrame(s) PROVE TracksInv'
  BY <1>11 DEF CloseFrame
<1>12. ASSUME NEW s \in Sockets, Closes(s) PROVE TracksInv'
  BY <1>12 DEF Closes
<1>13. ASSUME NEW s \in Sockets, ServerReads(s) PROVE TracksInv'
  BY <1>13, LastOfTail DEF ServerReads
<1>14. ASSUME NEW s \in Sockets, ServerCloses(s) PROVE TracksInv'
  BY <1>14 DEF ServerCloses
<1>15. CASE UNCHANGED realtimeVars
  BY <1>15 DEF realtimeVars
<1> QED
  BY <1>1, <1>2, <1>3, <1>4, <1>5, <1>6, <1>7, <1>8, <1>9, <1>10, <1>11, <1>12, <1>13, <1>14, <1>15 DEF RealtimeNext

LEMMA StrandedStep ==
    ASSUME RealtimeTypeOK, CurrentInv, LifeInv, NeverStranded, [RealtimeNext]_realtimeVars
    PROVE  NeverStranded'
<1> USE RealtimeAssumption, SocketFacts DEF RealtimeTypeOK, NeverStranded, page, server, histories
<1>1. CASE Connect
  BY <1>1 DEF Connect, ConnectInternal, Running
<1>2. CASE Disconnect
  BY <1>2 DEF Disconnect
<1>3. CASE TimerFires
  BY <1>3 DEF TimerFires, ConnectInternal, Running
<1>4. CASE TokenArrives
  BY <1>4 DEF TokenArrives, Sockets
<1>5. CASE TokenFails
  BY <1>5 DEF TokenFails
<1>6. CASE TokenRefused
  BY <1>6 DEF TokenRefused
<1>7. CASE JoinTrip
  BY <1>7 DEF JoinTrip
<1>8. CASE LeaveTrip
  BY <1>8 DEF LeaveTrip
<1>9. ASSUME NEW s \in Sockets, Opens(s) PROVE NeverStranded'
  BY <1>9 DEF Opens
<1>10. ASSUME NEW s \in Sockets, HookDone(s) PROVE NeverStranded'
  BY <1>10 DEF HookDone
<1>11. ASSUME NEW s \in Sockets, CloseFrame(s) PROVE NeverStranded'
  BY <1>11 DEF CloseFrame
<1>12. ASSUME NEW s \in Sockets, Closes(s) PROVE NeverStranded'
  BY <1>12 DEF Closes, CurrentInv
<1>13. ASSUME NEW s \in Sockets, ServerReads(s) PROVE NeverStranded'
  BY <1>13 DEF ServerReads
<1>14. ASSUME NEW s \in Sockets, ServerCloses(s) PROVE NeverStranded'
  BY <1>14 DEF ServerCloses
<1>15. CASE UNCHANGED realtimeVars
  BY <1>15 DEF realtimeVars
<1> QED
  BY <1>1, <1>2, <1>3, <1>4, <1>5, <1>6, <1>7, <1>8, <1>9, <1>10, <1>11, <1>12, <1>13, <1>14, <1>15 DEF RealtimeNext

LEMMA OneSocketHolds == CurrentInv /\ LifeInv => OneSocket
  BY DEF CurrentInv, LifeInv, OneSocket, Running

LEMMA QuietStep ==
    ASSUME RealtimeTypeOK, CurrentInv, LifeInv, QuietAfterDisconnect,
           [RealtimeNext]_realtimeVars
    PROVE  QuietAfterDisconnect'
<1> USE RealtimeAssumption, SocketFacts
    DEF RealtimeTypeOK, QuietAfterDisconnect, Running, page, server, histories
<1>1. CASE Connect
  BY <1>1 DEF Connect
<1>2. CASE Disconnect
  BY <1>2, OneSocketHolds DEF Disconnect, OneSocket
<1>3. CASE TimerFires
  BY <1>3 DEF TimerFires
<1>4. CASE TokenArrives
  BY <1>4 DEF TokenArrives, Sockets
<1>5. CASE TokenFails
  BY <1>5 DEF TokenFails
<1>6. CASE TokenRefused
  BY <1>6, OneSocketHolds DEF TokenRefused, CurrentInv, OneSocket
<1>7. CASE JoinTrip
  BY <1>7 DEF JoinTrip
<1>8. CASE LeaveTrip
  BY <1>8 DEF LeaveTrip
<1>9. ASSUME NEW s \in Sockets, Opens(s) PROVE QuietAfterDisconnect'
  BY <1>9 DEF Opens
<1>10. ASSUME NEW s \in Sockets, HookDone(s) PROVE QuietAfterDisconnect'
  BY <1>10 DEF HookDone
<1>11. ASSUME NEW s \in Sockets, CloseFrame(s) PROVE QuietAfterDisconnect'
  BY <1>11 DEF CloseFrame
<1>12. ASSUME NEW s \in Sockets, Closes(s) PROVE QuietAfterDisconnect'
  BY <1>12 DEF Closes
<1>13. ASSUME NEW s \in Sockets, ServerReads(s) PROVE QuietAfterDisconnect'
  BY <1>13 DEF ServerReads
<1>14. ASSUME NEW s \in Sockets, ServerCloses(s) PROVE QuietAfterDisconnect'
  BY <1>14 DEF ServerCloses
<1>15. CASE UNCHANGED realtimeVars
  BY <1>15 DEF realtimeVars
<1> QED
  BY <1>1, <1>2, <1>3, <1>4, <1>5, <1>6, <1>7, <1>8, <1>9, <1>10, <1>11, <1>12, <1>13, <1>14, <1>15 DEF RealtimeNext

(* The connection's inductive invariant. *)
THEOREM RealtimeInvariant == RealtimeSpec => []RealtimeInv
<1>1. RealtimeInit => RealtimeInv
  BY RealtimeAssumption, SocketFacts
     DEF RealtimeInit, RealtimeInv, RealtimeTypeOK, CurrentInv, LifeInv, TracksInv, IsOpen,
         NeverStranded, QuietAfterDisconnect, Running, Sockets
<1>2. RealtimeInv /\ [RealtimeNext]_realtimeVars => RealtimeInv'
  BY RealtimeTypeStep, CurrentStep, LifeStep, TracksStep, StrandedStep, QuietStep
     DEF RealtimeInv
<1> QED
  BY <1>1, <1>2, PTL DEF RealtimeSpec

(* A page that wants the connection always has an attempt under way. *)
THEOREM RealtimeNeverStranded == RealtimeSpec => []NeverStranded
<1>1. RealtimeInv => NeverStranded
  BY DEF RealtimeInv
<1> QED
  BY <1>1, RealtimeInvariant, PTL

(* At most one socket runs, unless one was made while another was closing. *)
THEOREM RealtimeOneSocket == RealtimeSpec => []OneSocket
<1>1. RealtimeInv => OneSocket
  BY OneSocketHolds DEF RealtimeInv
<1> QED
  BY <1>1, RealtimeInvariant, PTL

(* No socket runs after disconnect, save one whose token was awaited then. *)
THEOREM RealtimeQuiet == RealtimeSpec => []QuietAfterDisconnect
<1>1. RealtimeInv => QuietAfterDisconnect
  BY DEF RealtimeInv
<1> QED
  BY <1>1, RealtimeInvariant, PTL

(* The room follows the page once its messages are read. *)
THEOREM RealtimeRoomFollows == RealtimeSpec => []RoomFollowsPage
<1>1. RealtimeInv => RoomFollowsPage
  BY DEF RealtimeInv, TracksInv, Tracks, RoomFollowsPage
<1> QED
  BY <1>1, RealtimeInvariant, PTL

-----------------------------------------------------------------------------
(* The list of a day. *)

LEMMA KeyFacts ==
    /\ \A i \in Rows : i \in Keys /\ i \in Nat /\ i >= 1
    /\ \A c \in Reqs : 0 - c \in Keys /\ 0 - c \notin Rows /\ c \in Nat
    /\ \A c, d \in Reqs : 0 - c = 0 - d => c = d
    /\ Nil \notin Rows
    /\ \A k \in Temps : 0 - k \in Reqs /\ k = 0 - (0 - k) /\ k \in Keys
    /\ Keys = Rows \cup Temps
  BY ReplicaAssumption, RealtimeAssumption DEF Rows, Reqs, Temps, Keys

LEMMA OlderRow ==
    ASSUME NEW i \in Rows, NEW n \in Nat, i <= n
    PROVE  i \in Keys /\ i <= n + 1 /\ i # n + 1
  BY DEF Rows, Keys

(* A list that has no temporary rows. *)
LEMMA PlainGood ==
    ASSUME NEW S \in SUBSET Rows, \A i \in S : i <= born
    PROVE  GoodList(ListOf(S))
  BY KeyFacts DEF GoodList, ListOf, Created

(* A list with some rows left out, a rolled back one and the empty one.     *)
LEMMA OnlyGood ==
    ASSUME ReplicaInv, NEW rows \in SUBSET Rows
    PROVE  GoodList(Only(rows))
  BY KeyFacts DEF ReplicaInv, ListsInv, RequestsInv, GoodList, Created, Only

LEMMA RolledBackGood ==
    ASSUME ReplicaInv, NEW c \in Reqs
    PROVE  GoodList(RolledBack(c))
<1>1. GoodList(shown) /\ GoodList(before[c])
  BY DEF ReplicaInv, ListsInv
<1>2. GoodList([shown EXCEPT ![0 - c] = 0])
  BY <1>1, KeyFacts DEF ReplicaInv, RequestsInv, GoodList, Created
<1> QED
  BY <1>1, <1>2 DEF RolledBack

LEMMA NoneGood ==
    ASSUME ReplicaInv
    PROVE  GoodList(None)
  BY KeyFacts DEF ReplicaInv, RequestsInv, GoodList, Created, None

(* Steps that leave the lists, the rows and the requests alone. *)
LEMMA Untouched ==
    ASSUME ReplicaInv,
           UNCHANGED <<shown, cached, before, born, live, placeOf, kind, target, swallowed>>
    PROVE  ListsInv'
  BY DEF ReplicaInv, ListsInv, GoodList, Created
(* The connection alone. *)
LEMMA ReconnectingStep ==
    ASSUME ReplicaInv, Reconnecting
    PROVE  ReplicaInv'
<1>1. ListsInv'
  BY Untouched DEF Reconnecting, store, request, refetch, exposure
<1>2. RowsInv'
  BY DEF ReplicaInv, RowsInv, Created, Reconnecting, store, request, refetch, exposure
<1>3. ChannelInv'
  BY DEF ReplicaInv, ChannelInv, Reconnecting, store, request, refetch, exposure
<1>4. RequestsInv'
  BY DEF ReplicaInv, RequestsInv, Reconnecting, store, request, refetch, exposure
<1> QED
  BY <1>1, <1>2, <1>3, <1>4 DEF ReplicaInv

(* A socket opens. *)
LEMMA OpensStep ==
    ASSUME ReplicaInv, NEW s \in Sockets, ReplicaOpens(s)
    PROVE  ReplicaInv'
<1>1. ListsInv'
  BY Untouched DEF ReplicaOpens, store, request, refetch, exposure
<1>2. RowsInv'
  BY DEF ReplicaInv, RowsInv, Created, ReplicaOpens, store, request, refetch, exposure
<1>3. ChannelInv'
  BY DEF ReplicaInv, ChannelInv, ReplicaOpens, store, request, refetch, exposure
<1>4. RequestsInv'
  BY DEF ReplicaInv, RequestsInv, ReplicaOpens, store, request, refetch, exposure
<1> QED
  BY <1>1, <1>2, <1>3, <1>4 DEF ReplicaInv

(* The welcome is read. *)
LEMMA WelcomeStep ==
    ASSUME ReplicaInv, NEW s \in Sockets, ReadWelcome(s)
    PROVE  ReplicaInv'
<1>1. ListsInv'
  BY Untouched DEF ReadWelcome, store, request, refetch, exposure
<1>2. RowsInv'
  BY DEF ReplicaInv, RowsInv, Created, ReadWelcome, store, request, refetch, exposure
<1>3. ChannelInv'
  BY DEF ReplicaInv, ChannelInv, ReadWelcome, store, request, refetch, exposure
<1>4. RequestsInv'
  BY DEF ReplicaInv, RequestsInv, ReadWelcome, store, request, refetch, exposure
<1> QED
  BY <1>1, <1>2, <1>3, <1>4 DEF ReplicaInv

(* The refetch is sent. *)
LEMMA RefetchStep ==
    ASSUME ReplicaInv, NEW s \in Sockets, Refetch(s)
    PROVE  ReplicaInv'
<1>1. ListsInv'
  BY Untouched DEF Refetch, store, request, refetch, exposure
<1>2. RowsInv'
  BY DEF ReplicaInv, RowsInv, Created, Refetch, store, request, refetch, exposure
<1>3. ChannelInv'
  BY DEF ReplicaInv, ChannelInv, Refetch, store, request, refetch, exposure
<1>4. RequestsInv'
  BY DEF ReplicaInv, RequestsInv, Refetch, store, request, refetch, exposure
<1> QED
  BY <1>1, <1>2, <1>3, <1>4 DEF ReplicaInv

(* A refused request changes its phase. *)
LEMMA RefusesStep ==
    ASSUME ReplicaInv, NEW c \in Reqs, ServerRefuses(c)
    PROVE  ReplicaInv'
<1>1. ListsInv'
  BY Untouched DEF ServerRefuses, store, request, refetch, exposure
<1>2. RowsInv'
  BY DEF ReplicaInv, RowsInv, Created, ServerRefuses, store, request, refetch, exposure
<1>3. ChannelInv'
  BY DEF ReplicaInv, ChannelInv, ServerRefuses, store, request, refetch, exposure
<1>4. RequestsInv'
  BY DEF ReplicaInv, RequestsInv, ServerRefuses, store, request, refetch, exposure
<1> QED
  BY <1>1, <1>2, <1>3, <1>4 DEF ReplicaInv

(* A socket's unread events are lost. *)
LEMMA ClosesStep ==
    ASSUME ReplicaInv, NEW s \in Sockets, ReplicaCloses(s)
    PROVE  ReplicaInv'
<1>1. ListsInv'
  BY Untouched DEF ReplicaCloses, Doubt, store, request, refetch, exposure
<1>2. RowsInv'
  BY DEF ReplicaInv, RowsInv, Created, ReplicaCloses, Doubt, store, request, refetch, exposure
<1>3. ChannelInv'
  BY DEF ReplicaInv, ChannelInv, ReplicaCloses, Doubt, store, request, refetch, exposure
<1>4. RequestsInv'
  BY DEF ReplicaInv, RequestsInv, ReplicaCloses, Doubt, store, request, refetch, exposure
<1> QED
  BY <1>1, <1>2, <1>3, <1>4 DEF ReplicaInv

(* The response has the rows of the server. *)
LEMMA FetchAnsweredStep ==
    ASSUME ReplicaInv, NEW s \in Sockets, FetchAnswered(s)
    PROVE  ReplicaInv'
<1>1. ListsInv'
  BY Untouched DEF FetchAnswered, store, request, refetch, exposure
<1>2. RowsInv'
  BY DEF ReplicaInv, RowsInv, Created, FetchAnswered, store, request, refetch, exposure
<1>3. ChannelInv'
  BY DEF ReplicaInv, ChannelInv, FetchAnswered, store, request, refetch, exposure
<1>4. RequestsInv'
  BY DEF ReplicaInv, RequestsInv, FetchAnswered, store, request, refetch, exposure
<1> QED
  BY <1>1, <1>2, <1>3, <1>4 DEF ReplicaInv

(* The response has no temporary rows. *)
LEMMA AppliesStep ==
    ASSUME ReplicaInv, NEW s \in Sockets, FetchApplies(s)
    PROVE  ReplicaInv'
<1>1. ListsInv'
  BY KeyFacts, SMTT(30) DEF ReplicaInv, ListsInv, RowsInv, RequestsInv, GoodList, Created, Creates, FetchApplies, FetchOver, ListOf, store, request, refetch, exposure
<1>2. RowsInv'
  BY KeyFacts, SMTT(30) DEF ReplicaInv, RowsInv, RequestsInv, Created, Creates, FetchApplies, FetchOver, ListOf, store, request, refetch, exposure
<1>3. ChannelInv'
  BY KeyFacts, SMTT(30) DEF ReplicaInv, ChannelInv, RowsInv, FetchApplies, FetchOver, ListOf, store, request, refetch, exposure
<1>4. RequestsInv'
  BY KeyFacts, SMTT(30) DEF ReplicaInv, ListsInv, GoodList, RequestsInv, FetchApplies, FetchOver, ListOf, store, request, refetch, exposure
<1> QED
  BY <1>1, <1>2, <1>3, <1>4 DEF ReplicaInv

(* The fallback is a good list. *)
LEMMA FetchFailsStep ==
    ASSUME ReplicaInv, NEW s \in Sockets, FetchFails(s)
    PROVE  ReplicaInv'
<1>1. ListsInv'
  <2>1. GoodList(shown) /\ GoodList(cached) /\ \A d \in Reqs : GoodList(before[d])
    BY DEF ReplicaInv, ListsInv
  <2>2. UNCHANGED <<cached, before, born, swallowed, kind, target>>
    BY DEF FetchFails, store, request, exposure
  <2>3. CASE shown' = cached
    BY <2>1, <2>2, <2>3 DEF ListsInv, GoodList, Created
  <2>4. CASE shown' = shown
    BY <2>1, <2>2, <2>4 DEF ListsInv, GoodList, Created
  <2> QED
    BY <2>3, <2>4 DEF FetchFails
<1>2. RowsInv'
  BY KeyFacts, SMTT(30) DEF ReplicaInv, RowsInv, RequestsInv, Created, Creates, FetchFails, FetchOver, Changes, store, request, refetch, exposure
<1>3. ChannelInv'
  BY KeyFacts, SMTT(30) DEF ReplicaInv, ChannelInv, RowsInv, FetchFails, FetchOver, Changes, store, request, refetch, exposure
<1>4. RequestsInv'
  BY KeyFacts, SMTT(30) DEF ReplicaInv, ListsInv, GoodList, RequestsInv, FetchFails, FetchOver, Changes, store, request, refetch, exposure
<1> QED
  BY <1>1, <1>2, <1>3, <1>4 DEF ReplicaInv

(* The temporary row of a new request is not shown yet. *)
LEMMA AssignStep ==
    ASSUME ReplicaInv, NEW c \in Reqs, NEW p \in Places, NEW what \in {"create", "createAt"}, Assign(c, p, what)
    PROVE  ReplicaInv'
<1>1. ListsInv'
  BY KeyFacts, SMTT(30) DEF ReplicaInv, ListsInv, RowsInv, RequestsInv, GoodList, Created, Creates, Assign, Asks, NextReq, Changes, store, request, refetch, exposure
<1>2. RowsInv'
  BY KeyFacts, SMTT(30) DEF ReplicaInv, RowsInv, RequestsInv, Created, Creates, Assign, Asks, NextReq, Changes, store, request, refetch, exposure
<1>3. ChannelInv'
  BY KeyFacts, SMTT(30) DEF ReplicaInv, ChannelInv, RowsInv, Assign, Asks, NextReq, Changes, store, request, refetch, exposure
<1>4. RequestsInv'
  BY KeyFacts, SMTT(30) DEF ReplicaInv, ListsInv, GoodList, RequestsInv, Assign, Asks, NextReq, Changes, store, request, refetch, exposure
<1> QED
  BY <1>1, <1>2, <1>3, <1>4 DEF ReplicaInv

(* A removal only takes a row away. *)
LEMMA RemoveStep ==
    ASSUME ReplicaInv, NEW c \in Reqs, NEW i \in Rows, RemoveAssignment(c, i)
    PROVE  ReplicaInv'
<1>1. ListsInv'
  BY KeyFacts, SMTT(30) DEF ReplicaInv, ListsInv, RowsInv, RequestsInv, GoodList, Created, Creates, RemoveAssignment, Asks, NextReq, Changes, store, request, refetch, exposure
<1>2. RowsInv'
  BY KeyFacts, SMTT(30) DEF ReplicaInv, RowsInv, RequestsInv, Created, Creates, RemoveAssignment, Asks, NextReq, Changes, store, request, refetch, exposure
<1>3. ChannelInv'
  BY KeyFacts, SMTT(30) DEF ReplicaInv, ChannelInv, RowsInv, RemoveAssignment, Asks, NextReq, Changes, store, request, refetch, exposure
<1>4. RequestsInv'
  BY KeyFacts, SMTT(30) DEF ReplicaInv, ListsInv, GoodList, RequestsInv, RemoveAssignment, Asks, NextReq, Changes, store, request, refetch, exposure
<1> QED
  BY <1>1, <1>2, <1>3, <1>4 DEF ReplicaInv

(* A reorder remembers the list. *)
LEMMA ReorderStep ==
    ASSUME ReplicaInv, NEW c \in Reqs, Reorder(c)
    PROVE  ReplicaInv'
<1>1. ListsInv'
  BY KeyFacts, SMTT(30) DEF ReplicaInv, ListsInv, RowsInv, RequestsInv, GoodList, Created, Creates, Reorder, Asks, NextReq, Changes, Visible, store, request, refetch, exposure
<1>2. RowsInv'
  BY KeyFacts, SMTT(30) DEF ReplicaInv, RowsInv, RequestsInv, Created, Creates, Reorder, Asks, NextReq, Changes, Visible, store, request, refetch, exposure
<1>3. ChannelInv'
  BY KeyFacts, SMTT(30) DEF ReplicaInv, ChannelInv, RowsInv, Reorder, Asks, NextReq, Changes, Visible, store, request, refetch, exposure
<1>4. RequestsInv'
  BY KeyFacts, SMTT(30) DEF ReplicaInv, ListsInv, GoodList, RequestsInv, Reorder, Asks, NextReq, Changes, Visible, store, request, refetch, exposure
<1> QED
  BY <1>1, <1>2, <1>3, <1>4 DEF ReplicaInv

(* What the order does not name is dropped. *)
LEMMA AnsweredStep ==
    ASSUME ReplicaInv, NEW c \in Reqs, Answered(c)
    PROVE  ReplicaInv'
<1>1. ListsInv'
  <2>1. GoodList(shown) /\ GoodList(cached) /\ \A d \in Reqs : GoodList(before[d])
    BY DEF ReplicaInv, ListsInv
  <2>2. UNCHANGED <<cached, born, swallowed, kind, target>>
    BY DEF Answered, store, request, exposure, Changes
  <2>3. \A d \in Reqs : before'[d] \in {before[d], None}
    BY DEF ReplicaInv, RequestsInv, Answered, Ends
  <2>4. shown' = Only(ids[c]) \/ shown' = shown
    BY DEF Answered
  <2>5. ids[c] \in SUBSET Rows
    BY DEF ReplicaInv, RequestsInv
  <2>6. GoodList(shown)' /\ GoodList(cached)'
    BY <2>1, <2>2, <2>4, <2>5, OnlyGood DEF GoodList, Created
  <2>7. \A d \in Reqs : GoodList(before[d])'
    BY <2>1, <2>2, <2>3, NoneGood DEF GoodList, Created
  <2> QED
    BY <2>6, <2>7 DEF ListsInv
<1>2. RowsInv'
  BY KeyFacts, SMTT(30) DEF ReplicaInv, RowsInv, RequestsInv, Created, Creates, Answered, Ends, Only, Changes, None, store, request, refetch, exposure
<1>3. ChannelInv'
  BY KeyFacts, SMTT(30) DEF ReplicaInv, ChannelInv, RowsInv, Answered, Ends, Only, Changes, None, store, request, refetch, exposure
<1>4. RequestsInv'
  BY KeyFacts, SMTT(30) DEF ReplicaInv, ListsInv, GoodList, RequestsInv, Answered, Ends, Only, Changes, None, store, request, refetch, exposure
<1> QED
  BY <1>1, <1>2, <1>3, <1>4 DEF ReplicaInv

(* A rollback ends in a good list. *)
LEMMA FailsStep ==
    ASSUME ReplicaInv, NEW c \in Reqs, Fails(c)
    PROVE  ReplicaInv'
<1>1. ListsInv'
  <2>1. GoodList(shown) /\ GoodList(cached) /\ \A d \in Reqs : GoodList(before[d])
    BY DEF ReplicaInv, ListsInv
  <2>2. shown' = RolledBack(c) /\ UNCHANGED <<cached, born, swallowed, kind, target>>
    BY DEF Fails, store, request, exposure, Changes
  <2>3. \A d \in Reqs : before'[d] \in {before[d], None}
    BY DEF ReplicaInv, RequestsInv, Fails, Ends
  <2>4. GoodList(shown)' /\ GoodList(cached)'
    BY <2>1, <2>2, RolledBackGood DEF GoodList, Created
  <2>5. \A d \in Reqs : GoodList(before[d])'
    BY <2>1, <2>2, <2>3, NoneGood DEF GoodList, Created
  <2> QED
    BY <2>4, <2>5 DEF ListsInv
<1>2. RowsInv'
  BY KeyFacts, SMTT(30) DEF ReplicaInv, RowsInv, RequestsInv, Created, Creates, Fails, Ends, RolledBack, Changes, None, store, request, refetch, exposure
<1>3. ChannelInv'
  BY KeyFacts, SMTT(30) DEF ReplicaInv, ChannelInv, RowsInv, Fails, Ends, RolledBack, Changes, None, store, request, refetch, exposure
<1>4. RequestsInv'
  BY KeyFacts, SMTT(30) DEF ReplicaInv, ListsInv, GoodList, RequestsInv, Fails, Ends, RolledBack, Changes, None, store, request, refetch, exposure
<1> QED
  BY <1>1, <1>2, <1>3, <1>4 DEF ReplicaInv

(* So does the rollback of a timeout. *)
LEMMA GiveUpStep ==
    ASSUME ReplicaInv, NEW c \in Reqs, GiveUp(c)
    PROVE  ReplicaInv'
<1>1. ListsInv'
  <2>1. GoodList(shown) /\ GoodList(cached) /\ \A d \in Reqs : GoodList(before[d])
    BY DEF ReplicaInv, ListsInv
  <2>2. shown' = RolledBack(c) /\ UNCHANGED <<cached, born, swallowed, kind, target>>
    BY DEF GiveUp, store, request, exposure, Changes
  <2>3. \A d \in Reqs : before'[d] \in {before[d], None}
    BY DEF ReplicaInv, RequestsInv, GiveUp, Ends
  <2>4. GoodList(shown)' /\ GoodList(cached)'
    BY <2>1, <2>2, RolledBackGood DEF GoodList, Created
  <2>5. \A d \in Reqs : GoodList(before[d])'
    BY <2>1, <2>2, <2>3, NoneGood DEF GoodList, Created
  <2> QED
    BY <2>4, <2>5 DEF ListsInv
<1>2. RowsInv'
  BY KeyFacts, SMTT(30) DEF ReplicaInv, RowsInv, RequestsInv, Created, Creates, GiveUp, Ends, RolledBack, Changes, None, store, request, refetch, exposure
<1>3. ChannelInv'
  BY KeyFacts, SMTT(30) DEF ReplicaInv, ChannelInv, RowsInv, GiveUp, Ends, RolledBack, Changes, None, store, request, refetch, exposure
<1>4. RequestsInv'
  <2>1. CASE phase[c] = "sent"
    BY <2>1, KeyFacts DEF ReplicaInv, RequestsInv, GiveUp, Changes, None, request, exposure, store
  <2>2. CASE phase[c] = "done"
    <3>1. Ends(c) /\ UNCHANGED <<kind, target, swallowed>>
      BY <2>2 DEF GiveUp, Changes
    <3> QED
      BY <3>1, KeyFacts DEF ReplicaInv, RequestsInv, Ends, None
  <2> QED
    BY <2>1, <2>2 DEF GiveUp
<1> QED
  BY <1>1, <1>2, <1>3, <1>4 DEF ReplicaInv

(* The new row is not shown beside its temporary one. *)
LEMMA CreateAnsweredStep ==
    ASSUME ReplicaInv, NEW c \in Reqs, CreateAnswered(c)
    PROVE  ReplicaInv'
<1>1. ListsInv'
  <2>1. GoodList(shown) /\ GoodList(cached) /\ \A d \in Reqs : GoodList(before[d])
    BY DEF ReplicaInv, ListsInv
  <2>2. /\ shown' = [shown EXCEPT ![0 - c] = 0, ![target[c]] = @ + shown[0 - c]]
        /\ UNCHANGED <<cached, born, swallowed, target, placeOf>>
    BY DEF CreateAnswered, Changes, store
  <2>3. /\ target[c] \in Rows /\ Created(c)
        /\ \A d \in Reqs : Created(d)' <=> Created(d)
        /\ \A d \in Reqs : kind[d] \in Creates => kind'[d] \in Creates
    BY DEF ReplicaInv, RequestsInv, CreateAnswered, Ends, Created, Creates
  <2>4. /\ target[c] <= born
        /\ \A d \in Reqs : Created(d) /\ target[d] = target[c] => d = c
    BY <2>3 DEF ReplicaInv, RowsInv
  <2>5. \A d \in Reqs : before'[d] \in {before[d], None}
    BY DEF ReplicaInv, RequestsInv, CreateAnswered, Ends
  <2>6. ASSUME NEW d \in Reqs PROVE GoodList(before[d])'
    <3>1. PICK L : L = before'[d] /\ GoodList(L)
      BY <2>1, <2>5, NoneGood
    <3>2. GoodList(L)'
      BY <2>2, <2>3, <3>1 DEF GoodList
    <3> QED
      BY <3>1, <3>2
  <2>7. GoodList(cached)'
    BY <2>1, <2>2, <2>3 DEF GoodList
  <2>8. /\ shown' \in [Keys -> Nat]
        /\ \A i \in Rows : shown'[i] > 0 => i <= born
    <3>1. /\ shown \in [Keys -> Nat] /\ target[c] \in Keys /\ 0 - c \in Keys
          /\ \A i \in Rows : i \in Keys /\ i # 0 - c /\ (shown[i] > 0 => i <= born)
      BY <2>1, <2>3, KeyFacts DEF GoodList
    <3>2. shown' \in [Keys -> Nat]
      BY <2>2, <3>1
    <3>3. \A i \in Rows \ {target[c]} : shown'[i] = shown[i]
      BY <2>2, <3>1
    <3> QED
      BY <2>4, <3>1, <3>2, <3>3
  <2>9. ASSUME swallowed = "no"
        PROVE  /\ \A k \in Keys : shown'[k] <= 1
               /\ \A d \in Reqs : Created(d) => shown'[target[d]] = 0 \/ shown'[0 - d] = 0
    <3>1. shown[target[c]] + shown[0 - c] <= 1
      BY <2>1, <2>3, <2>9, KeyFacts DEF GoodList
    <3>2. \A k \in Keys : shown'[k] <= 1
      BY <2>1, <2>2, <2>3, <2>9, <3>1, KeyFacts DEF GoodList
    <3>3. ASSUME NEW d \in Reqs, Created(d)
          PROVE  shown'[target[d]] = 0 \/ shown'[0 - d] = 0
      <4>1. CASE d = c
        BY <2>1, <2>2, <2>3, <4>1, KeyFacts DEF GoodList
      <4>2. CASE d # c
        <5>1. target[d] \in Rows /\ target[d] # target[c] /\ 0 - d # 0 - c
          BY <2>4, <3>3, <4>2, KeyFacts DEF Created
        <5>2. shown'[target[d]] = shown[target[d]] /\ shown'[0 - d] = shown[0 - d]
          BY <2>1, <2>2, <2>3, <5>1, KeyFacts DEF GoodList
        <5> QED
          BY <2>1, <2>9, <3>3, <5>2 DEF GoodList
      <4> QED
        BY <4>1, <4>2
    <3> QED
      BY <3>2, <3>3
  <2>10. \A d \in Reqs : shown'[0 - d] > 0 => kind'[d] \in Creates
    BY <2>1, <2>2, <2>3, KeyFacts DEF GoodList
  <2> QED
    BY <2>2, <2>3, <2>6, <2>7, <2>8, <2>9, <2>10 DEF ListsInv, GoodList
<1>2. RowsInv'
  BY KeyFacts, SMTT(30) DEF ReplicaInv, RowsInv, RequestsInv, Created, Creates, CreateAnswered, Ends, Changes, None, store, request, refetch, exposure
<1>3. ChannelInv'
  BY KeyFacts, SMTT(30) DEF ReplicaInv, ChannelInv, RowsInv, CreateAnswered, Ends, Changes, None, store, request, refetch, exposure
<1>4. RequestsInv'
  <2>1. UNCHANGED <<swallowed, target>>
    BY DEF CreateAnswered, Changes
  <2>2. CASE Ends(c) /\ UNCHANGED kind
    BY <2>1, <2>2, KeyFacts DEF ReplicaInv, RequestsInv, Ends, None
  <2>3. CASE /\ kind[c] = "createAt" /\ kind' = [kind EXCEPT ![c] = "arrange"]
             /\ phase' = [phase EXCEPT ![c] = "sent"] /\ UNCHANGED before
             /\ \E rows \in SUBSET Rows : ids' = [ids EXCEPT ![c] = rows]
    <3>1. PICK rows \in SUBSET Rows : ids' = [ids EXCEPT ![c] = rows]
      BY <2>3
    <3> QED
      BY <2>1, <2>3, <3>1 DEF ReplicaInv, RequestsInv
  <2> QED
    BY <2>2, <2>3 DEF CreateAnswered
<1> QED
  BY <1>1, <1>2, <1>3, <1>4 DEF ReplicaInv

(* An event takes its own temporary row away, or has replaced another one.  *)
LEMMA ReadEventStep ==
    ASSUME ReplicaInv, NEW s \in Sockets, ReadEvent(s)
    PROVE  ReplicaInv'
<1> DEFINE e == Head(chan[s])
<1>1. /\ chan[s] \in Seq(EventTypes) /\ chan[s] # << >> /\ e \in EventTypes
      /\ e.type \in {"created", "deleted"} => e.row \in Rows
      /\ e.type = "created" => e.row <= born
  BY DEF ReplicaInv, ChannelInv, ReadEvent
<1>2. /\ GoodList(shown) /\ GoodList(cached) /\ \A d \in Reqs : GoodList(before[d])
      /\ swallowed \in {"yes", "no"}
  BY DEF ReplicaInv, ListsInv, RequestsInv
<1>3. /\ UNCHANGED <<before, kind, target, born, live, placeOf, phase, ids, snap>>
      /\ chan' = [chan EXCEPT ![s] = Tail(@)] /\ cached' = shown'
  BY DEF ReadEvent, store, request, refetch
<1>4. /\ swallowed' \in {"yes", "no"} /\ (swallowed' = "no" => swallowed = "no")
      /\ GoodList(shown)'
  <2>1. CASE e.type = "created" /\ EventCreated(e.row)
    <3> DEFINE temps == {k \in Temps : shown[k] > 0 /\ placeOf[k] = placeOf[e.row]}
    <3>1. e.row \in Rows /\ e.row <= born
      BY <1>1, <2>1
    <3>2. CASE shown' = shown /\ swallowed' = swallowed
      BY <1>2, <1>3, <3>2 DEF GoodList, Created
    <3>3. CASE shown[e.row] = 0 /\ temps = {} /\ shown' = [shown EXCEPT ![e.row] = 1] /\ swallowed' = swallowed
      <4>1. \A d \in Reqs : Created(d) /\ target[d] = e.row => shown[0 - d] = 0
        BY <1>2, <3>3, KeyFacts DEF ReplicaInv, RowsInv, GoodList, Temps
      <4> QED
        BY <1>2, <1>3, <3>1, <3>3, <4>1, KeyFacts DEF GoodList, Created
    <3>4. ASSUME NEW k \in temps, shown[e.row] = 0,
                 shown' = [shown EXCEPT ![e.row] = 1, ![k] = @ - 1],
                 swallowed' = IF target[0 - k] # e.row THEN "yes" ELSE swallowed
          PROVE  /\ swallowed' \in {"yes", "no"} /\ (swallowed' = "no" => swallowed = "no")
                 /\ GoodList(shown)'
      <4>1. k \in Temps /\ k \in Keys /\ k \notin Rows /\ shown[k] > 0 /\ 0 - k \in Reqs
        BY <3>4, KeyFacts DEF Temps, Rows, Reqs
      <4>2. /\ shown' \in [Keys -> Nat]
            /\ \A i \in Rows : shown'[i] > 0 => i <= born
        BY <1>2, <3>1, <3>4, <4>1, KeyFacts DEF GoodList
      <4>3. ASSUME swallowed' = "no"
            PROVE  /\ \A j \in Keys : shown'[j] <= 1
                   /\ \A d \in Reqs : Created(d) => shown'[target[d]] = 0 \/ shown'[0 - d] = 0
        <5>1. swallowed = "no" /\ target[0 - k] = e.row
          BY <3>4, <4>3
        <5>2. /\ \A j \in Keys : shown[j] <= 1
              /\ \A d \in Reqs : Created(d) => shown[target[d]] = 0 \/ shown[0 - d] = 0
          BY <1>2, <5>1 DEF GoodList
        <5>3. shown[k] = 1 /\ shown'[k] = 0
          BY <1>2, <3>1, <3>4, <4>1, <5>2, KeyFacts DEF GoodList
        <5>4. \A j \in Keys : shown'[j] <= 1
          BY <1>2, <3>1, <3>4, <4>1, <5>2, <5>3, KeyFacts DEF GoodList
        <5>5. ASSUME NEW d \in Reqs, Created(d)
              PROVE  shown'[target[d]] = 0 \/ shown'[0 - d] = 0
          <6>1. CASE target[d] = e.row
            <7>1. placeOf[0 - d] = placeOf[e.row]
              BY <5>5, <6>1 DEF ReplicaInv, RowsInv
            <7>2. Created(0 - k)
              BY <1>2, <3>1, <4>1, <5>1, KeyFacts DEF GoodList, Created
            <7>3. 0 - k = d
              BY <4>1, <5>1, <5>5, <6>1, <7>2 DEF ReplicaInv, RowsInv
            <7>4. 0 - d = k
              BY <4>1, <7>3, KeyFacts
            <7> QED
              BY <5>3, <7>4
          <6>2. CASE target[d] # e.row
            <7>1. target[d] \in Rows /\ 0 - d \in Keys /\ 0 - d # e.row
              BY <3>1, <5>5, KeyFacts DEF Created
            <7>2. shown'[target[d]] = shown[target[d]]
              BY <1>2, <3>1, <3>4, <4>1, <6>2, <7>1, KeyFacts DEF GoodList
            <7>3. shown[0 - d] = 0 => shown'[0 - d] = 0
              BY <1>2, <3>1, <3>4, <4>1, <5>3, <7>1, KeyFacts DEF GoodList
            <7> QED
              BY <5>2, <5>5, <7>2, <7>3
          <6> QED
            BY <6>1, <6>2
        <5> QED
          BY <5>4, <5>5
      <4>4. \A d \in Reqs : shown'[0 - d] > 0 => kind[d] \in Creates
        <5>1. \A d \in Reqs : shown'[0 - d] > 0 => shown[0 - d] > 0
          BY <1>2, <3>1, <3>4, <4>1, KeyFacts DEF GoodList
        <5> QED
          BY <1>2, <5>1 DEF GoodList
      <4> QED
        BY <1>2, <1>3, <3>4, <4>2, <4>3, <4>4 DEF GoodList, Created
    <3>5. CASE shown[e.row] > 0
      BY <2>1, <3>2, <3>5 DEF EventCreated
    <3>6. CASE ~(shown[e.row] > 0) /\ temps = {}
      <4>1. shown[e.row] = 0
        BY <1>2, <3>1, <3>6, KeyFacts DEF GoodList
      <4> QED
        BY <1>2, <2>1, <3>3, <3>6, <4>1 DEF EventCreated
    <3>7. CASE ~(shown[e.row] > 0) /\ temps # {}
      <4>1. shown[e.row] = 0
        BY <1>2, <3>1, <3>7, KeyFacts DEF GoodList
      <4>2. \E k \in temps : /\ shown' = [shown EXCEPT ![e.row] = 1, ![k] = @ - 1]
                             /\ swallowed' = IF target[0 - k] # e.row THEN "yes" ELSE swallowed
        BY <2>1, <3>7 DEF EventCreated
      <4> QED
        BY <3>4, <4>1, <4>2
    <3> QED
      BY <3>5, <3>6, <3>7
  <2>2. CASE e.type = "deleted" /\ EventDeleted(e.row)
    BY <1>1, <1>2, <1>3, <2>2, KeyFacts DEF EventDeleted, GoodList, Created
  <2>3. CASE e.type = "reordered" /\ EventReordered(e.rows)
    <3>1. e.rows \in SUBSET Rows
      BY <1>1 DEF EventTypes
    <3> QED
      BY <1>2, <1>3, <2>3, <3>1, OnlyGood DEF EventReordered, GoodList, Created
  <2> QED
    BY <2>1, <2>2, <2>3 DEF ReadEvent
<1>5. ListsInv'
  BY <1>2, <1>3, <1>4 DEF ListsInv, GoodList, Created
<1>6. RowsInv'
  BY <1>3 DEF ReplicaInv, RowsInv, Created
<1>7. ChannelInv'
  BY <1>1, <1>3 DEF ReplicaInv, ChannelInv
<1>8. RequestsInv'
  BY <1>3, <1>4 DEF ReplicaInv, RequestsInv
<1> QED
  BY <1>5, <1>6, <1>7, <1>8 DEF ReplicaInv

(* What the server appends to the channels is well formed. *)
LEMMA BroadcastGood ==
    ASSUME ReplicaInv, NEW event \in EventTypes, NEW x, Broadcast(event, x),
           event.type \in {"created", "deleted"} => event.row \in Rows,
           event.type = "created" => event.row <= born',
           born \in Nat, born' \in Nat, born <= born'
    PROVE  ChannelInv'
<1>1. ASSUME NEW s \in Sockets
      PROVE  /\ chan'[s] \in Seq(EventTypes)
             /\ \A j \in 1 .. Len(chan'[s]) :
                  /\ chan'[s][j].type \in {"created", "deleted"} => chan'[s][j].row \in Rows
                  /\ chan'[s][j].type = "created" => chan'[s][j].row <= born'
  <2>1. /\ chan[s] \in Seq(EventTypes)
        /\ \A j \in 1 .. Len(chan[s]) :
             /\ chan[s][j].type \in {"created", "deleted"} => chan[s][j].row \in Rows
             /\ chan[s][j].type = "created" => chan[s][j].row <= born
    BY DEF ReplicaInv, ChannelInv
  <2>2. \A j \in 1 .. Len(chan[s]) : chan[s][j].type = "created" => chan[s][j].row <= born'
    BY <2>1, KeyFacts
  <2>3. CASE chan'[s] = chan[s]
    BY <2>1, <2>2, <2>3
  <2>4. CASE chan'[s] = Append(chan[s], event)
    <3>1. /\ chan'[s] \in Seq(EventTypes) /\ Len(chan'[s]) = Len(chan[s]) + 1
          /\ \A j \in 1 .. Len(chan[s]) : chan'[s][j] = chan[s][j]
          /\ chan'[s][Len(chan[s]) + 1] = event
      BY <2>1, <2>4
    <3>2. \A j \in 1 .. Len(chan'[s]) : j \in 1 .. Len(chan[s]) \/ j = Len(chan[s]) + 1
      BY <2>1, <3>1
    <3> QED
      BY <2>1, <2>2, <3>1, <3>2
  <2> QED
    BY <2>3, <2>4 DEF Broadcast
<1>2. chan' \in [Sockets -> Seq(EventTypes)]
  BY <1>1 DEF Broadcast
<1> QED
  BY <1>1, <1>2 DEF ChannelInv

(* A write of the server: what it does to the rows and the channels. *)
LEMMA InsertsGood ==
    ASSUME ReplicaInv, NEW p \in Places \cup {Nil}, NEW x, Inserts(p, x)
    PROVE  /\ born \in Nat /\ born' = born + 1 /\ born' \in Rows
           /\ live' \subseteq Rows /\ live' \subseteq 1 .. born'
           /\ placeOf' = [placeOf EXCEPT ![born + 1] = p]
           /\ placeOf' \in [Keys -> Places \cup {Nil}]
           /\ ChannelInv'
<1>1. /\ born \in Nat /\ born' = born + 1 /\ born' \in Rows
      /\ live' \subseteq Rows /\ live' \subseteq 1 .. born'
  BY ReplicaAssumption DEF ReplicaInv, RowsInv, Inserts, Rows
<1>2. /\ placeOf' = [placeOf EXCEPT ![born + 1] = p]
      /\ placeOf' \in [Keys -> Places \cup {Nil}]
  BY DEF ReplicaInv, RowsInv, Inserts
<1>3. ChannelInv'
  <2> DEFINE event == [type |-> "created", row |-> born + 1, rows |-> {}]
  <2>1. event \in EventTypes /\ event.row = born'
    BY <1>1 DEF EventTypes
  <2>2. Broadcast(event, x)
    BY DEF Inserts
  <2> HIDE DEF event
  <2>3. event.row \in Rows /\ event.row <= born' /\ born' \in Nat /\ born <= born'
    BY <1>1, <2>1, KeyFacts
  <2> QED
    BY <1>1, <2>1, <2>2, <2>3, BroadcastGood
<1> QED
  BY <1>1, <1>2, <1>3

LEMMA DeletesGood ==
    ASSUME ReplicaInv, NEW i, NEW x, DeletesRow(i, x)
    PROVE  live' \subseteq live /\ UNCHANGED <<born, placeOf>> /\ ChannelInv'
<1> DEFINE event == [type |-> "deleted", row |-> i, rows |-> {}]
<1>1. i \in Rows /\ born \in Nat /\ UNCHANGED <<born, placeOf>> /\ live' \subseteq live
  BY DEF ReplicaInv, RowsInv, DeletesRow
<1>2. event \in EventTypes /\ event.type = "deleted" /\ event.row = i
  BY <1>1 DEF EventTypes
<1>3. Broadcast(event, x)
  BY DEF DeletesRow
<1> HIDE DEF event
<1> QED
  BY <1>1, <1>2, <1>3, BroadcastGood

LEMMA ReordersGood ==
    ASSUME ReplicaInv, NEW rows \in SUBSET Rows, NEW x, Reorders(rows, x)
    PROVE  UNCHANGED <<live, born, placeOf>> /\ ChannelInv'
<1> DEFINE event == [type |-> "reordered", row |-> Nil, rows |-> rows]
<1>1. born \in Nat /\ UNCHANGED <<live, born, placeOf>>
  BY DEF ReplicaInv, RowsInv, Reorders
<1>2. event \in EventTypes /\ event.type = "reordered"
  BY DEF EventTypes
<1>3. Broadcast(event, x)
  BY DEF Reorders
<1> HIDE DEF event
<1> QED
  BY <1>1, <1>2, <1>3, BroadcastGood

(* More rows have been inserted; nothing else in a list's favour changes. *)
LEMMA ListsGrow ==
    ASSUME ReplicaInv, UNCHANGED <<shown, cached, before, kind, target, swallowed>>,
           born' \in Nat, born <= born'
    PROVE  ListsInv'
<1>1. born \in Nat /\ \A i \in Rows : i <= born => i <= born'
  BY KeyFacts DEF ReplicaInv, RowsInv
<1> QED
  BY <1>1 DEF ReplicaInv, ListsInv, GoodList, Created

(* The server's write for a request of the page; a new row is in no list.   *)
LEMMA ServerDoesStep ==
    ASSUME ReplicaInv, NEW c \in Reqs, ServerDoes(c)
    PROVE  ReplicaInv'
<1>1. /\ UNCHANGED <<shown, cached, before, kind, swallowed, snap, ids>>
      /\ phase[c] # "none"
      /\ phase' = [phase EXCEPT ![c] = IF @ = "lost" THEN "over" ELSE "done"]
  BY DEF ServerDoes, refetch
<1>2. CASE /\ kind[c] \in {"create", "createAt"} /\ Inserts(placeOf[0 - c], from[c])
           /\ target' = [target EXCEPT ![c] = born + 1]
  <2>1. /\ born \in Nat /\ born' = born + 1 /\ born' \in Rows
        /\ live' \subseteq Rows /\ live' \subseteq 1 .. born'
        /\ placeOf' = [placeOf EXCEPT ![born + 1] = placeOf[0 - c]]
        /\ placeOf' \in [Keys -> Places \cup {Nil}]
        /\ ChannelInv'
    <3>1. placeOf[0 - c] \in Places \cup {Nil}
      BY KeyFacts DEF ReplicaInv, RowsInv
    <3> QED
      BY <1>2, <3>1, InsertsGood
  <2>2. target'[c] = born' /\ \A d \in Reqs \ {c} : target'[d] = target[d]
    BY <1>2, <2>1 DEF ReplicaInv, RequestsInv
  <2>3. Created(c)' /\ \A d \in Reqs \ {c} : Created(d)' <=> Created(d)
    BY <1>1, <1>2, <2>1, <2>2 DEF Created, Creates
  <2>4. ASSUME NEW L, GoodList(L)
        PROVE  /\ \A i \in Rows : L[i] > 0 => i <= born'
               /\ swallowed = "no" =>
                    \A d \in Reqs : Created(d)' => L[target'[d]] = 0 \/ L[0 - d] = 0
    <3>1. L[born'] = 0
      BY <2>1, <2>4, KeyFacts DEF GoodList
    <3>2. \A i \in Rows : L[i] > 0 => i <= born'
      BY <2>1, <2>4, KeyFacts DEF GoodList
    <3> QED
      BY <2>2, <2>3, <2>4, <3>1, <3>2 DEF GoodList
  <2>5. \A L : GoodList(L) =>
          /\ L \in [Keys -> Nat]
          /\ \A d \in Reqs : L[0 - d] > 0 => kind'[d] \in Creates
          /\ swallowed = "no" => \A k \in Keys : L[k] <= 1
    BY <1>1 DEF GoodList
  <2>6. ListsInv'
    <3>1. GoodList(shown) /\ GoodList(cached) /\ \A d \in Reqs : GoodList(before[d])
      BY DEF ReplicaInv, ListsInv
    <3>2. GoodList(shown)'
      BY <1>1, <2>4, <2>5, <3>1 DEF GoodList
    <3>3. GoodList(cached)'
      BY <1>1, <2>4, <2>5, <3>1 DEF GoodList
    <3>4. ASSUME NEW d \in Reqs
          PROVE  GoodList(before[d])'
      BY <1>1, <2>4, <2>5, <3>1 DEF GoodList
    <3> QED
      BY <3>2, <3>3, <3>4 DEF ListsInv
  <2>7. RowsInv'
    <3>1. /\ snap' \in [Sockets -> SUBSET Rows]
          /\ \A s \in Sockets : snap'[s] \subseteq 1 .. born'
      BY <1>1, <2>1 DEF ReplicaInv, RowsInv
    <3>2. \A d \in Reqs : Created(d)' =>
            target'[d] <= born' /\ placeOf'[target'[d]] = placeOf'[0 - d]
      <4>1. ASSUME NEW d \in Reqs, Created(d)'
            PROVE  target'[d] <= born' /\ placeOf'[target'[d]] = placeOf'[0 - d]
        <5>1. 0 - d \in Keys /\ 0 - d # born'
          BY <2>1, KeyFacts
        <5>2. placeOf'[0 - d] = placeOf[0 - d]
          BY <2>1, <5>1 DEF ReplicaInv, RowsInv
        <5>3. CASE d = c
          BY <2>1, <2>2, <5>2, <5>3, KeyFacts DEF ReplicaInv, RowsInv
        <5>4. CASE d # c
          <6>1. /\ Created(d) /\ target'[d] = target[d] /\ target[d] \in Rows
                /\ target[d] <= born /\ placeOf[target[d]] = placeOf[0 - d]
            BY <2>2, <2>3, <4>1, <5>4 DEF ReplicaInv, RowsInv, Created
          <6>2. target[d] <= born' /\ target[d] # born' /\ target[d] \in Keys
            BY <2>1, <6>1, OlderRow
          <6> QED
            BY <2>1, <5>2, <6>1, <6>2 DEF ReplicaInv, RowsInv
        <5> QED
          BY <5>3, <5>4
      <4> QED
        BY <4>1
    <3>3. ASSUME NEW d \in Reqs, NEW g \in Reqs,
                 Created(d)', Created(g)', target'[d] = target'[g]
          PROVE  d = g
      <4>1. \A h \in Reqs \ {c} : Created(h)' => target'[h] # born'
        BY <2>1, <2>2, <2>3, KeyFacts DEF ReplicaInv, RowsInv, Created
      <4>2. CASE d = c \/ g = c
        BY <2>2, <3>3, <4>1, <4>2
      <4>3. CASE d # c /\ g # c
        BY <2>2, <2>3, <3>3, <4>3 DEF ReplicaInv, RowsInv
      <4> QED
        BY <4>2, <4>3
    <3> QED
      BY <2>1, <3>1, <3>2, <3>3 DEF RowsInv
  <2>8. RequestsInv'
    BY <1>1, <1>2, <2>1 DEF ReplicaInv, RequestsInv
  <2> QED
    BY <2>1, <2>6, <2>7, <2>8 DEF ReplicaInv
<1>3. ASSUME UNCHANGED <<target, born, placeOf>>, live' \subseteq live, ChannelInv',
             kind[c] \notin {"create", "createAt"}
      PROVE  ReplicaInv'
  <2>1. born \in Nat
    BY DEF ReplicaInv, RowsInv
  <2>2. ListsInv'
    BY <1>1, <1>3, <2>1, ListsGrow
  <2>3. RowsInv'
    BY <1>1, <1>3 DEF ReplicaInv, RowsInv, Created
  <2>4. RequestsInv'
    BY <1>1, <1>3 DEF ReplicaInv, RequestsInv
  <2> QED
    BY <1>3, <2>2, <2>3, <2>4 DEF ReplicaInv
<1>4. CASE kind[c] = "remove" /\ DeletesRow(target[c], from[c]) /\ UNCHANGED target
  <2>1. live' \subseteq live /\ UNCHANGED <<born, placeOf>> /\ ChannelInv'
    BY <1>4, DeletesGood
  <2> QED
    BY <1>3, <1>4, <2>1
<1>5. CASE kind[c] \in {"reorder", "arrange"} /\ Reorders(ids[c], from[c]) /\ UNCHANGED target
  <2>1. ids[c] \in SUBSET Rows
    BY DEF ReplicaInv, RequestsInv
  <2>2. UNCHANGED <<live, born, placeOf>> /\ ChannelInv'
    BY <1>5, <2>1, ReordersGood
  <2> QED
    BY <1>3, <1>5, <2>2
<1> QED
  BY <1>2, <1>4, <1>5 DEF ServerDoes

(* The server's write for another member. *)
LEMMA CollabStep ==
    ASSUME ReplicaInv, CollabEdit
    PROVE  ReplicaInv'
<1>1. UNCHANGED <<shown, cached, before, kind, phase, target, swallowed, snap, ids>>
  BY DEF CollabEdit, request, refetch
<1>2. born \in Nat
  BY DEF ReplicaInv, RowsInv
<1>3. RequestsInv'
  BY <1>1 DEF ReplicaInv, RequestsInv
<1>4. CASE \E p \in Places : Inserts(p, Nil)
  <2>1. PICK p \in Places : Inserts(p, Nil)
    BY <1>4
  <2>2. /\ born' = born + 1 /\ born' \in Rows
        /\ live' \subseteq Rows /\ live' \subseteq 1 .. born'
        /\ placeOf' = [placeOf EXCEPT ![born + 1] = p]
        /\ placeOf' \in [Keys -> Places \cup {Nil}]
        /\ ChannelInv'
    BY <2>1, InsertsGood
  <2>3. ListsInv'
    BY <1>1, <1>2, <2>2, ListsGrow
  <2>4. ASSUME NEW d \in Reqs, Created(d)
        PROVE  target[d] <= born' /\ placeOf'[target[d]] = placeOf'[0 - d]
    <3>1. target[d] \in Rows /\ target[d] <= born /\ placeOf[target[d]] = placeOf[0 - d]
      BY <2>4 DEF ReplicaInv, RowsInv, Created
    <3>2. target[d] <= born' /\ target[d] # born' /\ target[d] \in Keys
      BY <1>2, <2>2, <3>1, OlderRow
    <3>3. 0 - d \in Keys /\ 0 - d # born'
      BY <2>2, KeyFacts
    <3> QED
      BY <2>2, <3>1, <3>2, <3>3 DEF ReplicaInv, RowsInv
  <2>5. RowsInv'
    <3>1. /\ snap' \in [Sockets -> SUBSET Rows]
          /\ \A s \in Sockets : snap'[s] \subseteq 1 .. born'
      BY <1>1, <1>2, <2>2 DEF ReplicaInv, RowsInv
    <3> QED
      BY <1>1, <1>2, <2>2, <2>4, <3>1 DEF ReplicaInv, RowsInv, Created
  <2> QED
    BY <1>3, <2>2, <2>3, <2>5 DEF ReplicaInv
<1>5. ASSUME UNCHANGED <<born, placeOf>>, live' \subseteq live, ChannelInv'
      PROVE  ReplicaInv'
  <2>1. ListsInv'
    BY <1>1, <1>2, <1>5, ListsGrow
  <2>2. RowsInv'
    BY <1>1, <1>5 DEF ReplicaInv, RowsInv, Created
  <2> QED
    BY <1>3, <1>5, <2>1, <2>2 DEF ReplicaInv
<1>6. CASE \E i \in live : DeletesRow(i, Nil)
  BY <1>5, <1>6, DeletesGood
<1>7. CASE \E rows \in SUBSET live : Reorders(rows, Nil)
  <2>1. PICK rows \in SUBSET live : Reorders(rows, Nil)
    BY <1>7
  <2>2. rows \in SUBSET Rows
    BY DEF ReplicaInv, RowsInv
  <2> QED
    BY <1>5, <2>1, <2>2, ReordersGood
<1> QED
  BY <1>4, <1>6, <1>7 DEF CollabEdit

(* The page starts with a list that has one row of the server. *)
LEMMA ReplicaStart ==
    ASSUME ReplicaInit
    PROVE  ReplicaInv
<1>1. /\ shown = ListOf({1}) /\ cached = ListOf({1}) /\ born = 1 /\ live = {1}
      /\ chan = [s \in Sockets |-> << >>]
      /\ kind = [c \in Reqs |-> "none"] /\ phase = [c \in Reqs |-> "none"]
      /\ target = [c \in Reqs |-> Nil] /\ ids = [c \in Reqs |-> {}]
      /\ before = [c \in Reqs |-> None] /\ snap = [s \in Sockets |-> {}] /\ swallowed = "no"
  BY DEF ReplicaInit, ListInit
<1>2. 1 \in Rows /\ 1 .. born = {1}
  BY <1>1, ReplicaAssumption DEF Rows
<1>3. GoodList(ListOf({1}))
  BY <1>1, <1>2, PlainGood
<1>4. GoodList(None)
  BY <1>1, KeyFacts DEF GoodList, Created, None
<1>5. RequestsInv
  BY <1>1, KeyFacts DEF RequestsInv, None
<1>6. ListsInv
  BY <1>1, <1>3, <1>4 DEF ListsInv
<1>7. RowsInv
  <2>1. placeOf \in [Keys -> Places \cup {Nil}]
    BY DEF ReplicaInit, ListInit
  <2> QED
    BY <1>1, <1>2, <2>1 DEF RowsInv, Created, Creates
<1>8. ChannelInv
  BY <1>1 DEF ChannelInv
<1> QED
  BY <1>5, <1>6, <1>7, <1>8 DEF ReplicaInv

(* Every step keeps it. *)
LEMMA ReplicaStep ==
    ASSUME ReplicaInv, [ReplicaNext]_replicaVars
    PROVE  ReplicaInv'
<1>1. CASE Reconnecting
  BY <1>1, ReconnectingStep
<1>2. ASSUME NEW s \in Sockets,
             \/ ReplicaOpens(s) \/ ReplicaCloses(s) \/ ReadWelcome(s) \/ Refetch(s)
             \/ FetchAnswered(s) \/ FetchApplies(s) \/ FetchFails(s) \/ ReadEvent(s)
      PROVE  ReplicaInv'
  BY <1>2, OpensStep, ClosesStep, WelcomeStep, RefetchStep, FetchAnsweredStep, AppliesStep,
     FetchFailsStep, ReadEventStep
<1>3. ASSUME NEW c \in Reqs, NEW p \in Places, Assign(c, p, "create") \/ Assign(c, p, "createAt")
      PROVE  ReplicaInv'
  BY <1>3, AssignStep
<1>4. ASSUME NEW c \in Reqs, NEW i \in Rows, RemoveAssignment(c, i)
      PROVE  ReplicaInv'
  BY <1>4, RemoveStep
<1>5. ASSUME NEW c \in Reqs,
             \/ Reorder(c) \/ ServerDoes(c) \/ ServerRefuses(c) \/ CreateAnswered(c)
             \/ Answered(c) \/ Fails(c) \/ GiveUp(c)
      PROVE  ReplicaInv'
  BY <1>5, ReorderStep, ServerDoesStep, RefusesStep, CreateAnsweredStep, AnsweredStep,
     FailsStep, GiveUpStep
<1>6. CASE CollabEdit
  BY <1>6, CollabStep
<1>7. CASE UNCHANGED replicaVars
  <2>1. UNCHANGED <<chan, live, born, placeOf, shown, cached, kind, phase, target, ids,
                    before, snap, swallowed>>
    BY <1>7 DEF replicaVars, store, request, refetch, exposure
  <2>2. ListsInv'
    BY <2>1, Untouched
  <2>3. RowsInv' /\ ChannelInv' /\ RequestsInv'
    BY <2>1 DEF ReplicaInv, RowsInv, Created, ChannelInv, RequestsInv
  <2> QED
    BY <2>2, <2>3 DEF ReplicaInv
<1> QED
  BY <1>1, <1>2, <1>3, <1>4, <1>5, <1>6, <1>7 DEF ReplicaNext

(* The lists the page shows, keeps and may put back stay good ones through  *)
(* every interleaving of edits, events, refetches and rollbacks.            *)
THEOREM ReplicaInvariant == ReplicaSpec => []ReplicaInv
<1>1. ReplicaInit => ReplicaInv
  BY ReplicaStart
<1>2. ReplicaInv /\ [ReplicaNext]_replicaVars => ReplicaInv'
  BY ReplicaStep
<1> QED
  BY <1>1, <1>2, PTL DEF ReplicaSpec

(* No row of the day is ever shown twice, as long as no event has replaced  *)
(* the temporary row of another request.                                    *)
THEOREM ReplicaNoDuplicates == ReplicaSpec => []NoDuplicates
<1>1. ReplicaInv => NoDuplicates
  BY DEF ReplicaInv, ListsInv, GoodList, NoDuplicates
<1> QED
  BY <1>1, ReplicaInvariant, PTL

-----------------------------------------------------------------------------
(* The page and the server come into step. *)

(* The connection of a page that stays: one attempt at a time, and what is *)
(* sent to a socket is sent while the server has it in the room.           *)
LineInv ==
    /\ should = "yes" /\ active = "yes" /\ muted = {} /\ crossed = "no"
    /\ socket # Nil => fetching = "no" /\ timer = "off"
    /\ fetching = "yes" => timer = "off"
    /\ wire \in [Sockets -> Seq({"join"})]
    /\ fetch \in [Sockets -> {"none", "asked", "answered", "over"}]
    /\ \A s \in Sockets :
         /\ state[s] \in {"none", "connecting"} => chan[s] = << >>
         /\ s \in up \ room => chan[s] = << >>

(* The events the page has still to read. *)
Pending == IF socket = Nil THEN << >> ELSE chan[socket]
Says(type, i) == \E j \in 1 .. Len(Pending) : Pending[j].type = type /\ Pending[j].row = i

Making(c) == c \in Unanswered /\ kind[c] \in {"create", "createAt"}
Removing(c) == kind[c] = "remove" /\ phase[c] \in {"sent", "failed"}
Removed(i) == \E c \in Reqs : kind[c] = "remove" /\ target[c] = i

(* The creation of a row that is gone is followed by its deletion, unless  *)
(* the page itself has removed it.                                         *)
DeletionsFollow ==
    \A j \in 1 .. Len(Pending) :
        (Pending[j].type = "created" /\ Pending[j].row \notin live) =>
            \/ Removed(Pending[j].row)
            \/ \E l \in j + 1 .. Len(Pending) :
                  Pending[l].type = "deleted" /\ Pending[l].row = Pending[j].row

FactsInv ==
    /\ \A s \in Sockets : \A j \in 1 .. Len(chan[s]) :
          chan[s][j].type = "deleted" => chan[s][j].row <= born /\ chan[s][j].row \notin live
    /\ \A c \in Reqs :
         /\ kind[c] = "none" => phase[c] = "none"
         /\ kind[c] = "remove" => target[c] <= born
         /\ kind[c] \in {"create", "createAt"} /\ phase[c] \in {"sent", "failed", "lost"}
               => target[c] = Nil
    /\ Reaches => DeletionsFollow

(* The list L becomes the server's when everything under way has come: it  *)
(* has the temporary rows of the creates under way, the server's rows save *)
(* those an event or an answer will bring or the page is removing, and a   *)
(* row that is gone only while its deletion is unread.                     *)
HoldsTemps(L) ==
    /\ \A k \in Keys : L[k] <= 1
    /\ \A c \in Reqs :
         /\ L[0 - c] > 0 => Making(c)
         /\ Making(c) /\ phase[c] = "sent" => L[0 - c] = 1
         /\ Making(c) /\ target[c] \in Rows => L[target[c]] = 0 \/ L[0 - c] = 0

HoldsLive(L) ==
    \A i \in live :
       \/ L[i] = 1 \/ Says("created", i)
       \/ \E c \in Reqs : target[c] = i /\ (Removing(c) \/ (Making(c) /\ L[0 - c] = 1))

DropsGone(L) ==
    \A i \in Rows \ live :
       \/ Says("deleted", i)
       \/ L[i] = 0 /\ \A c \in Reqs : Making(c) /\ target[c] = i => L[0 - c] = 0

InStep(L) == HoldsTemps(L) /\ HoldsLive(L) /\ DropsGone(L) /\ DeletionsFollow

(* A row the page is removing is not shown, and one request removes it.    *)
RemovalsInv ==
    /\ \A c \in Reqs : Removing(c) =>
         /\ shown[target[c]] = 0
         /\ \A d \in Reqs : Making(d) /\ target[d] = target[c] => shown[0 - d] = 0
         /\ \A d \in Reqs : Removing(d) /\ target[d] = target[c] => d = c
         /\ c \notin overlapped =>
               before[c][target[c]] = 1 /\ (target[c] \in live \/ Says("deleted", target[c]))

(* What a rollback puts back is the list shown, and the row removed.       *)
RollbackInv ==
    \A c \in Reqs \ overlapped :
      /\ Removing(c) => \A k \in Keys : shown[k] = IF k = target[c] THEN 0 ELSE before[c][k]
      /\ kind[c] = "reorder" /\ c \in Unanswered => shown = before[c]

AnswersInv == \A s \in Answers \ spoiled : Unanswered = {} /\ InStep(ListOf(snap[s]))

TogetherInv ==
    /\ FactsInv /\ RollbackInv /\ AnswersInv
    /\ doubt = "no" => InStep(shown) /\ RemovalsInv

ConvergeInv ==
    /\ RealtimeTypeOK /\ CurrentInv /\ LifeInv /\ LineInv
    /\ ReplicaInv /\ TogetherInv

LEMMA AtRestShows ==
    ASSUME ConvergeInv
    PROVE  Converges
<1> SUFFICES ASSUME AtRest, doubt = "no"
             PROVE  shown = ListOf(live)
  BY DEF Converges
<1>1. socket # Nil /\ Pending = << >> /\ Unanswered = {}
  BY DEF AtRest, Reaches, IsOpen, Pending
<1>2. \A type, i : ~Says(type, i)
  BY <1>1 DEF Says
<1>3. \A c \in Reqs : ~Making(c) /\ ~Removing(c)
  BY <1>1 DEF Making, Removing, Unanswered
<1>4. shown \in [Keys -> Nat] /\ live \subseteq Rows /\ HoldsTemps(shown) /\ HoldsLive(shown) /\ DropsGone(shown)
  BY DEF ConvergeInv, TogetherInv, InStep, ReplicaInv, ListsInv, GoodList, RowsInv
<1>5. \A i \in live : shown[i] = 1
  BY <1>2, <1>3, <1>4 DEF HoldsLive
<1>6. \A i \in Rows \ live : shown[i] = 0
  BY <1>2, <1>4 DEF DropsGone
<1>7. \A k \in Temps : shown[k] = 0
  <2>1. ASSUME NEW k \in Temps PROVE shown[k] = 0
    <3>1. 0 - k \in Reqs /\ k = 0 - (0 - k) /\ k \in Keys
      BY KeyFacts
    <3>2. ~(shown[0 - (0 - k)] > 0)
      BY <1>3, <1>4, <3>1 DEF HoldsTemps
    <3> QED
      BY <1>4, <3>1, <3>2
  <2> QED
    BY <2>1
<1>8. \A k \in Keys : shown[k] = IF k \in live THEN 1 ELSE 0
  BY <1>4, <1>5, <1>6, <1>7, KeyFacts DEF Temps
<1> QED
  BY <1>4, <1>8 DEF ListOf

-----------------------------------------------------------------------------
LEMMA StepsOfTheLine ==
    ASSUME [ReplicaNext]_replicaVars
    PROVE  [RealtimeNext]_realtimeVars
<1> USE DEF connection
<1>1. CASE Reconnecting
  BY <1>1 DEF Reconnecting, RealtimeNext
<1>2. ASSUME NEW s \in Sockets, ReplicaOpens(s) \/ ReplicaCloses(s) \/ Refetch(s)
      PROVE  [RealtimeNext]_realtimeVars
  BY <1>2 DEF ReplicaOpens, ReplicaCloses, Refetch, RealtimeNext
<1>3. ASSUME NEW s \in Sockets,
             ReadWelcome(s) \/ FetchAnswered(s) \/ FetchApplies(s) \/ FetchFails(s) \/ ReadEvent(s)
      PROVE  UNCHANGED realtimeVars
  BY <1>3 DEF ReadWelcome, FetchAnswered, FetchApplies, FetchFails, ReadEvent
<1>4. ASSUME NEW c \in Reqs, NEW p \in Places, Assign(c, p, "create") \/ Assign(c, p, "createAt")
      PROVE  UNCHANGED realtimeVars
  BY <1>4 DEF Assign, Asks
<1>5. ASSUME NEW c \in Reqs, NEW i \in Rows, RemoveAssignment(c, i)
      PROVE  UNCHANGED realtimeVars
  BY <1>5 DEF RemoveAssignment, Asks
<1>6. ASSUME NEW c \in Reqs,
             \/ Reorder(c) \/ ServerDoes(c) \/ ServerRefuses(c) \/ CreateAnswered(c)
             \/ Answered(c) \/ Fails(c) \/ GiveUp(c)
      PROVE  UNCHANGED realtimeVars
  BY <1>6 DEF Reorder, Asks, ServerDoes, ServerRefuses, CreateAnswered, Answered, Fails, GiveUp
<1>7. CASE CollabEdit
  BY <1>7 DEF CollabEdit
<1>8. CASE UNCHANGED replicaVars
  BY <1>8 DEF replicaVars
<1> QED
  BY <1>1, <1>2, <1>3, <1>4, <1>5, <1>6, <1>7, <1>8 DEF ReplicaNext

LEMMA OnlyOne ==
    ASSUME CurrentInv, LineInv, NEW s \in Sockets, state[s] \in {"connecting", "open", "closing"}
    PROVE  s = socket
  BY DEF CurrentInv, LineInv

(* The connection's own steps. *)
LEMMA LineMoves ==
    ASSUME RealtimeTypeOK, CurrentInv, LifeInv, LineInv, ChannelInv, UNCHANGED <<chan, fetch>>,
           \/ Reconnecting
           \/ \E s \in Sockets : Opens(s) \/ HookDone(s)
           \/ UNCHANGED realtimeVars
    PROVE  LineInv'
<1> USE RealtimeAssumption, SocketFacts DEF RealtimeTypeOK, LineInv, page, server, histories
<1>1. CASE TimerFires
  BY <1>1 DEF TimerFires, ConnectInternal, Running
<1>2. CASE TokenArrives
  <2>1. opened + 1 \in Sockets /\ opened + 1 > opened
    BY <1>2 DEF TokenArrives, Sockets
  <2>2. state[opened + 1] = "none" /\ chan[opened + 1] = << >>
    BY <2>1 DEF LifeInv
  <2>3. socket = Nil
    BY <1>2 DEF TokenArrives
  <2> QED
    BY <1>2, <2>1, <2>2, <2>3 DEF TokenArrives
<1>3. CASE TokenFails
  BY <1>3 DEF TokenFails
<1>4. ASSUME NEW s \in Sockets, ServerReads(s)
      PROVE  LineInv'
  <2>1. Head(wire[s]) = "join" /\ Tail(wire[s]) \in Seq({"join"})
    BY <1>4 DEF ServerReads
  <2> QED
    BY <1>4, <2>1 DEF ServerReads
<1>5. ASSUME NEW s \in Sockets, ServerCloses(s)
      PROVE  LineInv'
  BY <1>5 DEF ServerCloses
<1>6. ASSUME NEW s \in Sockets, Opens(s)
      PROVE  LineInv'
  <2>1. wire' \in [Sockets -> Seq({"join"})]
    <3>1. CASE wire' = wire
      BY <3>1
    <3>2. CASE socket # Nil /\ wire' = [wire EXCEPT ![socket] = Append(@, "join")]
      <4>1. socket \in Sockets /\ Append(wire[socket], "join") \in Seq({"join"})
        BY <3>2
      <4> QED
        BY <3>2, <4>1
    <3> QED
      BY <1>6, <3>1, <3>2 DEF Opens
  <2> QED
    BY <1>6, <2>1 DEF Opens
<1>7. ASSUME NEW s \in Sockets, HookDone(s)
      PROVE  LineInv'
  BY <1>7 DEF HookDone
<1>8. CASE UNCHANGED realtimeVars
  BY <1>8 DEF realtimeVars
<1> QED
  BY <1>1, <1>2, <1>3, <1>4, <1>5, <1>6, <1>7, <1>8 DEF Reconnecting

(* A socket closes. *)
LEMMA LineCloses ==
    ASSUME RealtimeTypeOK, CurrentInv, LifeInv, LineInv, ChannelInv, NEW s \in Sockets, ReplicaCloses(s)
    PROVE  LineInv' /\ s = socket
<1> USE RealtimeAssumption, SocketFacts DEF RealtimeTypeOK, LineInv, page, server, histories
<1>1. s = socket
  BY OnlyOne DEF ReplicaCloses, CloseFrame, Closes
<1>2. chan' = [chan EXCEPT ![s] = << >>] /\ chan \in [Sockets -> Seq(EventTypes)] /\ UNCHANGED fetch
  BY DEF ReplicaCloses, ChannelInv, refetch
<1>3. CASE CloseFrame(s)
  BY <1>1, <1>2, <1>3 DEF CloseFrame
<1>4. CASE Closes(s)
  BY <1>1, <1>2, <1>4 DEF Closes
<1> QED
  BY <1>1, <1>3, <1>4 DEF ReplicaCloses

(* What is sent is sent to sockets in the room. *)
LEMMA LineSends ==
    ASSUME RealtimeTypeOK, LifeInv, LineInv, UNCHANGED realtimeVars, UNCHANGED fetch,
           NEW event, NEW x, Broadcast(event, x)
    PROVE  LineInv'
  BY DEF RealtimeTypeOK, LifeInv, LineInv, Broadcast, realtimeVars, page, server, histories

(* An event is read, a refetch moves on, or nothing of the line changes. *)
LEMMA LineReads ==
    ASSUME RealtimeTypeOK, LifeInv, LineInv, ChannelInv, UNCHANGED realtimeVars, UNCHANGED fetch,
           NEW s \in Sockets, chan[s] # << >>, chan' = [chan EXCEPT ![s] = Tail(@)]
    PROVE  LineInv'
  BY DEF RealtimeTypeOK, LifeInv, LineInv, ChannelInv, realtimeVars, page, server, histories

LEMMA LineFetches ==
    ASSUME RealtimeTypeOK, LineInv, UNCHANGED chan,
           UNCHANGED <<should, active, muted, crossed, socket, fetching, timer, wire, state, up, room>>,
           NEW s \in Sockets, NEW f \in {"none", "asked", "answered", "over"},
           fetch' = [fetch EXCEPT ![s] = f]
    PROVE  LineInv'
  BY DEF LineInv

-----------------------------------------------------------------------------
(* The events unread. *)

LEMMA PendingFacts ==
    ASSUME RealtimeTypeOK, ChannelInv
    PROVE  /\ Pending \in Seq(EventTypes)
           /\ \A j \in 1 .. Len(Pending) :
                /\ Pending[j].type \in {"created", "deleted"} => Pending[j].row \in Rows
                /\ Pending[j].type = "created" => Pending[j].row <= born
  BY DEF RealtimeTypeOK, ChannelInv, Pending

LEMMA SaysAppended ==
    ASSUME Pending \in Seq(EventTypes), NEW e \in EventTypes, Pending' = Append(Pending, e)
    PROVE  \A type, i : Says(type, i)' <=> Says(type, i) \/ (e.type = type /\ e.row = i)
<1>1. /\ Len(Pending') = Len(Pending) + 1 /\ Len(Pending) \in Nat
      /\ \A j \in 1 .. Len(Pending) : Pending'[j] = Pending[j]
      /\ Pending'[Len(Pending) + 1] = e
  OBVIOUS
<1>2. \A j \in 1 .. Len(Pending') : j \in 1 .. Len(Pending) \/ j = Len(Pending) + 1
  BY <1>1
<1>3. Len(Pending) + 1 \in 1 .. Len(Pending') /\ 1 .. Len(Pending) \subseteq 1 .. Len(Pending')
  BY <1>1
<1> QED
  BY <1>1, <1>2, <1>3 DEF Says

LEMMA TailFacts ==
    ASSUME Pending \in Seq(EventTypes), Pending # << >>, Pending' = Tail(Pending)
    PROVE  /\ Len(Pending) \in Nat /\ Len(Pending') = Len(Pending) - 1
           /\ \A j \in 1 .. Len(Pending') : j + 1 \in 1 .. Len(Pending) /\ Pending'[j] = Pending[j + 1]
           /\ 1 \in 1 .. Len(Pending) /\ Pending[1] = Head(Pending)
           /\ \A j \in 2 .. Len(Pending) : j - 1 \in 1 .. Len(Pending') /\ Pending'[j - 1] = Pending[j]
<1>1. Len(Pending) \in Nat /\ Len(Pending) # 0
  BY EmptySeq
<1>2. Len(Pending') = Len(Pending) - 1 /\ \A j \in 1 .. Len(Pending') : Pending'[j] = Pending[j + 1]
  BY HeadTailProperties
<1>3. \A j \in 2 .. Len(Pending) : j - 1 \in 1 .. Len(Pending') /\ (j - 1) + 1 = j
  BY <1>1, <1>2
<1> QED
  BY <1>1, <1>2, <1>3

LEMMA SaysOfTail ==
    ASSUME Pending \in Seq(EventTypes), Pending # << >>, Pending' = Tail(Pending)
    PROVE  \A type, i : /\ Says(type, i)' => Says(type, i)
                        /\ Says(type, i) => Says(type, i)' \/ (Head(Pending).type = type /\ Head(Pending).row = i)
<1>1. ASSUME NEW type, NEW i, Says(type, i)' PROVE Says(type, i)
  BY <1>1, TailFacts DEF Says
<1>2. ASSUME NEW type, NEW i, Says(type, i), ~(Head(Pending).type = type /\ Head(Pending).row = i)
      PROVE  Says(type, i)'
  <2>1. PICK j \in 1 .. Len(Pending) : Pending[j].type = type /\ Pending[j].row = i
    BY <1>2 DEF Says
  <2>2. j \in 2 .. Len(Pending)
    BY <1>2, <2>1, TailFacts
  <2> QED
    BY <2>1, <2>2, TailFacts DEF Says
<1> QED
  BY <1>1, <1>2

(* A deletion under way, or a removal of the page, for each row that goes.  *)
LEMMA FollowSame ==
    ASSUME DeletionsFollow, Pending' = Pending, \A i : Removed(i) => Removed(i)',
           \A i \in Rows : i \notin live' => i \notin live \/ Removed(i)',
           \A j \in 1 .. Len(Pending) : Pending[j].type = "created" => Pending[j].row \in Rows
    PROVE  DeletionsFollow'
  BY DEF DeletionsFollow

LEMMA FollowAppended ==
    ASSUME DeletionsFollow, Pending \in Seq(EventTypes), NEW e \in EventTypes,
           Pending' = Append(Pending, e), \A i : Removed(i) => Removed(i)',
           \A i \in Rows : i \notin live' => \/ i \notin live \/ Removed(i)'
                                             \/ e.type = "deleted" /\ e.row = i,
           \A j \in 1 .. Len(Pending) : Pending[j].type = "created" => Pending[j].row \in Rows,
           e.type = "created" => e.row \in live'
    PROVE  DeletionsFollow'
<1>1. /\ Len(Pending') = Len(Pending) + 1 /\ Len(Pending) \in Nat
      /\ \A j \in 1 .. Len(Pending) : Pending'[j] = Pending[j]
      /\ Pending'[Len(Pending) + 1] = e
  OBVIOUS
<1>2. \A j \in 1 .. Len(Pending') : j \in 1 .. Len(Pending) \/ j = Len(Pending) + 1
  BY <1>1
<1>3. ASSUME NEW j \in 1 .. Len(Pending), Pending[j].type = "created", Pending[j].row \notin live'
      PROVE  \/ Removed(Pending[j].row)'
             \/ \E l \in j + 1 .. Len(Pending') :
                   Pending'[l].type = "deleted" /\ Pending'[l].row = Pending[j].row
  <2>1. CASE Pending[j].row \notin live
    <3>1. CASE Removed(Pending[j].row)
      BY <3>1
    <3>2. CASE \E l \in j + 1 .. Len(Pending) :
                  Pending[l].type = "deleted" /\ Pending[l].row = Pending[j].row
      <4>1. \A l \in j + 1 .. Len(Pending) : l \in 1 .. Len(Pending) /\ l \in j + 1 .. Len(Pending')
        BY <1>1
      <4> QED
        BY <1>1, <3>2, <4>1
    <3> QED
      BY <1>3, <2>1, <3>1, <3>2 DEF DeletionsFollow
  <2>2. CASE e.type = "deleted" /\ e.row = Pending[j].row
    <3>1. Len(Pending) + 1 \in j + 1 .. Len(Pending')
      BY <1>1
    <3> QED
      BY <1>1, <2>2, <3>1
  <2> QED
    BY <1>3, <2>1, <2>2
<1> QED
  BY <1>1, <1>2, <1>3 DEF DeletionsFollow

LEMMA FollowTail ==
    ASSUME DeletionsFollow, Pending \in Seq(EventTypes), Pending # << >>, Pending' = Tail(Pending),
           UNCHANGED <<live, kind, target>>
    PROVE  DeletionsFollow'
<1>2. ASSUME NEW j \in 1 .. Len(Pending'), Pending'[j].type = "created", Pending'[j].row \notin live,
             ~ \E c \in Reqs : kind'[c] = "remove" /\ target'[c] = Pending'[j].row
      PROVE  \E l \in j + 1 .. Len(Pending') :
                Pending'[l].type = "deleted" /\ Pending'[l].row = Pending'[j].row
  <2>1. j + 1 \in 1 .. Len(Pending) /\ Pending'[j] = Pending[j + 1]
    BY TailFacts
  <2>2. ~Removed(Pending[j + 1].row)
    BY <1>2, <2>1 DEF Removed
  <2>3. CASE \E l \in (j + 1) + 1 .. Len(Pending) :
                Pending[l].type = "deleted" /\ Pending[l].row = Pending[j + 1].row
    <3>1. PICK l \in (j + 1) + 1 .. Len(Pending) :
                 Pending[l].type = "deleted" /\ Pending[l].row = Pending[j + 1].row
      BY <2>3
    <3>2. l \in 2 .. Len(Pending) /\ l - 1 \in j + 1 .. Len(Pending')
      BY TailFacts
    <3> QED
      BY <2>1, <3>1, <3>2, TailFacts
  <2> QED
    BY <1>2, <2>1, <2>2, <2>3 DEF DeletionsFollow
<1> QED
  BY <1>2 DEF DeletionsFollow, Removed

(* What a write of the server adds to the events unread. *)
LEMMA PendingGrows ==
    ASSUME RealtimeTypeOK, ChannelInv, UNCHANGED socket, NEW event, NEW x, Broadcast(event, x)
    PROVE  /\ Pending' = Pending \/ Pending' = Append(Pending, event)
           /\ Reaches /\ x = Nil => Pending' = Append(Pending, event)
  BY DEF RealtimeTypeOK, ChannelInv, Pending, Broadcast, Reaches, IsOpen

-----------------------------------------------------------------------------
(* Staying in step. *)

(* The requests under way and the rows stay as they are, and no event that  *)
(* is waited for is lost.                                                   *)
LEMMA InStepKept ==
    ASSUME NEW L, InStep(L), UNCHANGED live, DeletionsFollow',
           \A type, i : Says(type, i) => Says(type, i)',
           \A c \in Reqs : /\ Making(c) <=> Making(c)'
                           /\ Removing(c) => Removing(c)'
                           /\ Making(c)' /\ phase'[c] = "sent" => phase[c] = "sent"
                           /\ Making(c) \/ Removing(c) => target'[c] = target[c]
    PROVE  InStep(L)'
<1>1. HoldsTemps(L)'
  BY DEF InStep, HoldsTemps
<1>2. HoldsLive(L)'
  BY DEF InStep, HoldsLive
<1>3. DropsGone(L)'
  BY DEF InStep, DropsGone
<1> QED
  BY <1>1, <1>2, <1>3 DEF InStep

LEMMA SameRequests ==
    ASSUME UNCHANGED <<kind, phase, target>>
    PROVE  /\ Unanswered' = Unanswered
           /\ \A c : (Making(c)' <=> Making(c)) /\ (Removing(c)' <=> Removing(c))
           /\ \A i : Removed(i)' <=> Removed(i)
  BY DEF Unanswered, Making, Removing, Removed

LEMMA CreatedRows ==
    ASSUME RealtimeTypeOK, ReplicaInv
    PROVE  \A j \in 1 .. Len(Pending) : Pending[j].type = "created" => Pending[j].row \in Rows
  BY PendingFacts DEF ReplicaInv

(* Neither the rows, the requests, the list nor the events unread change.   *)
LEMMA Quietly ==
    ASSUME RealtimeTypeOK, ReplicaInv, TogetherInv,
           UNCHANGED <<live, born, kind, phase, target, before, shown, overlapped>>,
           Pending' = Pending, Reaches' => Reaches \/ Pending = << >>,
           \A s \in Sockets : chan'[s] = chan[s] \/ chan'[s] = << >>,
           \A s \in Answers' \ spoiled' : s \in Answers \ spoiled /\ snap'[s] = snap[s],
           doubt' = "no" => doubt = "no"
    PROVE  TogetherInv'
<1>1. /\ Unanswered' = Unanswered
      /\ \A c : (Making(c)' <=> Making(c)) /\ (Removing(c)' <=> Removing(c))
      /\ \A i : Removed(i)' <=> Removed(i)
  BY SameRequests
<1>2. \A type, i : Says(type, i) <=> Says(type, i)'
  BY DEF Says
<1>3. DeletionsFollow => DeletionsFollow'
  BY <1>1, CreatedRows, FollowSame
<1>4. FactsInv'
  <2>1. Reaches' => DeletionsFollow'
    <3>1. CASE Pending = << >>
      BY <3>1 DEF DeletionsFollow
    <3> QED
      BY <1>3, <3>1 DEF TogetherInv, FactsInv
  <2> QED
    BY <2>1 DEF TogetherInv, FactsInv
<1>5. RollbackInv'
  BY <1>1 DEF TogetherInv, RollbackInv
<1>6. \A L : InStep(L) => InStep(L)'
  <2>1. ASSUME NEW L, InStep(L) PROVE InStep(L)'
    <3>1. DeletionsFollow'
      BY <1>3, <2>1 DEF InStep
    <3> QED
      BY <1>1, <1>2, <2>1, <3>1, InStepKept
  <2> QED
    BY <2>1
<1>7. AnswersInv'
  BY <1>1, <1>6 DEF TogetherInv, AnswersInv, ListOf
<1>8. ASSUME doubt' = "no" PROVE InStep(shown)' /\ RemovalsInv'
  <2>1. InStep(shown) /\ RemovalsInv
    BY <1>8 DEF TogetherInv
  <2>2. PICK L : L = shown /\ InStep(L)
    BY <2>1
  <2>3. InStep(L)' /\ L = shown'
    BY <1>6, <2>2
  <2>4. RemovalsInv'
    BY <1>1, <1>2, <2>1 DEF RemovalsInv
  <2> QED
    BY <2>3, <2>4
<1> QED
  BY <1>4, <1>5, <1>7, <1>8 DEF TogetherInv

LEMMA ReconnectingTogether ==
    ASSUME ConvergeInv, Reconnecting
    PROVE  TogetherInv'
<1> USE SocketFacts
<1>1. /\ UNCHANGED <<live, born, kind, phase, target, before, shown, overlapped, chan, fetch, snap,
                     spoiled, doubt>>
      /\ RealtimeTypeOK /\ LifeInv /\ LineInv /\ ReplicaInv /\ TogetherInv
  BY DEF Reconnecting, store, request, refetch, exposure, ConvergeInv
<1>2. Pending' = Pending /\ (Reaches' => Reaches \/ Pending = << >>)
  <2> USE <1>1 DEF RealtimeTypeOK, LineInv, Pending, Reaches, IsOpen, page, server
  <2>1. CASE TimerFires
    BY <2>1 DEF TimerFires
  <2>2. CASE TokenArrives
    <3>1. opened + 1 \in Sockets /\ opened + 1 > opened
      BY <2>2, RealtimeAssumption DEF TokenArrives, Sockets
    <3>2. chan[opened + 1] = << >>
      BY <3>1 DEF LifeInv
    <3> QED
      BY <2>2, <3>1, <3>2 DEF TokenArrives
  <2>3. CASE TokenFails
    BY <2>3 DEF TokenFails
  <2>4. ASSUME NEW s \in Sockets, ServerReads(s)
        PROVE  Pending' = Pending /\ (Reaches' => Reaches \/ Pending = << >>)
    BY <2>4 DEF ServerReads
  <2>5. ASSUME NEW s \in Sockets, ServerCloses(s)
        PROVE  Pending' = Pending /\ (Reaches' => Reaches \/ Pending = << >>)
    BY <2>5 DEF ServerCloses
  <2> QED
    BY <2>1, <2>2, <2>3, <2>4, <2>5 DEF Reconnecting
<1>3. Answers' = Answers
  BY <1>1 DEF Answers
<1> QED
  BY <1>1, <1>2, <1>3, Quietly

LEMMA OpensTogether ==
    ASSUME ConvergeInv, NEW s \in Sockets, ReplicaOpens(s)
    PROVE  TogetherInv'
<1>1. /\ UNCHANGED <<live, born, kind, phase, target, before, shown, overlapped, chan, fetch, snap,
                     spoiled, doubt>>
      /\ RealtimeTypeOK /\ CurrentInv /\ LifeInv /\ LineInv /\ ReplicaInv /\ TogetherInv
  BY DEF ReplicaOpens, store, request, refetch, exposure, ConvergeInv
<1>2. state[s] = "connecting" /\ s = socket /\ UNCHANGED <<socket, room>>
  BY <1>1, OnlyOne DEF ReplicaOpens, Opens
<1>3. Pending' = Pending /\ Pending = << >>
  BY <1>1, <1>2, SocketFacts DEF LineInv, Pending
<1>4. Answers' = Answers
  BY <1>1 DEF Answers
<1> QED
  BY <1>1, <1>3, <1>4, Quietly

(* A step that leaves the connection and the channels alone. *)
LEMMA WelcomeTogether ==
    ASSUME ConvergeInv, NEW s \in Sockets, ReadWelcome(s)
    PROVE  TogetherInv'
<1>1. /\ UNCHANGED <<live, born, kind, phase, target, before, shown, overlapped, chan, fetch, snap,
                     spoiled, doubt, socket, state, up, room>>
      /\ RealtimeTypeOK /\ ReplicaInv /\ TogetherInv
  BY DEF ReadWelcome, store, request, refetch, exposure, ConvergeInv, connection, realtimeVars,
         page, server
<1>2. Pending' = Pending /\ (Reaches' <=> Reaches) /\ Answers' = Answers
  BY <1>1 DEF Pending, Reaches, IsOpen, Answers
<1> QED
  BY <1>1, <1>2, Quietly

LEMMA RefetchTogether ==
    ASSUME ConvergeInv, NEW s \in Sockets, Refetch(s)
    PROVE  TogetherInv'
<1>1. /\ UNCHANGED <<live, born, kind, phase, target, before, shown, overlapped, chan, snap,
                     spoiled, doubt, socket, state, up, room>>
      /\ RealtimeTypeOK /\ LineInv /\ ReplicaInv /\ TogetherInv
  BY DEF Refetch, HookDone, store, request, exposure, ConvergeInv, server
<1>2. Pending' = Pending /\ (Reaches' <=> Reaches)
  BY <1>1 DEF Pending, Reaches, IsOpen
<1>3. Answers' \subseteq Answers
  BY <1>1 DEF Answers, Refetch, LineInv
<1> QED
  BY <1>1, <1>2, <1>3, Quietly

(* Unread events that are lost with their socket put the list in doubt. *)
LEMMA ClosesTogether ==
    ASSUME ConvergeInv, NEW s \in Sockets, ReplicaCloses(s)
    PROVE  TogetherInv'
<1>1. /\ UNCHANGED <<live, born, kind, phase, target, before, shown, overlapped, fetch, snap>>
      /\ RealtimeTypeOK /\ CurrentInv /\ LifeInv /\ LineInv /\ ReplicaInv /\ TogetherInv
      /\ chan' = [chan EXCEPT ![s] = << >>] /\ chan \in [Sockets -> Seq(EventTypes)]
      /\ Doubt(chan[s] # << >>)
  BY DEF ReplicaCloses, store, request, refetch, ConvergeInv, ReplicaInv, ChannelInv
<1>2. s = socket /\ (socket' = s \/ socket' = Nil) /\ UNCHANGED <<up, room>>
  BY <1>1, LineCloses DEF ReplicaCloses, CloseFrame, Closes, server, ConvergeInv, ReplicaInv
<1>3. Pending' = << >> /\ Pending = chan[s]
  BY <1>1, <1>2, SocketFacts DEF Pending
<1>4. Answers' = Answers
  BY <1>1 DEF Answers
<1>5. \A t \in Sockets : chan'[t] = chan[t] \/ chan'[t] = << >>
  BY <1>1
<1>6. CASE chan[s] = << >>
  <2>1. UNCHANGED <<spoiled, doubt>>
    BY <1>1, <1>6 DEF Doubt
  <2> QED
    BY <1>1, <1>3, <1>4, <1>5, <1>6, <2>1, Quietly
<1>7. CASE chan[s] # << >>
  <2>1. doubt' = "yes" /\ Answers' \subseteq spoiled'
    BY <1>1, <1>4, <1>7 DEF Doubt
  <2>2. DeletionsFollow'
    BY <1>3 DEF DeletionsFollow
  <2>3. FactsInv'
    BY <1>1, <1>5, <2>2 DEF TogetherInv, FactsInv
  <2>4. RollbackInv'
    BY <1>1, SameRequests DEF TogetherInv, RollbackInv
  <2>5. AnswersInv'
    BY <2>1 DEF AnswersInv
  <2> QED
    BY <2>1, <2>3, <2>4, <2>5 DEF TogetherInv
<1> QED
  BY <1>6, <1>7

-----------------------------------------------------------------------------
(* The refetches. *)

(* A response that crosses nothing has the server's rows of this moment. *)
LEMMA FetchAnsweredTogether ==
    ASSUME ConvergeInv, NEW s \in Sockets, FetchAnswered(s)
    PROVE  TogetherInv'
<1>1. /\ UNCHANGED <<live, born, kind, phase, target, before, shown, overlapped, chan,
                     doubt, socket, state, up, room>>
      /\ RealtimeTypeOK /\ LineInv /\ ReplicaInv /\ TogetherInv
      /\ fetch' = [fetch EXCEPT ![s] = "answered"] /\ snap' = [snap EXCEPT ![s] = live]
      /\ spoiled' = IF Unanswered # {} \/ Overtakes THEN spoiled \cup {s} ELSE spoiled \ {s}
  BY DEF FetchAnswered, store, request, exposure, ConvergeInv, connection, realtimeVars, page, server
<1>2. Pending' = Pending /\ (Reaches' <=> Reaches) /\ Unanswered' = Unanswered
  BY <1>1 DEF Pending, Reaches, IsOpen, Unanswered
<1>3. Answers' = Answers \cup {s} /\ fetch \in [Sockets -> {"none", "asked", "answered", "over"}]
  BY <1>1 DEF Answers, LineInv
<1>4. live \subseteq Rows /\ snap \in [Sockets -> SUBSET Rows]
  BY <1>1 DEF ReplicaInv, RowsInv
<1>5. \A t \in Answers' \ spoiled' : t # s => t \in Answers \ spoiled /\ snap'[t] = snap[t]
  BY <1>1, <1>3, <1>4 DEF Answers
<1>6. /\ \A c : (Making(c)' <=> Making(c)) /\ (Removing(c)' <=> Removing(c))
      /\ \A i : Removed(i)' <=> Removed(i)
  BY <1>1, SameRequests
<1>7. \A type, i : Says(type, i) <=> Says(type, i)'
  BY <1>2 DEF Says
<1>8. DeletionsFollow => DeletionsFollow'
  BY <1>1, <1>2, <1>6, CreatedRows, FollowSame
<1>9. \A L : InStep(L) => InStep(L)'
  <2>1. ASSUME NEW L, InStep(L) PROVE InStep(L)'
    <3>1. DeletionsFollow'
      BY <1>8, <2>1 DEF InStep
    <3> QED
      BY <1>1, <1>6, <1>7, <2>1, <3>1, InStepKept
  <2> QED
    BY <2>1
<1>10. FactsInv' /\ RollbackInv'
  BY <1>1, <1>2, <1>6, <1>8 DEF TogetherInv, FactsInv, RollbackInv
<1>11. ASSUME s \notin spoiled' PROVE Unanswered = {} /\ InStep(ListOf(live))
  <2>1. Unanswered = {} /\ ~Overtakes
    BY <1>1, <1>11
  <2>2. DeletionsFollow
    <3>1. CASE Pending = << >>
      BY <3>1 DEF DeletionsFollow
    <3>2. CASE Pending # << >>
      <4>1. Reaches
        BY <2>1, <3>2 DEF Overtakes, Pending
      <4> QED
        BY <1>1, <4>1 DEF TogetherInv, FactsInv
    <3> QED
      BY <3>1, <3>2
  <2>3. \A c \in Reqs : ~Making(c)
    BY <2>1 DEF Making
  <2>4. \A k \in Keys : ListOf(live)[k] = IF k \in live THEN 1 ELSE 0
    BY DEF ListOf
  <2>5. /\ \A c \in Reqs : ListOf(live)[0 - c] = 0
        /\ \A i \in Rows : ListOf(live)[i] = IF i \in live THEN 1 ELSE 0
    BY <1>4, <2>4, KeyFacts
  <2>6. HoldsTemps(ListOf(live))
    BY <2>3, <2>4, <2>5 DEF HoldsTemps
  <2>7. HoldsLive(ListOf(live)) /\ DropsGone(ListOf(live))
    BY <1>4, <2>3, <2>5 DEF HoldsLive, DropsGone
  <2> QED
    BY <2>1, <2>2, <2>6, <2>7 DEF InStep
<1>12. AnswersInv'
  <2>1. ASSUME NEW t \in Answers' \ spoiled' PROVE Unanswered' = {} /\ InStep(ListOf(snap[t]))'
    <3>1. CASE t = s
      <4>1. snap'[t] = live
        BY <1>1, <1>4, <3>1
      <4>2. PICK L : L = ListOf(live) /\ InStep(L)
        BY <1>11, <2>1, <3>1
      <4>3. InStep(L)' /\ L = ListOf(snap'[t])
        BY <1>9, <4>1, <4>2
      <4>4. ListOf(snap'[t]) = ListOf(snap[t])'
        BY DEF ListOf
      <4> QED
        BY <1>2, <1>11, <2>1, <3>1, <4>3, <4>4
    <3>2. CASE t # s
      <4>1. t \in Answers \ spoiled /\ snap'[t] = snap[t]
        BY <1>5, <2>1, <3>2
      <4>2. PICK L : L = ListOf(snap[t]) /\ InStep(L)
        BY <1>1, <4>1 DEF TogetherInv, AnswersInv
      <4>3. InStep(L)' /\ L = ListOf(snap[t])'
        BY <1>9, <4>1, <4>2 DEF ListOf
      <4> QED
        BY <1>1, <1>2, <4>1, <4>3 DEF TogetherInv, AnswersInv
    <3> QED
      BY <3>1, <3>2
  <2> QED
    BY <2>1 DEF AnswersInv
<1>13. ASSUME doubt' = "no" PROVE InStep(shown)' /\ RemovalsInv'
  <2>1. InStep(shown) /\ RemovalsInv
    BY <1>1, <1>13 DEF TogetherInv
  <2>2. PICK L : L = shown /\ InStep(L)
    BY <2>1
  <2>3. InStep(L)' /\ L = shown'
    BY <1>1, <1>9, <2>2
  <2> QED
    BY <1>1, <1>6, <1>7, <2>1, <2>3 DEF RemovalsInv
<1> QED
  BY <1>10, <1>12, <1>13 DEF TogetherInv

(* The rows, the requests, the connection and the channels are untouched. *)
LEMMA StoreStays ==
    ASSUME ConvergeInv, UNCHANGED <<live, born, kind, phase, target, chan, socket, state, up, room>>
    PROVE  /\ Pending' = Pending /\ (Reaches' <=> Reaches) /\ Unanswered' = Unanswered
           /\ \A c : (Making(c)' <=> Making(c)) /\ (Removing(c)' <=> Removing(c))
           /\ \A type, i : Says(type, i) <=> Says(type, i)'
           /\ \A L : InStep(L) => InStep(L)'
           /\ FactsInv'
<1>1. RealtimeTypeOK /\ ReplicaInv /\ TogetherInv
  BY DEF ConvergeInv
<1>2. Pending' = Pending /\ (Reaches' <=> Reaches) /\ Unanswered' = Unanswered
  BY DEF Pending, Reaches, IsOpen, Unanswered
<1>3. /\ \A c : (Making(c)' <=> Making(c)) /\ (Removing(c)' <=> Removing(c))
      /\ \A i : Removed(i)' <=> Removed(i)
  BY SameRequests
<1>4. \A type, i : Says(type, i) <=> Says(type, i)'
  BY <1>2 DEF Says
<1>5. DeletionsFollow => DeletionsFollow'
  BY <1>1, <1>2, <1>3, CreatedRows, FollowSame
<1>6. ASSUME NEW L, InStep(L) PROVE InStep(L)'
  <2>1. DeletionsFollow'
    BY <1>5, <1>6 DEF InStep
  <2> QED
    BY <1>3, <1>4, <1>6, <2>1, InStepKept
<1>7. FactsInv'
  BY <1>1, <1>2, <1>5 DEF TogetherInv, FactsInv
<1> QED
  BY <1>2, <1>3, <1>4, <1>6, <1>7

(* A response that is in step makes the list so. *)
LEMMA AppliesTogether ==
    ASSUME ConvergeInv, NEW s \in Sockets, FetchApplies(s)
    PROVE  TogetherInv'
<1>1. /\ UNCHANGED <<live, born, kind, phase, target, before, chan, spoiled, socket, state, up, room>>
      /\ LineInv /\ ReplicaInv /\ TogetherInv /\ s \in Answers
      /\ fetch' = [fetch EXCEPT ![s] = "over"] /\ snap' = [snap EXCEPT ![s] = {}]
      /\ shown' = ListOf(snap[s]) /\ overlapped' = overlapped \cup Unanswered
      /\ doubt' = IF s \in spoiled THEN "yes" ELSE "no"
  BY DEF FetchApplies, FetchOver, Answers, store, request, ConvergeInv, connection, realtimeVars,
         page, server
<1>2. /\ Pending' = Pending /\ Unanswered' = Unanswered
      /\ \A c : (Making(c)' <=> Making(c)) /\ (Removing(c)' <=> Removing(c))
      /\ \A L : InStep(L) => InStep(L)'
      /\ FactsInv'
  BY <1>1, StoreStays
<1>3. \A t \in Answers' \ spoiled' : t \in Answers \ spoiled /\ snap'[t] = snap[t]
  BY <1>1 DEF Answers, LineInv, ReplicaInv, RowsInv
<1>4. AnswersInv'
  BY <1>1, <1>2, <1>3 DEF TogetherInv, AnswersInv, ListOf
<1>5. RollbackInv'
  BY <1>1, <1>2 DEF RollbackInv, Unanswered, Removing
<1>6. ASSUME doubt' = "no" PROVE InStep(shown)' /\ RemovalsInv'
  <2>1. Unanswered = {} /\ InStep(ListOf(snap[s]))
    BY <1>1, <1>6 DEF TogetherInv, AnswersInv
  <2>2. PICK L : L = ListOf(snap[s]) /\ InStep(L)
    BY <2>1
  <2>3. InStep(L)' /\ L = shown'
    BY <1>1, <1>2, <2>2
  <2>4. \A c \in Reqs : ~Removing(c)
    BY <2>1 DEF Removing, Unanswered
  <2> QED
    BY <1>2, <2>3, <2>4 DEF RemovalsInv
<1> QED
  BY <1>2, <1>4, <1>5, <1>6 DEF TogetherInv

LEMMA FetchFailsTogether ==
    ASSUME ConvergeInv, NEW s \in Sockets, FetchFails(s)
    PROVE  TogetherInv'
<1>1. /\ UNCHANGED <<live, born, kind, phase, target, before, chan, socket, state, up, room>>
      /\ RealtimeTypeOK /\ LineInv /\ ReplicaInv /\ TogetherInv
      /\ fetch' = [fetch EXCEPT ![s] = "over"] /\ snap' = [snap EXCEPT ![s] = {}]
      /\ \/ Changes(Nil, TRUE)
         \/ UNCHANGED <<shown, doubt, spoiled, overlapped>>
  BY DEF FetchFails, FetchOver, store, request, ConvergeInv, connection, realtimeVars, page, server
<1>2. /\ Pending' = Pending /\ Unanswered' = Unanswered /\ (Reaches' <=> Reaches)
      /\ \A c : (Making(c)' <=> Making(c)) /\ (Removing(c)' <=> Removing(c))
      /\ FactsInv'
  BY <1>1, StoreStays
<1>3. \A t \in Answers' : t \in Answers /\ snap'[t] = snap[t]
  BY <1>1 DEF Answers, LineInv, ReplicaInv, RowsInv
<1>4. CASE Changes(Nil, TRUE)
  <2>1. doubt' = "yes" /\ Answers' \subseteq spoiled' /\ (\A c \in Unanswered : c \in overlapped')
    BY <1>3, <1>4, KeyFacts, RealtimeAssumption DEF Changes, Unanswered
  <2>2. RollbackInv'
    BY <1>2, <2>1 DEF RollbackInv, Unanswered, Removing
  <2>3. AnswersInv'
    BY <2>1 DEF AnswersInv
  <2> QED
    BY <1>2, <2>1, <2>2, <2>3 DEF TogetherInv
<1>5. CASE UNCHANGED <<shown, doubt, spoiled, overlapped>>
  BY <1>1, <1>2, <1>3, <1>5, Quietly
<1> QED
  BY <1>1, <1>4, <1>5

-----------------------------------------------------------------------------
(* The list changes: what holds at once. *)

(* Every request under way has now seen the list change, but c. *)
LEMMA Overlaps ==
    ASSUME NEW c, NEW wrong, Changes(c, wrong)
    PROVE  /\ Answers' = Answers => AnswersInv'
           /\ \A d \in Unanswered : d # c => d \in overlapped'
           /\ c \notin overlapped'
           /\ doubt' = "no" => doubt = "no" /\ ~wrong
  BY DEF Changes, AnswersInv

-----------------------------------------------------------------------------
(* The events. *)

(* What is known when the next event is read while the list is in step. *)
LEMMA EventRead ==
    ASSUME ConvergeInv, NEW s \in Sockets, ReadEvent(s)
    PROVE  /\ s = socket /\ Pending = chan[s] /\ Pending # << >> /\ Pending' = Tail(Pending)
           /\ UNCHANGED <<live, born, kind, phase, target, before, fetch, snap>>
           /\ (Reaches' <=> Reaches) /\ Unanswered' = Unanswered /\ Answers' = Answers
           /\ \A c : (Making(c)' <=> Making(c)) /\ (Removing(c)' <=> Removing(c))
           /\ DeletionsFollow => DeletionsFollow'
           /\ FactsInv'
<1>1. RealtimeTypeOK /\ CurrentInv /\ LineInv /\ ReplicaInv /\ ChannelInv /\ FactsInv
  BY DEF ConvergeInv, TogetherInv, ReplicaInv
<1>2. state[s] = "open" /\ chan[s] # << >> /\ chan' = [chan EXCEPT ![s] = Tail(@)]
  BY DEF ReadEvent
<1>3. s = socket /\ socket # Nil
  BY <1>1, <1>2, OnlyOne, SocketFacts
<1>4. UNCHANGED <<live, born, kind, phase, target, before, fetch, snap, socket, state, up, room>>
  BY DEF ReadEvent, store, request, refetch, connection, realtimeVars, page, server
<1>5. Pending = chan[s] /\ Pending # << >> /\ Pending' = Tail(Pending)
  BY <1>1, <1>2, <1>3, <1>4 DEF Pending, ChannelInv
<1>6. (Reaches' <=> Reaches) /\ Answers' = Answers
  BY <1>4 DEF Reaches, IsOpen, Answers
<1>7. DeletionsFollow => DeletionsFollow'
  BY <1>1, <1>4, <1>5, PendingFacts, FollowTail
<1>8. ASSUME NEW t \in Sockets, NEW j \in 1 .. Len(chan'[t]), chan'[t][j].type = "deleted"
      PROVE  chan'[t][j].row <= born /\ chan'[t][j].row \notin live
  <2>1. CASE t = s
    <3>1. chan'[t] = Tail(Pending) /\ Pending \in Seq(EventTypes)
      BY <1>1, <1>2, <1>5, <2>1, PendingFacts DEF ChannelInv
    <3>2. j + 1 \in 1 .. Len(chan[s]) /\ chan'[t][j] = chan[s][j + 1]
      BY <1>5, <3>1, TailFacts
    <3> QED
      BY <1>1, <1>8, <3>2 DEF FactsInv
  <2>2. CASE t # s
    <3>1. chan'[t] = chan[t]
      BY <1>1, <1>2, <2>2 DEF ChannelInv
    <3> QED
      BY <1>1, <1>8, <3>1 DEF FactsInv
  <2> QED
    BY <2>1, <2>2
<1>9. FactsInv'
  BY <1>1, <1>4, <1>6, <1>7, <1>8 DEF FactsInv
<1> QED
  BY <1>3, <1>4, <1>5, <1>6, <1>7, <1>9, SameRequests

(* The list M after the event that row i was created. *)
LEMMA AfterCreated ==
    ASSUME ConvergeInv, doubt = "no", NEW s \in Sockets, ReadEvent(s),
           NEW i \in Rows, Head(chan[s]).type = "created", Head(chan[s]).row = i,
           NEW M \in [Keys -> Nat], M[i] = 1, \A j \in Rows \ {i} : M[j] = shown[j],
           \A c \in Reqs : M[0 - c] = shown[0 - c] \/ (M[0 - c] = 0 /\ target[c] = i),
           \A c \in Reqs : Making(c) /\ target[c] = i => M[0 - c] = 0,
           shown[i] > 0 \/ ~Removed(i)
    PROVE  /\ InStep(M)'
           /\ \A c \in Reqs : Removing(c) =>
                /\ M[target[c]] = 0
                /\ \A d \in Reqs : Making(d) /\ target[d] = target[c] => M[0 - d] = 0
<1>1. /\ HoldsTemps(shown) /\ HoldsLive(shown) /\ DropsGone(shown) /\ DeletionsFollow /\ RemovalsInv
      /\ shown \in [Keys -> Nat] /\ FactsInv /\ ReplicaInv /\ RealtimeTypeOK
  BY DEF ConvergeInv, TogetherInv, InStep, ReplicaInv, ListsInv, GoodList
<1>2. /\ Pending = chan[s] /\ Pending # << >> /\ Pending' = Tail(Pending)
      /\ UNCHANGED <<live, born, kind, phase, target, before>>
      /\ \A c : (Making(c)' <=> Making(c)) /\ (Removing(c)' <=> Removing(c))
      /\ DeletionsFollow'
  BY <1>1, EventRead
<1>3. Pending \in Seq(EventTypes)
  BY <1>1, PendingFacts DEF ReplicaInv
<1>4. \A type, j : Says(type, j) => Says(type, j)' \/ (type = "created" /\ j = i)
  BY <1>2, <1>3, SaysOfTail
<1>5. i \notin live => Says("deleted", i)'
  <2>1. SUFFICES ASSUME i \notin live PROVE Says("deleted", i)
    BY <1>4
  <2>2. CASE shown[i] > 0
    BY <1>1, <2>1, <2>2 DEF DropsGone
  <2>3. CASE ~Removed(i)
    <3>1. 1 \in 1 .. Len(Pending) /\ Pending[1] = Head(Pending) /\ Len(Pending) \in Nat
      BY <1>2, <1>3, TailFacts
    <3>2. \E l \in 1 + 1 .. Len(Pending) : Pending[l].type = "deleted" /\ Pending[l].row = i
      BY <1>1, <1>2, <2>1, <2>3, <3>1 DEF DeletionsFollow
    <3>3. \A l \in 1 + 1 .. Len(Pending) : l \in 1 .. Len(Pending)
      BY <3>1
    <3> QED
      BY <3>2, <3>3 DEF Says
  <2> QED
    BY <2>2, <2>3
<1>6. \A c \in Reqs : M[0 - c] <= shown[0 - c] /\ M[0 - c] \in Nat /\ shown[0 - c] \in Nat
  BY <1>1, KeyFacts
<1>7. HoldsTemps(M)'
  <2>1. \A k \in Keys : M[k] <= 1
    <3>1. \A c \in Reqs : M[0 - c] <= 1
      BY <1>1, <1>6, KeyFacts DEF HoldsTemps
    <3>2. \A j \in Rows : M[j] <= 1
      BY <1>1, KeyFacts DEF HoldsTemps
    <3> QED
      BY <3>1, <3>2 DEF Keys, Temps
  <2>2. ASSUME NEW c \in Reqs
        PROVE  /\ M[0 - c] > 0 => Making(c)
               /\ Making(c) /\ phase[c] = "sent" => M[0 - c] = 1
               /\ Making(c) /\ target[c] \in Rows => M[target[c]] = 0 \/ M[0 - c] = 0
    <3>1. M[0 - c] > 0 => Making(c)
      BY <1>1, <1>6 DEF HoldsTemps
    <3>2. Making(c) /\ phase[c] = "sent" => M[0 - c] = 1
      BY <1>1, KeyFacts DEF HoldsTemps, FactsInv, Making
    <3>3. ASSUME Making(c), target[c] \in Rows PROVE M[target[c]] = 0 \/ M[0 - c] = 0
      <4>1. CASE target[c] = i
        BY <3>3, <4>1
      <4>2. CASE target[c] # i
        BY <1>1, <3>3, <4>2 DEF HoldsTemps
      <4> QED
        BY <4>1, <4>2
    <3> QED
      BY <3>1, <3>2, <3>3
  <2> QED
    BY <1>2, <2>1, <2>2 DEF HoldsTemps
<1>8. HoldsLive(M)'
  <2>1. ASSUME NEW j \in live
        PROVE  \/ M[j] = 1 \/ Says("created", j)'
               \/ \E c \in Reqs : target[c] = j /\ (Removing(c) \/ (Making(c) /\ M[0 - c] = 1))
    <3>1. CASE j = i
      BY <3>1
    <3>2. CASE j # i
      <4>1. j \in Rows /\ M[j] = shown[j]
        BY <1>1, <3>2 DEF ReplicaInv, RowsInv
      <4>2. Says("created", j) => Says("created", j)'
        BY <1>4, <3>2
      <4>3. \A c \in Reqs : target[c] = j => M[0 - c] = shown[0 - c]
        BY <3>2
      <4> QED
        BY <1>1, <4>1, <4>2, <4>3 DEF HoldsLive
    <3> QED
      BY <3>1, <3>2
  <2> QED
    BY <1>2, <2>1 DEF HoldsLive
<1>9. DropsGone(M)'
  <2>1. ASSUME NEW j \in Rows \ live
        PROVE  \/ Says("deleted", j)'
               \/ M[j] = 0 /\ \A c \in Reqs : Making(c) /\ target[c] = j => M[0 - c] = 0
    <3>1. CASE j = i
      BY <1>5, <2>1, <3>1
    <3>2. CASE j # i
      <4>1. Says("deleted", j) => Says("deleted", j)'
        BY <1>4
      <4>2. M[j] = shown[j] /\ \A c \in Reqs : target[c] = j => M[0 - c] = shown[0 - c]
        BY <3>2
      <4> QED
        BY <1>1, <2>1, <4>1, <4>2 DEF DropsGone
    <3> QED
      BY <3>1, <3>2
  <2> QED
    BY <1>2, <2>1 DEF DropsGone
<1>10. ASSUME NEW c \in Reqs, Removing(c)
       PROVE  /\ M[target[c]] = 0
              /\ \A d \in Reqs : Making(d) /\ target[d] = target[c] => M[0 - d] = 0
  <2>1. target[c] \in Rows /\ shown[target[c]] = 0
    BY <1>1, <1>10 DEF RemovalsInv, ReplicaInv, RequestsInv, Removing
  <2>2. target[c] # i
    BY <1>1, <1>10, <2>1 DEF Removed, Removing
  <2>3. \A d \in Reqs : target[d] = target[c] => M[0 - d] = shown[0 - d]
    BY <2>2
  <2> QED
    BY <1>1, <1>10, <2>1, <2>2, <2>3 DEF RemovalsInv
<1> QED
  BY <1>2, <1>7, <1>8, <1>9, <1>10 DEF InStep

(* The list M after the event that row i was deleted. *)
LEMMA AfterDeleted ==
    ASSUME ConvergeInv, doubt = "no", NEW s \in Sockets, ReadEvent(s),
           NEW i \in Rows, Head(chan[s]).type = "deleted", Head(chan[s]).row = i,
           NEW M \in [Keys -> Nat], M[i] = 0, \A j \in Keys \ {i} : M[j] = shown[j],
           \A c \in Reqs : Making(c) => target[c] # i
    PROVE  /\ InStep(M)'
           /\ \A c \in Reqs : Removing(c) =>
                /\ M[target[c]] = 0
                /\ \A d \in Reqs : Making(d) /\ target[d] = target[c] => M[0 - d] = 0
<1>1. /\ HoldsTemps(shown) /\ HoldsLive(shown) /\ DropsGone(shown) /\ DeletionsFollow /\ RemovalsInv
      /\ shown \in [Keys -> Nat] /\ FactsInv /\ ReplicaInv /\ RealtimeTypeOK
  BY DEF ConvergeInv, TogetherInv, InStep, ReplicaInv, ListsInv, GoodList
<1>2. /\ Pending = chan[s] /\ Pending # << >> /\ Pending' = Tail(Pending)
      /\ UNCHANGED <<live, born, kind, phase, target, before>>
      /\ \A c : (Making(c)' <=> Making(c)) /\ (Removing(c)' <=> Removing(c))
      /\ DeletionsFollow'
  BY <1>1, EventRead
<1>3. Pending \in Seq(EventTypes)
  BY <1>1, PendingFacts DEF ReplicaInv
<1>4. \A type, j : Says(type, j) => Says(type, j)' \/ (type = "deleted" /\ j = i)
  BY <1>2, <1>3, SaysOfTail
<1>5. i \notin live
  <2>1. 1 \in 1 .. Len(chan[s]) /\ chan[s][1] = Head(chan[s])
    BY <1>2, <1>3, TailFacts
  <2> QED
    BY <1>1, <2>1 DEF FactsInv
<1>6. \A c \in Reqs : M[0 - c] = shown[0 - c]
  BY KeyFacts
<1>7. \A j \in Rows : M[j] = shown[j] \/ (j = i /\ M[j] = 0)
  BY KeyFacts
<1>8. HoldsTemps(M)'
  <2>1. \A k \in Keys : M[k] <= 1
    BY <1>1 DEF HoldsTemps
  <2> QED
    BY <1>1, <1>2, <1>6, <1>7, <2>1 DEF HoldsTemps
<1>9. HoldsLive(M)'
  <2>1. ASSUME NEW j \in live
        PROVE  \/ M[j] = 1 \/ Says("created", j)'
               \/ \E c \in Reqs : target[c] = j /\ (Removing(c) \/ (Making(c) /\ M[0 - c] = 1))
    <3>1. j \in Rows /\ j # i /\ M[j] = shown[j]
      BY <1>1, <1>5, <1>7 DEF ReplicaInv, RowsInv
    <3> QED
      BY <1>1, <1>4, <1>6, <3>1 DEF HoldsLive
  <2> QED
    BY <1>2, <2>1 DEF HoldsLive
<1>10. DropsGone(M)'
  <2>1. ASSUME NEW j \in Rows \ live
        PROVE  \/ Says("deleted", j)'
               \/ M[j] = 0 /\ \A c \in Reqs : Making(c) /\ target[c] = j => M[0 - c] = 0
    <3>1. CASE j = i
      BY <3>1
    <3>2. CASE j # i
      BY <1>1, <1>4, <1>6, <1>7, <3>2 DEF DropsGone
    <3> QED
      BY <3>1, <3>2
  <2> QED
    BY <1>2, <2>1 DEF DropsGone
<1>11. ASSUME NEW c \in Reqs, Removing(c)
       PROVE  /\ M[target[c]] = 0
              /\ \A d \in Reqs : Making(d) /\ target[d] = target[c] => M[0 - d] = 0
  <2>1. target[c] \in Rows /\ shown[target[c]] = 0
    BY <1>1, <1>11 DEF RemovalsInv, ReplicaInv, RequestsInv, Removing
  <2> QED
    BY <1>1, <1>6, <1>7, <1>11, <2>1 DEF RemovalsInv
<1> QED
  BY <1>2, <1>8, <1>9, <1>10, <1>11 DEF InStep

(* A list in which no row is shown twice keeps the rows it is told to keep. *)
LEMMA OnlyVisible ==
    ASSUME HoldsTemps(shown), shown \in [Keys -> Nat], NEW rows, Visible \subseteq rows
    PROVE  Only(rows) = shown
<1>1. \A k \in Keys : Only(rows)[k] = shown[k]
  BY DEF HoldsTemps, Only, Visible
<1> QED
  BY <1>1 DEF Only

(* The next event leaves the list in step, or in doubt. *)
LEMMA ReadTogether ==
    ASSUME ConvergeInv, NEW s \in Sockets, ReadEvent(s)
    PROVE  TogetherInv'
<1> DEFINE e == Head(chan[s])
<1>1. /\ Pending = chan[s] /\ Pending # << >> /\ Pending' = Tail(Pending)
      /\ UNCHANGED <<live, born, kind, phase, target, before, fetch, snap>>
      /\ Unanswered' = Unanswered /\ Answers' = Answers
      /\ \A c : (Making(c)' <=> Making(c)) /\ (Removing(c)' <=> Removing(c))
      /\ DeletionsFollow => DeletionsFollow'
      /\ FactsInv'
  BY EventRead
<1>2. /\ chan[s] \in Seq(EventTypes) /\ e \in EventTypes
      /\ e.type \in {"created", "deleted"} => e.row \in Rows
  BY <1>1 DEF ConvergeInv, ReplicaInv, ChannelInv
<1>3. PICK wrong : Changes(Nil, wrong)
  BY DEF ReadEvent, EventCreated, EventDeleted, EventReordered
<1>4. AnswersInv' /\ \A c \in Unanswered : c \in overlapped'
  BY <1>1, <1>3, Overlaps, KeyFacts, RealtimeAssumption DEF Unanswered
<1>5. RollbackInv'
  BY <1>1, <1>4 DEF RollbackInv, Unanswered, Removing
<1>6. ASSUME doubt' = "no" PROVE InStep(shown)' /\ RemovalsInv'
  <2>1. doubt = "no"
    BY <1>3, <1>6, Overlaps
  <2>2. /\ HoldsTemps(shown) /\ InStep(shown) /\ RemovalsInv /\ shown \in [Keys -> Nat]
        /\ ReplicaInv /\ RowsInv
    BY <2>1 DEF ConvergeInv, TogetherInv, InStep, ReplicaInv, ListsInv, GoodList
  <2>3. SUFFICES ASSUME NEW M, M = shown'
                 PROVE  /\ InStep(M)'
                        /\ \A c \in Reqs : Removing(c) =>
                             /\ M[target[c]] = 0
                             /\ \A d \in Reqs : Making(d) /\ target[d] = target[c] => M[0 - d] = 0
    <3>1. PICK M : M = shown'
      OBVIOUS
    <3>2. /\ InStep(M)'
          /\ \A c \in Reqs : Removing(c) =>
               /\ M[target[c]] = 0
               /\ \A d \in Reqs : Making(d) /\ target[d] = target[c] => M[0 - d] = 0
      BY <2>3, <3>1
    <3>3. RemovalsInv'
      BY <1>1, <1>4, <2>2, <3>1, <3>2 DEF RemovalsInv, Unanswered, Removing
    <3> QED
      BY <3>1, <3>2, <3>3
  <2>4. CASE e.type = "created" /\ EventCreated(e.row)
    <3> DEFINE i == e.row
               temps == {k \in Temps : shown[k] > 0 /\ placeOf[k] = placeOf[i]}
    <3>1. i \in Rows /\ i \in Keys
      BY <1>2, <2>4, KeyFacts
    <3>2. CASE shown[i] > 0
      <4>1. M = shown
        BY <2>3, <2>4, <3>2 DEF EventCreated
      <4>2. shown[i] = 1 /\ \A c \in Reqs : Making(c) /\ target[c] = i => shown[0 - c] = 0
        BY <2>2, <3>1, <3>2 DEF HoldsTemps
      <4> QED
        BY <2>1, <2>2, <2>4, <3>1, <3>2, <4>1, <4>2, AfterCreated
    <3>3. CASE ~(shown[i] > 0) /\ temps = {}
      <4>1. M = [shown EXCEPT ![i] = 1] /\ Changes(Nil, Removed(i))
        BY <2>3, <2>4, <3>3 DEF EventCreated, Removed
      <4>2. ~Removed(i)
        BY <1>6, <4>1, Overlaps
      <4>3. \A c \in Reqs : M[0 - c] = shown[0 - c]
        BY <2>2, <3>1, <4>1, KeyFacts
      <4>4. \A c \in Reqs : Making(c) /\ target[c] = i => M[0 - c] = 0
        <5>1. ASSUME NEW c \in Reqs, Making(c), target[c] = i PROVE shown[0 - c] = 0
          <6>1. Created(c)
            BY <3>1, <5>1 DEF Making, Created, Creates
          <6>2. placeOf[0 - c] = placeOf[i] /\ 0 - c \in Temps /\ shown[0 - c] \in Nat
            BY <2>2, <5>1, <6>1, KeyFacts DEF RowsInv, Temps
          <6> QED
            BY <3>3, <6>2
        <5> QED
          BY <4>3, <5>1
      <4>5. M \in [Keys -> Nat] /\ M[i] = 1 /\ \A j \in Rows \ {i} : M[j] = shown[j]
        BY <2>2, <3>1, <4>1, KeyFacts
      <4> QED
        BY <2>1, <2>4, <3>1, <4>2, <4>3, <4>4, <4>5, AfterCreated
    <3>4. CASE ~(shown[i] > 0) /\ temps # {}
      <4>1. PICK k \in temps : /\ shown' = [shown EXCEPT ![i] = 1, ![k] = @ - 1]
                               /\ Changes(Nil, Removed(i) \/ target[0 - k] # i)
        BY <2>4, <3>4 DEF EventCreated, Removed
      <4>2. ~Removed(i) /\ target[0 - k] = i
        BY <1>6, <4>1, Overlaps
      <4>3. /\ k \in Temps /\ k \in Keys /\ k \notin Rows /\ shown[k] = 1 /\ 0 - k \in Reqs
            /\ 0 - (0 - k) = k
        BY <2>2, <4>1, KeyFacts DEF Temps, Rows, Reqs, HoldsTemps
      <4>4. /\ M \in [Keys -> Nat] /\ M[i] = 1 /\ M[k] = 0
            /\ \A j \in Keys \ {i, k} : M[j] = shown[j]
        BY <2>2, <2>3, <3>1, <4>1, <4>3
      <4>5. \A j \in Rows \ {i} : M[j] = shown[j]
        BY <4>3, <4>4, KeyFacts
      <4>6. \A c \in Reqs : M[0 - c] = shown[0 - c] \/ (M[0 - c] = 0 /\ target[c] = i)
        <5>1. ASSUME NEW c \in Reqs PROVE M[0 - c] = shown[0 - c] \/ (M[0 - c] = 0 /\ target[c] = i)
          <6>1. CASE 0 - c = k
            <7>1. c = 0 - k
              BY <4>3, <6>1, KeyFacts
            <7> QED
              BY <4>2, <4>4, <6>1, <7>1
          <6>2. CASE 0 - c # k
            BY <3>1, <4>4, <6>2, KeyFacts
          <6> QED
            BY <6>1, <6>2
        <5> QED
          BY <5>1
      <4>7. \A c \in Reqs : Making(c) /\ target[c] = i => M[0 - c] = 0
        <5>1. ASSUME NEW c \in Reqs, Making(c), target[c] = i PROVE M[0 - c] = 0
          <6>1. Making(0 - k)
            BY <2>2, <4>3 DEF HoldsTemps
          <6>2. Created(c) /\ Created(0 - k)
            BY <3>1, <4>2, <5>1, <6>1 DEF Making, Created, Creates
          <6>3. c = 0 - k
            BY <2>2, <4>2, <4>3, <5>1, <6>2 DEF RowsInv
          <6> QED
            BY <4>3, <4>4, <6>3
        <5> QED
          BY <5>1
      <4> QED
        BY <2>1, <2>4, <3>1, <4>2, <4>4, <4>5, <4>6, <4>7, AfterCreated
    <3> QED
      BY <3>2, <3>3, <3>4
  <2>5. CASE e.type = "deleted" /\ EventDeleted(e.row)
    <3> DEFINE i == e.row
    <3>1. i \in Rows /\ i \in Keys
      BY <1>2, <2>5, KeyFacts
    <3>2. /\ M = [shown EXCEPT ![i] = 0]
          /\ Changes(Nil, \E c \in Unanswered : kind[c] \in {"create", "createAt"} /\ target[c] = i)
      BY <2>3, <2>5 DEF EventDeleted
    <3>3. \A c \in Reqs : Making(c) => target[c] # i
      BY <1>6, <3>2, Overlaps DEF Making
    <3>4. M \in [Keys -> Nat] /\ M[i] = 0 /\ \A j \in Keys \ {i} : M[j] = shown[j]
      BY <2>2, <3>1, <3>2
    <3> QED
      BY <2>1, <2>5, <3>1, <3>3, <3>4, AfterDeleted
  <2>6. CASE e.type = "reordered" /\ EventReordered(e.rows)
    <3>1. M = Only(e.rows) /\ Changes(Nil, ~(Visible \subseteq e.rows))
      BY <2>3, <2>6 DEF EventReordered
    <3>2. Visible \subseteq e.rows
      BY <1>6, <3>1, Overlaps
    <3>3. M = shown
      BY <2>2, <3>1, <3>2, OnlyVisible
    <3>4. \A type, j : type \in {"created", "deleted"} /\ Says(type, j) => Says(type, j)'
      BY <1>1, <1>2, <2>6, SaysOfTail
    <3>5. InStep(M)
      BY <2>2, <3>3
    <3>6. HoldsTemps(M)' /\ HoldsLive(M)' /\ DropsGone(M)' /\ DeletionsFollow'
      BY <1>1, <3>4, <3>5 DEF InStep, HoldsTemps, HoldsLive, DropsGone
    <3> QED
      BY <2>2, <3>3, <3>6 DEF InStep, RemovalsInv
  <2> QED
    BY <2>4, <2>5, <2>6 DEF ReadEvent
<1> QED
  BY <1>1, <1>4, <1>5, <1>6 DEF TogetherInv

-----------------------------------------------------------------------------
(* The page's edits. *)

(* What a new request changes, but for the list. *)
LEMMA AskFacts ==
    ASSUME ConvergeInv, NEW c \in Reqs, NEW what, NEW row, NEW rows, Asks(c, what, row, rows),
           what # "none", what = "remove" => row \in Rows /\ row <= born,
           what \in {"create", "createAt"} => row = Nil
    PROVE  /\ phase[c] = "none" /\ kind[c] = "none" /\ c \notin Unanswered
           /\ phase'[c] = "sent" /\ kind'[c] = what /\ target'[c] = row /\ before'[c] = shown
           /\ \A d \in Reqs \ {c} : /\ phase'[d] = phase[d] /\ kind'[d] = kind[d]
                                    /\ target'[d] = target[d] /\ before'[d] = before[d]
                                    /\ Making(d)' <=> Making(d)
                                    /\ Removing(d)' <=> Removing(d)
           /\ ~Making(c) /\ ~Removing(c) /\ Unanswered' = Unanswered \cup {c}
           /\ UNCHANGED <<live, born, chan>> /\ Pending' = Pending
           /\ \A type, i : Says(type, i)' <=> Says(type, i)
           /\ DeletionsFollow => DeletionsFollow'
           /\ FactsInv' /\ AnswersInv'
           /\ \A d \in Unanswered : d \in overlapped'
           /\ c \notin overlapped' /\ (doubt' = "no" => doubt = "no")
<1>1. /\ kind \in [Reqs -> {"none", "create", "createAt", "arrange", "remove", "reorder"}]
      /\ phase \in [Reqs -> {"none", "sent", "done", "failed", "over", "lost"}]
      /\ target \in [Reqs -> Rows \cup {Nil}] /\ before \in [Reqs -> [Keys -> Nat]]
      /\ phase[c] = "none" => kind[c] = "none"
      /\ RealtimeTypeOK /\ ReplicaInv /\ FactsInv
  BY DEF ConvergeInv, ReplicaInv, RequestsInv, TogetherInv
<1>2. /\ phase[c] = "none" /\ kind[c] = "none" /\ c \notin Unanswered
      /\ phase' = [phase EXCEPT ![c] = "sent"] /\ kind' = [kind EXCEPT ![c] = what]
      /\ target' = [target EXCEPT ![c] = row] /\ before' = [before EXCEPT ![c] = shown]
      /\ UNCHANGED <<live, born, chan, fetch, socket, state, up, room>>
      /\ Changes(c, FALSE)
  BY <1>1 DEF Asks, NextReq, Unanswered, refetch, connection, realtimeVars, page, server
<1>3. /\ phase'[c] = "sent" /\ kind'[c] = what /\ target'[c] = row /\ before'[c] = shown
      /\ \A d \in Reqs \ {c} : /\ phase'[d] = phase[d] /\ kind'[d] = kind[d]
                               /\ target'[d] = target[d] /\ before'[d] = before[d]
  BY <1>1, <1>2
<1>4. Unanswered' = Unanswered \cup {c} /\ ~Making(c) /\ ~Removing(c)
  BY <1>2, <1>3 DEF Unanswered, Making, Removing
<1>5. \A d \in Reqs \ {c} : (Making(d)' <=> Making(d)) /\ (Removing(d)' <=> Removing(d))
  BY <1>3, <1>4 DEF Making, Removing
<1>6. Pending' = Pending /\ (Reaches' <=> Reaches) /\ Answers' = Answers
  BY <1>2 DEF Pending, Reaches, IsOpen, Answers
<1>7. \A type, i : Says(type, i)' <=> Says(type, i)
  BY <1>6 DEF Says
<1>8. DeletionsFollow => DeletionsFollow'
  <2>1. \A i : Removed(i) => Removed(i)'
    <3>1. ASSUME NEW i, Removed(i) PROVE Removed(i)'
      <4>1. PICK d \in Reqs : kind[d] = "remove" /\ target[d] = i
        BY <3>1 DEF Removed
      <4>2. d # c
        BY <1>2, <4>1
      <4> QED
        BY <1>3, <4>1, <4>2 DEF Removed
    <3> QED
      BY <3>1
  <2> QED
    BY <1>1, <1>2, <1>6, <2>1, CreatedRows, FollowSame
<1>9. FactsInv'
  BY <1>1, <1>2, <1>3, <1>6, <1>8 DEF FactsInv
<1>10. AnswersInv' /\ (\A d \in Unanswered : d \in overlapped') /\ c \notin overlapped'
       /\ (doubt' = "no" => doubt = "no")
  BY <1>2, <1>6, Overlaps
<1> QED
  BY <1>2, <1>3, <1>4, <1>5, <1>6, <1>7, <1>8, <1>9, <1>10

(* The temporary row of a new request. *)
LEMMA AssignTogether ==
    ASSUME ConvergeInv, NEW c \in Reqs, NEW p \in Places, NEW what \in {"create", "createAt"},
           Assign(c, p, what)
    PROVE  TogetherInv'
<1>1. Asks(c, what, Nil, {}) /\ shown' = [shown EXCEPT ![0 - c] = 1]
  BY DEF Assign
<1>2. /\ phase[c] = "none" /\ kind[c] = "none" /\ c \notin Unanswered
      /\ phase'[c] = "sent" /\ kind'[c] = what /\ target'[c] = Nil
      /\ \A d \in Reqs \ {c} : /\ phase'[d] = phase[d] /\ kind'[d] = kind[d]
                               /\ target'[d] = target[d] /\ before'[d] = before[d]
                               /\ Making(d)' <=> Making(d)
                               /\ Removing(d)' <=> Removing(d)
      /\ ~Making(c) /\ ~Removing(c) /\ Unanswered' = Unanswered \cup {c}
      /\ UNCHANGED live
      /\ \A type, i : Says(type, i)' <=> Says(type, i)
      /\ DeletionsFollow => DeletionsFollow'
      /\ FactsInv' /\ AnswersInv'
      /\ \A d \in Unanswered : d \in overlapped'
      /\ doubt' = "no" => doubt = "no"
  BY <1>1, AskFacts
<1>3. Making(c)' /\ ~Removing(c)' /\ Nil \notin Rows
  BY <1>2, KeyFacts DEF Making, Removing
<1>4. RollbackInv'
  BY <1>2, <1>3 DEF RollbackInv, Unanswered, Removing
<1>5. ASSUME doubt' = "no" PROVE InStep(shown)' /\ RemovalsInv'
  <2>1. /\ HoldsTemps(shown) /\ HoldsLive(shown) /\ DropsGone(shown) /\ DeletionsFollow /\ RemovalsInv
        /\ shown \in [Keys -> Nat] /\ live \subseteq Rows
    BY <1>2, <1>5 DEF ConvergeInv, TogetherInv, InStep, ReplicaInv, ListsInv, GoodList, RowsInv
  <2>2. PICK M : M = shown'
    OBVIOUS
  <2>3. /\ M[0 - c] = 1 /\ (\A i \in Rows : M[i] = shown[i])
        /\ (\A d \in Reqs \ {c} : M[0 - d] = shown[0 - d])
    BY <1>1, <2>1, <2>2, KeyFacts
  <2>4. HoldsTemps(M)'
    <3>1. \A k \in Keys : M[k] <= 1
      BY <1>1, <2>1, <2>2 DEF HoldsTemps
    <3>2. ASSUME NEW d \in Reqs
          PROVE  /\ M[0 - d] > 0 => Making(d)'
                 /\ Making(d)' /\ phase'[d] = "sent" => M[0 - d] = 1
                 /\ Making(d)' /\ target'[d] \in Rows => M[target'[d]] = 0 \/ M[0 - d] = 0
      BY <1>2, <1>3, <2>1, <2>3 DEF HoldsTemps
    <3> QED
      BY <3>1, <3>2 DEF HoldsTemps
  <2>5. HoldsLive(M)'
    <3>1. ASSUME NEW i \in live
          PROVE  \/ M[i] = 1 \/ Says("created", i)'
                 \/ \E d \in Reqs : target'[d] = i /\ (Removing(d)' \/ (Making(d)' /\ M[0 - d] = 1))
      BY <1>2, <2>1, <2>3 DEF HoldsLive
    <3> QED
      BY <1>2, <3>1 DEF HoldsLive
  <2>6. DropsGone(M)'
    <3>1. ASSUME NEW i \in Rows \ live
          PROVE  \/ Says("deleted", i)'
                 \/ M[i] = 0 /\ \A d \in Reqs : Making(d)' /\ target'[d] = i => M[0 - d] = 0
      BY <1>2, <1>3, <2>1, <2>3 DEF DropsGone
    <3> QED
      BY <1>2, <3>1 DEF DropsGone
  <2>7. InStep(M)'
    BY <1>2, <2>1, <2>4, <2>5, <2>6 DEF InStep
  <2>8. RemovalsInv'
    <3>1. ASSUME NEW d \in Reqs, Removing(d)'
          PROVE  /\ shown'[target'[d]] = 0
                 /\ \A g \in Reqs : Making(g)' /\ target'[g] = target'[d] => shown'[0 - g] = 0
                 /\ \A g \in Reqs : Removing(g)' /\ target'[g] = target'[d] => g = d
                 /\ d \in overlapped'
      <4>1. d # c /\ Removing(d) /\ d \in Unanswered
        BY <1>2, <1>3, <3>1 DEF Removing, Unanswered
      <4>2. target'[d] = target[d] /\ target[d] \in Rows
        BY <1>2, <4>1 DEF ConvergeInv, ReplicaInv, RequestsInv, Removing
      <4> QED
        BY <1>2, <1>3, <2>1, <2>2, <2>3, <4>1, <4>2 DEF RemovalsInv
    <3> QED
      BY <3>1 DEF RemovalsInv
  <2> QED
    BY <2>2, <2>7, <2>8
<1> QED
  BY <1>2, <1>4, <1>5 DEF TogetherInv

(* The row that the page removes. *)
LEMMA RemoveTogether ==
    ASSUME ConvergeInv, NEW c \in Reqs, NEW i \in Rows, RemoveAssignment(c, i)
    PROVE  TogetherInv'
<1>1. Asks(c, "remove", i, {}) /\ shown' = [shown EXCEPT ![i] = 0] /\ shown[i] > 0 /\ i <= born
  BY DEF RemoveAssignment, ConvergeInv, ReplicaInv, ListsInv, GoodList
<1>2. /\ phase[c] = "none" /\ kind[c] = "none" /\ c \notin Unanswered
      /\ phase'[c] = "sent" /\ kind'[c] = "remove" /\ target'[c] = i /\ before'[c] = shown
      /\ \A d \in Reqs \ {c} : /\ phase'[d] = phase[d] /\ kind'[d] = kind[d]
                               /\ target'[d] = target[d] /\ before'[d] = before[d]
                               /\ Making(d)' <=> Making(d)
                               /\ Removing(d)' <=> Removing(d)
      /\ ~Making(c) /\ ~Removing(c) /\ Unanswered' = Unanswered \cup {c}
      /\ UNCHANGED live
      /\ \A type, j : Says(type, j)' <=> Says(type, j)
      /\ DeletionsFollow => DeletionsFollow'
      /\ FactsInv' /\ AnswersInv'
      /\ \A d \in Unanswered : d \in overlapped'
      /\ doubt' = "no" => doubt = "no"
  BY <1>1, AskFacts
<1>3. ~Making(c)' /\ Removing(c)' /\ shown \in [Keys -> Nat]
  BY <1>2 DEF Making, Removing, ConvergeInv, ReplicaInv, ListsInv, GoodList
<1>4. \A k \in Keys : shown'[k] = IF k = i THEN 0 ELSE shown[k]
  BY <1>1, <1>3
<1>5. RollbackInv'
  <2>1. ASSUME NEW d \in Reqs, d \notin overlapped'
        PROVE  /\ Removing(d)' => \A k \in Keys : shown'[k] = IF k = target'[d] THEN 0 ELSE before'[d][k]
               /\ kind'[d] = "reorder" /\ d \in Unanswered' => shown' = before'[d]
    <3>1. CASE d = c
      BY <1>2, <1>4, <3>1
    <3>2. CASE d # c
      BY <1>2, <2>1, <3>2 DEF Removing, Unanswered
    <3> QED
      BY <3>1, <3>2
  <2> QED
    BY <2>1 DEF RollbackInv
<1>6. ASSUME doubt' = "no" PROVE InStep(shown)' /\ RemovalsInv'
  <2>1. /\ HoldsTemps(shown) /\ HoldsLive(shown) /\ DropsGone(shown) /\ DeletionsFollow /\ RemovalsInv
        /\ live \subseteq Rows /\ i \in Keys
    BY <1>2, <1>6, KeyFacts DEF ConvergeInv, TogetherInv, InStep, ReplicaInv, RowsInv
  <2>2. PICK M : M = shown'
    OBVIOUS
  <2>3. /\ M[i] = 0 /\ (\A j \in Rows \ {i} : M[j] = shown[j]) /\ (\A d \in Reqs : M[0 - d] = shown[0 - d])
    BY <1>1, <1>4, <2>1, <2>2, KeyFacts
  <2>4. shown[i] = 1 /\ (i \in live \/ Says("deleted", i))
        /\ (\A d \in Reqs : Making(d) /\ target[d] = i => shown[0 - d] = 0)
        /\ (\A d \in Reqs : Removing(d) => target[d] # i)
    <3>1. shown[i] = 1
      BY <1>1, <1>3, <2>1 DEF HoldsTemps
    <3> QED
      BY <2>1, <3>1 DEF HoldsTemps, DropsGone, RemovalsInv
  <2>5. HoldsTemps(M)'
    <3>1. \A k \in Keys : M[k] <= 1
      BY <1>1, <2>1, <2>2, <1>4 DEF HoldsTemps
    <3>2. ASSUME NEW d \in Reqs
          PROVE  /\ M[0 - d] > 0 => Making(d)'
                 /\ Making(d)' /\ phase'[d] = "sent" => M[0 - d] = 1
                 /\ Making(d)' /\ target'[d] \in Rows => M[target'[d]] = 0 \/ M[0 - d] = 0
      BY <1>2, <1>3, <2>1, <2>3 DEF HoldsTemps
    <3> QED
      BY <3>1, <3>2 DEF HoldsTemps
  <2>6. HoldsLive(M)'
    <3>1. ASSUME NEW j \in live
          PROVE  \/ M[j] = 1 \/ Says("created", j)'
                 \/ \E d \in Reqs : target'[d] = j /\ (Removing(d)' \/ (Making(d)' /\ M[0 - d] = 1))
      BY <1>2, <1>3, <2>1, <2>3 DEF HoldsLive
    <3> QED
      BY <1>2, <3>1 DEF HoldsLive
  <2>7. DropsGone(M)'
    <3>1. ASSUME NEW j \in Rows \ live
          PROVE  \/ Says("deleted", j)'
                 \/ M[j] = 0 /\ \A d \in Reqs : Making(d)' /\ target'[d] = j => M[0 - d] = 0
      BY <1>2, <1>3, <2>1, <2>3, <2>4 DEF DropsGone
    <3> QED
      BY <1>2, <3>1 DEF DropsGone
  <2>8. InStep(M)'
    BY <1>2, <2>1, <2>5, <2>6, <2>7 DEF InStep
  <2>9. RemovalsInv'
    <3>1. ASSUME NEW d \in Reqs, NEW r, r = target'[d], Removing(d)'
          PROVE  /\ shown'[r] = 0
                 /\ \A g \in Reqs : Making(g)' /\ target'[g] = r => shown'[0 - g] = 0
                 /\ \A g \in Reqs : Removing(g)' /\ target'[g] = r => g = d
                 /\ d \notin overlapped' => before'[d][r] = 1 /\ (r \in live' \/ Says("deleted", r)')
      <4>1. CASE d = c
        <5>1. \A g \in Reqs : Making(g)' /\ target'[g] = i => shown'[0 - g] = 0
          BY <1>2, <1>3, <2>2, <2>3, <2>4
        <5>2. \A g \in Reqs : Removing(g)' /\ target'[g] = i => g = c
          BY <1>2, <2>4
        <5>3. r = i /\ before'[d][r] = shown[i] /\ shown'[r] = 0
          BY <1>2, <2>2, <2>3, <3>1, <4>1
        <5>4. r \in live' \/ Says("deleted", r)'
          BY <1>2, <2>4, <5>3
        <5> QED
          BY <2>4, <4>1, <5>1, <5>2, <5>3, <5>4
      <4>2. CASE d # c
        <5>1. Removing(d) /\ d \in Unanswered /\ r = target[d] /\ r \in Rows \ {i}
          BY <1>2, <2>4, <3>1, <4>2 DEF Removing, Unanswered, ConvergeInv, ReplicaInv, RequestsInv
        <5>2. \A g \in Reqs : Making(g)' /\ target'[g] = r => shown'[0 - g] = 0
          BY <1>2, <1>3, <2>1, <2>2, <2>3, <5>1 DEF RemovalsInv
        <5>3. \A g \in Reqs : Removing(g)' /\ target'[g] = r => g = d
          BY <1>2, <2>1, <5>1 DEF RemovalsInv
        <5>4. shown'[r] = 0
          BY <2>1, <2>2, <2>3, <5>1 DEF RemovalsInv
        <5> QED
          BY <1>2, <5>1, <5>2, <5>3, <5>4
      <4> QED
        BY <4>1, <4>2
    <3> QED
      BY <3>1 DEF RemovalsInv
  <2> QED
    BY <2>2, <2>8, <2>9
<1> QED
  BY <1>2, <1>5, <1>6 DEF TogetherInv

(* A reorder leaves the rows shown as they are. *)
LEMMA ReorderTogether ==
    ASSUME ConvergeInv, NEW c \in Reqs, Reorder(c)
    PROVE  TogetherInv'
<1>1. Asks(c, "reorder", Nil, Visible \cap Rows) /\ UNCHANGED shown
  BY DEF Reorder
<1>2. /\ phase[c] = "none" /\ kind[c] = "none" /\ c \notin Unanswered
      /\ phase'[c] = "sent" /\ kind'[c] = "reorder" /\ target'[c] = Nil /\ before'[c] = shown
      /\ \A d \in Reqs \ {c} : /\ phase'[d] = phase[d] /\ kind'[d] = kind[d]
                               /\ target'[d] = target[d] /\ before'[d] = before[d]
                               /\ Making(d)' <=> Making(d)
                               /\ Removing(d)' <=> Removing(d)
      /\ ~Making(c) /\ ~Removing(c) /\ Unanswered' = Unanswered \cup {c}
      /\ UNCHANGED live
      /\ \A type, j : Says(type, j)' <=> Says(type, j)
      /\ DeletionsFollow => DeletionsFollow'
      /\ FactsInv' /\ AnswersInv'
      /\ \A d \in Unanswered : d \in overlapped'
      /\ doubt' = "no" => doubt = "no"
  BY <1>1, AskFacts
<1>3. ~Making(c)' /\ ~Removing(c)'
  BY <1>2 DEF Making, Removing
<1>4. RollbackInv'
  <2>1. ASSUME NEW d \in Reqs, d \notin overlapped'
        PROVE  /\ Removing(d)' => \A k \in Keys : shown'[k] = IF k = target'[d] THEN 0 ELSE before'[d][k]
               /\ kind'[d] = "reorder" /\ d \in Unanswered' => shown' = before'[d]
    <3>1. CASE d = c
      BY <1>1, <1>2, <1>3, <3>1
    <3>2. CASE d # c
      BY <1>2, <2>1, <3>2 DEF Removing, Unanswered
    <3> QED
      BY <3>1, <3>2
  <2> QED
    BY <2>1 DEF RollbackInv
<1>5. ASSUME doubt' = "no" PROVE InStep(shown)' /\ RemovalsInv'
  <2>1. InStep(shown) /\ RemovalsInv
    BY <1>2, <1>5 DEF ConvergeInv, TogetherInv
  <2>2. PICK L : L = shown /\ InStep(L)
    BY <2>1
  <2>3. \A d \in Reqs : /\ (Making(d)' <=> Making(d)) /\ (Removing(d)' <=> Removing(d))
                        /\ (Making(d)' /\ phase'[d] = "sent" => phase[d] = "sent")
                        /\ (Making(d) \/ Removing(d) => target'[d] = target[d])
    BY <1>2, <1>3
  <2>4. InStep(L)'
    BY <1>2, <2>2, <2>3, InStepKept DEF InStep
  <2>5. InStep(shown)'
    BY <1>1, <2>2, <2>4
  <2>6. RemovalsInv'
    <3>1. ASSUME NEW d \in Reqs, Removing(d)'
          PROVE  /\ shown'[target'[d]] = 0
                 /\ \A g \in Reqs : Making(g)' /\ target'[g] = target'[d] => shown'[0 - g] = 0
                 /\ \A g \in Reqs : Removing(g)' /\ target'[g] = target'[d] => g = d
                 /\ d \in overlapped'
      <4>1. d # c /\ Removing(d) /\ d \in Unanswered /\ target'[d] = target[d]
        BY <1>2, <1>3, <3>1 DEF Removing, Unanswered
      <4> QED
        BY <1>1, <1>2, <2>1, <2>3, <4>1 DEF RemovalsInv
    <3> QED
      BY <3>1 DEF RemovalsInv
  <2> QED
    BY <2>5, <2>6
<1> QED
  BY <1>2, <1>4, <1>5 DEF TogetherInv

-----------------------------------------------------------------------------
(* The server's writes. *)

(* A deletion that is announced has happened, and no row comes back. *)
LEMMA DeletionsAnnounced ==
    ASSUME ConvergeInv, NEW event \in EventTypes, NEW x, Broadcast(event, x),
           born' \in Nat, born <= born', \A i \in Rows : i <= born /\ i \in live' => i \in live,
           event.type = "deleted" => event.row <= born' /\ event.row \notin live'
    PROVE  \A s \in Sockets : \A j \in 1 .. Len(chan'[s]) :
             chan'[s][j].type = "deleted" => chan'[s][j].row <= born' /\ chan'[s][j].row \notin live'
<1>1. ASSUME NEW s \in Sockets, NEW j \in 1 .. Len(chan'[s]), chan'[s][j].type = "deleted"
      PROVE  chan'[s][j].row <= born' /\ chan'[s][j].row \notin live'
  <2>1. /\ chan[s] \in Seq(EventTypes) /\ born \in Nat
        /\ \A l \in 1 .. Len(chan[s]) : chan[s][l].type = "deleted" =>
             chan[s][l].row \in Rows /\ chan[s][l].row <= born /\ chan[s][l].row \notin live
    BY DEF ConvergeInv, ReplicaInv, ChannelInv, RowsInv, TogetherInv, FactsInv
  <2>2. CASE j \in 1 .. Len(chan[s]) /\ chan'[s][j] = chan[s][j]
    <3>1. chan[s][j].row \in Rows /\ chan[s][j].row <= born /\ chan[s][j].row \notin live
      BY <1>1, <2>1, <2>2
    <3>2. chan[s][j].row <= born'
      BY <2>1, <3>1, KeyFacts
    <3> QED
      BY <2>2, <3>1, <3>2
  <2>3. CASE chan'[s][j] = event
    BY <1>1, <2>3
  <2>4. chan'[s] = chan[s] \/ chan'[s] = Append(chan[s], event)
    BY DEF Broadcast
  <2>5. CASE chan'[s] = Append(chan[s], event)
    <3>1. j \in 1 .. Len(chan[s]) \/ j = Len(chan[s]) + 1
      BY <2>1, <2>5
    <3> QED
      BY <2>1, <2>2, <2>3, <2>5, <3>1
  <2> QED
    BY <2>2, <2>4, <2>5
<1> QED
  BY <1>1

(* What a write does to the events unread. *)
LEMMA WriteFollows ==
    ASSUME ConvergeInv, NEW event \in EventTypes, NEW x, Broadcast(event, x), UNCHANGED socket,
           \A i : Removed(i) => Removed(i)',
           \A i \in Rows : i \notin live' =>
              \/ i \notin live \/ Removed(i)'
              \/ x = Nil /\ Reaches /\ event.type = "deleted" /\ event.row = i,
           event.type = "created" => event.row \in live'
    PROVE  /\ \A type, i : Says(type, i) => Says(type, i)'
           /\ x = Nil /\ Reaches => Says(event.type, event.row)'
           /\ DeletionsFollow => DeletionsFollow'
<1>1. RealtimeTypeOK /\ ChannelInv /\ ReplicaInv
  BY DEF ConvergeInv, ReplicaInv
<1>2. /\ Pending' = Pending \/ Pending' = Append(Pending, event)
      /\ Reaches /\ x = Nil => Pending' = Append(Pending, event)
      /\ Pending \in Seq(EventTypes)
      /\ \A j \in 1 .. Len(Pending) : Pending[j].type = "created" => Pending[j].row \in Rows
  BY <1>1, PendingGrows, PendingFacts
<1>3. CASE Pending' = Append(Pending, event)
  <2>1. DeletionsFollow => DeletionsFollow'
    BY <1>2, <1>3, FollowAppended
  <2>2. \A type, i : Says(type, i)' <=> Says(type, i) \/ (event.type = type /\ event.row = i)
    BY <1>2, <1>3, SaysAppended
  <2> QED
    BY <2>1, <2>2
<1>4. CASE Pending' = Pending /\ ~(x = Nil /\ Reaches)
  <2>1. DeletionsFollow => DeletionsFollow'
    BY <1>2, <1>4, FollowSame
  <2>2. \A type, i : Says(type, i) => Says(type, i)'
    BY <1>4 DEF Says
  <2> QED
    BY <1>4, <2>1, <2>2
<1> QED
  BY <1>2, <1>3, <1>4

(* A list that is in step stays so when the server inserts a row for c, or  *)
(* (Nil) for another member whose event will be read.                       *)
LEMMA InStepInserts ==
    ASSUME ConvergeInv, NEW L, InStep(L), NEW n \in Rows, n \notin live, live' = live \cup {n}, L[n] = 0,
           \A type, i : Says(type, i) => Says(type, i)', DeletionsFollow',
           \A d \in Reqs : /\ Making(d)' <=> Making(d)
                           /\ Removing(d)' <=> Removing(d)
                           /\ Making(d) /\ phase'[d] = "sent" => phase[d] = "sent"
                           /\ target'[d] = target[d] \/ (target[d] = Nil /\ target'[d] = n),
           \/ Says("created", n)'
           \/ \E d \in Reqs : target'[d] = n /\ Making(d) /\ L[0 - d] = 1
    PROVE  InStep(L)'
<1>1. HoldsTemps(L) /\ HoldsLive(L) /\ DropsGone(L) /\ live \subseteq Rows /\ Nil \notin Rows
  BY KeyFacts DEF InStep, ConvergeInv, ReplicaInv, RowsInv
<1>2. HoldsTemps(L)'
  BY <1>1 DEF HoldsTemps
<1>3. HoldsLive(L)'
  <2>1. ASSUME NEW i \in live'
        PROVE  \/ L[i] = 1 \/ Says("created", i)'
               \/ \E d \in Reqs : target'[d] = i /\ (Removing(d)' \/ (Making(d)' /\ L[0 - d] = 1))
    <3>1. CASE i = n
      BY <3>1
    <3>2. CASE i \in live
      <4>1. \A d \in Reqs : target[d] = i => target'[d] = i
        BY <1>1, <3>2
      <4> QED
        BY <1>1, <3>2, <4>1 DEF HoldsLive
    <3> QED
      BY <3>1, <3>2
  <2> QED
    BY <2>1 DEF HoldsLive
<1>4. DropsGone(L)'
  <2>1. ASSUME NEW i \in Rows \ live'
        PROVE  \/ Says("deleted", i)'
               \/ L[i] = 0 /\ \A d \in Reqs : Making(d)' /\ target'[d] = i => L[0 - d] = 0
    <3>1. i # n /\ \A d \in Reqs : target'[d] = i => target[d] = i
      OBVIOUS
    <3> QED
      BY <1>1, <2>1, <3>1 DEF DropsGone
  <2> QED
    BY <2>1 DEF DropsGone
<1> QED
  BY <1>2, <1>3, <1>4 DEF InStep

(* So it does when the server deletes a row that the list has not, or whose *)
(* deletion will be read.                                                   *)
LEMMA InStepDeletes ==
    ASSUME ConvergeInv, NEW L, InStep(L), NEW n \in Rows, live' = live \ {n}, UNCHANGED target,
           \A type, i : Says(type, i) => Says(type, i)', DeletionsFollow',
           \A d \in Reqs : /\ Making(d)' <=> Making(d)
                           /\ Removing(d) => Removing(d)' \/ target[d] = n
                           /\ Making(d) /\ phase'[d] = "sent" => phase[d] = "sent",
           \/ Says("deleted", n)'
           \/ L[n] = 0 /\ \A d \in Reqs : Making(d) /\ target[d] = n => L[0 - d] = 0
    PROVE  InStep(L)'
<1>1. HoldsTemps(L) /\ HoldsLive(L) /\ DropsGone(L)
  BY DEF InStep
<1>2. HoldsTemps(L)'
  BY <1>1 DEF HoldsTemps
<1>3. HoldsLive(L)'
  <2>1. ASSUME NEW i \in live'
        PROVE  \/ L[i] = 1 \/ Says("created", i)'
               \/ \E d \in Reqs : target'[d] = i /\ (Removing(d)' \/ (Making(d)' /\ L[0 - d] = 1))
    BY <1>1 DEF HoldsLive
  <2> QED
    BY <2>1 DEF HoldsLive
<1>4. DropsGone(L)'
  <2>1. ASSUME NEW i \in Rows \ live'
        PROVE  \/ Says("deleted", i)'
               \/ L[i] = 0 /\ \A d \in Reqs : Making(d)' /\ target'[d] = i => L[0 - d] = 0
    <3>1. CASE i = n
      BY <3>1
    <3>2. CASE i \in Rows \ live
      BY <1>1, <3>2 DEF DropsGone
    <3> QED
      BY <3>1, <3>2
  <2> QED
    BY <2>1 DEF DropsGone
<1> QED
  BY <1>2, <1>3, <1>4 DEF InStep

(* What the server's write for a request leaves alone. *)
LEMMA ServerDoesFacts ==
    ASSUME ConvergeInv, NEW c \in Reqs, ServerDoes(c)
    PROVE  /\ phase[c] \in {"sent", "lost"} /\ phase'[c] = (IF phase[c] = "lost" THEN "over" ELSE "done")
           /\ \A d \in Reqs \ {c} : phase'[d] = phase[d]
           /\ UNCHANGED <<kind, shown, before, overlapped, fetch, snap, socket>>
           /\ (Reaches' <=> Reaches) /\ Unanswered' = Unanswered
           /\ \A d \in Reqs : Making(d)' <=> Making(d)
           /\ \A d \in Reqs \ {c} : Removing(d)' <=> Removing(d)
           /\ ~Removing(c)'
           /\ RollbackInv'
           /\ kind[c] \notin {"reorder", "arrange"} => AnswersInv'
           /\ doubt' = "no" => /\ doubt = "no"
                               /\ phase[c] = "sent" \/ kind[c] \in {"reorder", "arrange"}
<1>1. /\ kind \in [Reqs -> {"none", "create", "createAt", "arrange", "remove", "reorder"}]
      /\ phase \in [Reqs -> {"none", "sent", "done", "failed", "over", "lost"}]
      /\ target \in [Reqs -> Rows \cup {Nil}] /\ RollbackInv /\ AnswersInv
  BY DEF ConvergeInv, ReplicaInv, RequestsInv, TogetherInv
<1>2. /\ phase[c] \in {"sent", "lost"}
      /\ phase' = [phase EXCEPT ![c] = IF @ = "lost" THEN "over" ELSE "done"]
      /\ UNCHANGED <<kind, shown, before, overlapped, fetch, snap, socket, state, up, room>>
      /\ Doubt(phase[c] = "lost" /\ kind[c] \notin {"reorder", "arrange"})
      /\ kind[c] \in {"create", "createAt"} \/ UNCHANGED target
      /\ \A d \in Reqs \ {c} : target'[d] = target[d]
  BY <1>1 DEF ServerDoes, refetch, connection, realtimeVars, page, server
<1>3. /\ phase'[c] = (IF phase[c] = "lost" THEN "over" ELSE "done")
      /\ \A d \in Reqs \ {c} : phase'[d] = phase[d]
  BY <1>1, <1>2
<1>4. (Reaches' <=> Reaches) /\ Answers' = Answers
  BY <1>2 DEF Reaches, IsOpen, Answers
<1>5. Unanswered' = Unanswered
  BY <1>2, <1>3 DEF Unanswered
<1>6. /\ \A d \in Reqs : Making(d)' <=> Making(d)
      /\ \A d \in Reqs \ {c} : Removing(d)' <=> Removing(d)
      /\ ~Removing(c)'
  BY <1>2, <1>3, <1>5 DEF Making, Removing
<1>7. RollbackInv'
  <2>1. ASSUME NEW d \in Reqs, d \notin overlapped
        PROVE  /\ Removing(d)' => \A k \in Keys : shown[k] = IF k = target'[d] THEN 0 ELSE before[d][k]
               /\ kind[d] = "reorder" /\ d \in Unanswered => shown = before[d]
    BY <1>1, <1>2, <1>6, <2>1 DEF RollbackInv
  <2> QED
    BY <1>2, <1>5, <2>1 DEF RollbackInv
<1>8. ASSUME kind[c] \notin {"reorder", "arrange"} PROVE AnswersInv'
  <2>1. CASE phase[c] = "lost"
    BY <1>2, <1>4, <1>8, <2>1 DEF Doubt, AnswersInv
  <2>2. CASE phase[c] = "sent"
    <3>1. c \in Unanswered /\ spoiled' = spoiled
      BY <1>2, <2>2 DEF Unanswered, Doubt
    <3> QED
      BY <1>1, <1>4, <3>1 DEF AnswersInv
  <2> QED
    BY <1>2, <2>1, <2>2
<1> QED
  BY <1>2, <1>3, <1>4, <1>5, <1>6, <1>7, <1>8 DEF Doubt

(* The row of a create. *)
LEMMA ServerCreatesTogether ==
    ASSUME ConvergeInv, NEW c \in Reqs, ServerDoes(c), kind[c] \in {"create", "createAt"}
    PROVE  TogetherInv'
<1>0. PICK n : n = born + 1
  OBVIOUS
<1> DEFINE event == [type |-> "created", row |-> n, rows |-> {}]
<1>1. /\ kind \in [Reqs -> {"none", "create", "createAt", "arrange", "remove", "reorder"}]
      /\ target \in [Reqs -> Rows \cup {Nil}] /\ born \in Nat /\ live \subseteq 1 .. born
      /\ GoodList(shown) /\ FactsInv /\ ReplicaInv
  BY DEF ConvergeInv, ReplicaInv, RequestsInv, ListsInv, RowsInv, TogetherInv
<1>2. /\ Inserts(placeOf[0 - c], from[c]) /\ target' = [target EXCEPT ![c] = n]
  BY <1>0 DEF ServerDoes
<1>3. n \in Rows /\ born' = n /\ n \notin live /\ live' = live \cup {n} /\ Broadcast(event, from[c])
  BY <1>0, <1>1, <1>2, ReplicaAssumption DEF Inserts, Rows
<1>4. event \in EventTypes /\ event.type = "created" /\ event.row = n
  BY <1>3 DEF EventTypes
<1>5. /\ phase[c] \in {"sent", "lost"} /\ phase'[c] = (IF phase[c] = "lost" THEN "over" ELSE "done")
      /\ \A d \in Reqs \ {c} : phase'[d] = phase[d]
      /\ UNCHANGED <<kind, shown, before, overlapped, fetch, snap, socket>>
      /\ (Reaches' <=> Reaches) /\ Unanswered' = Unanswered
      /\ \A d \in Reqs : Making(d)' <=> Making(d)
      /\ \A d \in Reqs \ {c} : Removing(d)' <=> Removing(d)
      /\ ~Removing(c)'
      /\ RollbackInv' /\ AnswersInv'
      /\ doubt' = "no" => doubt = "no" /\ phase[c] = "sent"
  BY ServerDoesFacts
<1>6. target[c] = Nil /\ target'[c] = n /\ (\A d \in Reqs \ {c} : target'[d] = target[d])
      /\ ~Removing(c)
  BY <1>1, <1>2, <1>5 DEF FactsInv, Removing
<1>7. \A i : Removed(i) => Removed(i)'
  BY <1>5, <1>6 DEF Removed
<1> HIDE DEF event
<1>8. /\ \A type, i : Says(type, i) => Says(type, i)'
      /\ DeletionsFollow => DeletionsFollow'
  BY <1>3, <1>4, <1>5, <1>7, WriteFollows
<1>9. FactsInv'
  <2>1. born <= n /\ n # born /\ n > born
    BY <1>0, <1>1
  <2>2. \A s \in Sockets : \A j \in 1 .. Len(chan'[s]) :
          chan'[s][j].type = "deleted" => chan'[s][j].row <= born' /\ chan'[s][j].row \notin live'
    BY <1>1, <1>3, <1>4, <2>1, DeletionsAnnounced, KeyFacts
  <2>3. ASSUME NEW d \in Reqs
        PROVE  /\ kind'[d] = "none" => phase'[d] = "none"
               /\ kind'[d] = "remove" => target'[d] <= born'
               /\ kind'[d] \in {"create", "createAt"} /\ phase'[d] \in {"sent", "failed", "lost"}
                     => target'[d] = Nil
    <3>1. CASE d = c
      BY <1>5, <3>1
    <3>2. CASE d # c
      <4>1. kind[d] = "remove" => target[d] \in Rows /\ target[d] <= born
        BY <1>1 DEF FactsInv, ReplicaInv, RequestsInv
      <4>2. kind[d] = "remove" => target[d] <= born'
        BY <1>1, <1>3, <2>1, <4>1, KeyFacts
      <4> QED
        BY <1>1, <1>5, <1>6, <3>2, <4>2 DEF FactsInv
    <3> QED
      BY <3>1, <3>2
  <2> QED
    BY <1>1, <1>5, <1>8, <2>2, <2>3 DEF FactsInv
<1>10. ASSUME doubt' = "no" PROVE InStep(shown)' /\ RemovalsInv'
  <2>1. doubt = "no" /\ phase[c] = "sent" /\ InStep(shown) /\ RemovalsInv /\ HoldsTemps(shown)
    BY <1>5, <1>10 DEF ConvergeInv, TogetherInv, InStep
  <2>2. Making(c) /\ shown[0 - c] = 1
    BY <2>1 DEF Making, Unanswered, HoldsTemps
  <2>3. shown[n] = 0
    BY <1>0, <1>1, <1>3, KeyFacts DEF GoodList
  <2>4. PICK L : L = shown
    OBVIOUS
  <2>5. \A d \in Reqs : /\ Making(d)' <=> Making(d)
                        /\ Removing(d)' <=> Removing(d)
                        /\ Making(d) /\ phase'[d] = "sent" => phase[d] = "sent"
                        /\ target'[d] = target[d] \/ (target[d] = Nil /\ target'[d] = n)
    BY <1>5, <1>6, <2>1
  <2>6. DeletionsFollow'
    BY <1>8, <2>1 DEF InStep
  <2>7. InStep(L)'
    BY <1>3, <1>6, <1>8, <2>1, <2>2, <2>3, <2>4, <2>5, <2>6, InStepInserts
  <2>8. RemovalsInv'
    <3>1. ASSUME NEW d \in Reqs, NEW r, r = target'[d], Removing(d)'
          PROVE  /\ shown'[r] = 0
                 /\ \A g \in Reqs : Making(g)' /\ target'[g] = r => shown'[0 - g] = 0
                 /\ \A g \in Reqs : Removing(g)' /\ target'[g] = r => g = d
                 /\ d \notin overlapped' => before'[d][r] = 1 /\ (r \in live' \/ Says("deleted", r)')
      <4>1. d # c /\ Removing(d) /\ r = target[d] /\ r \in Rows /\ r # n
        BY <1>0, <1>1, <1>5, <1>6, <3>1, KeyFacts DEF Removing, FactsInv, ReplicaInv, RequestsInv
      <4>2. \A g \in Reqs : target'[g] = r => target[g] = r /\ g # c
        BY <1>6, <4>1
      <4> QED
        BY <1>3, <1>5, <1>8, <2>1, <4>1, <4>2 DEF RemovalsInv
    <3> QED
      BY <3>1 DEF RemovalsInv
  <2> QED
    BY <1>5, <2>4, <2>7, <2>8
<1> QED
  BY <1>5, <1>9, <1>10 DEF TogetherInv

(* The row of a removal. *)
LEMMA ServerRemovesTogether ==
    ASSUME ConvergeInv, NEW c \in Reqs, ServerDoes(c), kind[c] = "remove"
    PROVE  TogetherInv'
<1>0. PICK n : n = target[c]
  OBVIOUS
<1> DEFINE event == [type |-> "deleted", row |-> n, rows |-> {}]
<1>1. n \in Rows /\ born \in Nat /\ n <= born /\ live \subseteq Rows /\ FactsInv /\ ReplicaInv
  BY <1>0 DEF ConvergeInv, ReplicaInv, RequestsInv, RowsInv, TogetherInv, FactsInv
<1>2. n \in live /\ live' = live \ {n} /\ Broadcast(event, from[c]) /\ UNCHANGED <<born, target>>
  BY <1>0 DEF ServerDoes, DeletesRow
<1>3. event \in EventTypes /\ event.type = "deleted" /\ event.row = n
  BY <1>1 DEF EventTypes
<1>4. /\ phase[c] \in {"sent", "lost"} /\ phase'[c] = (IF phase[c] = "lost" THEN "over" ELSE "done")
      /\ \A d \in Reqs \ {c} : phase'[d] = phase[d]
      /\ UNCHANGED <<kind, shown, before, overlapped, fetch, snap, socket>>
      /\ (Reaches' <=> Reaches) /\ Unanswered' = Unanswered
      /\ \A d \in Reqs : Making(d)' <=> Making(d)
      /\ \A d \in Reqs \ {c} : Removing(d)' <=> Removing(d)
      /\ ~Removing(c)'
      /\ RollbackInv' /\ AnswersInv'
      /\ doubt' = "no" => doubt = "no" /\ phase[c] = "sent"
  BY ServerDoesFacts
<1>5. (\A i : Removed(i) => Removed(i)') /\ Removed(n)'
  BY <1>0, <1>2, <1>4 DEF Removed
<1> HIDE DEF event
<1>6. /\ \A type, i : Says(type, i) => Says(type, i)'
      /\ DeletionsFollow => DeletionsFollow'
  BY <1>2, <1>3, <1>4, <1>5, WriteFollows
<1>7. FactsInv'
  <2>1. \A s \in Sockets : \A j \in 1 .. Len(chan'[s]) :
          chan'[s][j].type = "deleted" => chan'[s][j].row <= born' /\ chan'[s][j].row \notin live'
    BY <1>1, <1>2, <1>3, DeletionsAnnounced
  <2>2. ASSUME NEW d \in Reqs
        PROVE  /\ kind'[d] = "none" => phase'[d] = "none"
               /\ kind'[d] = "remove" => target'[d] <= born'
               /\ kind'[d] \in {"create", "createAt"} /\ phase'[d] \in {"sent", "failed", "lost"}
                     => target'[d] = Nil
    BY <1>1, <1>2, <1>4 DEF FactsInv
  <2> QED
    BY <1>1, <1>4, <1>6, <2>1, <2>2 DEF FactsInv
<1>8. ASSUME doubt' = "no" PROVE InStep(shown)' /\ RemovalsInv'
  <2>1. doubt = "no" /\ phase[c] = "sent" /\ InStep(shown) /\ RemovalsInv
    BY <1>4, <1>8 DEF ConvergeInv, TogetherInv
  <2>2. Removing(c)
    BY <2>1 DEF Removing
  <2>3. /\ shown[n] = 0
        /\ \A d \in Reqs : Making(d) /\ target[d] = n => shown[0 - d] = 0
        /\ \A d \in Reqs : Removing(d) /\ target[d] = n => d = c
    BY <1>0, <2>1, <2>2 DEF RemovalsInv
  <2>4. PICK L : L = shown
    OBVIOUS
  <2>5. \A d \in Reqs : /\ Making(d)' <=> Making(d)
                        /\ Removing(d) => Removing(d)' \/ target[d] = n
                        /\ Making(d) /\ phase'[d] = "sent" => phase[d] = "sent"
    BY <1>0, <1>4
  <2>6. DeletionsFollow'
    BY <1>6, <2>1 DEF InStep
  <2>7. InStep(L)'
    BY <1>1, <1>2, <1>6, <2>1, <2>3, <2>4, <2>5, <2>6, InStepDeletes
  <2>8. RemovalsInv'
    <3>1. ASSUME NEW d \in Reqs, NEW r, r = target'[d], Removing(d)'
          PROVE  /\ shown'[r] = 0
                 /\ \A g \in Reqs : Making(g)' /\ target'[g] = r => shown'[0 - g] = 0
                 /\ \A g \in Reqs : Removing(g)' /\ target'[g] = r => g = d
                 /\ d \notin overlapped' => before'[d][r] = 1 /\ (r \in live' \/ Says("deleted", r)')
      <4>1. d # c /\ Removing(d) /\ r = target[d] /\ r # n
        BY <1>2, <1>4, <2>3, <3>1
      <4> QED
        BY <1>2, <1>4, <1>6, <2>1, <4>1 DEF RemovalsInv
    <3> QED
      BY <3>1 DEF RemovalsInv
  <2> QED
    BY <1>4, <2>4, <2>7, <2>8
<1> QED
  BY <1>4, <1>7, <1>8 DEF TogetherInv

(* An order of the day names rows and changes none. *)
LEMMA ServerReordersTogether ==
    ASSUME ConvergeInv, NEW c \in Reqs, ServerDoes(c), kind[c] \in {"reorder", "arrange"}
    PROVE  TogetherInv'
<1> DEFINE event == [type |-> "reordered", row |-> Nil, rows |-> ids[c]]
<1>1. ids[c] \in SUBSET Rows /\ born \in Nat /\ FactsInv /\ ReplicaInv /\ AnswersInv
  BY DEF ConvergeInv, ReplicaInv, RequestsInv, RowsInv, TogetherInv
<1>2. Broadcast(event, from[c]) /\ UNCHANGED <<live, born, target>>
  BY DEF ServerDoes, Reorders
<1>3. event \in EventTypes /\ event.type = "reordered"
  BY <1>1 DEF EventTypes
<1>4. /\ phase[c] \in {"sent", "lost"} /\ phase'[c] = (IF phase[c] = "lost" THEN "over" ELSE "done")
      /\ \A d \in Reqs \ {c} : phase'[d] = phase[d]
      /\ UNCHANGED <<kind, shown, before, overlapped, fetch, snap, socket>>
      /\ (Reaches' <=> Reaches) /\ Unanswered' = Unanswered
      /\ \A d \in Reqs : Making(d)' <=> Making(d)
      /\ \A d \in Reqs \ {c} : Removing(d)' <=> Removing(d)
      /\ ~Removing(c)'
      /\ RollbackInv'
      /\ doubt' = "no" => doubt = "no"
  BY ServerDoesFacts
<1>5. \A i : Removed(i) => Removed(i)'
  BY <1>2, <1>4 DEF Removed
<1>6. ~Removing(c)
  BY DEF Removing
<1>7. UNCHANGED <<doubt, spoiled>>
  BY DEF ServerDoes, Doubt
<1> HIDE DEF event
<1>8. /\ \A type, i : Says(type, i) => Says(type, i)'
      /\ DeletionsFollow => DeletionsFollow'
  BY <1>2, <1>3, <1>4, <1>5, WriteFollows
<1>9. FactsInv'
  <2>1. \A s \in Sockets : \A j \in 1 .. Len(chan'[s]) :
          chan'[s][j].type = "deleted" => chan'[s][j].row <= born' /\ chan'[s][j].row \notin live'
    BY <1>1, <1>2, <1>3, DeletionsAnnounced
  <2>2. ASSUME NEW d \in Reqs
        PROVE  /\ kind'[d] = "none" => phase'[d] = "none"
               /\ kind'[d] = "remove" => target'[d] <= born'
               /\ kind'[d] \in {"create", "createAt"} /\ phase'[d] \in {"sent", "failed", "lost"}
                     => target'[d] = Nil
    BY <1>1, <1>2, <1>4 DEF FactsInv
  <2> QED
    BY <1>1, <1>4, <1>8, <2>1, <2>2 DEF FactsInv
<1>10. ASSUME NEW L, InStep(L) PROVE InStep(L)'
  <2>1. DeletionsFollow'
    BY <1>8, <1>10 DEF InStep
  <2>2. \A d \in Reqs : /\ Making(d) <=> Making(d)'
                        /\ Removing(d) => Removing(d)'
                        /\ Making(d)' /\ phase'[d] = "sent" => phase[d] = "sent"
                        /\ Making(d) \/ Removing(d) => target'[d] = target[d]
    BY <1>2, <1>4, <1>6
  <2> QED
    BY <1>2, <1>8, <1>10, <2>1, <2>2, InStepKept
<1>11. AnswersInv'
  <2>1. Answers' = Answers
    BY <1>4 DEF Answers
  <2> QED
    BY <1>1, <1>4, <1>7, <1>10, <2>1 DEF AnswersInv, ListOf
<1>12. ASSUME doubt' = "no" PROVE InStep(shown)' /\ RemovalsInv'
  <2>1. InStep(shown) /\ RemovalsInv
    BY <1>4, <1>12 DEF ConvergeInv, TogetherInv
  <2>2. PICK L : L = shown /\ InStep(L)
    BY <2>1
  <2>3. InStep(L)' /\ L = shown'
    BY <1>4, <1>10, <2>2
  <2>4. RemovalsInv'
    BY <1>2, <1>4, <1>6, <1>8, <2>1 DEF RemovalsInv
  <2> QED
    BY <2>3, <2>4
<1> QED
  BY <1>4, <1>9, <1>11, <1>12 DEF TogetherInv

(* Another member's edit: the page has its event to read, or it is in doubt. *)
LEMMA CollabFacts ==
    ASSUME ConvergeInv, CollabEdit
    PROVE  /\ UNCHANGED <<kind, phase, target, shown, before, overlapped, fetch, snap, socket>>
           /\ (Reaches' <=> Reaches) /\ Unanswered' = Unanswered /\ Answers' = Answers
           /\ \A d : (Making(d)' <=> Making(d)) /\ (Removing(d)' <=> Removing(d))
           /\ \A i : Removed(i)' <=> Removed(i)
           /\ RollbackInv'
<1>1. UNCHANGED <<kind, phase, target, shown, before, overlapped, fetch, snap, socket, state, up, room>>
  BY DEF CollabEdit, request, refetch, connection, realtimeVars, page, server
<1>2. (Reaches' <=> Reaches) /\ Answers' = Answers
  BY <1>1 DEF Reaches, IsOpen, Answers
<1>3. /\ Unanswered' = Unanswered
      /\ \A d : (Making(d)' <=> Making(d)) /\ (Removing(d)' <=> Removing(d))
      /\ \A i : Removed(i)' <=> Removed(i)
  BY <1>1, SameRequests
<1>4. RollbackInv'
  BY <1>1, <1>3 DEF ConvergeInv, TogetherInv, RollbackInv
<1> QED
  BY <1>1, <1>2, <1>3, <1>4

(* What follows from the write, for each of the three edits. *)
LEMMA CollabWrites ==
    ASSUME ConvergeInv, CollabEdit, NEW event \in EventTypes, Broadcast(event, Nil),
           born' \in Nat, born <= born', \A i \in Rows : i <= born /\ i \in live' => i \in live,
           event.type = "deleted" => event.row <= born' /\ event.row \notin live',
           event.type = "created" => event.row \in live',
           \A i \in Rows : i \notin live' =>
              i \notin live \/ (event.type = "deleted" /\ event.row = i),
           Doubt(~Reaches) \/ (UNCHANGED <<doubt, spoiled>> /\ UNCHANGED live),
           \A L : InStep(L) /\ (Reaches \/ UNCHANGED live) /\ DeletionsFollow'
                    /\ (\A type, i : Says(type, i) => Says(type, i)')
                    /\ (Reaches => Says(event.type, event.row)')
                    /\ (L = shown \/ \E s \in Sockets : L = ListOf(snap[s]))
                  => InStep(L)'
    PROVE  TogetherInv'
<1>1. /\ UNCHANGED <<kind, phase, target, shown, before, overlapped, fetch, snap, socket>>
      /\ (Reaches' <=> Reaches) /\ Unanswered' = Unanswered /\ Answers' = Answers
      /\ \A d : (Making(d)' <=> Making(d)) /\ (Removing(d)' <=> Removing(d))
      /\ \A i : Removed(i)' <=> Removed(i)
      /\ RollbackInv' /\ FactsInv /\ AnswersInv /\ ReplicaInv /\ born \in Nat
  BY CollabFacts DEF ConvergeInv, TogetherInv, ReplicaInv, RowsInv
<1>2. ASSUME Reaches \/ UNCHANGED live
      PROVE  /\ \A type, i : Says(type, i) => Says(type, i)'
             /\ Reaches => Says(event.type, event.row)'
             /\ DeletionsFollow => DeletionsFollow'
  <2>1. \A i \in Rows : i \notin live' =>
           \/ i \notin live \/ Removed(i)'
           \/ Nil = Nil /\ Reaches /\ event.type = "deleted" /\ event.row = i
    BY <1>2
  <2> QED
    BY <1>1, <2>1, WriteFollows
<1>3. FactsInv'
  <2>1. \A s \in Sockets : \A j \in 1 .. Len(chan'[s]) :
          chan'[s][j].type = "deleted" => chan'[s][j].row <= born' /\ chan'[s][j].row \notin live'
    BY DeletionsAnnounced
  <2>2. \A d \in Reqs : kind[d] = "remove" => target[d] <= born'
    <3>1. \A d \in Reqs : kind[d] = "remove" => target[d] \in Rows /\ target[d] <= born
      BY <1>1 DEF FactsInv, ReplicaInv, RequestsInv
    <3> QED
      BY <1>1, <3>1, KeyFacts
  <2>3. Reaches' => DeletionsFollow'
    BY <1>1, <1>2 DEF FactsInv
  <2> QED
    BY <1>1, <2>1, <2>2, <2>3 DEF FactsInv
<1>4. CASE Reaches \/ (UNCHANGED <<doubt, spoiled>> /\ UNCHANGED live)
  <2>1. UNCHANGED <<doubt, spoiled>>
    BY <1>4 DEF Doubt
  <2>2. ASSUME NEW L, InStep(L), L = shown \/ \E s \in Sockets : L = ListOf(snap[s])
        PROVE  InStep(L)'
    <3>1. /\ \A type, i : Says(type, i) => Says(type, i)'
          /\ Reaches => Says(event.type, event.row)'
          /\ DeletionsFollow => DeletionsFollow'
      BY <1>2, <1>4
    <3>2. DeletionsFollow'
      BY <2>2, <3>1 DEF InStep
    <3> QED
      BY <1>4, <2>2, <3>1, <3>2
  <2>3. AnswersInv'
    <3>1. ASSUME NEW s \in Answers' \ spoiled' PROVE Unanswered' = {} /\ InStep(ListOf(snap[s]))'
      <4>1. s \in Answers \ spoiled /\ s \in Sockets
        BY <1>1, <2>1 DEF Answers
      <4>2. PICK L : L = ListOf(snap[s])
        OBVIOUS
      <4>3. Unanswered = {} /\ InStep(L)
        BY <1>1, <4>1, <4>2 DEF AnswersInv
      <4>4. InStep(L)'
        BY <2>2, <4>1, <4>2, <4>3
      <4>5. L = ListOf(snap[s])'
        BY <1>1, <4>2 DEF ListOf
      <4> QED
        BY <1>1, <4>3, <4>4, <4>5
    <3> QED
      BY <3>1 DEF AnswersInv
  <2>4. ASSUME doubt' = "no" PROVE InStep(shown)' /\ RemovalsInv'
    <3>1. InStep(shown) /\ RemovalsInv
      BY <2>1, <2>4 DEF ConvergeInv, TogetherInv
    <3>2. PICK L : L = shown
      OBVIOUS
    <3>3. InStep(L)' /\ L = shown'
      BY <1>1, <2>2, <3>1, <3>2
    <3>4. RemovalsInv'
      <4>1. ASSUME NEW d \in Reqs, NEW r, r = target[d], Removing(d), r \in live \/ Says("deleted", r)
            PROVE  r \in live' \/ Says("deleted", r)'
        <5>1. r \in Rows
          BY <1>1, <4>1 DEF ReplicaInv, RequestsInv, Removing
        <5> QED
          BY <1>2, <1>4, <4>1, <5>1
      <4>2. ASSUME NEW d \in Reqs, NEW r, r = target'[d], Removing(d)'
            PROVE  /\ shown'[r] = 0
                   /\ \A g \in Reqs : Making(g)' /\ target'[g] = r => shown'[0 - g] = 0
                   /\ \A g \in Reqs : Removing(g)' /\ target'[g] = r => g = d
                   /\ d \notin overlapped' => before'[d][r] = 1 /\ (r \in live' \/ Says("deleted", r)')
        BY <1>1, <3>1, <4>1, <4>2 DEF RemovalsInv
      <4> QED
        BY <4>2 DEF RemovalsInv
    <3> QED
      BY <3>3, <3>4
  <2> QED
    BY <1>1, <1>3, <2>3, <2>4 DEF TogetherInv
<1>5. CASE ~Reaches /\ Doubt(~Reaches)
  <2>1. doubt' = "yes" /\ Answers' \subseteq spoiled'
    BY <1>1, <1>5 DEF Doubt
  <2>2. AnswersInv'
    BY <2>1 DEF AnswersInv
  <2> QED
    BY <1>1, <1>3, <2>1, <2>2 DEF TogetherInv
<1> QED
  BY <1>4, <1>5

LEMMA CollabTogether ==
    ASSUME ConvergeInv, CollabEdit
    PROVE  TogetherInv'
<1>1. /\ UNCHANGED <<kind, phase, target, shown, socket>>
      /\ Unanswered' = Unanswered
      /\ \A d : (Making(d)' <=> Making(d)) /\ (Removing(d)' <=> Removing(d))
      /\ born \in Nat /\ live \subseteq Rows /\ live \subseteq 1 .. born
      /\ GoodList(shown) /\ snap \in [Sockets -> SUBSET Rows]
      /\ \A s \in Sockets : snap[s] \subseteq 1 .. born
  BY CollabFacts DEF ConvergeInv, ReplicaInv, ListsInv, RowsInv
<1>2. ASSUME NEW p \in Places, Inserts(p, Nil), Doubt(~Reaches)
      PROVE  TogetherInv'
  <2>1. PICK n : n = born + 1
    OBVIOUS
  <2>2. n \in Rows /\ born' = n /\ n \notin live /\ live' = live \cup {n} /\ n > born /\ n \in Nat
    BY <1>1, <1>2, <2>1, ReplicaAssumption DEF Inserts, Rows
  <2>3. PICK event : event = [type |-> "created", row |-> n, rows |-> {}]
    OBVIOUS
  <2>4. event \in EventTypes /\ event.type = "created" /\ event.row = n /\ Broadcast(event, Nil)
    BY <1>2, <2>1, <2>2, <2>3 DEF EventTypes, Inserts
  <2>5. ASSUME NEW L, InStep(L), Reaches \/ UNCHANGED live, DeletionsFollow',
               \A type, i : Says(type, i) => Says(type, i)',
               Reaches => Says(event.type, event.row)',
               L = shown \/ \E s \in Sockets : L = ListOf(snap[s])
        PROVE  InStep(L)'
    <3>1. L[n] = 0
      <4>1. n \in Keys /\ ~(n <= born) /\ n \notin 1 .. born
        BY <1>1, <2>2, KeyFacts
      <4>2. CASE L = shown
        BY <1>1, <2>2, <4>1, <4>2 DEF GoodList
      <4>3. CASE \E s \in Sockets : L = ListOf(snap[s])
        BY <1>1, <4>1, <4>3 DEF ListOf
      <4> QED
        BY <2>5, <4>2, <4>3
    <3>2. Says("created", n)'
      BY <2>2, <2>4, <2>5
    <3>3. \A d \in Reqs : /\ Making(d)' <=> Making(d)
                          /\ Removing(d)' <=> Removing(d)
                          /\ Making(d) /\ phase'[d] = "sent" => phase[d] = "sent"
                          /\ target'[d] = target[d] \/ (target[d] = Nil /\ target'[d] = n)
      BY <1>1
    <3> QED
      BY <2>2, <2>5, <3>1, <3>2, <3>3, InStepInserts
  <2>6. /\ \A i \in Rows : i <= born /\ i \in live' => i \in live
        /\ \A i \in Rows : i \notin live' => i \notin live
        /\ born <= born' /\ born' \in Nat
    BY <1>1, <2>2, KeyFacts
  <2> QED
    BY <1>2, <2>2, <2>4, <2>5, <2>6, CollabWrites
<1>3. ASSUME NEW n \in live, DeletesRow(n, Nil), Doubt(~Reaches)
      PROVE  TogetherInv'
  <2>1. n \in Rows /\ n <= born /\ live' = live \ {n} /\ UNCHANGED <<born, target>>
    BY <1>1, <1>3, CollabFacts DEF DeletesRow
  <2>2. PICK event : event = [type |-> "deleted", row |-> n, rows |-> {}]
    OBVIOUS
  <2>3. event \in EventTypes /\ event.type = "deleted" /\ event.row = n /\ Broadcast(event, Nil)
    BY <1>3, <2>1, <2>2 DEF EventTypes, DeletesRow
  <2>4. ASSUME NEW L, InStep(L), Reaches \/ UNCHANGED live, DeletionsFollow',
               \A type, i : Says(type, i) => Says(type, i)',
               Reaches => Says(event.type, event.row)',
               L = shown \/ \E s \in Sockets : L = ListOf(snap[s])
        PROVE  InStep(L)'
    <3>1. Says("deleted", n)'
      BY <2>1, <2>3, <2>4
    <3>2. \A d \in Reqs : /\ Making(d)' <=> Making(d)
                          /\ Removing(d) => Removing(d)' \/ target[d] = n
                          /\ Making(d) /\ phase'[d] = "sent" => phase[d] = "sent"
      BY <1>1
    <3> QED
      BY <2>1, <2>4, <3>1, <3>2, InStepDeletes
  <2>5. /\ \A i \in Rows : i <= born /\ i \in live' => i \in live
        /\ \A i \in Rows : i \notin live' => i \notin live \/ (event.type = "deleted" /\ event.row = i)
        /\ born <= born' /\ born' \in Nat /\ event.row <= born' /\ event.row \notin live'
    BY <1>1, <2>1, <2>3
  <2> QED
    BY <1>3, <2>3, <2>4, <2>5, CollabWrites
<1>4. ASSUME NEW rows \in SUBSET live, Reorders(rows, Nil), UNCHANGED <<doubt, spoiled>>
      PROVE  TogetherInv'
  <2>1. rows \in SUBSET Rows /\ UNCHANGED <<live, born>>
    BY <1>1, <1>4 DEF Reorders
  <2>2. PICK event : event = [type |-> "reordered", row |-> Nil, rows |-> rows]
    OBVIOUS
  <2>3. event \in EventTypes /\ event.type = "reordered" /\ Broadcast(event, Nil)
    BY <1>4, <2>1, <2>2 DEF EventTypes, Reorders
  <2>4. ASSUME NEW L, InStep(L), Reaches \/ UNCHANGED live, DeletionsFollow',
               \A type, i : Says(type, i) => Says(type, i)',
               Reaches => Says(event.type, event.row)',
               L = shown \/ \E s \in Sockets : L = ListOf(snap[s])
        PROVE  InStep(L)'
    BY <1>1, <2>1, <2>4, InStepKept
  <2>5. born <= born' /\ born' \in Nat
    BY <1>1, <2>1
  <2> QED
    BY <1>4, <2>1, <2>3, <2>4, <2>5, CollabWrites
<1> QED
  BY <1>2, <1>3, <1>4 DEF CollabEdit

(* A refusal. *)
LEMMA RefusesTogether ==
    ASSUME ConvergeInv, NEW c \in Reqs, ServerRefuses(c)
    PROVE  TogetherInv'
<1>1. /\ phase \in [Reqs -> {"none", "sent", "done", "failed", "over", "lost"}]
      /\ phase[c] \in {"sent", "lost"}
      /\ phase' = [phase EXCEPT ![c] = IF @ = "lost" THEN "over" ELSE "failed"]
      /\ UNCHANGED <<live, born, chan, socket, state, up, room, shown, kind, target, before,
                     fetch, snap, doubt, spoiled, overlapped>>
      /\ FactsInv /\ RollbackInv /\ AnswersInv /\ ReplicaInv /\ RealtimeTypeOK
  BY DEF ServerRefuses, store, refetch, exposure, connection, realtimeVars, page, server,
         ConvergeInv, ReplicaInv, RequestsInv, TogetherInv
<1>2. /\ phase'[c] = (IF phase[c] = "lost" THEN "over" ELSE "failed")
      /\ \A d \in Reqs \ {c} : phase'[d] = phase[d]
  BY <1>1
<1>3. /\ Pending' = Pending /\ (Reaches' <=> Reaches) /\ Unanswered' = Unanswered
      /\ Answers' = Answers
  BY <1>1, <1>2 DEF Pending, Reaches, IsOpen, Unanswered, Answers
<1>4. /\ \A d \in Reqs : (Making(d) <=> Making(d)') /\ (Removing(d) <=> Removing(d)')
      /\ \A i : Removed(i) => Removed(i)'
  BY <1>1, <1>2, <1>3 DEF Making, Removing, Removed
<1>5. \A type, i : Says(type, i) <=> Says(type, i)'
  BY <1>3 DEF Says
<1>6. DeletionsFollow => DeletionsFollow'
  BY <1>1, <1>3, <1>4, CreatedRows, FollowSame
<1>7. FactsInv'
  BY <1>1, <1>2, <1>3, <1>6 DEF FactsInv
<1>8. RollbackInv'
  BY <1>1, <1>3, <1>4 DEF RollbackInv
<1>9. ASSUME NEW L, InStep(L) PROVE InStep(L)'
  <2>1. DeletionsFollow'
    BY <1>6, <1>9 DEF InStep
  <2>2. \A d \in Reqs : /\ Making(d) <=> Making(d)'
                        /\ Removing(d) => Removing(d)'
                        /\ Making(d)' /\ phase'[d] = "sent" => phase[d] = "sent"
                        /\ Making(d) \/ Removing(d) => target'[d] = target[d]
    BY <1>1, <1>2, <1>4
  <2> QED
    BY <1>1, <1>5, <1>9, <2>1, <2>2, InStepKept
<1>10. AnswersInv'
  BY <1>1, <1>3, <1>9 DEF AnswersInv, ListOf
<1>11. ASSUME doubt' = "no" PROVE InStep(shown)' /\ RemovalsInv'
  <2>1. InStep(shown) /\ RemovalsInv
    BY <1>1, <1>11 DEF ConvergeInv, TogetherInv
  <2>2. PICK L : L = shown /\ InStep(L)
    BY <2>1
  <2>3. InStep(L)' /\ L = shown'
    BY <1>1, <1>9, <2>2
  <2>4. RemovalsInv'
    BY <1>1, <1>4, <1>5, <2>1 DEF RemovalsInv
  <2> QED
    BY <2>3, <2>4
<1> QED
  BY <1>7, <1>8, <1>10, <1>11 DEF TogetherInv

-----------------------------------------------------------------------------
(* The answers. *)

(* Request c is answered or given up: what is known but for the list. *)
LEMMA AnswerFacts ==
    ASSUME ConvergeInv, NEW c \in Unanswered,
           UNCHANGED <<live, born, chan, target, socket, state, up, room, fetch>>,
           \A d \in Reqs \ {c} : phase'[d] = phase[d] /\ kind'[d] = kind[d] /\ before'[d] = before[d],
           kind'[c] = "remove" <=> kind[c] = "remove", kind'[c] # "none",
           kind'[c] \in {"create", "createAt"} => phase'[c] \in {"lost", "over"} /\ kind'[c] = kind[c],
           phase'[c] = "lost" => phase[c] = "sent",
           kind'[c] \in {"remove", "reorder"} => phase'[c] \in {"lost", "over"}
    PROVE  /\ c \in Reqs /\ ~Making(c)' /\ ~Removing(c)' /\ Answers' = Answers
           /\ \A d \in Reqs \ {c} : /\ Making(d)' <=> Making(d)
                                    /\ Removing(d)' <=> Removing(d)
                                    /\ d \in Unanswered' <=> d \in Unanswered
                                    /\ Making(d) \/ Removing(d) => d \in Unanswered
           /\ \A type, i : Says(type, i)' <=> Says(type, i)
           /\ DeletionsFollow => DeletionsFollow'
           /\ FactsInv'
           /\ ~(kind'[c] = "reorder" /\ c \in Unanswered')
<1>1. /\ c \in Reqs /\ FactsInv /\ RealtimeTypeOK /\ ReplicaInv
  BY DEF Unanswered, ConvergeInv, TogetherInv
<1>2. Pending' = Pending /\ (Reaches' <=> Reaches) /\ Answers' = Answers
  BY DEF Pending, Reaches, IsOpen, Answers
<1>3. \A type, i : Says(type, i)' <=> Says(type, i)
  BY <1>2 DEF Says
<1>4. /\ ~Making(c)' /\ ~Removing(c)'
      /\ ~(kind'[c] = "reorder" /\ c \in Unanswered')
      /\ \A d \in Reqs \ {c} : /\ Making(d)' <=> Making(d)
                               /\ Removing(d)' <=> Removing(d)
                               /\ d \in Unanswered' <=> d \in Unanswered
                               /\ Making(d) \/ Removing(d) => d \in Unanswered
  BY <1>1 DEF Making, Removing, Unanswered
<1>5. \A i : Removed(i) => Removed(i)'
  <2>1. \A d \in Reqs : kind[d] = "remove" => kind'[d] = "remove"
    OBVIOUS
  <2> QED
    BY <2>1 DEF Removed
<1>6. DeletionsFollow => DeletionsFollow'
  BY <1>1, <1>2, <1>5, CreatedRows, FollowSame
<1>7. FactsInv'
  <2>1. ASSUME NEW d \in Reqs
        PROVE  /\ kind'[d] = "none" => phase'[d] = "none"
               /\ kind'[d] = "remove" => target[d] <= born
               /\ kind'[d] \in {"create", "createAt"} /\ phase'[d] \in {"sent", "failed", "lost"}
                     => target[d] = Nil
    BY <1>1 DEF FactsInv
  <2> QED
    BY <1>1, <1>2, <1>6, <2>1 DEF FactsInv
<1> QED
  BY <1>1, <1>2, <1>3, <1>4, <1>6, <1>7

(* The others' rollbacks and the responses under way have seen it. *)
LEMMA AnswerOverlaps ==
    ASSUME NEW c \in Reqs, NEW wrong, Changes(c, wrong), Answers' = Answers,
           ~Removing(c)', ~(kind'[c] = "reorder" /\ c \in Unanswered'),
           \A d \in Reqs \ {c} : /\ Removing(d)' <=> Removing(d)
                                 /\ d \in Unanswered' <=> d \in Unanswered
                                 /\ Making(d) \/ Removing(d) => d \in Unanswered
    PROVE  /\ AnswersInv' /\ RollbackInv'
           /\ \A d \in Reqs : Removing(d)' => d \in overlapped'
           /\ doubt' = "no" => doubt = "no" /\ ~wrong
<1>1. /\ AnswersInv' /\ (\A d \in Unanswered : d # c => d \in overlapped')
      /\ (doubt' = "no" => doubt = "no" /\ ~wrong)
  BY Overlaps
<1>2. \A d \in Reqs : Removing(d)' => d \in overlapped'
  BY <1>1
<1>3. \A d \in Reqs : d \in Unanswered' => d = c \/ d \in overlapped'
  BY <1>1
<1>4. RollbackInv'
  BY <1>2, <1>3 DEF RollbackInv
<1> QED
  BY <1>1, <1>2, <1>4

(* An answer that leaves the list alone: it was no create and no removal.   *)
LEMMA AnswerSame ==
    ASSUME ConvergeInv, NEW c \in Reqs, ~Making(c), ~Removing(c), ~Making(c)', ~Removing(c)',
           UNCHANGED <<live, target, shown>>, doubt = "no",
           \A d \in Reqs \ {c} : /\ Making(d)' <=> Making(d)
                                 /\ Removing(d)' <=> Removing(d)
                                 /\ phase'[d] = phase[d] /\ before'[d] = before[d],
           \A type, i : Says(type, i)' <=> Says(type, i),
           DeletionsFollow => DeletionsFollow',
           \A d \in Reqs : Removing(d)' /\ d \notin overlapped' => d \notin overlapped
    PROVE  InStep(shown)' /\ RemovalsInv'
<1>1. InStep(shown) /\ RemovalsInv
  BY DEF ConvergeInv, TogetherInv
<1>2. \A d \in Reqs : /\ Making(d) <=> Making(d)'
                      /\ Removing(d) <=> Removing(d)'
                      /\ Making(d)' /\ phase'[d] = "sent" => phase[d] = "sent"
                      /\ Making(d) \/ Removing(d) => target'[d] = target[d]
  OBVIOUS
<1>3. PICK L : L = shown /\ InStep(L)
  BY <1>1
<1>4. InStep(L)' /\ L = shown'
  BY <1>2, <1>3, InStepKept DEF InStep
<1>5. RemovalsInv'
  <2>1. ASSUME NEW d \in Reqs, NEW r, r = target[d], Removing(d)'
        PROVE  /\ shown[r] = 0
               /\ \A g \in Reqs : Making(g)' /\ target[g] = r => shown[0 - g] = 0
               /\ \A g \in Reqs : Removing(g)' /\ target[g] = r => g = d
               /\ d \notin overlapped' => before'[d][r] = 1 /\ (r \in live' \/ Says("deleted", r)')
    <3>1. Removing(d) /\ d # c
      BY <1>2, <2>1
    <3>2. d \notin overlapped' => before[d][r] = 1 /\ (r \in live \/ Says("deleted", r))
      BY <1>1, <2>1, <3>1 DEF RemovalsInv
    <3> QED
      BY <1>1, <1>2, <2>1, <3>1, <3>2 DEF RemovalsInv
  <2> QED
    BY <2>1 DEF RemovalsInv
<1> QED
  BY <1>4, <1>5

(* The answer to a reorder, to the order after a create, or to a removal. *)
LEMMA AnsweredTogether ==
    ASSUME ConvergeInv, NEW c \in Reqs, Answered(c)
    PROVE  TogetherInv'
<1>1. /\ kind \in [Reqs -> {"none", "create", "createAt", "arrange", "remove", "reorder"}]
      /\ phase \in [Reqs -> {"none", "sent", "done", "failed", "over", "lost"}]
      /\ before \in [Reqs -> [Keys -> Nat]] /\ kind[c] # "none"
      /\ FactsInv /\ RollbackInv /\ AnswersInv
  BY DEF ConvergeInv, ReplicaInv, RequestsInv, TogetherInv, FactsInv, Answered
<1>2. /\ kind[c] \notin {"create", "createAt"} /\ phase[c] = "done" /\ c \in Unanswered
      /\ phase' = [phase EXCEPT ![c] = "over"] /\ before' = [before EXCEPT ![c] = None]
      /\ UNCHANGED <<live, born, chan, kind, target, socket, state, up, room, fetch, snap>>
  BY DEF Answered, Ends, Unanswered, store, refetch, connection, realtimeVars, page, server
<1>3. /\ phase'[c] = "over"
      /\ \A d \in Reqs \ {c} : phase'[d] = phase[d] /\ kind'[d] = kind[d] /\ before'[d] = before[d]
  BY <1>1, <1>2
<1>4. /\ ~Making(c)' /\ ~Removing(c)' /\ Answers' = Answers
      /\ \A d \in Reqs \ {c} : /\ Making(d)' <=> Making(d)
                               /\ Removing(d)' <=> Removing(d)
                               /\ d \in Unanswered' <=> d \in Unanswered
                               /\ Making(d) \/ Removing(d) => d \in Unanswered
      /\ \A type, i : Says(type, i)' <=> Says(type, i)
      /\ DeletionsFollow => DeletionsFollow'
      /\ FactsInv'
      /\ ~(kind'[c] = "reorder" /\ c \in Unanswered')
  BY <1>1, <1>2, <1>3, AnswerFacts
<1>5. ~Making(c) /\ ~Removing(c)
  BY <1>2 DEF Making, Removing
<1>6. CASE kind[c] = "arrange"
  <2>1. shown' = Only(ids[c]) /\ Changes(c, ~(Visible \subseteq ids[c]))
    BY <1>6 DEF Answered
  <2>2. /\ AnswersInv' /\ RollbackInv'
        /\ \A d \in Reqs : Removing(d)' => d \in overlapped'
        /\ doubt' = "no" => doubt = "no" /\ Visible \subseteq ids[c]
    BY <1>4, <2>1, AnswerOverlaps
  <2>3. ASSUME doubt' = "no" PROVE InStep(shown)' /\ RemovalsInv'
    <3>1. HoldsTemps(shown) /\ shown \in [Keys -> Nat]
      BY <2>2, <2>3 DEF ConvergeInv, TogetherInv, InStep, ReplicaInv, ListsInv, GoodList
    <3>2. shown' = shown
      BY <2>1, <2>2, <2>3, <3>1, OnlyVisible
    <3> QED
      BY <1>2, <1>3, <1>4, <1>5, <2>2, <2>3, <3>2, AnswerSame
  <2> QED
    BY <1>4, <2>2, <2>3 DEF TogetherInv
<1>7. CASE kind[c] # "arrange"
  <2>1. UNCHANGED <<shown, doubt, spoiled, overlapped>>
    BY <1>7 DEF Answered
  <2>2. AnswersInv'
    BY <1>1, <1>2, <1>4, <2>1 DEF AnswersInv
  <2>3. RollbackInv'
    <3>1. ASSUME NEW d \in Reqs, d \notin overlapped
          PROVE  /\ Removing(d)' => \A k \in Keys : shown[k] = IF k = target[d] THEN 0 ELSE before'[d][k]
                 /\ kind'[d] = "reorder" /\ d \in Unanswered' => shown = before'[d]
      BY <1>1, <1>3, <1>4, <3>1 DEF RollbackInv
    <3> QED
      BY <1>2, <2>1, <3>1 DEF RollbackInv
  <2>4. ASSUME doubt' = "no" PROVE InStep(shown)' /\ RemovalsInv'
    BY <1>2, <1>3, <1>4, <1>5, <2>1, <2>4, AnswerSame
  <2> QED
    BY <1>4, <2>2, <2>3, <2>4 DEF TogetherInv
<1> QED
  BY <1>6, <1>7

(* The temporary row of a create that has failed goes. *)
LEMMA TempGone ==
    ASSUME ConvergeInv, doubt = "no", NEW c \in Reqs, target[c] = Nil,
           ~Removing(c), ~Making(c)', ~Removing(c)', UNCHANGED <<live, target>>,
           shown' = [shown EXCEPT ![0 - c] = 0],
           \A d \in Reqs \ {c} : /\ Making(d)' <=> Making(d)
                                 /\ Removing(d)' <=> Removing(d)
                                 /\ phase'[d] = phase[d],
           \A type, i : Says(type, i)' <=> Says(type, i),
           DeletionsFollow => DeletionsFollow',
           \A d \in Reqs : Removing(d)' => d \in overlapped'
    PROVE  InStep(shown)' /\ RemovalsInv'
<1>1. /\ HoldsTemps(shown) /\ HoldsLive(shown) /\ DropsGone(shown) /\ DeletionsFollow /\ RemovalsInv
      /\ shown \in [Keys -> Nat] /\ live \subseteq Rows /\ Nil \notin Rows
  BY KeyFacts DEF ConvergeInv, TogetherInv, InStep, ReplicaInv, ListsInv, GoodList, RowsInv
<1>2. PICK M : M = shown'
  OBVIOUS
<1>3. /\ M[0 - c] = 0 /\ (\A i \in Rows : M[i] = shown[i])
      /\ (\A d \in Reqs \ {c} : M[0 - d] = shown[0 - d]) /\ (\A k \in Keys : M[k] <= 1)
  BY <1>1, <1>2, KeyFacts DEF HoldsTemps
<1>4. HoldsTemps(M)'
  <2>1. ASSUME NEW d \in Reqs
        PROVE  /\ M[0 - d] > 0 => Making(d)'
               /\ Making(d)' /\ phase'[d] = "sent" => M[0 - d] = 1
               /\ Making(d)' /\ target[d] \in Rows => M[target[d]] = 0 \/ M[0 - d] = 0
    BY <1>1, <1>3 DEF HoldsTemps
  <2> QED
    BY <1>3, <2>1 DEF HoldsTemps
<1>5. HoldsLive(M)'
  <2>1. ASSUME NEW i \in live
        PROVE  \/ M[i] = 1 \/ Says("created", i)'
               \/ \E d \in Reqs : target[d] = i /\ (Removing(d)' \/ (Making(d)' /\ M[0 - d] = 1))
    <3>1. i \in Rows /\ \A d \in Reqs : target[d] = i => d # c
      BY <1>1
    <3> QED
      BY <1>1, <1>3, <3>1 DEF HoldsLive
  <2> QED
    BY <2>1 DEF HoldsLive
<1>6. DropsGone(M)'
  <2>1. ASSUME NEW i \in Rows \ live
        PROVE  \/ Says("deleted", i)'
               \/ M[i] = 0 /\ \A d \in Reqs : Making(d)' /\ target[d] = i => M[0 - d] = 0
    BY <1>1, <1>3 DEF DropsGone
  <2> QED
    BY <2>1 DEF DropsGone
<1>7. RemovalsInv'
  <2>1. ASSUME NEW d \in Reqs, NEW r, r = target[d], Removing(d)'
        PROVE  /\ shown'[r] = 0
               /\ \A g \in Reqs : Making(g)' /\ target[g] = r => shown'[0 - g] = 0
               /\ \A g \in Reqs : Removing(g)' /\ target[g] = r => g = d
    <3>1. Removing(d) /\ d # c /\ r \in Rows
      BY <2>1 DEF Removing, ConvergeInv, ReplicaInv, RequestsInv
    <3> QED
      BY <1>1, <1>2, <1>3, <2>1, <3>1 DEF RemovalsInv
  <2> QED
    BY <2>1 DEF RemovalsInv
<1> QED
  BY <1>1, <1>2, <1>4, <1>5, <1>6, <1>7 DEF InStep

(* The row of a removal that has failed comes back. *)
LEMMA RowBack ==
    ASSUME ConvergeInv, doubt = "no", NEW c \in Reqs, Removing(c), c \notin overlapped,
           ~Making(c), ~Making(c)', ~Removing(c)', UNCHANGED <<live, target>>,
           shown' = before[c],
           \A d \in Reqs \ {c} : /\ Making(d)' <=> Making(d)
                                 /\ Removing(d)' <=> Removing(d)
                                 /\ phase'[d] = phase[d],
           \A type, i : Says(type, i)' <=> Says(type, i),
           DeletionsFollow => DeletionsFollow',
           \A d \in Reqs : Removing(d)' => d \in overlapped'
    PROVE  InStep(shown)' /\ RemovalsInv'
<1>1. /\ HoldsTemps(shown) /\ HoldsLive(shown) /\ DropsGone(shown) /\ DeletionsFollow
      /\ RemovalsInv /\ RollbackInv
      /\ shown \in [Keys -> Nat] /\ before[c] \in [Keys -> Nat] /\ live \subseteq Rows
      /\ target[c] \in Rows
  BY DEF ConvergeInv, TogetherInv, InStep, ReplicaInv, ListsInv, GoodList, RowsInv, RequestsInv,
         Removing
<1>2. PICK M : M = shown'
  OBVIOUS
<1>3. PICK t : t = target[c]
  OBVIOUS
<1>4. /\ shown[t] = 0 /\ M[t] = 1 /\ (t \in live \/ Says("deleted", t)) /\ t \in Rows
      /\ \A d \in Reqs : Making(d) /\ target[d] = t => shown[0 - d] = 0
      /\ \A d \in Reqs : Removing(d) /\ target[d] = t => d = c
  BY <1>1, <1>2, <1>3 DEF RemovalsInv
<1>5. /\ \A i \in Rows \ {t} : M[i] = shown[i]
      /\ \A d \in Reqs : M[0 - d] = shown[0 - d]
      /\ \A k \in Keys : M[k] <= 1
  <2>1. \A k \in Keys \ {t} : M[k] = shown[k]
    BY <1>1, <1>2, <1>3 DEF RollbackInv
  <2> QED
    BY <1>1, <1>4, <2>1, KeyFacts DEF HoldsTemps
<1>6. HoldsTemps(M)'
  <2>1. ASSUME NEW d \in Reqs
        PROVE  /\ M[0 - d] > 0 => Making(d)'
               /\ Making(d)' /\ phase'[d] = "sent" => M[0 - d] = 1
               /\ Making(d)' /\ target[d] \in Rows => M[target[d]] = 0 \/ M[0 - d] = 0
    BY <1>1, <1>4, <1>5 DEF HoldsTemps
  <2> QED
    BY <1>5, <2>1 DEF HoldsTemps
<1>7. HoldsLive(M)'
  <2>1. ASSUME NEW i \in live
        PROVE  \/ M[i] = 1 \/ Says("created", i)'
               \/ \E d \in Reqs : target[d] = i /\ (Removing(d)' \/ (Making(d)' /\ M[0 - d] = 1))
    <3>1. CASE i = t
      BY <1>4, <3>1
    <3>2. CASE i # t
      <4>1. i \in Rows /\ \A d \in Reqs : target[d] = i => d # c
        BY <1>1, <1>3, <3>2
      <4> QED
        BY <1>1, <1>5, <3>2, <4>1 DEF HoldsLive
    <3> QED
      BY <3>1, <3>2
  <2> QED
    BY <2>1 DEF HoldsLive
<1>8. DropsGone(M)'
  <2>1. ASSUME NEW i \in Rows \ live
        PROVE  \/ Says("deleted", i)'
               \/ M[i] = 0 /\ \A d \in Reqs : Making(d)' /\ target[d] = i => M[0 - d] = 0
    BY <1>1, <1>4, <1>5 DEF DropsGone
  <2> QED
    BY <2>1 DEF DropsGone
<1>9. RemovalsInv'
  <2>1. ASSUME NEW d \in Reqs, NEW r, r = target[d], Removing(d)'
        PROVE  /\ shown'[r] = 0
               /\ \A g \in Reqs : Making(g)' /\ target[g] = r => shown'[0 - g] = 0
               /\ \A g \in Reqs : Removing(g)' /\ target[g] = r => g = d
    <3>1. Removing(d) /\ d # c /\ r \in Rows /\ r # t
      BY <1>4, <2>1 DEF Removing, ConvergeInv, ReplicaInv, RequestsInv
    <3> QED
      BY <1>1, <1>2, <1>5, <2>1, <3>1 DEF RemovalsInv
  <2> QED
    BY <2>1 DEF RemovalsInv
<1> QED
  BY <1>1, <1>2, <1>6, <1>7, <1>8, <1>9 DEF InStep

(* A rollback, after an error or a timeout, that leaves no doubt. *)
LEMMA RolledBackTogether ==
    ASSUME ConvergeInv, NEW c \in Unanswered, NEW wrong, Changes(c, wrong), shown' = RolledBack(c),
           wrong <=> \/ Restores(c) /\ c \in overlapped
                     \/ phase[c] = "done" /\ kind[c] \in {"create", "createAt", "remove"},
           phase' = [phase EXCEPT ![c] = IF @ = "sent" THEN "lost" ELSE "over"]
             \/ phase' = [phase EXCEPT ![c] = "over"],
           before' = [before EXCEPT ![c] = None], phase[c] # "sent" => phase'[c] = "over",
           UNCHANGED <<live, born, chan, kind, target, socket, state, up, room, fetch, snap>>
    PROVE  TogetherInv'
<1>1. /\ kind \in [Reqs -> {"none", "create", "createAt", "arrange", "remove", "reorder"}]
      /\ phase \in [Reqs -> {"none", "sent", "done", "failed", "over", "lost"}]
      /\ before \in [Reqs -> [Keys -> Nat]] /\ c \in Reqs /\ phase[c] \in {"sent", "done", "failed"}
      /\ kind[c] # "none" /\ FactsInv /\ RollbackInv
  BY DEF ConvergeInv, ReplicaInv, RequestsInv, TogetherInv, FactsInv, Unanswered
<1>2. /\ phase'[c] \in {"lost", "over"} /\ (phase'[c] = "lost" => phase[c] = "sent")
      /\ \A d \in Reqs \ {c} : phase'[d] = phase[d] /\ kind'[d] = kind[d] /\ before'[d] = before[d]
  BY <1>1
<1>3. /\ ~Making(c)' /\ ~Removing(c)' /\ Answers' = Answers
      /\ \A d \in Reqs \ {c} : /\ Making(d)' <=> Making(d)
                               /\ Removing(d)' <=> Removing(d)
                               /\ d \in Unanswered' <=> d \in Unanswered
                               /\ Making(d) \/ Removing(d) => d \in Unanswered
      /\ \A type, i : Says(type, i)' <=> Says(type, i)
      /\ DeletionsFollow => DeletionsFollow'
      /\ FactsInv'
      /\ ~(kind'[c] = "reorder" /\ c \in Unanswered')
  BY <1>1, <1>2, AnswerFacts
<1>4. /\ AnswersInv' /\ RollbackInv'
      /\ \A d \in Reqs : Removing(d)' => d \in overlapped'
      /\ doubt' = "no" => doubt = "no" /\ ~wrong
  BY <1>1, <1>3, AnswerOverlaps
<1>5. ASSUME doubt' = "no" PROVE InStep(shown)' /\ RemovalsInv'
  <2>1. doubt = "no" /\ ~(Restores(c) /\ c \in overlapped)
        /\ ~(phase[c] = "done" /\ kind[c] \in {"create", "createAt", "remove"})
    BY <1>4, <1>5
  <2>2. CASE kind[c] \in {"create", "createAt"}
    <3>1. target[c] = Nil /\ ~Removing(c) /\ shown' = [shown EXCEPT ![0 - c] = 0]
      BY <1>1, <2>1, <2>2 DEF FactsInv, Removing, RolledBack
    <3> QED
      BY <1>1, <1>2, <1>3, <1>4, <2>1, <3>1, TempGone
  <2>3. CASE kind[c] = "remove"
    <3>1. Removing(c) /\ ~Making(c) /\ c \notin overlapped /\ shown' = before[c]
      BY <1>1, <2>1, <2>3 DEF Removing, Making, RolledBack, Restores
    <3> QED
      BY <1>1, <1>2, <1>3, <1>4, <2>1, <3>1, RowBack
  <2>4. CASE kind[c] \in {"reorder", "arrange"}
    <3>1. ~Making(c) /\ ~Removing(c)
      BY <2>4 DEF Making, Removing
    <3>2. shown' = shown
      BY <1>1, <2>1, <2>4 DEF RolledBack, Restores, RollbackInv
    <3> QED
      BY <1>1, <1>2, <1>3, <1>4, <2>1, <3>1, <3>2, AnswerSame
  <2> QED
    BY <1>1, <2>2, <2>3, <2>4
<1> QED
  BY <1>3, <1>4, <1>5 DEF TogetherInv

LEMMA FailsTogether ==
    ASSUME ConvergeInv, NEW c \in Reqs, Fails(c)
    PROVE  TogetherInv'
<1>1. /\ c \in Unanswered /\ Changes(c, Restores(c) /\ c \in overlapped) /\ shown' = RolledBack(c)
      /\ phase[c] = "failed" /\ phase' = [phase EXCEPT ![c] = "over"]
      /\ before' = [before EXCEPT ![c] = None]
      /\ UNCHANGED <<live, born, chan, kind, target, socket, state, up, room, fetch, snap>>
  BY DEF Fails, Ends, Unanswered, store, refetch, connection, realtimeVars, page, server
<1>2. phase'[c] = "over"
  BY <1>1 DEF ConvergeInv, ReplicaInv, RequestsInv
<1> QED
  BY <1>1, <1>2, RolledBackTogether

LEMMA GiveUpTogether ==
    ASSUME ConvergeInv, NEW c \in Reqs, GiveUp(c)
    PROVE  TogetherInv'
<1>1. /\ c \in Unanswered /\ shown' = RolledBack(c) /\ phase[c] \in {"sent", "done"}
      /\ Changes(c, \/ Restores(c) /\ c \in overlapped
                    \/ phase[c] = "done" /\ kind[c] \in {"create", "createAt", "remove"})
      /\ before' = [before EXCEPT ![c] = None]
      /\ UNCHANGED <<live, born, chan, kind, target, socket, state, up, room, fetch, snap>>
  BY DEF GiveUp, Ends, Unanswered, store, refetch, connection, realtimeVars, page, server
<1>2. phase \in [Reqs -> {"none", "sent", "done", "failed", "over", "lost"}]
  BY DEF ConvergeInv, ReplicaInv, RequestsInv
<1>3. phase' = [phase EXCEPT ![c] = IF @ = "sent" THEN "lost" ELSE "over"]
  BY <1>1, <1>2 DEF GiveUp, Ends
<1>4. phase[c] # "sent" => phase'[c] = "over"
  BY <1>2, <1>3
<1> QED
  BY <1>1, <1>3, <1>4, RolledBackTogether

(* The row a create has made takes its temporary row's place. *)
LEMMA CreateAnsweredTogether ==
    ASSUME ConvergeInv, NEW c \in Reqs, CreateAnswered(c)
    PROVE  TogetherInv'
<1>1. /\ kind \in [Reqs -> {"none", "create", "createAt", "arrange", "remove", "reorder"}]
      /\ phase \in [Reqs -> {"none", "sent", "done", "failed", "over", "lost"}]
      /\ before \in [Reqs -> [Keys -> Nat]] /\ target[c] \in Rows /\ RowsInv
  BY DEF ConvergeInv, ReplicaInv, RequestsInv, CreateAnswered
<1>2. /\ kind[c] \in {"create", "createAt"} /\ phase[c] = "done" /\ c \in Unanswered
      /\ shown' = [shown EXCEPT ![0 - c] = 0, ![target[c]] = @ + shown[0 - c]]
      /\ Changes(c, FALSE)
      /\ UNCHANGED <<live, born, chan, target, socket, state, up, room, fetch, snap>>
      /\ \/ kind' = [kind EXCEPT ![c] = "arrange"] /\ phase' = [phase EXCEPT ![c] = "sent"]
            /\ UNCHANGED before
         \/ Ends(c) /\ UNCHANGED kind
  BY DEF CreateAnswered, Unanswered, store, refetch, connection, realtimeVars, page, server
<1>3. /\ \/ kind'[c] = "arrange" /\ phase'[c] = "sent"
         \/ kind'[c] = kind[c] /\ phase'[c] = "over"
      /\ \A d \in Reqs \ {c} : phase'[d] = phase[d] /\ kind'[d] = kind[d] /\ before'[d] = before[d]
  BY <1>1, <1>2 DEF Ends
<1>4. /\ ~Making(c)' /\ ~Removing(c)' /\ Answers' = Answers
      /\ \A d \in Reqs \ {c} : /\ Making(d)' <=> Making(d)
                               /\ Removing(d)' <=> Removing(d)
                               /\ d \in Unanswered' <=> d \in Unanswered
                               /\ Making(d) \/ Removing(d) => d \in Unanswered
      /\ \A type, i : Says(type, i)' <=> Says(type, i)
      /\ DeletionsFollow => DeletionsFollow'
      /\ FactsInv'
      /\ ~(kind'[c] = "reorder" /\ c \in Unanswered')
  BY <1>2, <1>3, AnswerFacts
<1>5. /\ AnswersInv' /\ RollbackInv'
      /\ \A d \in Reqs : Removing(d)' => d \in overlapped'
      /\ doubt' = "no" => doubt = "no"
  BY <1>2, <1>4, AnswerOverlaps
<1>6. ASSUME doubt' = "no" PROVE InStep(shown)' /\ RemovalsInv'
  <2>1. /\ HoldsTemps(shown) /\ HoldsLive(shown) /\ DropsGone(shown) /\ DeletionsFollow /\ RemovalsInv
        /\ shown \in [Keys -> Nat] /\ live \subseteq Rows
    BY <1>5, <1>6 DEF ConvergeInv, TogetherInv, InStep, ReplicaInv, ListsInv, GoodList, RowsInv
  <2>2. PICK M : M = shown'
    OBVIOUS
  <2>3. PICK t : t = target[c]
    OBVIOUS
  <2>4. Making(c) /\ ~Removing(c) /\ t \in Rows /\ t \in Keys /\ t # 0 - c /\ 0 - c \in Keys
    BY <1>1, <1>2, <2>3, KeyFacts DEF Making, Removing
  <2>5. \A d \in Reqs : Making(d) /\ target[d] = t => d = c
    BY <1>1, <2>3, <2>4 DEF RowsInv, Making, Created, Creates
  <2>6. /\ M[0 - c] = 0 /\ M[t] = shown[t] + shown[0 - c]
        /\ \A k \in Keys \ {t, 0 - c} : M[k] = shown[k]
    BY <1>2, <2>1, <2>2, <2>3, <2>4
  <2>7. /\ \A i \in Rows \ {t} : M[i] = shown[i]
        /\ \A d \in Reqs \ {c} : M[0 - d] = shown[0 - d]
    BY <2>4, <2>6, KeyFacts
  <2>8. /\ shown[t] \in Nat /\ shown[0 - c] \in Nat /\ shown[t] <= 1 /\ shown[0 - c] <= 1
        /\ shown[t] = 0 \/ shown[0 - c] = 0
    BY <2>1, <2>3, <2>4 DEF HoldsTemps
  <2>9. M[t] <= 1 /\ (shown[t] = 1 \/ shown[0 - c] = 1 => M[t] = 1)
        /\ (shown[t] = 0 /\ shown[0 - c] = 0 => M[t] = 0)
    BY <2>6, <2>8
  <2>10. \A k \in Keys : M[k] <= 1
    BY <2>1, <2>6, <2>9 DEF HoldsTemps
  <2>11. HoldsTemps(M)'
    <3>1. ASSUME NEW d \in Reqs
          PROVE  /\ M[0 - d] > 0 => Making(d)'
                 /\ Making(d)' /\ phase'[d] = "sent" => M[0 - d] = 1
                 /\ Making(d)' /\ target[d] \in Rows => M[target[d]] = 0 \/ M[0 - d] = 0
      <4>1. CASE d = c
        BY <1>4, <2>6, <4>1
      <4>2. CASE d # c
        BY <1>3, <1>4, <2>1, <2>5, <2>7, <4>2 DEF HoldsTemps
      <4> QED
        BY <4>1, <4>2
    <3> QED
      BY <1>2, <2>10, <3>1 DEF HoldsTemps
  <2>12. HoldsLive(M)'
    <3>1. ASSUME NEW i \in live
          PROVE  \/ M[i] = 1 \/ Says("created", i)'
                 \/ \E d \in Reqs : target[d] = i /\ (Removing(d)' \/ (Making(d)' /\ M[0 - d] = 1))
      <4>1. CASE i = t
        <5>1. \/ shown[t] = 1 \/ shown[0 - c] = 1 \/ Says("created", t)
              \/ \E d \in Reqs : target[d] = t /\ Removing(d)
          BY <2>1, <2>5, <3>1, <4>1 DEF HoldsLive
        <5> QED
          BY <1>4, <2>4, <2>9, <4>1, <5>1
      <4>2. CASE i # t
        <5>1. i \in Rows /\ \A d \in Reqs : target[d] = i => d # c
          BY <2>1, <2>3, <4>2
        <5> QED
          BY <1>4, <2>1, <2>7, <4>2, <5>1 DEF HoldsLive
      <4> QED
        BY <4>1, <4>2
    <3> QED
      BY <1>2, <3>1 DEF HoldsLive
  <2>13. DropsGone(M)'
    <3>1. ASSUME NEW i \in Rows \ live
          PROVE  \/ Says("deleted", i)'
                 \/ M[i] = 0 /\ \A d \in Reqs : Making(d)' /\ target[d] = i => M[0 - d] = 0
      <4>1. CASE i = t
        <5>1. Says("deleted", t) \/ (shown[t] = 0 /\ shown[0 - c] = 0)
          BY <2>1, <2>3, <2>4, <3>1, <4>1 DEF DropsGone
        <5>2. \A d \in Reqs : Making(d)' => target[d] # t
          BY <1>4, <2>5
        <5> QED
          BY <1>4, <2>9, <4>1, <5>1, <5>2
      <4>2. CASE i # t
        BY <1>4, <2>1, <2>7, <3>1, <4>2 DEF DropsGone
      <4> QED
        BY <4>1, <4>2
    <3> QED
      BY <1>2, <3>1 DEF DropsGone
  <2>14. RemovalsInv'
    <3>1. ASSUME NEW d \in Reqs, NEW r, r = target[d], Removing(d)'
          PROVE  /\ shown'[r] = 0
                 /\ \A g \in Reqs : Making(g)' /\ target[g] = r => shown'[0 - g] = 0
                 /\ \A g \in Reqs : Removing(g)' /\ target[g] = r => g = d
      <4>1. Removing(d) /\ d # c /\ r \in Rows
        BY <1>4, <3>1 DEF Removing, ConvergeInv, ReplicaInv, RequestsInv
      <4>2. /\ shown[r] = 0
            /\ \A g \in Reqs : Making(g) /\ target[g] = r => shown[0 - g] = 0
            /\ \A g \in Reqs : Removing(g) /\ target[g] = r => g = d
        BY <2>1, <3>1, <4>1 DEF RemovalsInv
      <4>3. M[r] = 0
        <5>1. CASE r = t
          BY <2>3, <2>4, <2>9, <4>2, <5>1
        <5>2. CASE r # t
          BY <2>7, <4>1, <4>2, <5>2
        <5> QED
          BY <5>1, <5>2
      <4> QED
        BY <1>4, <2>2, <2>7, <4>1, <4>2, <4>3
    <3> QED
      BY <1>2, <1>5, <1>6, <3>1 DEF RemovalsInv
  <2> QED
    BY <1>4, <2>1, <2>2, <2>11, <2>12, <2>13, <2>14 DEF InStep
<1> QED
  BY <1>4, <1>5, <1>6 DEF TogetherInv

-----------------------------------------------------------------------------
(* The invariant. *)

LEMMA LineStep ==
    ASSUME ConvergeInv, [ReplicaNext]_replicaVars
    PROVE  LineInv'
<1>1. RealtimeTypeOK /\ CurrentInv /\ LifeInv /\ LineInv /\ ChannelInv
  BY DEF ConvergeInv, ReplicaInv
<1>2. CASE Reconnecting
  BY <1>1, <1>2, LineMoves DEF Reconnecting, refetch
<1>3. ASSUME NEW s \in Sockets, ReplicaOpens(s) PROVE LineInv'
  BY <1>1, <1>3, LineMoves DEF ReplicaOpens, refetch
<1>4. ASSUME NEW s \in Sockets, ReplicaCloses(s) PROVE LineInv'
  BY <1>1, <1>4, LineCloses
<1>5. ASSUME NEW s \in Sockets, Refetch(s) PROVE LineInv'
  BY <1>1, <1>5, LineFetches DEF Refetch, HookDone, server, histories
<1>6. ASSUME NEW s \in Sockets, FetchAnswered(s) \/ FetchApplies(s) \/ FetchFails(s) PROVE LineInv'
  <2>1. fetch' = [fetch EXCEPT ![s] = "answered"] \/ fetch' = [fetch EXCEPT ![s] = "over"]
    BY <1>6 DEF FetchAnswered, FetchApplies, FetchFails, FetchOver
  <2>2. UNCHANGED <<chan, should, active, muted, crossed, socket, fetching, timer, wire, state, up, room>>
    BY <1>6 DEF FetchAnswered, FetchApplies, FetchFails, connection, realtimeVars, page, server,
                histories
  <2> QED
    BY <1>1, <2>1, <2>2, LineFetches
<1>7. ASSUME NEW s \in Sockets, ReadEvent(s) PROVE LineInv'
  BY <1>1, <1>7, LineReads DEF ReadEvent, connection, refetch
<1>8. ASSUME UNCHANGED realtimeVars, UNCHANGED <<chan, fetch>> PROVE LineInv'
  BY <1>1, <1>8, LineMoves
<1>9. ASSUME NEW s \in Sockets, ReadWelcome(s) PROVE LineInv'
  BY <1>8, <1>9 DEF ReadWelcome, connection, refetch
<1>10. ASSUME NEW c \in Reqs, NEW what, NEW row, NEW rows, Asks(c, what, row, rows) PROVE LineInv'
  BY <1>8, <1>10 DEF Asks, connection, refetch
<1>11. ASSUME NEW c \in Reqs, ServerDoes(c) PROVE LineInv'
  <2>1. UNCHANGED realtimeVars /\ UNCHANGED fetch /\ \E event, x : Broadcast(event, x)
    BY <1>11 DEF ServerDoes, connection, refetch, Inserts, DeletesRow, Reorders
  <2> QED
    BY <1>1, <2>1, LineSends
<1>12. ASSUME NEW c \in Reqs,
              ServerRefuses(c) \/ CreateAnswered(c) \/ Answered(c) \/ Fails(c) \/ GiveUp(c)
       PROVE  LineInv'
  BY <1>8, <1>12 DEF ServerRefuses, CreateAnswered, Answered, Fails, GiveUp, connection, refetch
<1>13. CASE CollabEdit
  <2>1. UNCHANGED realtimeVars /\ UNCHANGED fetch /\ \E event, x : Broadcast(event, x)
    BY <1>13 DEF CollabEdit, connection, refetch, Inserts, DeletesRow, Reorders
  <2> QED
    BY <1>1, <2>1, LineSends
<1>14. CASE UNCHANGED replicaVars
  BY <1>8, <1>14 DEF replicaVars, connection, refetch
<1> QED
  BY <1>2, <1>3, <1>4, <1>5, <1>6, <1>7, <1>9, <1>10, <1>11, <1>12, <1>13, <1>14
     DEF ReplicaNext, Assign, RemoveAssignment, Reorder

LEMMA TogetherStep ==
    ASSUME ConvergeInv, [ReplicaNext]_replicaVars
    PROVE  TogetherInv'
<1>1. CASE Reconnecting
  BY <1>1, ReconnectingTogether
<1>2. ASSUME NEW s \in Sockets,
             \/ ReplicaOpens(s) \/ ReplicaCloses(s) \/ ReadWelcome(s) \/ Refetch(s)
             \/ FetchAnswered(s) \/ FetchApplies(s) \/ FetchFails(s) \/ ReadEvent(s)
      PROVE  TogetherInv'
  BY <1>2, OpensTogether, ClosesTogether, WelcomeTogether, RefetchTogether, FetchAnsweredTogether,
     AppliesTogether, FetchFailsTogether, ReadTogether
<1>3. ASSUME NEW c \in Reqs, NEW p \in Places, Assign(c, p, "create") \/ Assign(c, p, "createAt")
      PROVE  TogetherInv'
  BY <1>3, AssignTogether
<1>4. ASSUME NEW c \in Reqs, NEW i \in Rows, RemoveAssignment(c, i)
      PROVE  TogetherInv'
  BY <1>4, RemoveTogether
<1>5. ASSUME NEW c \in Reqs, ServerDoes(c)
      PROVE  TogetherInv'
  <2>1. kind[c] \in {"create", "createAt", "remove", "reorder", "arrange"}
    BY <1>5 DEF ServerDoes
  <2> QED
    BY <1>5, <2>1, ServerCreatesTogether, ServerRemovesTogether, ServerReordersTogether
<1>6. ASSUME NEW c \in Reqs,
             \/ Reorder(c) \/ ServerRefuses(c) \/ CreateAnswered(c)
             \/ Answered(c) \/ Fails(c) \/ GiveUp(c)
      PROVE  TogetherInv'
  BY <1>6, ReorderTogether, RefusesTogether, CreateAnsweredTogether, AnsweredTogether,
     FailsTogether, GiveUpTogether
<1>7. CASE CollabEdit
  BY <1>7, CollabTogether
<1>8. CASE UNCHANGED replicaVars
  <2>1. /\ UNCHANGED <<live, born, kind, phase, target, before, shown, overlapped, chan, fetch, snap,
                       spoiled, doubt, socket, state, up, room>>
        /\ RealtimeTypeOK /\ ReplicaInv /\ TogetherInv
    BY <1>8 DEF replicaVars, store, request, refetch, exposure, ConvergeInv, connection,
                realtimeVars, page, server
  <2>2. Pending' = Pending /\ (Reaches' <=> Reaches) /\ Answers' = Answers
    BY <2>1 DEF Pending, Reaches, IsOpen, Answers
  <2> QED
    BY <2>1, <2>2, Quietly
<1> QED
  BY <1>1, <1>2, <1>3, <1>4, <1>5, <1>6, <1>7, <1>8 DEF ReplicaNext

LEMMA ConvergeStep ==
    ASSUME ConvergeInv, [ReplicaNext]_replicaVars
    PROVE  ConvergeInv'
<1>1. [RealtimeNext]_realtimeVars
  BY StepsOfTheLine
<1>2. RealtimeTypeOK /\ CurrentInv /\ LifeInv /\ ReplicaInv
  BY DEF ConvergeInv
<1>3. RealtimeTypeOK' /\ CurrentInv' /\ LifeInv' /\ ReplicaInv'
  BY <1>1, <1>2, RealtimeTypeStep, CurrentStep, LifeStep, ReplicaStep
<1> QED
  BY <1>3, LineStep, TogetherStep DEF ConvergeInv

LEMMA ConvergeStart ==
    ASSUME ReplicaInit
    PROVE  ConvergeInv
<1>1. /\ shown = ListOf({1}) /\ live = {1} /\ born = 1
      /\ chan = [s \in Sockets |-> << >>] /\ fetch = [s \in Sockets |-> "none"]
      /\ kind = [c \in Reqs |-> "none"] /\ phase = [c \in Reqs |-> "none"]
  BY DEF ReplicaInit, ListInit
<1>2. 1 \in Sockets /\ 1 \in Nat /\ Nil # 1
  BY RealtimeAssumption DEF Sockets
<1>3. RealtimeTypeOK /\ CurrentInv /\ LifeInv
  BY <1>2, RealtimeAssumption, SocketFacts
     DEF ReplicaInit, JoinedInit, RealtimeTypeOK, CurrentInv, LifeInv, Sockets
<1>4. LineInv
  BY <1>1, <1>2 DEF ReplicaInit, JoinedInit, LineInv
<1>5. ReplicaInv
  BY ReplicaStart
<1>6. Pending = << >> /\ Unanswered = {} /\ Answers = {}
  BY <1>1, <1>2 DEF ReplicaInit, JoinedInit, Pending, Unanswered, Answers
<1>7. (\A c \in Reqs : ~Making(c) /\ ~Removing(c)) /\ DeletionsFollow
  BY <1>1, <1>6 DEF Making, Removing, DeletionsFollow
<1>8. FactsInv /\ RollbackInv /\ AnswersInv /\ RemovalsInv
  BY <1>1, <1>6, <1>7 DEF FactsInv, RollbackInv, AnswersInv, RemovalsInv
<1>9. InStep(shown)
  <2>1. /\ \A c \in Reqs : shown[0 - c] = 0
        /\ \A i \in Rows : shown[i] = IF i \in live THEN 1 ELSE 0
        /\ \A k \in Keys : shown[k] <= 1
    BY <1>1, KeyFacts, ReplicaAssumption DEF ListOf, Rows
  <2>2. live \subseteq Rows
    BY <1>1, ReplicaAssumption DEF Rows
  <2> QED
    BY <1>7, <2>1, <2>2 DEF InStep, HoldsTemps, HoldsLive, DropsGone
<1> QED
  BY <1>3, <1>4, <1>5, <1>8, <1>9 DEF ConvergeInv, TogetherInv

(* The list is in step with the server through every interleaving, or one   *)
(* of the races of Converges has put it in doubt.                           *)
THEOREM ReplicaInStep == ReplicaSpec => []ConvergeInv
<1>1. ReplicaInit => ConvergeInv
  BY ConvergeStart
<1>2. ConvergeInv /\ [ReplicaNext]_replicaVars => ConvergeInv'
  BY ConvergeStep
<1> QED
  BY <1>1, <1>2, PTL DEF ReplicaSpec

(* At rest the page shows exactly the server's rows. *)
THEOREM ReplicaConverges == ReplicaSpec => []Converges
<1>1. ConvergeInv => Converges
  BY AtRestShows
<1> QED
  BY <1>1, ReplicaInStep, PTL
=============================================================================
