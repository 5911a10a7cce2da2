--------------------------- MODULE MCSideBySide ---------------------------
(***************************************************************************)
(* The components that share no state with the offline core, in one small  *)
(* instance: each part explores one of them, the others stay as they start.*)
(* A component too large for one instance has several parts, which bound   *)
(* it in different directions.                                             *)
(***************************************************************************)
EXTENDS PluginSupervisor, TripReplica, VacayFusion, TripDays, Settlement

VARIABLE part

Parts == {"starts", "events", "erasure", "connection", "list", "reconnect", "echo", "plans", "days", "costs"}

SideInit ==
    /\ part \in Parts
    /\ PluginInit /\ VacayInit /\ SettlementInit /\ TripDaysInit /\ ListInit
    /\ IF part = "connection" THEN RealtimeInit ELSE JoinedInit
    /\ part # "days" => range = <<1, 1>>

-----------------------------------------------------------------------------
(* The supervisor on its own; with core events and one restart, while the   *)
(* host stays up; and with deleted accounts and one restart (Respawn always *)
(* finds a fork left).                                                      *)
OneRestart == forked' + (IF respawn' = {} THEN 0 ELSE 1) <= 2

Starts == PluginNext /\ UNCHANGED <<coreEvents, erasure>>

Events ==
    /\ PluginNext /\ UNCHANGED erasure
    /\ OneRestart
    /\ \A e \in Entries : promise[e] # "none" => promise'[e] # "none"

Erasure == PluginNext /\ UNCHANGED coreEvents /\ OneRestart

(* The connection on its own; the replica with a connection that holds, in  *)
(* a reconnect with one request, and with two creates and their echoes.     *)
Connection ==
    /\ RealtimeNext
    /\ UNCHANGED <<sid, welcome, chan, store, shown, cached, request, refetch, exposure>>

List == ReplicaNext /\ UNCHANGED <<up, state>>

OneReconnect == ReplicaNext /\ (2 \in up => 2 \in up') /\ state'[2] \notin {"closed", "closing"}

Reconnect ==
    /\ OneReconnect /\ phase'[2] = "none"
    /\ \A c \in Reqs : kind'[c] \notin {"createAt", "reorder"}

Echo ==
    /\ OneReconnect /\ edits' = 0
    /\ \A c \in Reqs : kind'[c] \in {"none", "create"} /\ phase'[c] \notin {"failed", "lost"}

SideNext ==
    \/ /\ part = "starts" /\ Starts
       /\ UNCHANGED <<part, replicaVars, vacayVars, tripDaysVars, settlementVars>>
    \/ /\ part = "events" /\ Events
       /\ UNCHANGED <<part, replicaVars, vacayVars, tripDaysVars, settlementVars>>
    \/ /\ part = "erasure" /\ Erasure
       /\ UNCHANGED <<part, replicaVars, vacayVars, tripDaysVars, settlementVars>>
    \/ /\ part = "connection" /\ Connection
       /\ UNCHANGED <<part, pluginVars, vacayVars, tripDaysVars, settlementVars>>
    \/ /\ part = "list" /\ List
       /\ UNCHANGED <<part, pluginVars, vacayVars, tripDaysVars, settlementVars>>
    \/ /\ part = "reconnect" /\ Reconnect
       /\ UNCHANGED <<part, pluginVars, vacayVars, tripDaysVars, settlementVars>>
    \/ /\ part = "echo" /\ Echo
       /\ UNCHANGED <<part, pluginVars, vacayVars, tripDaysVars, settlementVars>>
    \/ /\ part = "plans" /\ VacayNext
       /\ UNCHANGED <<part, pluginVars, replicaVars, tripDaysVars, settlementVars>>
    \/ /\ part = "days" /\ TripDaysNext
       /\ UNCHANGED <<part, pluginVars, replicaVars, vacayVars, settlementVars>>
    \/ /\ part = "costs" /\ SettlementNext
       /\ UNCHANGED <<part, pluginVars, replicaVars, vacayVars, tripDaysVars>>

sideVars == <<part, pluginVars, replicaVars, vacayVars, tripDaysVars, settlementVars>>

SideSpec == SideInit /\ [][SideNext]_sideVars /\ PluginFairness
=============================================================================
