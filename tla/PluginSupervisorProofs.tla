----------------------- MODULE PluginSupervisorProofs -----------------------
(***************************************************************************)
(* Proofs about PluginSupervisor.                                          *)
(***************************************************************************)
EXTENDS PluginSupervisor, SequenceTheorems, TLAPS

LEMMA PluginTypeInit == PluginInit => PluginTypeOK
<1> SUFFICES ASSUME PluginInit PROVE PluginTypeOK
  OBVIOUS
<1> USE PluginAssumption DEF PluginInit
<1>1. EntriesType BY DEF EntriesType
<1>2. KidsType BY DEF KidsType
<1>3. EventsType BY DEF EventsType
<1>4. ErasureType BY DEF ErasureType
<1> QED
  BY <1>1, <1>2, <1>3, <1>4 DEF PluginTypeOK

LEMMA NilApart == Null \notin Entries /\ Null \notin Kids
  BY PluginAssumption DEF Entries, Kids

(* The bounds leave an entry and a child for an activation. *)
LEMMA Fresh ==
    ASSUME PluginTypeOK
    PROVE  /\ Activate => made + 1 \in Entries /\ forked + 1 \in Kids
           /\ running # Null => running \in Entries
  BY PluginAssumption DEF PluginTypeOK, EntriesType, KidsType, Activate, CanFork, Entries, Kids

(* A respawn finds its entry current, and a child to fork. *)
LEMMA FreshRespawn ==
    ASSUME PluginTypeOK, EntriesInv, NEW e \in Entries, Respawn(e)
    PROVE  /\ forked + 1 \in Kids /\ Starting(e) /\ respawn = {e}
<1>1. e \in respawn /\ \A f \in respawn : f \in Entries /\ status[f] = "starting" /\ running = f
  BY DEF PluginTypeOK, EntriesType, EntriesInv, Respawn
<1>2. Starting(e)
  BY <1>1, NilApart DEF Starting
<1>2a. \A f \in respawn : f = e
  BY <1>1
<1>3. forked + 1 \in Kids
  BY <1>1, PluginAssumption DEF PluginTypeOK, KidsType, EntriesInv, Kids
<1> QED
  BY <1>1, <1>2, <1>2a, <1>3

LEMMA KillType ==
    ASSUME EntriesType, KidsType, KidsInv, NEW e \in Entries, NEW next \in {"dispose", "row"}, Kill(e, next)
    PROVE  /\ child' \in [Entries -> Kids \cup {Null}]
           /\ cron' \in [Entries -> Int] /\ tasks' \subseteq Entries
           /\ killing' \in [Entries -> {"none", "dispose", "row"}]
           /\ proc' \in [Kids -> {"none", "up", "dying", "gone"}]
           /\ \A k \in Kids : proc'[k] # "none" => proc[k] # "none"
<1>1. /\ child' \in [Entries -> Kids \cup {Null}]
      /\ cron' \in [Entries -> Int] /\ tasks' \subseteq Entries
  BY DEF EntriesType, Kill, StopJobs
<1>2. CASE child[e] = Null
  BY <1>1, <1>2 DEF EntriesType, KidsType, Kill
<1>3. CASE child[e] # Null
  BY <1>1, <1>3 DEF EntriesType, KidsType, KidsInv, Kill
<1> QED
  BY <1>2, <1>3

LEMMA SpawnType ==
    ASSUME EntriesType, KidsType, NEW e \in Entries, forked + 1 \in Kids, Spawn(e)
    PROVE  /\ child' \in [Entries -> Kids \cup {Null}]
           /\ forked' \in 0 .. MaxKids
           /\ proc' \in [Kids -> {"none", "up", "dying", "gone"}]
           /\ owner' \in [Kids -> Entries \cup {Null}]
           /\ \A k \in Kids : owner'[k] = (IF k = forked + 1 THEN e ELSE owner[k])
           /\ \A k \in Kids : proc'[k] = (IF k = forked + 1 THEN "up" ELSE proc[k])
  BY PluginAssumption DEF EntriesType, KidsType, Spawn, Kids

LEMMA EntriesTypeStep ==
    ASSUME PluginTypeOK, EntriesInv, KidsInv, [PluginNext]_pluginVars PROVE EntriesType'
<1> USE PluginAssumption, Fresh, NilApart
    DEF PluginTypeOK, EntriesType, entries, timers, jobs, ClearTimers, Settle, SetStatus
<1>1. CASE ActivateAgain
  BY <1>1 DEF ActivateAgain
<1>2. CASE Activate
  BY <1>2, SpawnType DEF Activate
<1>3. CASE DeactivateIdle
  BY <1>3 DEF DeactivateIdle
<1>4. CASE Deactivate
  BY <1>4, KillType DEF Deactivate
<1>5. CASE Shutdown
  BY <1>5, KillType DEF Shutdown
<1>6. CASE HostCrash
  BY <1>6 DEF HostCrash
<1>7. ASSUME NEW e \in Entries, ActivationTimeout(e) PROVE EntriesType'
  BY <1>7, KillType DEF ActivationTimeout
<1>8. ASSUME NEW e \in Entries, KillDone(e) PROVE EntriesType'
  BY <1>8 DEF KillDone
<1>9. ASSUME NEW e \in Entries, Respawn(e) PROVE EntriesType'
  BY <1>9, SpawnType, FreshRespawn DEF Respawn
<1>10. ASSUME NEW k \in Kids, KidReports(k, "loaded") PROVE EntriesType'
  BY <1>10 DEF KidReports
<1>11. ASSUME NEW k \in Kids, KidReports(k, "failed") PROVE EntriesType'
  BY <1>11 DEF KidReports
<1>12. ASSUME NEW k \in Kids, Loaded(k) PROVE EntriesType'
  BY <1>12 DEF Loaded, FlushPendingEvents, Starting
<1>13. ASSUME NEW k \in Kids, LoadFailed(k) PROVE EntriesType'
  BY <1>13, KillType DEF LoadFailed, Starting
<1>14. ASSUME NEW k \in Kids, IgnoreReport(k) PROVE EntriesType'
  BY <1>14 DEF IgnoreReport
<1>15. ASSUME NEW k \in Kids, Exit(k) PROVE EntriesType'
  BY <1>15 DEF Exit, Exited, KidsType, StopJobs
<1>16. ASSUME NEW k \in Kids, NEW n \in 1 .. CrashLimit, Crash(k, n) PROVE EntriesType'
  BY <1>16 DEF Crash, Exited, KidsType, StopJobs
<1>17. ASSUME NEW k \in Kids, NEW u \in Erasers, KidErases(k, u) PROVE EntriesType'
  BY <1>17 DEF KidErases
<1>18. CASE DeliverEvent
  BY <1>18 DEF DeliverEvent
<1>19. CASE ExpireEvent
  BY <1>19 DEF ExpireEvent
<1>20. ASSUME NEW u \in Erasers, EnqueueErasure(u) PROVE EntriesType'
  BY <1>20 DEF EnqueueErasure
<1>21. ASSUME NEW u \in Erasers, AskErasure(u) PROVE EntriesType'
  BY <1>21 DEF AskErasure
<1>22. CASE SweepErasures
  BY <1>22 DEF SweepErasures
<1>23. ASSUME NEW ok \in BOOLEAN, ErasureAnswered(ok) PROVE EntriesType'
  BY <1>23 DEF ErasureAnswered
<1>24. CASE InvokeTimeout
  BY <1>24 DEF InvokeTimeout
<1>25. CASE DrainEnds
  BY <1>25 DEF DrainEnds
<1>26. CASE UNCHANGED pluginVars
  BY <1>26 DEF pluginVars
<1> QED
  BY <1>1, <1>2, <1>3, <1>4, <1>5, <1>6, <1>7, <1>8, <1>9, <1>10, <1>11, <1>12, <1>13, <1>14, <1>15, <1>16, <1>17, <1>18, <1>19, <1>20, <1>21, <1>22, <1>23, <1>24, <1>25, <1>26 DEF PluginNext

LEMMA KidsTypeStep ==
    ASSUME PluginTypeOK, EntriesInv, KidsInv, [PluginNext]_pluginVars PROVE KidsType'
<1> USE PluginAssumption, Fresh, NilApart
    DEF PluginTypeOK, KidsType, procs, Read
<1>1. CASE ActivateAgain
  BY <1>1 DEF ActivateAgain
<1>2. CASE Activate
  BY <1>2, SpawnType DEF Activate
<1>3. CASE DeactivateIdle
  BY <1>3 DEF DeactivateIdle
<1>4. CASE Deactivate
  BY <1>4, KillType DEF Deactivate
<1>5. CASE Shutdown
  BY <1>5, KillType DEF Shutdown
<1>6. CASE HostCrash
  BY <1>6 DEF HostCrash
<1>7. ASSUME NEW e \in Entries, ActivationTimeout(e) PROVE KidsType'
  BY <1>7, KillType DEF ActivationTimeout
<1>8. ASSUME NEW e \in Entries, KillDone(e) PROVE KidsType'
  BY <1>8 DEF KillDone
<1>9. ASSUME NEW e \in Entries, Respawn(e) PROVE KidsType'
  BY <1>9, SpawnType, FreshRespawn DEF Respawn
<1>10. ASSUME NEW k \in Kids, KidReports(k, "loaded") PROVE KidsType'
  BY <1>10 DEF KidReports
<1>11. ASSUME NEW k \in Kids, KidReports(k, "failed") PROVE KidsType'
  BY <1>11 DEF KidReports
<1>12. ASSUME NEW k \in Kids, Loaded(k) PROVE KidsType'
  BY <1>12 DEF Loaded, FlushPendingEvents
<1>13. ASSUME NEW k \in Kids, LoadFailed(k) PROVE KidsType'
  BY <1>13, KillType DEF LoadFailed, EntriesType, Starting
<1>14. ASSUME NEW k \in Kids, IgnoreReport(k) PROVE KidsType'
  BY <1>14 DEF IgnoreReport
<1>15. ASSUME NEW k \in Kids, Exit(k) PROVE KidsType'
  BY <1>15 DEF Exit, Exited
<1>16. ASSUME NEW k \in Kids, NEW n \in 1 .. CrashLimit, Crash(k, n) PROVE KidsType'
  BY <1>16 DEF Crash, Exited
<1>17. ASSUME NEW k \in Kids, NEW u \in Erasers, KidErases(k, u) PROVE KidsType'
  BY <1>17 DEF KidErases
<1>18. CASE DeliverEvent
  BY <1>18 DEF DeliverEvent
<1>19. CASE ExpireEvent
  BY <1>19 DEF ExpireEvent
<1>20. ASSUME NEW u \in Erasers, EnqueueErasure(u) PROVE KidsType'
  BY <1>20 DEF EnqueueErasure
<1>21. ASSUME NEW u \in Erasers, AskErasure(u) PROVE KidsType'
  BY <1>21 DEF AskErasure, EntriesType
<1>22. CASE SweepErasures
  BY <1>22 DEF SweepErasures
<1>23. ASSUME NEW ok \in BOOLEAN, ErasureAnswered(ok) PROVE KidsType'
  BY <1>23 DEF ErasureAnswered
<1>24. CASE InvokeTimeout
  BY <1>24 DEF InvokeTimeout
<1>25. CASE DrainEnds
  BY <1>25 DEF DrainEnds
<1>26. CASE UNCHANGED pluginVars
  BY <1>26 DEF pluginVars
<1> QED
  BY <1>1, <1>2, <1>3, <1>4, <1>5, <1>6, <1>7, <1>8, <1>9, <1>10, <1>11, <1>12, <1>13, <1>14, <1>15, <1>16, <1>17, <1>18, <1>19, <1>20, <1>21, <1>22, <1>23, <1>24, <1>25, <1>26 DEF PluginNext

LEMMA SendType ==
    ASSUME EventsType, NEW e, NEW s \in Seq(1 .. MaxEvents), SendEvents(e, s)
    PROVE  sent' \in Seq(1 .. MaxEvents)
<1>1. sent \o s \in Seq(1 .. MaxEvents)
  BY ConcatProperties DEF EventsType
<1> QED
  BY <1>1 DEF EventsType, SendEvents

LEMMA BufferedType ==
    ASSUME EventsType, NEW ev \in 1 .. MaxEvents
    PROVE  Buffered(buffer, ev) \in Seq(1 .. MaxEvents) /\ Len(Buffered(buffer, ev)) <= EventMax
<1>1. CASE Len(buffer) < EventMax
  BY <1>1, AppendProperties, PluginAssumption DEF EventsType, Buffered
<1>2. CASE Len(buffer) >= EventMax
  <2>1. buffer # << >> /\ Tail(buffer) \in Seq(1 .. MaxEvents) /\ Len(Tail(buffer)) = Len(buffer) - 1
    BY <1>2, EmptySeq, HeadTailProperties, PluginAssumption DEF EventsType
  <2>2. Buffered(buffer, ev) = Append(Tail(buffer), ev)
    BY <1>2, PluginAssumption DEF EventsType, Buffered
  <2> QED
    BY <1>2, <2>1, <2>2, AppendProperties DEF EventsType
<1> QED
  BY <1>1, <1>2, PluginAssumption DEF EventsType

LEMMA EventsTypeStep ==
    ASSUME PluginTypeOK, EntriesInv, KidsInv, [PluginNext]_pluginVars PROVE EventsType'
<1> USE PluginAssumption, Fresh, NilApart
    DEF PluginTypeOK, EventsType, coreEvents
<1>1. CASE ActivateAgain
  BY <1>1 DEF ActivateAgain
<1>2. CASE Activate
  BY <1>2 DEF Activate
<1>3. CASE DeactivateIdle
  BY <1>3 DEF DeactivateIdle
<1>4. CASE Deactivate
  BY <1>4 DEF Deactivate
<1>5. CASE Shutdown
  BY <1>5 DEF Shutdown
<1>6. CASE HostCrash
  BY <1>6 DEF HostCrash
<1>7. ASSUME NEW e \in Entries, ActivationTimeout(e) PROVE EventsType'
  BY <1>7 DEF ActivationTimeout
<1>8. ASSUME NEW e \in Entries, KillDone(e) PROVE EventsType'
  BY <1>8 DEF KillDone
<1>9. ASSUME NEW e \in Entries, Respawn(e) PROVE EventsType'
  BY <1>9 DEF Respawn
<1>10. ASSUME NEW k \in Kids, KidReports(k, "loaded") PROVE EventsType'
  BY <1>10 DEF KidReports
<1>11. ASSUME NEW k \in Kids, KidReports(k, "failed") PROVE EventsType'
  BY <1>11 DEF KidReports
<1>12. ASSUME NEW k \in Kids, Loaded(k) PROVE EventsType'
  BY <1>12, SendType DEF Loaded, FlushPendingEvents
<1>13. ASSUME NEW k \in Kids, LoadFailed(k) PROVE EventsType'
  BY <1>13 DEF LoadFailed
<1>14. ASSUME NEW k \in Kids, IgnoreReport(k) PROVE EventsType'
  BY <1>14 DEF IgnoreReport
<1>15. ASSUME NEW k \in Kids, Exit(k) PROVE EventsType'
  BY <1>15 DEF Exit, Exited
<1>16. ASSUME NEW k \in Kids, NEW n \in 1 .. CrashLimit, Crash(k, n) PROVE EventsType'
  BY <1>16 DEF Crash, Exited
<1>17. ASSUME NEW k \in Kids, NEW u \in Erasers, KidErases(k, u) PROVE EventsType'
  BY <1>17 DEF KidErases
<1>18. CASE DeliverEvent
  <2>1. events + 1 \in 1 .. MaxEvents
    BY <1>18 DEF DeliverEvent
  <2>2. events' \in 0 .. MaxEvents
    BY <1>18 DEF DeliverEvent
  <2>3. buffer' \in Seq(1 .. MaxEvents) /\ Len(buffer') <= EventMax
    BY <1>18, <2>1, BufferedType DEF DeliverEvent
  <2>4. <<events + 1>> \in Seq(1 .. MaxEvents)
    BY <2>1
  <2>5. sent' \in Seq(1 .. MaxEvents)
    BY <1>18, <2>4, SendType DEF DeliverEvent
  <2> QED
    BY <2>2, <2>3, <2>5
<1>19. CASE ExpireEvent
  BY <1>19 DEF ExpireEvent
<1>20. ASSUME NEW u \in Erasers, EnqueueErasure(u) PROVE EventsType'
  BY <1>20 DEF EnqueueErasure
<1>21. ASSUME NEW u \in Erasers, AskErasure(u) PROVE EventsType'
  BY <1>21 DEF AskErasure
<1>22. CASE SweepErasures
  BY <1>22 DEF SweepErasures
<1>23. ASSUME NEW ok \in BOOLEAN, ErasureAnswered(ok) PROVE EventsType'
  BY <1>23 DEF ErasureAnswered
<1>24. CASE InvokeTimeout
  BY <1>24 DEF InvokeTimeout
<1>25. CASE DrainEnds
  BY <1>25 DEF DrainEnds
<1>26. CASE UNCHANGED pluginVars
  BY <1>26 DEF pluginVars
<1> QED
  BY <1>1, <1>2, <1>3, <1>4, <1>5, <1>6, <1>7, <1>8, <1>9, <1>10, <1>11, <1>12, <1>13, <1>14, <1>15, <1>16, <1>17, <1>18, <1>19, <1>20, <1>21, <1>22, <1>23, <1>24, <1>25, <1>26 DEF PluginNext

LEMMA ErasureTypeStep ==
    ASSUME PluginTypeOK, EntriesInv, KidsInv, [PluginNext]_pluginVars PROVE ErasureType'
<1> USE PluginAssumption, Fresh, NilApart
    DEF PluginTypeOK, ErasureType, erasure, pass
<1>1. CASE ActivateAgain
  BY <1>1 DEF ActivateAgain
<1>2. CASE Activate
  BY <1>2 DEF Activate
<1>3. CASE DeactivateIdle
  BY <1>3 DEF DeactivateIdle
<1>4. CASE Deactivate
  BY <1>4 DEF Deactivate
<1>5. CASE Shutdown
  BY <1>5 DEF Shutdown
<1>6. CASE HostCrash
  BY <1>6 DEF HostCrash
<1>7. ASSUME NEW e \in Entries, ActivationTimeout(e) PROVE ErasureType'
  BY <1>7 DEF ActivationTimeout
<1>8. ASSUME NEW e \in Entries, KillDone(e) PROVE ErasureType'
  BY <1>8 DEF KillDone
<1>9. ASSUME NEW e \in Entries, Respawn(e) PROVE ErasureType'
  BY <1>9 DEF Respawn
<1>10. ASSUME NEW k \in Kids, KidReports(k, "loaded") PROVE ErasureType'
  BY <1>10 DEF KidReports
<1>11. ASSUME NEW k \in Kids, KidReports(k, "failed") PROVE ErasureType'
  BY <1>11 DEF KidReports
<1>12. ASSUME NEW k \in Kids, Loaded(k) PROVE ErasureType'
  BY <1>12 DEF Loaded, FlushPendingEvents
<1>13. ASSUME NEW k \in Kids, LoadFailed(k) PROVE ErasureType'
  BY <1>13 DEF LoadFailed
<1>14. ASSUME NEW k \in Kids, IgnoreReport(k) PROVE ErasureType'
  BY <1>14 DEF IgnoreReport
<1>15. ASSUME NEW k \in Kids, Exit(k) PROVE ErasureType'
  BY <1>15 DEF Exit, Exited
<1>16. ASSUME NEW k \in Kids, NEW n \in 1 .. CrashLimit, Crash(k, n) PROVE ErasureType'
  BY <1>16 DEF Crash, Exited
<1>17. ASSUME NEW k \in Kids, NEW u \in Erasers, KidErases(k, u) PROVE ErasureType'
  BY <1>17 DEF KidErases
<1>18. CASE DeliverEvent
  BY <1>18 DEF DeliverEvent
<1>19. CASE ExpireEvent
  BY <1>19 DEF ExpireEvent
<1>20. ASSUME NEW u \in Erasers, EnqueueErasure(u) PROVE ErasureType'
  BY <1>20 DEF EnqueueErasure, StartDrain
<1>21. ASSUME NEW u \in Erasers, AskErasure(u) PROVE ErasureType'
  BY <1>21 DEF AskErasure, EntriesType, IsActive
<1>22. CASE SweepErasures
  BY <1>22 DEF SweepErasures, StartDrain
<1>23. ASSUME NEW ok \in BOOLEAN, ErasureAnswered(ok) PROVE ErasureType'
  BY <1>23 DEF ErasureAnswered
<1>24. CASE InvokeTimeout
  BY <1>24 DEF InvokeTimeout
<1>25. CASE DrainEnds
  BY <1>25 DEF DrainEnds
<1>26. CASE UNCHANGED pluginVars
  BY <1>26 DEF pluginVars
<1> QED
  BY <1>1, <1>2, <1>3, <1>4, <1>5, <1>6, <1>7, <1>8, <1>9, <1>10, <1>11, <1>12, <1>13, <1>14, <1>15, <1>16, <1>17, <1>18, <1>19, <1>20, <1>21, <1>22, <1>23, <1>24, <1>25, <1>26 DEF PluginNext

THEOREM PluginTypeStep ==
    ASSUME PluginTypeOK, EntriesInv, KidsInv, [PluginNext]_pluginVars PROVE PluginTypeOK'
  BY EntriesTypeStep, KidsTypeStep, EventsTypeStep, ErasureTypeStep DEF PluginTypeOK

LEMMA EntriesInvStep ==
    ASSUME PluginTypeOK, EntriesInv, KidsInv, [PluginNext]_pluginVars PROVE EntriesInv'
<1> USE PluginAssumption, Fresh, NilApart
    DEF PluginTypeOK, EntriesType, KidsType, EntriesInv, entries, procs, timers, jobs,
        ClearTimers, StopJobs, Settle, SetStatus, Kill
<1>1. CASE ActivateAgain
  BY <1>1 DEF ActivateAgain
<1>2. CASE Activate
  <2>1. /\ made + 1 \in Entries /\ forked + 1 \in Kids
        /\ \A e \in Entries : /\ status'[e] = (IF e = made + 1 THEN "starting" ELSE status[e])
                             /\ child'[e] = (IF e = made + 1 THEN forked + 1 ELSE child[e])
                             /\ promise'[e] = (IF e = made + 1 THEN "open" ELSE promise[e])
    BY <1>2 DEF Activate, Spawn
  <2>2. \A e \in Entries : status[e] \notin {"starting", "active"}
    BY <1>2 DEF Activate, Live
  <2>3. deadline = {} /\ respawn = {} /\ tasks = {}
    BY <2>2
  <2>4. /\ made' = made + 1 /\ running' = made + 1 /\ respawn' = {} /\ deadline' = {made + 1}
        /\ UNCHANGED <<cron, tasks, killing>> /\ forked' = forked + 1
        /\ made \in Nat /\ \A e \in Entries : e \in Nat
    BY <1>2, <2>3 DEF Activate, Spawn, Entries
  <2>5. (\E f \in Entries : killing[f] = "row") => made + 1 \in raced'
    BY <1>2 DEF Activate
  <2>6. ASSUME NEW e \in Entries
        PROVE  /\ e > made' => /\ status'[e] = "none" /\ child'[e] = Null
                               /\ promise'[e] = "none" /\ killing'[e] = "none"
               /\ status'[e] \in {"starting", "active"} => running' = e
               /\ e \in deadline' \cup respawn' => status'[e] = "starting"
               /\ e \in respawn' => child'[e] = Null /\ e \notin deadline'
               /\ cron'[e] = (IF e \in tasks' THEN 1 ELSE 0)
               /\ e \in tasks' => status'[e] = "active"
               /\ killing'[e] = "row" /\ running' # Null => running' \in raced'
    BY <2>1, <2>2, <2>3, <2>4, <2>5
  <2> QED
    BY <2>1, <2>4, <2>6
<1>3. CASE DeactivateIdle
  BY <1>3 DEF DeactivateIdle
<1>4. CASE Deactivate
  BY <1>4 DEF Deactivate
<1>5. CASE Shutdown
  BY <1>5 DEF Shutdown
<1>6. CASE HostCrash
  BY <1>6 DEF HostCrash
<1>7. ASSUME NEW e \in Entries, ActivationTimeout(e) PROVE EntriesInv'
  BY <1>7 DEF ActivationTimeout
<1>8. ASSUME NEW e \in Entries, KillDone(e) PROVE EntriesInv'
  BY <1>8 DEF KillDone
<1>9. ASSUME NEW e \in Entries, Respawn(e) PROVE EntriesInv'
  BY <1>9, FreshRespawn DEF Respawn, Spawn, Starting
<1>10. ASSUME NEW k \in Kids, KidReports(k, "loaded") PROVE EntriesInv'
  BY <1>10 DEF KidReports
<1>11. ASSUME NEW k \in Kids, KidReports(k, "failed") PROVE EntriesInv'
  BY <1>11 DEF KidReports
<1>12. ASSUME NEW k \in Kids, Loaded(k) PROVE EntriesInv'
  BY <1>12 DEF Loaded, FlushPendingEvents, Starting
<1>13. ASSUME NEW k \in Kids, LoadFailed(k) PROVE EntriesInv'
  BY <1>13 DEF LoadFailed, Starting
<1>14. ASSUME NEW k \in Kids, IgnoreReport(k) PROVE EntriesInv'
  BY <1>14 DEF IgnoreReport
<1>15. ASSUME NEW k \in Kids, Exit(k) PROVE EntriesInv'
  BY <1>15 DEF Exit, Exited
<1>16. ASSUME NEW k \in Kids, NEW n \in 1 .. CrashLimit, Crash(k, n) PROVE EntriesInv'
  BY <1>16 DEF Crash, Exited, CanFork, KidsInv
<1>17. ASSUME NEW k \in Kids, NEW u \in Erasers, KidErases(k, u) PROVE EntriesInv'
  BY <1>17 DEF KidErases
<1>18. CASE DeliverEvent
  BY <1>18 DEF DeliverEvent
<1>19. CASE ExpireEvent
  BY <1>19 DEF ExpireEvent
<1>20. ASSUME NEW u \in Erasers, EnqueueErasure(u) PROVE EntriesInv'
  BY <1>20 DEF EnqueueErasure
<1>21. ASSUME NEW u \in Erasers, AskErasure(u) PROVE EntriesInv'
  BY <1>21 DEF AskErasure
<1>22. CASE SweepErasures
  BY <1>22 DEF SweepErasures
<1>23. ASSUME NEW ok \in BOOLEAN, ErasureAnswered(ok) PROVE EntriesInv'
  BY <1>23 DEF ErasureAnswered
<1>24. CASE InvokeTimeout
  BY <1>24 DEF InvokeTimeout
<1>25. CASE DrainEnds
  BY <1>25 DEF DrainEnds
<1>26. CASE UNCHANGED pluginVars
  BY <1>26 DEF pluginVars
<1> QED
  BY <1>1, <1>2, <1>3, <1>4, <1>5, <1>6, <1>7, <1>8, <1>9, <1>10, <1>11, <1>12, <1>13, <1>14, <1>15, <1>16, <1>17, <1>18, <1>19, <1>20, <1>21, <1>22, <1>23, <1>24, <1>25, <1>26 DEF PluginNext

LEMMA KidsInvStep ==
    ASSUME PluginTypeOK, EntriesInv, KidsInv, [PluginNext]_pluginVars PROVE KidsInv'
<1> USE PluginAssumption, Fresh, NilApart
    DEF PluginTypeOK, EntriesType, KidsType, ErasureType, EntriesInv, KidsInv, entries, procs, timers, jobs, erasure, pass,
        ClearTimers, StopJobs, Settle, SetStatus, Kill, Read
<1>1. CASE ActivateAgain
  BY <1>1 DEF ActivateAgain
<1>2. CASE Activate
  <2>1. /\ made + 1 \in Entries /\ forked + 1 \in Kids
        /\ \A e \in Entries : /\ status'[e] = (IF e = made + 1 THEN "starting" ELSE status[e])
                             /\ child'[e] = (IF e = made + 1 THEN forked + 1 ELSE child[e])
        /\ \A k \in Kids : /\ proc'[k] = (IF k = forked + 1 THEN "up" ELSE proc[k])
                          /\ owner'[k] = (IF k = forked + 1 THEN made + 1 ELSE owner[k])
    BY <1>2 DEF Activate, Spawn
  <2>2. \A e \in Entries : status[e] \notin {"starting", "active"}
    BY <1>2 DEF Activate, Live
  <2>3. \A k \in Kids : proc[k] # "up"
    BY <2>2
  <2>4. /\ made' = made + 1 /\ running' = made + 1 /\ forked' = forked + 1
        /\ UNCHANGED <<mail, waiting, via>>
        /\ made \in Nat /\ (\A e \in Entries : e \in Nat) /\ forked \in Nat /\ \A k \in Kids : k \in Nat
    BY <1>2 DEF Activate, Spawn, Entries, Kids
  <2>5. ASSUME NEW e \in Entries, child'[e] # Null
        PROVE  /\ proc'[child'[e]] = "up" /\ owner'[child'[e]] = e
               /\ status'[e] \in {"starting", "active"}
    BY <2>1, <2>2, <2>5
  <2>6. ASSUME NEW k \in Kids
        PROVE  /\ k > forked' => proc'[k] = "none" /\ owner'[k] = Null
               /\ owner'[k] # Null => owner'[k] <= made'
               /\ proc'[k] = "none" => mail'[k] = "unsent"
               /\ proc'[k] = "up" => child'[owner'[k]] = k
               /\ proc'[k] = "dying" => status'[owner'[k]] \in {"stopped", "error"}
    <3>1. CASE k = forked + 1
      BY <2>1, <2>2, <2>4, <3>1
    <3>2. CASE k # forked + 1
      <4>1. proc'[k] = proc[k] /\ owner'[k] = owner[k] /\ owner[k] # made + 1
        BY <2>1, <2>4, <3>2
      <4> QED
        BY <2>1, <2>3, <2>4, <3>2, <4>1
    <3> QED
      BY <3>1, <3>2
  <2> QED
    BY <2>4, <2>5, <2>6
<1>3. CASE DeactivateIdle
  BY <1>3 DEF DeactivateIdle
<1>4. CASE Deactivate
  BY <1>4 DEF Deactivate
<1>5. CASE Shutdown
  BY <1>5 DEF Shutdown
<1>6. CASE HostCrash
  BY <1>6 DEF HostCrash
<1>7. ASSUME NEW e \in Entries, ActivationTimeout(e) PROVE KidsInv'
  BY <1>7 DEF ActivationTimeout
<1>8. ASSUME NEW e \in Entries, KillDone(e) PROVE KidsInv'
  BY <1>8 DEF KillDone
<1>9. ASSUME NEW e \in Entries, Respawn(e) PROVE KidsInv'
  <2>1. /\ forked + 1 \in Kids /\ Starting(e) /\ child[e] = Null
        /\ \A f \in Entries : child'[f] = (IF f = e THEN forked + 1 ELSE child[f])
        /\ \A k \in Kids : /\ proc'[k] = (IF k = forked + 1 THEN "up" ELSE proc[k])
                          /\ owner'[k] = (IF k = forked + 1 THEN e ELSE owner[k])
    BY <1>9, FreshRespawn DEF Respawn, Spawn
  <2>2. forked' = forked + 1 /\ UNCHANGED <<made, status, running, mail, waiting, via>>
    BY <1>9, FreshRespawn DEF Respawn, Spawn
  <2>3. proc[forked + 1] = "none" /\ mail[forked + 1] = "unsent"
    BY <2>1
  <2>4. (\A f \in Entries : f \in Nat) /\ forked \in Nat /\ made \in Nat /\ \A k \in Kids : k \in Nat
    BY DEF Entries, Kids
  <2>5. \A k \in Kids : proc[k] = "up" => owner[k] # e
    BY <2>1
  <2>6. ASSUME NEW f \in Entries, child'[f] # Null
        PROVE  /\ proc'[child'[f]] = "up" /\ owner'[child'[f]] = f
               /\ status'[f] \in {"starting", "active"}
    BY <2>1, <2>2, <2>6 DEF Starting
  <2>7. ASSUME NEW k \in Kids
        PROVE  /\ k > forked' => proc'[k] = "none" /\ owner'[k] = Null
               /\ owner'[k] # Null => owner'[k] <= made'
               /\ proc'[k] = "none" => mail'[k] = "unsent"
               /\ proc'[k] = "up" => child'[owner'[k]] = k
               /\ proc'[k] = "dying" => status'[owner'[k]] \in {"stopped", "error"}
    BY <2>1, <2>2, <2>3, <2>4, <2>5 DEF Starting
  <2> QED
    BY <2>2, <2>6, <2>7
<1>10. ASSUME NEW k \in Kids, KidReports(k, "loaded") PROVE KidsInv'
  BY <1>10 DEF KidReports
<1>11. ASSUME NEW k \in Kids, KidReports(k, "failed") PROVE KidsInv'
  BY <1>11 DEF KidReports
<1>12. ASSUME NEW k \in Kids, Loaded(k) PROVE KidsInv'
  BY <1>12 DEF Loaded, FlushPendingEvents, Starting
<1>13. ASSUME NEW k \in Kids, LoadFailed(k) PROVE KidsInv'
  BY <1>13 DEF LoadFailed, Starting
<1>14. ASSUME NEW k \in Kids, IgnoreReport(k) PROVE KidsInv'
  BY <1>14 DEF IgnoreReport
<1>15. ASSUME NEW k \in Kids, Exit(k) PROVE KidsInv'
  BY <1>15 DEF Exit, Exited
<1>16. ASSUME NEW k \in Kids, NEW n \in 1 .. CrashLimit, Crash(k, n) PROVE KidsInv'
  BY <1>16 DEF Crash, Exited, CanFork
<1>17. ASSUME NEW k \in Kids, NEW u \in Erasers, KidErases(k, u) PROVE KidsInv'
  BY <1>17 DEF KidErases
<1>18. CASE DeliverEvent
  BY <1>18 DEF DeliverEvent
<1>19. CASE ExpireEvent
  BY <1>19 DEF ExpireEvent
<1>20. ASSUME NEW u \in Erasers, EnqueueErasure(u) PROVE KidsInv'
  BY <1>20 DEF EnqueueErasure
<1>21. ASSUME NEW u \in Erasers, AskErasure(u) PROVE KidsInv'
  BY <1>21 DEF AskErasure, IsActive
<1>22. CASE SweepErasures
  BY <1>22 DEF SweepErasures
<1>23. ASSUME NEW ok \in BOOLEAN, ErasureAnswered(ok) PROVE KidsInv'
  BY <1>23 DEF ErasureAnswered
<1>24. CASE InvokeTimeout
  BY <1>24 DEF InvokeTimeout
<1>25. CASE DrainEnds
  BY <1>25 DEF DrainEnds
<1>26. CASE UNCHANGED pluginVars
  BY <1>26 DEF pluginVars
<1> QED
  BY <1>1, <1>2, <1>3, <1>4, <1>5, <1>6, <1>7, <1>8, <1>9, <1>10, <1>11, <1>12, <1>13, <1>14, <1>15, <1>16, <1>17, <1>18, <1>19, <1>20, <1>21, <1>22, <1>23, <1>24, <1>25, <1>26 DEF PluginNext

-----------------------------------------------------------------------------
(* The theorems. *)

(* The supervisor's entries, children, timers and cron tasks always agree. *)
THEOREM PluginInvariant == PluginSpec => []PluginInv
<1>1. PluginInit => PluginInv
  <2> SUFFICES ASSUME PluginInit PROVE PluginInv
    OBVIOUS
  <2>1. EntriesInv /\ KidsInv
    BY NilApart, PluginAssumption DEF PluginInit, EntriesInv, KidsInv, Entries, Kids
  <2> QED
    BY <2>1, PluginTypeInit DEF PluginInv
<1>2. PluginInv /\ [PluginNext]_pluginVars => PluginInv'
  BY PluginTypeStep, EntriesInvStep, KidsInvStep DEF PluginInv
<1> QED
  BY <1>1, <1>2, PTL DEF PluginSpec

(* No process runs that is not the child of the current entry. *)
THEOREM PluginNoGhostChild == PluginSpec => []NoGhostChild
<1>1. PluginInv => NoGhostChild
  BY NilApart DEF PluginInv, PluginTypeOK, EntriesType, KidsType, EntriesInv, KidsInv, NoGhostChild
<1> QED
  BY <1>1, PluginInvariant, PTL

(* Cron tasks live once, for the active entry. *)
THEOREM PluginJobsTickOnce == PluginSpec => []JobsTickOnce
<1>1. PluginInv => JobsTickOnce
  BY DEF PluginInv, PluginTypeOK, EntriesType, EntriesInv, JobsTickOnce
<1> QED
  BY <1>1, PluginInvariant, PTL

(* A starting entry is current and has a timer. *)
LEMMA StartGuardedStep ==
    ASSUME PluginInv, StartGuarded, [PluginNext]_pluginVars PROVE StartGuarded'
<1> USE Fresh, NilApart
    DEF PluginInv, PluginTypeOK, EntriesType, KidsType, EntriesInv, StartGuarded, entries, timers,
        ClearTimers, SetStatus
<1>1. CASE ActivateAgain
  BY <1>1 DEF ActivateAgain
<1>2. CASE Activate
  BY <1>2 DEF Activate, Live
<1>3. CASE DeactivateIdle
  BY <1>3 DEF DeactivateIdle
<1>4. CASE Deactivate
  BY <1>4 DEF Deactivate
<1>5. CASE Shutdown
  BY <1>5 DEF Shutdown
<1>6. CASE HostCrash
  BY <1>6 DEF HostCrash
<1>7. ASSUME NEW e \in Entries, ActivationTimeout(e) PROVE StartGuarded'
  BY <1>7 DEF ActivationTimeout
<1>8. ASSUME NEW e \in Entries, KillDone(e) PROVE StartGuarded'
  BY <1>8 DEF KillDone
<1>9. ASSUME NEW e \in Entries, Respawn(e) PROVE StartGuarded'
  BY <1>9, FreshRespawn DEF Respawn
<1>10. ASSUME NEW k \in Kids, KidReports(k, "loaded") PROVE StartGuarded'
  BY <1>10 DEF KidReports
<1>11. ASSUME NEW k \in Kids, KidReports(k, "failed") PROVE StartGuarded'
  BY <1>11 DEF KidReports
<1>12. ASSUME NEW k \in Kids, Loaded(k) PROVE StartGuarded'
  BY <1>12 DEF Loaded, FlushPendingEvents, Starting
<1>13. ASSUME NEW k \in Kids, LoadFailed(k) PROVE StartGuarded'
  BY <1>13 DEF LoadFailed, Starting
<1>14. ASSUME NEW k \in Kids, IgnoreReport(k) PROVE StartGuarded'
  BY <1>14 DEF IgnoreReport
<1>15. ASSUME NEW k \in Kids, Exit(k) PROVE StartGuarded'
  BY <1>15 DEF Exit, Exited
<1>16. ASSUME NEW k \in Kids, NEW n \in 1 .. CrashLimit, Crash(k, n) PROVE StartGuarded'
  BY <1>16 DEF Crash, Exited, KidsInv
<1>17. ASSUME NEW k \in Kids, NEW u \in Erasers, KidErases(k, u) PROVE StartGuarded'
  BY <1>17 DEF KidErases
<1>18. CASE DeliverEvent
  BY <1>18 DEF DeliverEvent
<1>19. CASE ExpireEvent
  BY <1>19 DEF ExpireEvent
<1>20. ASSUME NEW u \in Erasers, EnqueueErasure(u) PROVE StartGuarded'
  BY <1>20 DEF EnqueueErasure
<1>21. ASSUME NEW u \in Erasers, AskErasure(u) PROVE StartGuarded'
  BY <1>21 DEF AskErasure
<1>22. CASE SweepErasures
  BY <1>22 DEF SweepErasures
<1>23. ASSUME NEW ok \in BOOLEAN, ErasureAnswered(ok) PROVE StartGuarded'
  BY <1>23 DEF ErasureAnswered
<1>24. CASE InvokeTimeout
  BY <1>24 DEF InvokeTimeout
<1>25. CASE DrainEnds
  BY <1>25 DEF DrainEnds
<1>26. CASE UNCHANGED pluginVars
  BY <1>26 DEF pluginVars
<1> QED
  BY <1>1, <1>2, <1>3, <1>4, <1>5, <1>6, <1>7, <1>8, <1>9, <1>10, <1>11, <1>12, <1>13, <1>14, <1>15, <1>16, <1>17, <1>18, <1>19, <1>20, <1>21, <1>22, <1>23, <1>24, <1>25, <1>26 DEF PluginNext

(* A start never waits for nothing. *)
THEOREM PluginStartGuarded == PluginSpec => []StartGuarded
<1>1. PluginInit => StartGuarded
  BY DEF PluginInit, StartGuarded
<1>2. PluginInv /\ StartGuarded /\ [PluginNext]_pluginVars => StartGuarded'
  BY StartGuardedStep
<1> QED
  BY <1>1, <1>2, PluginInvariant, PTL DEF PluginSpec

LEMMA PromiseStep ==
    ASSUME PluginInv, PromiseSettled, [PluginNext]_pluginVars PROVE PromiseSettled'
<1> USE Fresh, NilApart
    DEF PluginInv, PluginTypeOK, EntriesType, KidsType, EntriesInv, PromiseSettled, entries, timers,
        Settle, SetStatus, Starting
<1>1. CASE ActivateAgain
  BY <1>1 DEF ActivateAgain
<1>2. CASE Activate
  BY <1>2 DEF Activate, Live
<1>3. CASE DeactivateIdle
  BY <1>3 DEF DeactivateIdle
<1>4. CASE Deactivate
  BY <1>4 DEF Deactivate
<1>5. CASE Shutdown
  BY <1>5 DEF Shutdown
<1>6. CASE HostCrash
  BY <1>6 DEF HostCrash
<1>7. ASSUME NEW e \in Entries, ActivationTimeout(e) PROVE PromiseSettled'
  BY <1>7 DEF ActivationTimeout
<1>8. ASSUME NEW e \in Entries, KillDone(e) PROVE PromiseSettled'
  BY <1>8 DEF KillDone
<1>9. ASSUME NEW e \in Entries, Respawn(e) PROVE PromiseSettled'
  BY <1>9, FreshRespawn DEF Respawn
<1>10. ASSUME NEW k \in Kids, KidReports(k, "loaded") PROVE PromiseSettled'
  BY <1>10 DEF KidReports
<1>11. ASSUME NEW k \in Kids, KidReports(k, "failed") PROVE PromiseSettled'
  BY <1>11 DEF KidReports
<1>12. ASSUME NEW k \in Kids, Loaded(k) PROVE PromiseSettled'
  BY <1>12 DEF Loaded, FlushPendingEvents, Starting
<1>13. ASSUME NEW k \in Kids, LoadFailed(k) PROVE PromiseSettled'
  BY <1>13 DEF LoadFailed, Starting
<1>14. ASSUME NEW k \in Kids, IgnoreReport(k) PROVE PromiseSettled'
  BY <1>14 DEF IgnoreReport
<1>15. ASSUME NEW k \in Kids, Exit(k) PROVE PromiseSettled'
  BY <1>15 DEF Exit, Exited
<1>16. ASSUME NEW k \in Kids, NEW n \in 1 .. CrashLimit, Crash(k, n) PROVE PromiseSettled'
  BY <1>16 DEF Crash, Exited, KidsInv
<1>17. ASSUME NEW k \in Kids, NEW u \in Erasers, KidErases(k, u) PROVE PromiseSettled'
  BY <1>17 DEF KidErases
<1>18. CASE DeliverEvent
  BY <1>18 DEF DeliverEvent
<1>19. CASE ExpireEvent
  BY <1>19 DEF ExpireEvent
<1>20. ASSUME NEW u \in Erasers, EnqueueErasure(u) PROVE PromiseSettled'
  BY <1>20 DEF EnqueueErasure
<1>21. ASSUME NEW u \in Erasers, AskErasure(u) PROVE PromiseSettled'
  BY <1>21 DEF AskErasure
<1>22. CASE SweepErasures
  BY <1>22 DEF SweepErasures
<1>23. ASSUME NEW ok \in BOOLEAN, ErasureAnswered(ok) PROVE PromiseSettled'
  BY <1>23 DEF ErasureAnswered
<1>24. CASE InvokeTimeout
  BY <1>24 DEF InvokeTimeout
<1>25. CASE DrainEnds
  BY <1>25 DEF DrainEnds
<1>26. CASE UNCHANGED pluginVars
  BY <1>26 DEF pluginVars
<1> QED
  BY <1>1, <1>2, <1>3, <1>4, <1>5, <1>6, <1>7, <1>8, <1>9, <1>10, <1>11, <1>12, <1>13, <1>14, <1>15, <1>16, <1>17, <1>18, <1>19, <1>20, <1>21, <1>22, <1>23, <1>24, <1>25, <1>26 DEF PluginNext

(* The caller of activate is answered, unless a deactivate came in between. *)
THEOREM PluginPromiseSettled == PluginSpec => []PromiseSettled
<1>1. PluginInit => PromiseSettled
  BY DEF PluginInit, PromiseSettled
<1>2. PluginInv /\ PromiseSettled /\ [PluginNext]_pluginVars => PromiseSettled'
  BY PromiseStep
<1> QED
  BY <1>1, <1>2, PluginInvariant, PTL DEF PluginSpec

LEMMA ActiveChildStep ==
    ASSUME PluginInv, ActiveHasChild, [PluginNext]_pluginVars PROVE ActiveHasChild'
<1> USE Fresh, NilApart
    DEF PluginInv, PluginTypeOK, EntriesType, KidsType, EntriesInv, KidsInv, ActiveHasChild, IsActive, entries, procs, SetStatus, Read
<1>1. CASE ActivateAgain
  BY <1>1 DEF ActivateAgain
<1>2. CASE Activate
  BY <1>2 DEF Activate, Live
<1>3. CASE DeactivateIdle
  BY <1>3 DEF DeactivateIdle
<1>4. CASE Deactivate
  BY <1>4 DEF Deactivate
<1>5. CASE Shutdown
  BY <1>5 DEF Shutdown
<1>6. CASE HostCrash
  BY <1>6 DEF HostCrash
<1>7. ASSUME NEW e \in Entries, ActivationTimeout(e) PROVE ActiveHasChild'
  BY <1>7 DEF ActivationTimeout
<1>8. ASSUME NEW e \in Entries, KillDone(e) PROVE ActiveHasChild'
  BY <1>8 DEF KillDone
<1>9. ASSUME NEW e \in Entries, Respawn(e) PROVE ActiveHasChild'
  BY <1>9, FreshRespawn DEF Respawn, Starting
<1>10. ASSUME NEW k \in Kids, KidReports(k, "loaded") PROVE ActiveHasChild'
  BY <1>10 DEF KidReports
<1>11. ASSUME NEW k \in Kids, KidReports(k, "failed") PROVE ActiveHasChild'
  BY <1>11 DEF KidReports
<1>12. ASSUME NEW k \in Kids, Loaded(k) PROVE ActiveHasChild'
  <2>0. mail[k] = "loaded" /\ status[owner[k]] = "starting"
    BY <1>12 DEF Loaded, FlushPendingEvents, Starting
  <2>1. proc[k] \in {"up", "gone"}
    BY <2>0
  <2>2. CASE proc[k] = "up"
    BY <1>12, <2>2 DEF Loaded, FlushPendingEvents, Starting
  <2>3. CASE proc[k] = "gone"
    <3>1. mail'[k] = "late" /\ owner'[k] = running'
      BY <1>12, <2>3 DEF Loaded, FlushPendingEvents, Starting
    <3> QED
      BY <3>1
  <2> QED
    BY <2>1, <2>2, <2>3
<1>13. ASSUME NEW k \in Kids, LoadFailed(k) PROVE ActiveHasChild'
  BY <1>13 DEF LoadFailed, Starting
<1>14. ASSUME NEW k \in Kids, IgnoreReport(k) PROVE ActiveHasChild'
  BY <1>14 DEF IgnoreReport
<1>15. ASSUME NEW k \in Kids, Exit(k) PROVE ActiveHasChild'
  BY <1>15 DEF Exit, Exited
<1>16. ASSUME NEW k \in Kids, NEW n \in 1 .. CrashLimit, Crash(k, n) PROVE ActiveHasChild'
  BY <1>16 DEF Crash, Exited, KidsInv
<1>17. ASSUME NEW k \in Kids, NEW u \in Erasers, KidErases(k, u) PROVE ActiveHasChild'
  BY <1>17 DEF KidErases
<1>18. CASE DeliverEvent
  BY <1>18 DEF DeliverEvent
<1>19. CASE ExpireEvent
  BY <1>19 DEF ExpireEvent
<1>20. ASSUME NEW u \in Erasers, EnqueueErasure(u) PROVE ActiveHasChild'
  BY <1>20 DEF EnqueueErasure
<1>21. ASSUME NEW u \in Erasers, AskErasure(u) PROVE ActiveHasChild'
  BY <1>21 DEF AskErasure
<1>22. CASE SweepErasures
  BY <1>22 DEF SweepErasures
<1>23. ASSUME NEW ok \in BOOLEAN, ErasureAnswered(ok) PROVE ActiveHasChild'
  BY <1>23 DEF ErasureAnswered
<1>24. CASE InvokeTimeout
  BY <1>24 DEF InvokeTimeout
<1>25. CASE DrainEnds
  BY <1>25 DEF DrainEnds
<1>26. CASE UNCHANGED pluginVars
  BY <1>26 DEF pluginVars
<1> QED
  BY <1>1, <1>2, <1>3, <1>4, <1>5, <1>6, <1>7, <1>8, <1>9, <1>10, <1>11, <1>12, <1>13, <1>14, <1>15, <1>16, <1>17, <1>18, <1>19, <1>20, <1>21, <1>22, <1>23, <1>24, <1>25, <1>26 DEF PluginNext

(* An active entry without a child owes it to a late loaded. *)
THEOREM PluginActiveHasChild == PluginSpec => []ActiveHasChild
<1>1. PluginInit => ActiveHasChild
  BY DEF PluginInit, ActiveHasChild, IsActive
<1>2. PluginInv /\ ActiveHasChild /\ [PluginNext]_pluginVars => ActiveHasChild'
  BY ActiveChildStep
<1> QED
  BY <1>1, <1>2, PluginInvariant, PTL DEF PluginSpec

LEMMA RowStep ==
    ASSUME PluginInv, RowFollowsPlugin, [PluginNext]_pluginVars PROVE RowFollowsPlugin'
<1> USE Fresh, NilApart
    DEF PluginInv, PluginTypeOK, EntriesType, EntriesInv, RowFollowsPlugin, entries
<1>1. CASE ActivateAgain
  BY <1>1 DEF ActivateAgain
<1>2. CASE Activate
  BY <1>2 DEF Activate
<1>3. CASE DeactivateIdle
  BY <1>3 DEF DeactivateIdle
<1>4. CASE Deactivate
  BY <1>4 DEF Deactivate
<1>5. CASE Shutdown
  BY <1>5 DEF Shutdown
<1>6. CASE HostCrash
  BY <1>6 DEF HostCrash
<1>7. ASSUME NEW e \in Entries, ActivationTimeout(e) PROVE RowFollowsPlugin'
  BY <1>7 DEF ActivationTimeout
<1>8. ASSUME NEW e \in Entries, KillDone(e) PROVE RowFollowsPlugin'
  BY <1>8 DEF KillDone
<1>9. ASSUME NEW e \in Entries, Respawn(e) PROVE RowFollowsPlugin'
  BY <1>9 DEF Respawn
<1>10. ASSUME NEW k \in Kids, KidReports(k, "loaded") PROVE RowFollowsPlugin'
  BY <1>10 DEF KidReports
<1>11. ASSUME NEW k \in Kids, KidReports(k, "failed") PROVE RowFollowsPlugin'
  BY <1>11 DEF KidReports
<1>12. ASSUME NEW k \in Kids, Loaded(k) PROVE RowFollowsPlugin'
  BY <1>12 DEF Loaded, FlushPendingEvents
<1>13. ASSUME NEW k \in Kids, LoadFailed(k) PROVE RowFollowsPlugin'
  BY <1>13 DEF LoadFailed
<1>14. ASSUME NEW k \in Kids, IgnoreReport(k) PROVE RowFollowsPlugin'
  BY <1>14 DEF IgnoreReport
<1>15. ASSUME NEW k \in Kids, Exit(k) PROVE RowFollowsPlugin'
  BY <1>15 DEF Exit, Exited
<1>16. ASSUME NEW k \in Kids, NEW n \in 1 .. CrashLimit, Crash(k, n) PROVE RowFollowsPlugin'
  BY <1>16 DEF Crash, Exited
<1>17. ASSUME NEW k \in Kids, NEW u \in Erasers, KidErases(k, u) PROVE RowFollowsPlugin'
  BY <1>17 DEF KidErases
<1>18. CASE DeliverEvent
  BY <1>18 DEF DeliverEvent
<1>19. CASE ExpireEvent
  BY <1>19 DEF ExpireEvent
<1>20. ASSUME NEW u \in Erasers, EnqueueErasure(u) PROVE RowFollowsPlugin'
  BY <1>20 DEF EnqueueErasure
<1>21. ASSUME NEW u \in Erasers, AskErasure(u) PROVE RowFollowsPlugin'
  BY <1>21 DEF AskErasure
<1>22. CASE SweepErasures
  BY <1>22 DEF SweepErasures
<1>23. ASSUME NEW ok \in BOOLEAN, ErasureAnswered(ok) PROVE RowFollowsPlugin'
  BY <1>23 DEF ErasureAnswered
<1>24. CASE InvokeTimeout
  BY <1>24 DEF InvokeTimeout
<1>25. CASE DrainEnds
  BY <1>25 DEF DrainEnds
<1>26. CASE UNCHANGED pluginVars
  BY <1>26 DEF pluginVars
<1> QED
  BY <1>1, <1>2, <1>3, <1>4, <1>5, <1>6, <1>7, <1>8, <1>9, <1>10, <1>11, <1>12, <1>13, <1>14, <1>15, <1>16, <1>17, <1>18, <1>19, <1>20, <1>21, <1>22, <1>23, <1>24, <1>25, <1>26 DEF PluginNext

(* The row says enabled while the plugin is current, unless it was          *)
(* activated during a deactivate.                                           *)
THEOREM PluginRowFollows == PluginSpec => []RowFollowsPlugin
<1>1. PluginInit => RowFollowsPlugin
  BY DEF PluginInit, RowFollowsPlugin
<1>2. PluginInv /\ RowFollowsPlugin /\ [PluginNext]_pluginVars => RowFollowsPlugin'
  BY RowStep
<1> QED
  BY <1>1, <1>2, PluginInvariant, PTL DEF PluginSpec

LEMMA ErasureStep ==
    ASSUME ErasureKept, [PluginNext]_pluginVars PROVE ErasureKept'
<1> USE DEF ErasureKept, erasure
<1>1. CASE ActivateAgain
  BY <1>1 DEF ActivateAgain
<1>2. CASE Activate
  BY <1>2 DEF Activate
<1>3. CASE DeactivateIdle
  BY <1>3 DEF DeactivateIdle
<1>4. CASE Deactivate
  BY <1>4 DEF Deactivate
<1>5. CASE Shutdown
  BY <1>5 DEF Shutdown
<1>6. CASE HostCrash
  BY <1>6 DEF HostCrash
<1>7. ASSUME NEW e \in Entries, ActivationTimeout(e) PROVE ErasureKept'
  BY <1>7 DEF ActivationTimeout
<1>8. ASSUME NEW e \in Entries, KillDone(e) PROVE ErasureKept'
  BY <1>8 DEF KillDone
<1>9. ASSUME NEW e \in Entries, Respawn(e) PROVE ErasureKept'
  BY <1>9 DEF Respawn
<1>10. ASSUME NEW k \in Kids, KidReports(k, "loaded") PROVE ErasureKept'
  BY <1>10 DEF KidReports
<1>11. ASSUME NEW k \in Kids, KidReports(k, "failed") PROVE ErasureKept'
  BY <1>11 DEF KidReports
<1>12. ASSUME NEW k \in Kids, Loaded(k) PROVE ErasureKept'
  BY <1>12 DEF Loaded, FlushPendingEvents
<1>13. ASSUME NEW k \in Kids, LoadFailed(k) PROVE ErasureKept'
  BY <1>13 DEF LoadFailed
<1>14. ASSUME NEW k \in Kids, IgnoreReport(k) PROVE ErasureKept'
  BY <1>14 DEF IgnoreReport
<1>15. ASSUME NEW k \in Kids, Exit(k) PROVE ErasureKept'
  BY <1>15 DEF Exit, Exited
<1>16. ASSUME NEW k \in Kids, NEW n \in 1 .. CrashLimit, Crash(k, n) PROVE ErasureKept'
  BY <1>16 DEF Crash, Exited
<1>17. ASSUME NEW k \in Kids, NEW u \in Erasers, KidErases(k, u) PROVE ErasureKept'
  BY <1>17 DEF KidErases
<1>18. CASE DeliverEvent
  BY <1>18 DEF DeliverEvent
<1>19. CASE ExpireEvent
  BY <1>19 DEF ExpireEvent
<1>20. ASSUME NEW u \in Erasers, EnqueueErasure(u) PROVE ErasureKept'
  BY <1>20 DEF EnqueueErasure
<1>21. ASSUME NEW u \in Erasers, AskErasure(u) PROVE ErasureKept'
  BY <1>21 DEF AskErasure
<1>22. CASE SweepErasures
  BY <1>22 DEF SweepErasures
<1>23. ASSUME NEW ok \in BOOLEAN, ErasureAnswered(ok) PROVE ErasureKept'
  BY <1>23 DEF ErasureAnswered
<1>24. CASE InvokeTimeout
  BY <1>24 DEF InvokeTimeout
<1>25. CASE DrainEnds
  BY <1>25 DEF DrainEnds
<1>26. CASE UNCHANGED pluginVars
  BY <1>26 DEF pluginVars
<1> QED
  BY <1>1, <1>2, <1>3, <1>4, <1>5, <1>6, <1>7, <1>8, <1>9, <1>10, <1>11, <1>12, <1>13, <1>14, <1>15, <1>16, <1>17, <1>18, <1>19, <1>20, <1>21, <1>22, <1>23, <1>24, <1>25, <1>26 DEF PluginNext

(* No erasure is forgotten. *)
THEOREM PluginErasureKept == PluginSpec => []ErasureKept
<1>1. PluginInit => ErasureKept
  BY DEF PluginInit, ErasureKept
<1>2. ErasureKept /\ [PluginNext]_pluginVars => ErasureKept'
  BY ErasureStep
<1> QED
  BY <1>1, <1>2, PTL DEF PluginSpec

(* Sending s, all of it later than what was sent, keeps sent increasing. *)
LEMMA SendIncreasing ==
    ASSUME EventsType, EventsInv, NEW s \in Seq(1 .. MaxEvents), Increasing(s), NEW top \in Nat,
           \A i \in 1 .. Len(sent), j \in 1 .. Len(s) : sent[i] < s[j],
           \A j \in 1 .. Len(s) : s[j] <= top, events <= top
    PROVE  /\ Increasing(sent \o s)
           /\ \A i \in 1 .. Len(sent \o s) : (sent \o s)[i] <= top
<1> DEFINE n == Len(sent)
           all == sent \o s
<1>1. /\ Len(all) = n + Len(s) /\ n \in Nat /\ Len(s) \in Nat
      /\ \A i \in 1 .. n + Len(s) : all[i] = IF i <= n THEN sent[i] ELSE s[i - n]
  BY ConcatProperties DEF EventsType
<1>2. /\ \A i \in 1 .. n : sent[i] \in Nat /\ sent[i] <= events
      /\ \A j \in 1 .. Len(s) : s[j] \in Nat
  BY ElementOfSeq, PluginAssumption DEF EventsType, EventsInv
<1>3. \A i \in 1 .. Len(all) : all[i] <= top
  BY <1>1, <1>2, PluginAssumption DEF EventsType
<1>4. ASSUME NEW i \in 1 .. Len(all), NEW j \in 1 .. Len(all), i < j PROVE all[i] < all[j]
  <2>1. CASE j <= n
    BY <1>1, <1>4, <2>1 DEF EventsInv, EventsInOrder, Increasing
  <2>2. CASE i <= n /\ j > n
    BY <1>1, <1>4, <2>2
  <2>3. CASE i > n
    <3>1. i - n \in 1 .. Len(s) /\ j - n \in 1 .. Len(s) /\ i - n < j - n
      BY <1>1, <1>4, <2>3
    <3>2. all[i] = s[i - n] /\ all[j] = s[j - n]
      BY <1>1, <1>4, <2>3
    <3> QED
      BY <3>1, <3>2 DEF Increasing
  <2> QED
    BY <1>1, <1>4, <2>1, <2>2, <2>3
<1> QED
  BY <1>3, <1>4 DEF Increasing

(* Dropping the oldest event, or adding a new one, keeps the buffer in order. *)
LEMMA TailIncreasing ==
    ASSUME EventsType, EventsInv, buffer # << >>
    PROVE  /\ Tail(buffer) \in Seq(1 .. MaxEvents) /\ Increasing(Tail(buffer))
           /\ Len(Tail(buffer)) = Len(buffer) - 1
           /\ \A i \in 1 .. Len(sent), j \in 1 .. Len(Tail(buffer)) : sent[i] < Tail(buffer)[j]
           /\ \A j \in 1 .. Len(Tail(buffer)) : Tail(buffer)[j] <= events
<1>1. /\ Tail(buffer) \in Seq(1 .. MaxEvents) /\ Len(Tail(buffer)) = Len(buffer) - 1
      /\ \A j \in 1 .. Len(Tail(buffer)) : Tail(buffer)[j] = buffer[j + 1]
  BY HeadTailProperties DEF EventsType
<1>2. Len(buffer) \in Nat /\ \A j \in 1 .. Len(Tail(buffer)) : j + 1 \in 1 .. Len(buffer)
  BY <1>1 DEF EventsType
<1> QED
  BY <1>1, <1>2 DEF EventsInv, EventsInOrder, Increasing

LEMMA AppendIncreasing ==
    ASSUME EventsType, EventsInv, NEW q \in Seq(1 .. MaxEvents), Increasing(q),
           \A i \in 1 .. Len(sent), j \in 1 .. Len(q) : sent[i] < q[j],
           \A j \in 1 .. Len(q) : q[j] <= events, events + 1 \in 1 .. MaxEvents
    PROVE  LET r == Append(q, events + 1)
           IN  /\ Increasing(r)
               /\ \A i \in 1 .. Len(sent), j \in 1 .. Len(r) : sent[i] < r[j]
               /\ \A j \in 1 .. Len(r) : r[j] <= events + 1
<1> DEFINE r == Append(q, events + 1)
<1>1. /\ Len(r) = Len(q) + 1 /\ Len(q) \in Nat /\ r[Len(q) + 1] = events + 1
      /\ \A j \in 1 .. Len(q) : r[j] = q[j]
  BY AppendProperties
<1>2. /\ \A i \in 1 .. Len(sent) : sent[i] \in Nat /\ sent[i] <= events
      /\ \A j \in 1 .. Len(q) : q[j] \in Nat
      /\ events \in Nat
  BY ElementOfSeq, PluginAssumption DEF EventsType, EventsInv
<1>3. \A j \in 1 .. Len(r) : j \in 1 .. Len(q) \/ j = Len(q) + 1
  BY <1>1
<1>4. \A i \in 1 .. Len(sent), j \in 1 .. Len(r) : sent[i] < r[j]
  BY <1>1, <1>2, <1>3
<1>5. \A j \in 1 .. Len(r) : r[j] <= events + 1
  BY <1>1, <1>2, <1>3
<1>6. ASSUME NEW i \in 1 .. Len(r), NEW j \in 1 .. Len(r), i < j PROVE r[i] < r[j]
  <2>1. i \in 1 .. Len(q)
    BY <1>1, <1>6
  <2>2. CASE j = Len(q) + 1
    BY <1>1, <1>2, <2>1, <2>2
  <2>3. CASE j \in 1 .. Len(q)
    BY <1>1, <1>6, <2>1, <2>3 DEF Increasing
  <2> QED
    BY <1>3, <2>2, <2>3
<1> QED
  BY <1>4, <1>5, <1>6 DEF Increasing

LEMMA EventsInvStep ==
    ASSUME PluginInv, EventsInv, [PluginNext]_pluginVars PROVE EventsInv'
<1> USE Fresh, NilApart
    DEF PluginInv, PluginTypeOK, EntriesType, KidsType, EntriesInv, EventsInv, EventsInOrder, IsActive, entries, coreEvents, SetStatus
<1>1. CASE ActivateAgain
  BY <1>1 DEF ActivateAgain
<1>2. CASE Activate
  BY <1>2 DEF Activate, Live
<1>3. CASE DeactivateIdle
  BY <1>3 DEF DeactivateIdle
<1>4. CASE Deactivate
  <2>1. buffer' = << >> /\ UNCHANGED <<events, sent>> /\ Len(<< >>) = 0
    BY <1>4 DEF Deactivate
  <2> QED
    BY <2>1 DEF Increasing
<1>5. CASE Shutdown
  <2>1. buffer' = << >> /\ UNCHANGED <<events, sent>> /\ Len(<< >>) = 0
    BY <1>5 DEF Shutdown
  <2> QED
    BY <2>1 DEF Increasing
<1>6. CASE HostCrash
  <2>1. buffer' = << >> /\ UNCHANGED <<events, sent>> /\ Len(<< >>) = 0
    BY <1>6 DEF HostCrash
  <2> QED
    BY <2>1 DEF Increasing
<1>7. ASSUME NEW e \in Entries, ActivationTimeout(e) PROVE EventsInv'
  <2>1. buffer' = << >> /\ UNCHANGED <<events, sent>> /\ Len(<< >>) = 0
    BY <1>7 DEF ActivationTimeout
  <2> QED
    BY <2>1 DEF Increasing
<1>8. ASSUME NEW e \in Entries, KillDone(e) PROVE EventsInv'
  BY <1>8 DEF KillDone
<1>9. ASSUME NEW e \in Entries, Respawn(e) PROVE EventsInv'
  BY <1>9 DEF Respawn
<1>10. ASSUME NEW k \in Kids, KidReports(k, "loaded") PROVE EventsInv'
  BY <1>10 DEF KidReports
<1>11. ASSUME NEW k \in Kids, KidReports(k, "failed") PROVE EventsInv'
  BY <1>11 DEF KidReports
<1>12. ASSUME NEW k \in Kids, Loaded(k) PROVE EventsInv'
  <2>1. SendEvents(owner[k], buffer) /\ buffer' = << >> /\ UNCHANGED events
    BY <1>12 DEF Loaded, FlushPendingEvents
  <2>2. /\ Increasing(sent \o buffer)
        /\ \A i \in 1 .. Len(sent \o buffer) : (sent \o buffer)[i] <= events
    <3>1. /\ events \in Nat /\ events <= events /\ buffer \in Seq(1 .. MaxEvents) /\ Increasing(buffer)
          /\ \A i \in 1 .. Len(sent), j \in 1 .. Len(buffer) : sent[i] < buffer[j]
          /\ \A j \in 1 .. Len(buffer) : buffer[j] <= events
      BY PluginAssumption DEF EventsType
    <3> HIDE DEF EventsInv
    <3> QED
      BY <3>1, SendIncreasing
  <2>3. Len(buffer') = 0
    BY <2>1
  <2> QED
    BY <2>1, <2>2, <2>3 DEF SendEvents, Increasing
<1>13. ASSUME NEW k \in Kids, LoadFailed(k) PROVE EventsInv'
  BY <1>13 DEF LoadFailed, Starting
<1>14. ASSUME NEW k \in Kids, IgnoreReport(k) PROVE EventsInv'
  BY <1>14 DEF IgnoreReport
<1>15. ASSUME NEW k \in Kids, Exit(k) PROVE EventsInv'
  BY <1>15 DEF Exit, Exited
<1>16. ASSUME NEW k \in Kids, NEW n \in 1 .. CrashLimit, Crash(k, n) PROVE EventsInv'
  <2>1. UNCHANGED <<buffer, events, sent, running>>
    BY <1>16 DEF Crash, Exited
  <2>2. \/ SetStatus(owner[k], "error")
        \/ SetStatus(owner[k], "starting")
    BY <1>16 DEF Crash
  <2>3. IsActive' => IsActive
    BY <2>1, <2>2 DEF SetStatus, EntriesType
  <2> QED
    BY <2>1, <2>3 DEF Increasing
<1>17. ASSUME NEW k \in Kids, NEW u \in Erasers, KidErases(k, u) PROVE EventsInv'
  BY <1>17 DEF KidErases
<1>18. CASE DeliverEvent
  <2>1. events + 1 \in 1 .. MaxEvents /\ events \in Nat
    BY <1>18, PluginAssumption DEF DeliverEvent, EventsType
  <2>1a. \A i \in 1 .. Len(sent) : sent[i] \in Nat /\ sent[i] <= events + 1
    <3>1. sent \in Seq(1 .. MaxEvents) /\ MaxEvents \in Nat
      BY PluginAssumption DEF EventsType
    <3>2. \A i \in 1 .. Len(sent) : sent[i] \in 1 .. MaxEvents
      BY <3>1, ElementOfSeq
    <3>3. \A i \in 1 .. Len(sent) : sent[i] <= events
      OBVIOUS
    <3> HIDE DEF PluginInv, PluginTypeOK, EntriesType, KidsType, EntriesInv, EventsInv, EventsInOrder
    <3> QED
      BY <2>1, <3>1, <3>2, <3>3
  <2>1b. \A i \in 1 .. Len(buffer) : buffer[i] \in Nat /\ buffer[i] <= events + 1
    <3>1. buffer \in Seq(1 .. MaxEvents) /\ MaxEvents \in Nat
      BY PluginAssumption DEF EventsType
    <3>2. \A i \in 1 .. Len(buffer) : buffer[i] \in 1 .. MaxEvents
      BY <3>1, ElementOfSeq
    <3>3. \A i \in 1 .. Len(buffer) : buffer[i] <= events
      OBVIOUS
    <3> HIDE DEF PluginInv, PluginTypeOK, EntriesType, KidsType, EntriesInv, EventsInv, EventsInOrder
    <3> QED
      BY <2>1, <3>1, <3>2, <3>3
  <2>1c. events' = events + 1 /\ UNCHANGED <<running, status>>
    BY <1>18 DEF DeliverEvent
  <2>2. CASE running = Null \/ running \notin listens
    <3>1. UNCHANGED <<buffer, sent>>
      BY <1>18, <2>2 DEF DeliverEvent
    <3> QED
      BY <2>1a, <2>1b, <2>1c, <3>1 DEF Increasing
  <2>3. CASE running # Null /\ running \in listens /\ IsActive
    <3>1. buffer = << >> /\ UNCHANGED buffer /\ SendEvents(running, <<events + 1>>)
      BY <1>18, <2>3 DEF DeliverEvent
    <3>2. /\ <<events + 1>> \in Seq(1 .. MaxEvents) /\ Increasing(<<events + 1>>)
          /\ Len(<<events + 1>>) = 1 /\ <<events + 1>>[1] = events + 1
      BY <2>1 DEF Increasing
    <3>3. \A i \in 1 .. Len(sent) : sent[i] \in Nat /\ sent[i] <= events
      BY ElementOfSeq, PluginAssumption DEF EventsType
    <3>4. /\ Increasing(sent \o <<events + 1>>)
          /\ \A i \in 1 .. Len(sent \o <<events + 1>>) : (sent \o <<events + 1>>)[i] <= events + 1
      <4>1. \A i \in 1 .. Len(sent), j \in 1 .. Len(<<events + 1>>) : sent[i] < <<events + 1>>[j]
        BY <2>1, <3>2, <3>3
      <4>2. /\ \A j \in 1 .. Len(<<events + 1>>) : <<events + 1>>[j] <= events + 1
            /\ events <= events + 1 /\ events + 1 \in Nat
        BY <2>1, <3>2
      <4> HIDE DEF EventsInv
      <4> QED
        BY <2>1, <3>2, <4>1, <4>2, SendIncreasing
    <3>5. events' = events + 1
      BY <1>18 DEF DeliverEvent
    <3>6. Len(buffer') = 0 /\ buffer' = << >>
      BY <3>1
    <3>7. CASE child[running] = Null
      <4>1. UNCHANGED sent
        BY <3>1, <3>7 DEF SendEvents
      <4> QED
        BY <2>1a, <2>1c, <3>6, <4>1 DEF Increasing
    <3>8. CASE child[running] # Null
      <4>1. sent' = sent \o <<events + 1>>
        BY <3>1, <3>8 DEF SendEvents
      <4> QED
        BY <2>1c, <3>4, <3>6, <4>1 DEF Increasing
    <3> QED
      BY <3>7, <3>8
  <2>4. CASE running # Null /\ running \in listens /\ ~IsActive
    <3>1. /\ buffer' = Buffered(buffer, events + 1) /\ UNCHANGED sent /\ ~IsActive'
          /\ events' = events + 1
      BY <1>18, <2>4 DEF DeliverEvent
    <3>2. PICK q \in {buffer, Tail(buffer)} :
             /\ Buffered(buffer, events + 1) = Append(q, events + 1)
             /\ q = buffer \/ buffer # << >>
      <4>1. CASE Len(buffer) < EventMax
        BY <4>1 DEF Buffered
      <4>2. CASE ~(Len(buffer) < EventMax)
        <5>1. buffer # << >> /\ Buffered(buffer, events + 1) = Append(Tail(buffer), events + 1)
          BY <4>2, PluginAssumption DEF Buffered, EventsType
        <5> QED
          BY <5>1
      <4> QED
        BY <4>1, <4>2
    <3>3. /\ q \in Seq(1 .. MaxEvents) /\ Increasing(q)
          /\ \A i \in 1 .. Len(sent), j \in 1 .. Len(q) : sent[i] < q[j]
          /\ \A j \in 1 .. Len(q) : q[j] <= events
      BY <3>2, TailIncreasing DEF EventsType
    <3>4. /\ Increasing(Append(q, events + 1))
          /\ \A i \in 1 .. Len(sent), j \in 1 .. Len(Append(q, events + 1)) : sent[i] < Append(q, events + 1)[j]
          /\ \A j \in 1 .. Len(Append(q, events + 1)) : Append(q, events + 1)[j] <= events + 1
      <4> HIDE DEF EventsInv
      <4> QED
        BY <2>1, <3>3, AppendIncreasing
    <3>5. \A i \in 1 .. Len(sent) : sent[i] <= events + 1
      BY <2>1, ElementOfSeq, PluginAssumption DEF EventsType
    <3> QED
      BY <3>1, <3>2, <3>4, <3>5
  <2> QED
    BY <2>2, <2>3, <2>4
<1>19. CASE ExpireEvent
  <2>1. buffer' = Tail(buffer) /\ buffer # << >> /\ UNCHANGED <<events, sent, running, status>>
    BY <1>19 DEF ExpireEvent
  <2>2. /\ Increasing(Tail(buffer))
        /\ \A i \in 1 .. Len(sent), j \in 1 .. Len(Tail(buffer)) : sent[i] < Tail(buffer)[j]
        /\ \A j \in 1 .. Len(Tail(buffer)) : Tail(buffer)[j] <= events
    <3> HIDE DEF EventsInv
    <3> QED
      BY <2>1, TailIncreasing
  <2> QED
    BY <2>1, <2>2
<1>20. ASSUME NEW u \in Erasers, EnqueueErasure(u) PROVE EventsInv'
  BY <1>20 DEF EnqueueErasure
<1>21. ASSUME NEW u \in Erasers, AskErasure(u) PROVE EventsInv'
  BY <1>21 DEF AskErasure
<1>22. CASE SweepErasures
  BY <1>22 DEF SweepErasures
<1>23. ASSUME NEW ok \in BOOLEAN, ErasureAnswered(ok) PROVE EventsInv'
  BY <1>23 DEF ErasureAnswered
<1>24. CASE InvokeTimeout
  BY <1>24 DEF InvokeTimeout
<1>25. CASE DrainEnds
  BY <1>25 DEF DrainEnds
<1>26. CASE UNCHANGED pluginVars
  BY <1>26 DEF pluginVars
<1> QED
  BY <1>1, <1>2, <1>3, <1>4, <1>5, <1>6, <1>7, <1>8, <1>9, <1>10, <1>11, <1>12, <1>13, <1>14, <1>15, <1>16, <1>17, <1>18, <1>19, <1>20, <1>21, <1>22, <1>23, <1>24, <1>25, <1>26 DEF PluginNext

(* Core events reach the plugin in order and at most once. *)
THEOREM PluginEventsInOrder == PluginSpec => []EventsInOrder
<1>1. PluginInit => EventsInv
  BY NilApart DEF PluginInit, EventsInv, EventsInOrder, Increasing, IsActive
<1>2. PluginInv /\ EventsInv /\ [PluginNext]_pluginVars => EventsInv'
  BY EventsInvStep
<1>3. EventsInv => EventsInOrder
  BY DEF EventsInv
<1> QED
  BY <1>1, <1>2, <1>3, PluginInvariant, PTL DEF PluginSpec
=============================================================================
