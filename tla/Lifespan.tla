------------------------------ MODULE Lifespan ------------------------------
(***************************************************************************)
(* The life of one process of the service: lifespan of main.py, from the   *)
(* exporter to the last shutdown step.  Everything from the settings check *)
(* on runs under one try, whose finally stops what app.state names: it is  *)
(* reached from a start-up that fails anywhere as well as from a signal.   *)
(* Jobs are scheduled while the service serves; the pool's stop waits for  *)
(* those it has, and their events still go through the bridge.  The steps  *)
(* of the shutdown may fail: that of the exporter ends the shutdown, those *)
(* of the pool and the bridge are logged and passed over, and a thread     *)
(* that does not end in time is left to itself.  "down" is the end of the  *)
(* lifespan; the interpreter's exit, which ends the Manager's process and  *)
(* the daemon threads, is not modelled.                                    *)
(***************************************************************************)
EXTENDS Naturals, FiniteSets

CONSTANTS MaxJobs   \* bound: jobs of this process

ASSUME LifespanAssumption == MaxJobs \in Nat

VARIABLES
    lifeStage,  \* the next step, "serving" or "down"
    alive,      \* threads, processes and servers that run, and the
                \* environment variable with the Manager's address
    appState,   \* attributes of app.state that are not None
    stopFailed, \* history: parts whose step of the shutdown failed or timed out
    metricsDir, \* PROMETHEUS_MULTIPROC_DIR is set
    bridgeTry,  \* attempts to start the bridge
    jobs,       \* jobs the pool has
    jobsSeen    \* jobs scheduled so far

lifespanVars == <<lifeStage, alive, appState, stopFailed, metricsDir, bridgeTry, jobs, jobsSeen>>

StartStages == {"exporter", "settings", "qdrant", "stores", "pool", "writer", "bridge",
                "cleanup", "index", "scan"}
StopStages  == {"stopExporter", "stopPool", "stopBridge", "stopCleanup", "dropAddress"}

Parts == {"exporter", "pool", "manager", "bridge", "strayBridge", "cleanup", "address"}

LifespanTypeOK ==
    /\ lifeStage \in StartStages \cup StopStages \cup {"serving", "down"}
    /\ alive \subseteq Parts /\ stopFailed \subseteq Parts /\ metricsDir \in BOOLEAN
    /\ appState \subseteq {"exporter", "retriever", "pipeline", "tasks", "pool", "scanner",
                           "writer", "bridge", "cleanup", "index"}
    /\ bridgeTry \in 0 .. 2 /\ jobs \in 0 .. MaxJobs /\ jobsSeen \in 0 .. MaxJobs

LifespanInit ==
    /\ lifeStage = "exporter" /\ alive = {} /\ appState = {} /\ metricsDir \in BOOLEAN
    /\ stopFailed = {} /\ bridgeTry = 0 /\ jobs = 0 /\ jobsSeen = 0
-----------------------------------------------------------------------------
Goes(stage, next) == lifeStage = stage /\ lifeStage' = next

(* Faulty: a start-up that fails leaves the process without the finally.   *)
Raises_Bare == lifeStage' = "down"

(* An exception under the try: the finally runs.                           *)
Raises == lifeStage' = "stopExporter"

(* A directory that does not exist is refused before the try; a port that  *)
(* is taken is not an error.                                               *)
StartExporter ==
    \/ /\ Goes("exporter", "settings")
       /\ \/ alive' = alive \cup {"exporter"} /\ appState' = appState \cup {"exporter"}
          \/ UNCHANGED <<alive, appState>>
       /\ UNCHANGED <<stopFailed, metricsDir, bridgeTry, jobs, jobsSeen>>
    \/ /\ metricsDir /\ Goes("exporter", "down")
       /\ UNCHANGED <<alive, appState, stopFailed, metricsDir, bridgeTry, jobs, jobsSeen>>

(* SHARED_STORAGE_PATH and PARSER_TOKEN.                                   *)
CheckSettings ==
    /\ Goes("settings", "qdrant") \/ (lifeStage = "settings" /\ Raises)
    /\ UNCHANGED <<alive, appState, stopFailed, metricsDir, bridgeTry, jobs, jobsSeen>>

(* Without Qdrant or the model the service starts without what needs them. *)
StartQdrant ==
    /\ Goes("qdrant", "stores")
    /\ appState' \in {appState, appState \cup {"retriever", "pipeline"}}
    /\ UNCHANGED <<alive, stopFailed, metricsDir, bridgeTry, jobs, jobsSeen>>

(* Redis connects later; the two databases are opened now.  A failing      *)
(* recovery is tolerated.                                                  *)
OpenStores ==
    /\ \/ Goes("stores", "pool") /\ appState' = appState \cup {"tasks"}
       \/ lifeStage = "stores" /\ Raises /\ appState' \in {appState, appState \cup {"tasks"}}
    /\ UNCHANGED <<alive, stopFailed, metricsDir, bridgeTry, jobs, jobsSeen>>

StartPool ==
    /\ \/ /\ Goes("pool", "writer")
          /\ alive' = alive \cup {"pool"} /\ appState' = appState \cup {"pool", "scanner"}
       \/ lifeStage = "pool" /\ Raises /\ UNCHANGED <<alive, appState>>
    /\ UNCHANGED <<stopFailed, metricsDir, bridgeTry, jobs, jobsSeen>>

OpenAuditLog ==
    /\ \/ Goes("writer", "bridge") /\ appState' = appState \cup {"writer"}
       \/ lifeStage = "writer" /\ Raises /\ UNCHANGED appState
    /\ UNCHANGED <<alive, stopFailed, metricsDir, bridgeTry, jobs, jobsSeen>>

(* Two attempts, each with a Manager process of its own.  One that fails   *)
(* after it leaves the process behind, one that fails after the drain      *)
(* thread was started that thread; a second failure ends the start-up.     *)
OpenBridge ==
    /\ lifeStage = "bridge" /\ bridgeTry' = bridgeTry + 1
    /\ \/ /\ lifeStage' = "cleanup"
          /\ alive' = alive \cup {"manager", "bridge", "address"}
          /\ appState' = appState \cup {"bridge"}
       \/ /\ IF bridgeTry = 1 THEN Raises ELSE UNCHANGED lifeStage
          /\ alive' \in {alive, alive \cup {"manager"}, alive \cup {"manager", "strayBridge"}}
          /\ UNCHANGED appState
    /\ UNCHANGED <<stopFailed, metricsDir, jobs, jobsSeen>>

StartCleanup ==
    /\ Goes("cleanup", "index")
    /\ IF metricsDir THEN alive' = alive \cup {"cleanup"} /\ appState' = appState \cup {"cleanup"}
                     ELSE UNCHANGED <<alive, appState>>
    /\ UNCHANGED <<stopFailed, metricsDir, bridgeTry, jobs, jobsSeen>>

(* An index that cannot be built is left out.                              *)
BuildIndex ==
    /\ Goes("index", "scan")
    /\ appState' \in {appState, appState \cup {"index"}}
    /\ UNCHANGED <<alive, stopFailed, metricsDir, bridgeTry, jobs, jobsSeen>>

ColdScan ==
    /\ Goes("scan", "serving") \/ (lifeStage = "scan" /\ Raises)
    /\ UNCHANGED <<alive, appState, stopFailed, metricsDir, bridgeTry, jobs, jobsSeen>>
-----------------------------------------------------------------------------
(* While it serves: jobs, then the signal that ends the yield.             *)
ScheduleJob ==
    /\ lifeStage = "serving" /\ jobsSeen < MaxJobs
    /\ jobs' = jobs + 1 /\ jobsSeen' = jobsSeen + 1
    /\ UNCHANGED <<lifeStage, alive, appState, stopFailed, metricsDir, bridgeTry>>

JobEnds ==
    /\ jobs > 0 /\ jobs' = jobs - 1
    /\ UNCHANGED <<lifeStage, alive, appState, stopFailed, metricsDir, bridgeTry, jobsSeen>>

(* The Manager's process dies: drain threads end on its closed connection. *)
ManagerGone ==
    /\ "manager" \in alive /\ alive' = alive \ {"manager", "bridge", "strayBridge"}
    /\ UNCHANGED <<lifeStage, appState, stopFailed, metricsDir, bridgeTry, jobs, jobsSeen>>

Signal ==
    /\ Goes("serving", "stopExporter")
    /\ UNCHANGED <<alive, appState, stopFailed, metricsDir, bridgeTry, jobs, jobsSeen>>

(* The finally: what app.state does not name is not stopped.               *)
Stopped(part) ==
    /\ alive' = IF part \in appState THEN alive \ {part} ELSE alive
    /\ UNCHANGED stopFailed

StopFails(part) == part \in appState /\ stopFailed' = stopFailed \cup {part}

(* Not under a try of its own: shutdown() or server_close() that raises    *)
(* leaves the finally, and nothing below is stopped.                       *)
StopExporter ==
    /\ \/ Goes("stopExporter", "stopPool") /\ Stopped("exporter")
       \/ /\ Goes("stopExporter", "down") /\ StopFails("exporter")
          /\ alive' \in {alive, alive \ {"exporter"}}
    /\ UNCHANGED <<appState, metricsDir, bridgeTry, jobs, jobsSeen>>

(* close, then join: it returns when the last job has ended.  What either  *)
(* raises is logged at debug level.                                        *)
StopPool ==
    /\ Goes("stopPool", "stopBridge")
    /\ \/ jobs = 0 /\ Stopped("pool")
       \/ StopFails("pool") /\ UNCHANGED alive
    /\ UNCHANGED <<appState, metricsDir, bridgeTry, jobs, jobsSeen>>

(* join(timeout=1.0) and wait_for(timeout=2.0): the drain thread in a      *)
(* write and the thread of a scan may go on.                               *)
EndsOrTimesOut(part) == Stopped(part) \/ (part \in alive /\ StopFails(part) /\ UNCHANGED alive)

StopBridge ==
    /\ Goes("stopBridge", "stopCleanup") /\ EndsOrTimesOut("bridge")
    /\ UNCHANGED <<appState, metricsDir, bridgeTry, jobs, jobsSeen>>

StopCleanup ==
    /\ Goes("stopCleanup", "dropAddress") /\ EndsOrTimesOut("cleanup")
    /\ UNCHANGED <<appState, metricsDir, bridgeTry, jobs, jobsSeen>>

(* Both have been told to stop, and end when they come to look.            *)
LateEnd ==
    /\ \E part \in {"bridge", "cleanup"} \cap stopFailed : alive' = alive \ {part}
    /\ UNCHANGED <<lifeStage, appState, stopFailed, metricsDir, bridgeTry, jobs, jobsSeen>>

DropAddress ==
    /\ Goes("dropAddress", "down") /\ alive' = alive \ {"address"}
    /\ UNCHANGED <<appState, stopFailed, metricsDir, bridgeTry, jobs, jobsSeen>>

LifespanNext ==
    \/ StartExporter \/ CheckSettings \/ StartQdrant \/ OpenStores \/ StartPool
    \/ OpenAuditLog \/ OpenBridge \/ StartCleanup \/ BuildIndex \/ ColdScan
    \/ ScheduleJob \/ JobEnds \/ ManagerGone \/ Signal
    \/ StopExporter \/ StopPool \/ StopBridge \/ StopCleanup \/ LateEnd \/ DropAddress

LifespanSpec == LifespanInit /\ [][LifespanNext]_lifespanVars
-----------------------------------------------------------------------------
(* A process that is down, whether a signal ended it or its start-up       *)
(* failed at any step, has stopped what it started but for the parts whose *)
(* own stop failed, unless the exporter's raised, after which nothing else *)
(* is stopped (main.py:478-521); only the Manager's process, which nothing *)
(* stops, and the drain thread of a failed attempt are left beside them.   *)
(* No job is left when the bridge is stopped, and each job has pool and    *)
(* bridge until then, unless the pool's stop failed or the Manager died.   *)
StopFailuresStayLocal ==
    /\ lifeStage = "down" /\ "exporter" \notin stopFailed =>
          /\ alive \subseteq stopFailed \cup {"manager", "strayBridge"}
          /\ "strayBridge" \in alive => bridgeTry = 2
    /\ jobs > 0 /\ lifeStage \in {"stopBridge", "stopCleanup", "dropAddress"} =>
          "pool" \in stopFailed
    /\ jobs > 0 /\ lifeStage \in {"serving", "stopExporter", "stopPool"} =>
          "pool" \in alive /\ ("manager" \in alive => "bridge" \in alive)
=============================================================================
