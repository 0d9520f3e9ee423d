--------------------------- MODULE ServiceProofs ----------------------------
(***************************************************************************)
(* Proofs about the parts of the service that live as long as a process:   *)
(* the channel of a worker's encoder, start-up and shutdown, the audit     *)
(* bridge, the audit log with its index, the rate limiter.                 *)
(***************************************************************************)
EXTENDS EncodingRouter, Lifespan, AuditBridge, AuditLog, RateLimit, DataProofs
-----------------------------------------------------------------------------
(***************************************************************************)
(* Proofs about EncodingRouter: the channel_switched events of a worker    *)
(* process tell the history of its channel, for any number of encoding     *)
(* threads and any number of faults.                                       *)
(***************************************************************************)

(* What appending an event does to a chain that ends at its start.         *)
LEMMA AppendKeepsChain ==
    ASSUME TypeOK, EventsTellTheChannel,
           NEW from \in Channels, NEW to \in Channels,
           from = channel, from # to,
           RecordTransition(from, to)
    PROVE  EventsTellTheChannel' /\ channel' \in Channels /\ events' \in Seq(Events)
<1> DEFINE new == [from |-> from, to |-> to]
<1>1. new \in Events /\ events \in Seq(Events)
  BY DEF TypeOK, Events
<1>2. channel' = to /\ events' = Append(events, new)
  BY DEF RecordTransition
<1>3. /\ events' \in Seq(Events)
      /\ Len(events') = Len(events) + 1
      /\ Len(events) \in Nat
      /\ events'[Len(events')] = new
      /\ \A i \in 1 .. Len(events) : events'[i] = events[i]
  BY <1>1, <1>2
<1>4. events' # <<>> /\ (events = <<>> <=> Len(events) = 0)
  BY <1>1, <1>3
<1>5. events'[1].from = "unknown"
  <2>1. CASE events = <<>>
    BY <1>2, <1>3, <1>4, <2>1 DEF EventsTellTheChannel
  <2>2. CASE events # <<>>
    BY <1>3, <1>4, <2>2 DEF EventsTellTheChannel
  <2> QED BY <2>1, <2>2
<1>6. \A i \in 1 .. Len(events') : events'[i].from # events'[i].to
  BY <1>3 DEF EventsTellTheChannel
<1>7. \A i \in 1 .. Len(events') - 1 : events'[i].to = events'[i + 1].from
  <2> SUFFICES ASSUME NEW i \in 1 .. Len(events') - 1
               PROVE  events'[i].to = events'[i + 1].from
    OBVIOUS
  <2>1. CASE i = Len(events)
    <3>1. events # <<>> /\ events'[i] = events[i] /\ events'[i + 1] = new
      BY <1>3, <1>4, <2>1
    <3> QED BY <2>1, <3>1 DEF EventsTellTheChannel
  <2>2. CASE i # Len(events)
    <3>1. i \in 1 .. Len(events) - 1 /\ i + 1 \in 1 .. Len(events)
      BY <1>3, <2>2
    <3>2. events'[i] = events[i] /\ events'[i + 1] = events[i + 1]
      BY <1>3, <3>1
    <3> QED BY <3>1, <3>2 DEF EventsTellTheChannel
  <2> QED BY <2>1, <2>2
<1> QED
  BY <1>2, <1>3, <1>4, <1>5, <1>6, <1>7 DEF EventsTellTheChannel

(* A step that leaves the channel and the events alone keeps the chain.    *)
LEMMA ChainUnchanged ==
    ASSUME EventsTellTheChannel, UNCHANGED <<channel, events>>
    PROVE  EventsTellTheChannel'
BY DEF EventsTellTheChannel

(* The channel never goes back to "unknown", so the encoders that have     *)
(* seen a GPU stay right about it.                                         *)
LEMMA PublishStep ==
    ASSUME IInv, Publish
    PROVE  IInv'
<1> DEFINE new == IF verdict THEN "gpu" ELSE "cpu"
<1>1. new \in Channels /\ new # "unknown" /\ channel \in Channels
  BY DEF IInv, TypeOK, Channels
<1>2. EventsTellTheChannel' /\ channel' = new /\ events' \in Seq(Events)
  <2>1. CASE channel # new /\ RecordTransition(channel, new)
    BY <1>1, <2>1, AppendKeepsChain DEF IInv, RecordTransition
  <2>2. CASE channel = new /\ UNCHANGED <<channel, events>>
    BY <2>2, ChainUnchanged DEF IInv, TypeOK
  <2> QED BY <2>1, <2>2 DEF Publish
<1>3. TypeOK'
  BY <1>1, <1>2 DEF IInv, TypeOK, Publish, Checks
<1>4. OnGpuAfterRegistration'
  BY <1>1, <1>2 DEF OnGpuAfterRegistration, Publish
<1> QED BY <1>2, <1>3, <1>4 DEF IInv

(* A late exception names "gpu" as the channel it leaves.  That is so: the *)
(* channel is not "unknown", and no event is emitted when it is "cpu".     *)
LEMMA FallBackStep ==
    ASSUME IInv, NEW e \in Encoders, FallBack(e)
    PROVE  IInv'
<1>1. channel \in {"cpu", "gpu"}
  BY DEF IInv, TypeOK, Channels, OnGpuAfterRegistration, FallBack, Move
<1>2. EventsTellTheChannel' /\ channel' = "cpu" /\ events' \in Seq(Events)
  <2>1. CASE channel # "cpu" /\ RecordTransition("gpu", "cpu")
    <3>1. channel = "gpu" /\ "gpu" \in Channels /\ "cpu" \in Channels
      BY <1>1, <2>1 DEF Channels
    <3> QED BY <2>1, <3>1, AppendKeepsChain DEF IInv, RecordTransition
  <2>2. CASE channel = "cpu" /\ UNCHANGED <<channel, events>>
    BY <2>2, ChainUnchanged DEF IInv, TypeOK
  <2> QED BY <2>1, <2>2 DEF FallBack, Transition
<1>3. TypeOK'
  BY <1>2 DEF IInv, TypeOK, FallBack, Move, Encodings, Channels
<1>4. OnGpuAfterRegistration'
  BY <1>2 DEF OnGpuAfterRegistration
<1> QED BY <1>2, <1>3, <1>4 DEF IInv

(* The other steps neither switch the channel nor emit an event.           *)
LEMMA QuietStep ==
    ASSUME IInv,
           \/ GpuChanges \/ BeginRegister \/ SelfCheck \/ ForceReRegister
           \/ \E e \in Encoders : Route(e) \/ EncodeGpu(e) \/ EncodeCpu(e)
           \/ UNCHANGED vars
    PROVE  IInv'
<1>1. UNCHANGED <<channel, events>>
  BY DEF GpuChanges, BeginRegister, SelfCheck, ForceReRegister, Route, EncodeGpu,
         EncodeCpu, vars
<1>2. EventsTellTheChannel'
  BY <1>1, ChainUnchanged DEF IInv
<1>3. TypeOK' /\ OnGpuAfterRegistration'
  <2> USE <1>1, RouterAssumption DEF IInv, TypeOK, OnGpuAfterRegistration
  <2>1. CASE GpuChanges
    BY <2>1 DEF GpuChanges, Hiccup
  <2>2. CASE BeginRegister
    BY <2>2 DEF BeginRegister, Checks
  <2>3. CASE SelfCheck
    <3>1. verdict' \in BOOLEAN
      BY <2>3, Zenon DEF SelfCheck
    <3>2. /\ UNCHANGED <<gpu, channel, attempted, encode, events>>
          /\ faults' \in 0 .. MaxFaults /\ check' \in Checks
      BY <2>3 DEF SelfCheck, Hiccup, Checks
    <3> QED BY <3>1, <3>2
  <2>4. CASE ForceReRegister
    BY <2>4 DEF ForceReRegister, Checks
  <2>5. ASSUME NEW e \in Encoders, Route(e) PROVE TypeOK' /\ OnGpuAfterRegistration'
    BY <2>5 DEF Route, Move, Encodings
  <2>6. ASSUME NEW e \in Encoders, EncodeGpu(e) PROVE TypeOK' /\ OnGpuAfterRegistration'
    BY <2>6 DEF EncodeGpu, Move, Encodings, Hiccup
  <2>7. ASSUME NEW e \in Encoders, EncodeCpu(e) PROVE TypeOK' /\ OnGpuAfterRegistration'
    BY <2>7 DEF EncodeCpu, Move, Encodings
  <2>8. CASE UNCHANGED vars
    BY <2>8 DEF vars
  <2> QED BY <2>1, <2>2, <2>3, <2>4, <2>5, <2>6, <2>7, <2>8
<1> QED BY <1>2, <1>3 DEF IInv

(* The channel_switched events are the history of the channel: late        *)
(* verdicts of the probe and late exceptions of the encoders never emit    *)
(* one that does not continue the one before it.                           *)
THEOREM EventChain == Spec => []EventsTellTheChannel
<1>1. Init => IInv
  <2> SUFFICES ASSUME Init PROVE IInv
    OBVIOUS
  <2>1. TypeOK
    <3>1. events \in Seq(Events)
      BY DEF Init
    <3>2. attempted \in BOOLEAN /\ verdict \in BOOLEAN
      BY Zenon DEF Init
    <3>3. gpu \in Devices /\ faults \in 0 .. MaxFaults /\ channel \in Channels
      BY RouterAssumption DEF Init, Channels
    <3>4. check \in Checks /\ encode \in [Encoders -> Encodings]
      BY DEF Init, Checks, Encodings
    <3> QED BY <3>1, <3>2, <3>3, <3>4 DEF TypeOK
  <2>2. OnGpuAfterRegistration /\ EventsTellTheChannel
    BY DEF Init, OnGpuAfterRegistration, EventsTellTheChannel
  <2> QED BY <2>1, <2>2 DEF IInv
<1>2. IInv /\ [Next]_vars => IInv'
  BY PublishStep, FallBackStep, QuietStep DEF Next, CheckStep, EncodeStep
<1>3. IInv => EventsTellTheChannel
  BY DEF IInv
<1> QED BY <1>1, <1>2, <1>3, PTL DEF Spec
-----------------------------------------------------------------------------
(***************************************************************************)
(* Proofs about Lifespan: however far the start-up of a process got, and   *)
(* whenever it ends, what it started is stopped or its own stop failed.    *)
(* The argument is the finally's own: what runs is named by app.state, and *)
(* each step of the shutdown is behind all that follow it, except that an  *)
(* exporter that cannot be stopped ends the shutdown there.                *)
(***************************************************************************)

(* The stages at which each part may be running, if its stop has not failed*)
MayRun(part) ==
    CASE part = "exporter" -> {"settings", "qdrant", "stores", "pool", "writer", "bridge",
                               "cleanup", "index", "scan", "serving", "stopExporter"}
      [] part = "pool"     -> {"writer", "bridge", "cleanup", "index", "scan", "serving",
                               "stopExporter", "stopPool"}
      [] part = "bridge"   -> {"cleanup", "index", "scan", "serving", "stopExporter",
                               "stopPool", "stopBridge"}
      [] part = "cleanup"  -> {"index", "scan", "serving", "stopExporter", "stopPool",
                               "stopBridge", "stopCleanup"}
      [] part = "address"  -> {"cleanup", "index", "scan", "serving"} \cup StopStages
      [] OTHER             -> StartStages \cup StopStages \cup {"serving", "down"}

(* What runs is named by app.state, but for the Manager's process, its     *)
(* address and a stray thread, and its stage is one of those it may run at.*)
RunningIsNamed ==
    /\ alive \ {"address", "manager", "strayBridge"} \subseteq appState
    /\ "exporter" \notin stopFailed => \A part \in alive \ stopFailed : lifeStage \in MayRun(part)
    /\ "exporter" \in stopFailed => lifeStage = "down"

(* From the start of the bridge to its stop, pool and bridge both run, the *)
(* bridge as long as the Manager does.                                     *)
PoolBehindBridge ==
    /\ lifeStage \in {"writer", "bridge", "cleanup", "index", "scan", "serving"} => "pool" \in alive
    /\ lifeStage \in {"cleanup", "index", "scan", "serving"} =>
          ("manager" \in alive => "bridge" \in alive)
    /\ lifeStage \in StartStages \cup {"serving", "stopExporter"} => stopFailed = {}

(* Jobs exist from serving on until the pool is stopped.                   *)
JobsOnlyWhileServed ==
    /\ jobs <= jobsSeen
    /\ jobs > 0 /\ stopFailed \cap {"pool", "exporter"} = {} =>
          /\ lifeStage \in {"serving", "stopExporter", "stopPool"}
    /\ jobs > 0 /\ lifeStage \in {"serving", "stopExporter", "stopPool"} =>
          "pool" \in alive /\ ("manager" \in alive => "bridge" \in alive)
    /\ lifeStage \in StartStages => jobs = 0
    /\ lifeStage = "stopPool" => stopFailed = {}

(* A third attempt at the bridge is never made, and a stray thread is of   *)
(* the first or of both.                                                   *)
TwoAttempts ==
    /\ lifeStage \in {"exporter", "settings", "qdrant", "stores", "pool", "writer"} => bridgeTry = 0
    /\ lifeStage = "bridge" => bridgeTry < 2
    /\ "strayBridge" \in alive => bridgeTry = 2 \/ (lifeStage = "bridge" /\ bridgeTry = 1)

LifespanInv ==
    /\ LifespanTypeOK
    /\ TwoAttempts
    /\ RunningIsNamed
    /\ PoolBehindBridge
    /\ JobsOnlyWhileServed

(* Every step of a life keeps these facts, one action at a time.        *)
LEMMA LifespanStep ==
    ASSUME LifespanInv, [LifespanNext]_lifespanVars
    PROVE  LifespanInv'
<1> USE LifespanAssumption
<1> USE DEF LifespanInv, LifespanTypeOK, RunningIsNamed, TwoAttempts, PoolBehindBridge,
            JobsOnlyWhileServed, MayRun, StartStages, StopStages, Parts, Goes, Raises
<1>1. CASE StartExporter
  BY <1>1 DEF StartExporter
<1>2. CASE CheckSettings
  BY <1>2 DEF CheckSettings
<1>3. CASE StartQdrant
  BY <1>3 DEF StartQdrant
<1>4. CASE OpenStores
  BY <1>4 DEF OpenStores
<1>5. CASE StartPool
  BY <1>5 DEF StartPool
<1>6. CASE OpenAuditLog
  BY <1>6 DEF OpenAuditLog
<1>7. CASE OpenBridge
  BY <1>7 DEF OpenBridge
<1>8. CASE StartCleanup
  BY <1>8 DEF StartCleanup
<1>9. CASE BuildIndex
  BY <1>9 DEF BuildIndex
<1>10. CASE ColdScan
  BY <1>10 DEF ColdScan
<1>11. CASE ScheduleJob
  BY <1>11 DEF ScheduleJob
<1>12. CASE JobEnds
  BY <1>12 DEF JobEnds
<1>13. CASE Signal
  BY <1>13 DEF Signal
<1>14. CASE ManagerGone
  BY <1>14 DEF ManagerGone
<1>15. CASE StopExporter
  BY <1>15 DEF StopExporter, Stopped, StopFails
<1>16. CASE StopPool
  BY <1>16 DEF StopPool, Stopped, StopFails
<1>17. CASE StopBridge
  BY <1>17 DEF StopBridge, EndsOrTimesOut, Stopped, StopFails
<1>18. CASE StopCleanup
  BY <1>18 DEF StopCleanup, EndsOrTimesOut, Stopped, StopFails
<1>19. CASE LateEnd
  BY <1>19 DEF LateEnd
<1>20. CASE DropAddress
  BY <1>20 DEF DropAddress
<1>21. CASE UNCHANGED lifespanVars
  BY <1>21 DEF lifespanVars
<1> QED
  BY <1>1, <1>2, <1>3, <1>4, <1>5, <1>6, <1>7, <1>8, <1>9, <1>10, <1>11, <1>12, <1>13, <1>14,
     <1>15, <1>16, <1>17, <1>18, <1>19, <1>20, <1>21 DEF LifespanNext

(* These facts hold of every reachable state of a process.              *)
THEOREM LifespanInductive == LifespanSpec => []LifespanInv
<1>1. LifespanInit => LifespanInv
  BY LifespanAssumption DEF LifespanInit, LifespanInv, LifespanTypeOK, RunningIsNamed,
     TwoAttempts, PoolBehindBridge, JobsOnlyWhileServed, StartStages, StopStages, Parts
<1>2. LifespanInv /\ [LifespanNext]_lifespanVars => LifespanInv'
  BY LifespanStep
<1> QED
  BY <1>1, <1>2, PTL DEF LifespanSpec

(* A process that is down has stopped all it started but the parts whose   *)
(* own stop failed, unless that was the exporter's, the Manager and a stray*)
(* drain thread, and no job outlives the pool and the bridge unless the    *)
(* pool's stop failed (main.py:478-521).                                   *)
THEOREM ShutdownComplete == LifespanSpec => []StopFailuresStayLocal
<1>1. LifespanInv => StopFailuresStayLocal
  <2> SUFFICES ASSUME LifespanInv PROVE StopFailuresStayLocal
    OBVIOUS
  <2>1. ASSUME lifeStage = "down", "exporter" \notin stopFailed, NEW part \in alive \ stopFailed
        PROVE  part \in {"manager", "strayBridge"}
    BY <2>1 DEF LifespanInv, LifespanTypeOK, Parts, RunningIsNamed, MayRun, StopStages
  <2>2. lifeStage = "down" /\ "strayBridge" \in alive => bridgeTry = 2
    BY DEF LifespanInv, TwoAttempts
  <2>3. jobs > 0 /\ lifeStage \in {"stopBridge", "stopCleanup", "dropAddress"} =>
           "pool" \in stopFailed
    BY DEF LifespanInv, JobsOnlyWhileServed, RunningIsNamed
  <2>4. jobs > 0 /\ lifeStage \in {"serving", "stopExporter", "stopPool"} =>
           "pool" \in alive /\ ("manager" \in alive => "bridge" \in alive)
    BY DEF LifespanInv, JobsOnlyWhileServed
  <2> QED
    BY <2>1, <2>2, <2>3, <2>4 DEF StopFailuresStayLocal
<1> QED
  BY <1>1, LifespanInductive, PTL
-----------------------------------------------------------------------------
(***************************************************************************)
(* Proofs about AuditBridge: whatever the drain thread and stop() do to    *)
(* the queue beside each other, and wherever the manager dies, each event  *)
(* that was queued is in exactly one place, for any number of events and   *)
(* any size of the queue.                                                  *)
(***************************************************************************)

(* The four places one by one.                                             *)
InOnePlace ==
    /\ ToSet(accepted) = ToSet(consumed) \cup ToSet(drainHeld) \cup ToSet(stopHeld) \cup ToSet(queue)
    /\ ToSet(consumed) \cap ToSet(drainHeld) = {}
    /\ ToSet(consumed) \cap ToSet(stopHeld) = {}
    /\ ToSet(consumed) \cap ToSet(queue) = {}
    /\ ToSet(drainHeld) \cap ToSet(stopHeld) = {}
    /\ ToSet(drainHeld) \cap ToSet(queue) = {}
    /\ ToSet(stopHeld) \cap ToSet(queue) = {}

(* A thread holds one event while it writes and none otherwise.            *)
HeldWhileWriting ==
    /\ bridged = "none" => drain = "off"
    /\ IF drain = "writing" THEN \E e \in BridgeEvents : drainHeld = <<e>>
                            ELSE drainHeld = <<>>
    /\ IF stopping = "writing" THEN \E e \in BridgeEvents : stopHeld = <<e>>
                               ELSE stopHeld = <<>>

WrittenOnce ==
    /\ IsFiniteSet(ToSet(consumed))
    /\ Len(consumed) = Cardinality(ToSet(consumed))

BridgeInv ==
    /\ BridgeTypeOK
    /\ InOnePlace
    /\ HeldWhileWriting
    /\ WrittenOnce
    /\ IsInjective(queue)

(* The elements of a sequence after an event is put at its end, and after  *)
(* its first is taken off.                                                 *)
LEMMA SetOfAppend ==
    ASSUME NEW S, NEW s \in Seq(S), NEW e \in S
    PROVE  /\ Append(s, e) \in Seq(S)
           /\ ToSet(Append(s, e)) = ToSet(s) \cup {e}
           /\ s \o <<e>> = Append(s, e)
           /\ IsInjective(s) /\ e \notin ToSet(s) => IsInjective(Append(s, e))
<1>1. Append(s, e) \in Seq(S) /\ s \o <<e>> = Append(s, e)
  OBVIOUS
<1>2. /\ DOMAIN s = 1 .. Len(s) /\ Len(s) \in Nat
      /\ DOMAIN Append(s, e) = 1 .. Len(s) + 1
      /\ Append(s, e)[Len(s) + 1] = e
      /\ \A i \in 1 .. Len(s) : Append(s, e)[i] = s[i]
  OBVIOUS
<1>3. \A i \in 1 .. Len(s) + 1 : i \in 1 .. Len(s) \/ i = Len(s) + 1
  BY <1>2
<1>4. ToSet(Append(s, e)) = ToSet(s) \cup {e}
  <2>1. ASSUME NEW x \in ToSet(Append(s, e)) PROVE x \in ToSet(s) \cup {e}
    BY <1>2, <1>3 DEF ToSet
  <2>2. ASSUME NEW x \in ToSet(s) \cup {e} PROVE x \in ToSet(Append(s, e))
    BY <1>2 DEF ToSet
  <2> QED BY <2>1, <2>2
<1>5. ASSUME IsInjective(s), e \notin ToSet(s) PROVE IsInjective(Append(s, e))
  <2>1. \A i \in 1 .. Len(s) : s[i] # e
    BY <1>2, <1>5 DEF ToSet
  <2>2. Len(Append(s, e)) = Len(s) + 1
    OBVIOUS
  <2> QED
    BY <1>2, <1>3, <1>5, <2>1, <2>2 DEF IsInjective
<1> QED BY <1>1, <1>4, <1>5

(* The rest of a queue without repetitions has all but the first.          *)
LEMMA SetOfTail ==
    ASSUME NEW S, NEW s \in Seq(S), s # <<>>, IsInjective(s)
    PROVE  /\ Head(s) \in S /\ Head(s) \in ToSet(s)
           /\ Tail(s) \in Seq(S)
           /\ ToSet(Tail(s)) = ToSet(s) \ {Head(s)}
           /\ IsInjective(Tail(s))
<1>1. /\ DOMAIN s = 1 .. Len(s) /\ Len(s) \in Nat \ {0}
      /\ Head(s) = s[1] /\ Tail(s) \in Seq(S)
      /\ Len(Tail(s)) = Len(s) - 1 /\ DOMAIN Tail(s) = 1 .. Len(s) - 1
      /\ \A i \in 1 .. Len(s) - 1 : Tail(s)[i] = s[i + 1]
  OBVIOUS
<1>2. Head(s) \in S /\ Head(s) \in ToSet(s)
  BY <1>1 DEF ToSet
<1>3. ToSet(Tail(s)) = ToSet(s) \ {Head(s)}
  <2>1. ASSUME NEW x \in ToSet(Tail(s)) PROVE x \in ToSet(s) \ {Head(s)}
    <3>1. PICK i \in 1 .. Len(s) - 1 : x = s[i + 1]
      BY <1>1 DEF ToSet
    <3>2. i + 1 \in 1 .. Len(s) /\ 1 \in 1 .. Len(s) /\ i + 1 # 1
      BY <1>1, <3>1
    <3> QED BY <1>1, <3>1, <3>2 DEF ToSet, IsInjective
  <2>2. ASSUME NEW x \in ToSet(s) \ {Head(s)} PROVE x \in ToSet(Tail(s))
    <3>1. PICK i \in 1 .. Len(s) : x = s[i]
      BY <1>1 DEF ToSet
    <3>2. i # 1
      BY <1>1, <3>1
    <3>3. i - 1 \in 1 .. Len(s) - 1 /\ (i - 1) + 1 = i
      BY <1>1, <3>1, <3>2
    <3>4. Tail(s)[i - 1] = x
      BY <1>1, <3>1, <3>3
    <3> QED BY <1>1, <3>3, <3>4 DEF ToSet
  <2> QED BY <2>1, <2>2
<1>4. IsInjective(Tail(s))
  <2> SUFFICES ASSUME NEW i \in 1 .. Len(s) - 1, NEW j \in 1 .. Len(s) - 1, s[i + 1] = s[j + 1]
               PROVE  i = j
    BY <1>1 DEF IsInjective
  <2>1. i + 1 \in 1 .. Len(s) /\ j + 1 \in 1 .. Len(s)
    BY <1>1
  <2> QED BY <2>1 DEF IsInjective
<1> QED BY <1>1, <1>2, <1>3, <1>4

(* Writing an event that is not yet among the written ones.                *)
LEMMA WriteOne ==
    ASSUME BridgeTypeOK, WrittenOnce, NEW e \in BridgeEvents, e \notin ToSet(consumed), Written(<<e>>)
    PROVE  /\ consumed' \in Seq(BridgeEvents) /\ unwritten' \subseteq BridgeEvents
           /\ ToSet(consumed)' = ToSet(consumed) \cup {e}
           /\ WrittenOnce'
<1>1. consumed \in Seq(BridgeEvents) /\ unwritten \subseteq BridgeEvents
  BY DEF BridgeTypeOK
<1>2. consumed' = Append(consumed, e) /\ unwritten' \subseteq BridgeEvents
  BY <1>1, SetOfAppend DEF Written
<1>3. consumed' \in Seq(BridgeEvents) /\ ToSet(consumed') = ToSet(consumed) \cup {e}
  BY <1>1, <1>2, SetOfAppend
<1>4. Len(consumed') = Len(consumed) + 1
  BY <1>1, <1>2
<1>5. IsFiniteSet(ToSet(consumed')) /\ Cardinality(ToSet(consumed')) = Cardinality(ToSet(consumed)) + 1
  BY <1>3, FS_AddElement DEF WrittenOnce
<1> QED
  BY <1>2, <1>3, <1>4, <1>5 DEF WrittenOnce

(* Places that hold nothing.                                               *)
LEMMA EmptyPlaces == ToSet(<<>>) = {} /\ \A e : ToSet(<<e>>) = {e}
BY DEF ToSet
-----------------------------------------------------------------------------
(* Each step of the two readers and of the writers keeps the invariant.    *)
LEMMA BridgeStep ==
    ASSUME BridgeInv, [BridgeNext]_bridgeVars
    PROVE  BridgeInv'
<1> USE BridgeAssumption
<1>t. /\ BridgeTypeOK /\ InOnePlace /\ HeldWhileWriting /\ WrittenOnce /\ IsInjective(queue)
  BY DEF BridgeInv
<1>1. ASSUME StartBridge \/ ManagerDies \/ DrainCheck \/ DrainNothing \/ Stop \/ StopDrained \/ StopJoined
      PROVE  BridgeInv'
  <2>1. /\ UNCHANGED <<queue, accepted, dropped, stranded, drainHeld, stopHeld, consumed, unwritten>>
        /\ (drain # "writing" /\ drain' # "writing") \/ UNCHANGED drain
        /\ (stopping # "writing" /\ stopping' # "writing") \/ UNCHANGED stopping
        /\ bridged' = "none" => bridged = "none" /\ UNCHANGED drain
    BY <1>t, <1>1 DEF StartBridge, ManagerDies, DrainCheck, DrainNothing, Stop, StopDrained,
       StopJoined, DrainStep, StopStep, queues, readers, HeldWhileWriting
  <2>2. /\ bridged' \in {"none", "running", "failed"} /\ attempt' \in 1 .. 2 /\ manager' \in BOOLEAN
        /\ drain' \in {"off", "check", "getting", "writing", "exited"}
        /\ stopping' \in {"no", "draining", "writing", "joining", "done"}
    <3>1. CASE StartBridge
      <4>1. manager' \in BOOLEAN
        BY <1>t, <3>1, Zenon DEF StartBridge, BridgeTypeOK
      <4>2. /\ bridged' \in {"none", "running", "failed"} /\ attempt' \in 1 .. 2
            /\ drain' \in {"off", "check", "getting", "writing", "exited"}
            /\ UNCHANGED stopping
        BY <1>t, <3>1 DEF StartBridge, BridgeTypeOK
      <4> QED BY <1>t, <4>1, <4>2 DEF BridgeTypeOK
    <3>2. CASE ManagerDies
      BY <1>t, <3>2 DEF ManagerDies, readers, BridgeTypeOK
    <3>3. CASE DrainCheck \/ DrainNothing
      BY <1>t, <3>3 DEF DrainCheck, DrainNothing, DrainStep, BridgeTypeOK
    <3>4. CASE Stop \/ StopDrained \/ StopJoined
      BY <1>t, <3>4 DEF Stop, StopDrained, StopJoined, StopStep, BridgeTypeOK
    <3> QED BY <1>1, <3>1, <3>2, <3>3, <3>4
  <2>3. BridgeTypeOK'
    BY <1>t, <2>1, <2>2 DEF BridgeTypeOK
  <2> QED
    BY <1>t, <2>1, <2>3 DEF BridgeInv, InOnePlace, HeldWhileWriting, WrittenOnce, IsInjective
<1>2. ASSUME NEW e \in BridgeEvents, BridgePut(e) PROVE BridgeInv'
  <2>1. UNCHANGED <<bridged, attempt, manager, drain, drainHeld, stopping, stopHeld, consumed, unwritten>>
    BY <1>2 DEF BridgePut, readers
  <2>2. CASE Drop(e)
    <3>1. UNCHANGED <<queue, stranded, accepted>> /\ dropped' = dropped \cup {e}
      BY <2>2 DEF Drop
    <3>2. BridgeTypeOK'
      BY <1>t, <2>1, <3>1 DEF BridgeTypeOK, AllEvents
    <3> QED
      BY <1>t, <2>1, <3>1, <3>2 DEF BridgeInv, InOnePlace, HeldWhileWriting, WrittenOnce, IsInjective
  <2>3. CASE queue' = Append(queue, e) /\ accepted' = Append(accepted, e) /\ UNCHANGED <<stranded, dropped>>
    <3>1. queue \in Seq(BridgeEvents) /\ accepted \in Seq(BridgeEvents)
      BY <1>t DEF BridgeTypeOK
    <3>2. e \notin ToSet(accepted)
      BY <1>2 DEF BridgePut, Seen
    <3>3. e \notin ToSet(queue) \cup ToSet(consumed) \cup ToSet(drainHeld) \cup ToSet(stopHeld)
      BY <1>t, <3>2 DEF InOnePlace
    <3>4. /\ queue' \in Seq(BridgeEvents) /\ ToSet(queue)' = ToSet(queue) \cup {e}
          /\ accepted' \in Seq(BridgeEvents) /\ ToSet(accepted)' = ToSet(accepted) \cup {e}
          /\ IsInjective(queue)'
      BY <1>t, <2>3, <3>1, <3>3, SetOfAppend
    <3>5. ToSet(consumed)' = ToSet(consumed) /\ ToSet(drainHeld)' = ToSet(drainHeld) /\ ToSet(stopHeld)' = ToSet(stopHeld)
      BY <2>1
    <3>6. BridgeTypeOK'
      BY <1>t, <2>1, <2>3, <3>4 DEF BridgeTypeOK
    <3>7. InOnePlace'
      BY <1>t, <3>3, <3>4, <3>5 DEF InOnePlace
    <3>8. HeldWhileWriting' /\ WrittenOnce'
      BY <1>t, <2>1 DEF HeldWhileWriting, WrittenOnce
    <3> QED
      BY <3>4, <3>6, <3>7, <3>8 DEF BridgeInv
  <2> QED
    BY <1>2, <2>2, <2>3 DEF BridgePut
<1>3. ASSUME NEW e \in WorkerEvents, WorkerPut(e) PROVE BridgeInv'
  <2>1. UNCHANGED <<bridged, attempt, manager, queue, accepted, drain, drainHeld, stopping, stopHeld, consumed, unwritten>>
    BY <1>3 DEF WorkerPut, Drop, readers
  <2>2. stranded' \in Seq(WorkerEvents) /\ dropped' \subseteq AllEvents
    <3>1. stranded \in Seq(WorkerEvents) /\ dropped \subseteq AllEvents /\ e \in AllEvents
      BY <1>t DEF BridgeTypeOK, AllEvents
    <3>2. Append(stranded, e) \in Seq(WorkerEvents)
      BY <3>1
    <3> QED BY <1>3, <3>1, <3>2 DEF WorkerPut, Drop
  <2>3. BridgeTypeOK'
    BY <1>t, <2>1, <2>2 DEF BridgeTypeOK
  <2> QED
    BY <1>t, <2>1, <2>3 DEF BridgeInv, InOnePlace, HeldWhileWriting, WrittenOnce, IsInjective
<1>4. CASE DrainGet
  <2> DEFINE e == Head(queue)
  <2>1. queue \in Seq(BridgeEvents) /\ queue # <<>>
    BY <1>t, <1>4 DEF BridgeTypeOK, DrainGet
  <2>2. /\ e \in BridgeEvents /\ e \in ToSet(queue)
        /\ Tail(queue) \in Seq(BridgeEvents) /\ ToSet(Tail(queue)) = ToSet(queue) \ {e}
        /\ IsInjective(Tail(queue))
    BY <1>t, <2>1, SetOfTail
  <2> HIDE DEF e
  <2>3. /\ drainHeld' = <<e>> /\ queue' = Tail(queue) /\ drainHeld = <<>>
        /\ drain = "getting" /\ drain' = "writing"
        /\ UNCHANGED <<bridged, attempt, manager, stranded, accepted, dropped, stopping, stopHeld, consumed, unwritten>>
    BY <1>t, <1>4 DEF DrainGet, DrainStep, HeldWhileWriting, e
  <2>4. /\ ToSet(drainHeld)' = {e} /\ ToSet(drainHeld) = {} /\ ToSet(queue)' = ToSet(queue) \ {e}
        /\ ToSet(consumed)' = ToSet(consumed) /\ ToSet(stopHeld)' = ToSet(stopHeld)
        /\ ToSet(accepted)' = ToSet(accepted)
    BY <2>2, <2>3, EmptyPlaces
  <2>5. BridgeTypeOK'
    <3>1. <<e>> \in Seq(BridgeEvents)
      BY <2>2
    <3> QED BY <1>t, <2>2, <2>3, <3>1 DEF BridgeTypeOK
  <2>6. InOnePlace'
    BY <1>t, <2>2, <2>4 DEF InOnePlace
  <2>7. HeldWhileWriting' /\ WrittenOnce'
    BY <1>t, <2>2, <2>3 DEF HeldWhileWriting, WrittenOnce
  <2>8. IsInjective(queue)'
    BY <2>2, <2>3
  <2> QED BY <2>5, <2>6, <2>7, <2>8 DEF BridgeInv
<1>5. CASE StopGet
  <2> DEFINE e == Head(queue)
  <2>1. queue \in Seq(BridgeEvents) /\ queue # <<>>
    BY <1>t, <1>5 DEF BridgeTypeOK, StopGet
  <2>2. /\ e \in BridgeEvents /\ e \in ToSet(queue)
        /\ Tail(queue) \in Seq(BridgeEvents) /\ ToSet(Tail(queue)) = ToSet(queue) \ {e}
        /\ IsInjective(Tail(queue))
    BY <1>t, <2>1, SetOfTail
  <2> HIDE DEF e
  <2>3. /\ stopHeld' = <<e>> /\ queue' = Tail(queue) /\ stopHeld = <<>>
        /\ stopping' = "writing"
        /\ UNCHANGED <<bridged, attempt, manager, stranded, accepted, dropped, drain, drainHeld, consumed, unwritten>>
    BY <1>t, <1>5 DEF StopGet, StopStep, HeldWhileWriting, e
  <2>4. /\ ToSet(stopHeld)' = {e} /\ ToSet(stopHeld) = {} /\ ToSet(queue)' = ToSet(queue) \ {e}
        /\ ToSet(consumed)' = ToSet(consumed) /\ ToSet(drainHeld)' = ToSet(drainHeld)
        /\ ToSet(accepted)' = ToSet(accepted)
    BY <2>2, <2>3, EmptyPlaces
  <2>5. BridgeTypeOK'
    <3>1. <<e>> \in Seq(BridgeEvents)
      BY <2>2
    <3> QED BY <1>t, <2>2, <2>3, <3>1 DEF BridgeTypeOK
  <2>6. InOnePlace'
    BY <1>t, <2>2, <2>4 DEF InOnePlace
  <2>7. HeldWhileWriting' /\ WrittenOnce'
    BY <1>t, <2>2, <2>3 DEF HeldWhileWriting, WrittenOnce
  <2>8. IsInjective(queue)'
    BY <2>2, <2>3
  <2> QED BY <2>5, <2>6, <2>7, <2>8 DEF BridgeInv
<1>6. CASE DrainWrite
  <2>1. PICK e \in BridgeEvents : drainHeld = <<e>>
    BY <1>t, <1>6 DEF DrainWrite, DrainStep, HeldWhileWriting
  <2>2. /\ drain = "writing" /\ drain' = "check" /\ Written(<<e>>) /\ drainHeld' = <<>>
        /\ UNCHANGED <<bridged, attempt, manager, queue, stranded, accepted, dropped, stopping, stopHeld>>
    BY <1>6, <2>1 DEF DrainWrite, DrainStep, queues
  <2>3. ToSet(drainHeld) = {e} /\ ToSet(drainHeld)' = {}
    BY <2>1, <2>2, EmptyPlaces
  <2>4. e \notin ToSet(consumed)
    BY <1>t, <2>3 DEF InOnePlace
  <2>5. /\ consumed' \in Seq(BridgeEvents) /\ unwritten' \subseteq BridgeEvents
        /\ ToSet(consumed)' = ToSet(consumed) \cup {e} /\ WrittenOnce'
    BY <1>t, <2>2, <2>4, WriteOne
  <2>6. ToSet(queue)' = ToSet(queue) /\ ToSet(stopHeld)' = ToSet(stopHeld) /\ ToSet(accepted)' = ToSet(accepted)
    BY <2>2
  <2>7. BridgeTypeOK'
    <3>1. <<>> \in Seq(BridgeEvents)
      OBVIOUS
    <3> QED BY <1>t, <2>2, <2>5, <3>1 DEF BridgeTypeOK
  <2>8. InOnePlace'
    BY <1>t, <2>3, <2>5, <2>6 DEF InOnePlace
  <2>9. HeldWhileWriting' /\ IsInjective(queue)'
    BY <1>t, <2>2 DEF HeldWhileWriting
  <2> QED BY <2>5, <2>7, <2>8, <2>9 DEF BridgeInv
<1>7. CASE StopWrite
  <2>1. PICK e \in BridgeEvents : stopHeld = <<e>>
    BY <1>t, <1>7 DEF StopWrite, StopStep, HeldWhileWriting
  <2>2. /\ stopping' = "draining" /\ Written(<<e>>) /\ stopHeld' = <<>>
        /\ UNCHANGED <<bridged, attempt, manager, queue, stranded, accepted, dropped, drain, drainHeld>>
    BY <1>7, <2>1 DEF StopWrite, StopStep, queues
  <2>3. ToSet(stopHeld) = {e} /\ ToSet(stopHeld)' = {}
    BY <2>1, <2>2, EmptyPlaces
  <2>4. e \notin ToSet(consumed)
    BY <1>t, <2>3 DEF InOnePlace
  <2>5. /\ consumed' \in Seq(BridgeEvents) /\ unwritten' \subseteq BridgeEvents
        /\ ToSet(consumed)' = ToSet(consumed) \cup {e} /\ WrittenOnce'
    BY <1>t, <2>2, <2>4, WriteOne
  <2>6. ToSet(queue)' = ToSet(queue) /\ ToSet(drainHeld)' = ToSet(drainHeld) /\ ToSet(accepted)' = ToSet(accepted)
    BY <2>2
  <2>7. BridgeTypeOK'
    <3>1. <<>> \in Seq(BridgeEvents)
      OBVIOUS
    <3> QED BY <1>t, <2>2, <2>5, <3>1 DEF BridgeTypeOK
  <2>8. InOnePlace'
    BY <1>t, <2>3, <2>5, <2>6 DEF InOnePlace
  <2>9. HeldWhileWriting' /\ IsInjective(queue)'
    BY <1>t, <2>2 DEF HeldWhileWriting
  <2> QED BY <2>5, <2>7, <2>8, <2>9 DEF BridgeInv
<1>8. CASE UNCHANGED bridgeVars
  BY <1>t, <1>8 DEF bridgeVars, queues, readers, BridgeInv, BridgeTypeOK, InOnePlace,
     HeldWhileWriting, WrittenOnce, IsInjective
<1>9. CASE BridgeNext
  <2>1. CASE \E e \in BridgeEvents : BridgePut(e)
    BY <1>2, <2>1
  <2>2. CASE \E e \in WorkerEvents : WorkerPut(e)
    BY <1>3, <2>2
  <2> QED
    BY <1>1, <1>4, <1>5, <1>6, <1>7, <1>9, <2>1, <2>2 DEF BridgeNext
<1> QED
  BY <1>8, <1>9
-----------------------------------------------------------------------------
(* The invariant holds of every reachable state of the bridge.             *)
THEOREM BridgeInductive == BridgeSpec => []BridgeInv
<1>1. BridgeInit => BridgeInv
  <2> SUFFICES ASSUME BridgeInit PROVE BridgeInv
    OBVIOUS
  <2>1. BridgeTypeOK
    <3>1. manager \in BOOLEAN
      BY Zenon DEF BridgeInit
    <3>2. <<>> \in Seq(BridgeEvents) /\ <<>> \in Seq(WorkerEvents)
      OBVIOUS
    <3> QED BY <3>1, <3>2 DEF BridgeInit, BridgeTypeOK
  <2>2. ToSet(queue) = {} /\ ToSet(accepted) = {} /\ ToSet(consumed) = {} /\ ToSet(drainHeld) = {} /\ ToSet(stopHeld) = {}
    BY EmptyPlaces DEF BridgeInit
  <2>3. InOnePlace /\ HeldWhileWriting
    BY <2>2 DEF InOnePlace, HeldWhileWriting, BridgeInit
  <2>4. WrittenOnce
    BY <2>2, FS_EmptySet DEF WrittenOnce, BridgeInit
  <2>5. IsInjective(queue)
    BY DEF BridgeInit, IsInjective
  <2> QED BY <2>1, <2>3, <2>4, <2>5 DEF BridgeInv
<1>2. BridgeInv /\ [BridgeNext]_bridgeVars => BridgeInv'
  BY BridgeStep
<1> QED
  BY <1>1, <1>2, PTL DEF BridgeSpec

(* An event that put() queued is written once, or held by one of the two   *)
(* readers, or still queued: stop() beside the drain thread doubles and    *)
(* loses nothing that it does not leave in the queue (134-174, 278-305).   *)
THEOREM NothingLost == BridgeSpec => []BridgeLosesNothing
<1>1. BridgeInv => BridgeLosesNothing
  <2> SUFFICES ASSUME BridgeInv PROVE BridgeLosesNothing
    OBVIOUS
  <2> DEFINE places == <<ToSet(consumed), ToSet(drainHeld), ToSet(stopHeld), ToSet(queue)>>
  <2>1. ToSet(places) = {ToSet(consumed), ToSet(drainHeld), ToSet(stopHeld), ToSet(queue)}
    <3>1. DOMAIN places = 1 .. 4
      OBVIOUS
    <3>2. \A i \in 1 .. 4 : i = 1 \/ i = 2 \/ i = 3 \/ i = 4
      OBVIOUS
    <3>3. /\ places[1] = ToSet(consumed) /\ places[2] = ToSet(drainHeld)
          /\ places[3] = ToSet(stopHeld) /\ places[4] = ToSet(queue)
      OBVIOUS
    <3> HIDE DEF places
    <3>4. ToSet(places) = {places[i] : i \in 1 .. 4}
      BY <3>1 DEF ToSet
    <3> QED BY <3>2, <3>3, <3>4
  <2>2. ToSet(accepted) = UNION ToSet(places)
    BY <2>1 DEF BridgeInv, InOnePlace
  <2>3. \A i, j \in 1 .. 4 : i # j => places[i] \cap places[j] = {}
    BY DEF BridgeInv, InOnePlace
  <2>4. Len(consumed) = Cardinality(ToSet(consumed))
    BY DEF BridgeInv, WrittenOnce
  <2> QED BY <2>2, <2>3, <2>4 DEF BridgeLosesNothing
<1> QED
  BY <1>1, BridgeInductive, PTL
-----------------------------------------------------------------------------
(***************************************************************************)
(* Proofs about AuditLog: as long as nobody writes between a writer's look *)
(* at the size of the file and its entry in the index, the index is right  *)
(* about the file for every trace no line of which met a disk error, for   *)
(* any writers, traces and lines.                                          *)
(*                                                                         *)
(* The index holds an offset for each line of a trace. What it must hold   *)
(* of a file is defined here for every file (OffsetsOf); a line more adds  *)
(* one offset more, which is the size of the file before it.               *)
(***************************************************************************)

(* What the index holds of a trace when it is right about a file.          *)
OffsetsOf(lines, t) ==
    LET at == PlacesIn(lines, OfTrace(t))
    IN  [k \in 1 .. Len(at) |-> <<lines[at[k]].event, ByteStart(lines, at[k])>>]

IndexOf(lines) == [t \in TraceIds |-> OffsetsOf(lines, t)]

Writing(w) == writing[w] # Resting

(* The index is right about a file for every trace that is not spoilt.     *)
RightFor(lines) == \A t \in TraceIds \ spoilt : index[t] = OffsetsOf(lines, t)

(* A writer is at work on a line that is not spoilt.                       *)
Sound(w) == writing[w].line.trace \notin spoilt

(* Nothing has interfered: at most one writer is at work, and the index is *)
(* right about the file, or about the file before its line.                *)
Calm ==
    /\ \A w, x \in Writers : Writing(w) /\ Writing(x) => w = x
    /\ (\A w \in Writers : ~Writing(w)) => RightFor(file)
    /\ \A w \in Writers :
        /\ writing[w].at = "log" =>
              RightFor(file) /\ (Sound(w) => held = <<>> /\ writing[w].offset = FileEnd)
        /\ writing[w].at = "register" /\ ~Sound(w) => RightFor(file)
        /\ writing[w].at = "register" /\ Sound(w) =>
              /\ held = <<>>
              /\ \E before \in Seq(Lines) :
                    /\ file = Append(before, writing[w].line)
                    /\ RightFor(before)
                    /\ writing[w].offset = ByteStart(before, Len(before) + 1)

(* What waits in the buffer is of spoilt traces.                           *)
HeldIsSpoilt == \A i \in 1 .. Len(held) : held[i].trace \in spoilt

WritingType ==
    writing \in [Writers -> {Resting} \cup
                    [at : {"log", "register"}, line : Lines, offset : Nat]]

AuditInv ==
    /\ file \in Seq(Lines) /\ held \in Seq(Lines)
    /\ WritingType
    /\ DOMAIN index = TraceIds /\ index = [t \in TraceIds |-> index[t]]
    /\ HeldIsSpoilt
    /\ interfered = {} => Calm
-----------------------------------------------------------------------------
(* Offsets.                                                                *)
WideBefore(lines, i) == {j \in 1 .. i - 1 : lines[j].wide}

(* A line begins after the lines before it and their wide characters.      *)
LEMMA WideCount ==
    ASSUME NEW lines, NEW i \in Nat \ {0}
    PROVE  IsFiniteSet(WideBefore(lines, i)) /\ Cardinality(WideBefore(lines, i)) \in Nat
           /\ ByteStart(lines, i) = i - 1 + Cardinality(WideBefore(lines, i))
           /\ ByteStart(lines, i) \in Nat
<1>1. IsFiniteSet(1 .. i - 1)
  BY FS_Interval
<1>2. WideBefore(lines, i) \subseteq 1 .. i - 1
  BY DEF WideBefore
<1>3. IsFiniteSet(WideBefore(lines, i))
  BY <1>1, <1>2, FS_Subset
<1>4. Cardinality(WideBefore(lines, i)) \in Nat
  BY <1>3, FS_CardinalityType
<1>5. ByteStart(lines, i) = i - 1 + Cardinality(WideBefore(lines, i))
  BY DEF ByteStart, WideBefore
<1> QED BY <1>3, <1>4, <1>5

(* Where a line begins is a number.                                        *)
LEMMA StartsAtNumber ==
    ASSUME NEW lines, NEW i \in Nat \ {0}
    PROVE  ByteStart(lines, i) \in Nat
BY WideCount

(* Later lines begin later.                                                *)
LEMMA StartsGrow ==
    ASSUME NEW lines, NEW i \in Nat \ {0}, NEW j \in Nat \ {0}, i < j
    PROVE  ByteStart(lines, i) < ByteStart(lines, j)
<1>1. WideBefore(lines, i) \subseteq WideBefore(lines, j)
  BY DEF WideBefore
<1>2. Cardinality(WideBefore(lines, i)) <= Cardinality(WideBefore(lines, j))
  BY <1>1, WideCount, FS_Subset
<1> QED BY <1>2, WideCount

(* A line more changes no beginning.                                       *)
LEMMA StartsStay ==
    ASSUME NEW lines \in Seq(Lines), NEW l \in Lines, NEW i \in 1 .. Len(lines) + 1
    PROVE  ByteStart(Append(lines, l), i) = ByteStart(lines, i)
<1>1. \A j \in 1 .. i - 1 : Append(lines, l)[j] = lines[j]
  OBVIOUS
<1>2. {j \in 1 .. i - 1 : Append(lines, l)[j].wide} = {j \in 1 .. i - 1 : lines[j].wide}
  BY <1>1
<1> QED BY <1>2 DEF ByteStart

(* A sequence that is another with one item more.                          *)
LEMMA IsAppend ==
    ASSUME NEW T, NEW s \in Seq(T), NEW e \in T, NEW q \in Seq(T), Len(q) = Len(s) + 1,
           q[Len(s) + 1] = e, \A k \in 1 .. Len(s) : q[k] = s[k]
    PROVE  q = Append(s, e)
OBVIOUS

(* What one more line adds to the offsets of a trace.                      *)
LEMMA OffsetsAppend ==
    ASSUME NEW lines \in Seq(Lines), NEW l \in Lines, NEW t \in TraceIds
    PROVE  OffsetsOf(Append(lines, l), t) =
               IF l \in OfTrace(t)
               THEN Append(OffsetsOf(lines, t), <<l.event, ByteStart(lines, Len(lines) + 1)>>)
               ELSE OffsetsOf(lines, t)
<1> DEFINE more == Append(lines, l)
           at == PlacesIn(lines, OfTrace(t))
           atMore == PlacesIn(more, OfTrace(t))
           Entries(ls, ps) == [k \in 1 .. Len(ps) |-> <<ls[ps[k]].event, ByteStart(ls, ps[k])>>]
<1>1. at \in Seq(1 .. Len(lines)) /\ Len(lines) \in Nat
  BY PlacesFacts
<1>2. atMore = IF l \in OfTrace(t) THEN Append(at, Len(lines) + 1) ELSE at
  <2> HIDE DEF at
  <2> QED BY PlacesAppend DEF at
<1>3. \A i \in 1 .. Len(lines) : more[i] = lines[i] /\ ByteStart(more, i) = ByteStart(lines, i)
  BY StartsStay
<1>4. more[Len(lines) + 1] = l /\ ByteStart(more, Len(lines) + 1) = ByteStart(lines, Len(lines) + 1)
  BY StartsStay
<1>5. OffsetsOf(lines, t) = Entries(lines, at) /\ OffsetsOf(more, t) = Entries(more, atMore)
  BY DEF OffsetsOf
<1> HIDE DEF at, atMore, more
<1>6. Entries(more, at) = Entries(lines, at)
  BY <1>1, <1>3
<1>7. ASSUME l \in OfTrace(t)
      PROVE  Entries(more, Append(at, Len(lines) + 1))
               = Append(Entries(lines, at), <<l.event, ByteStart(lines, Len(lines) + 1)>>)
  <2> DEFINE longer == Append(at, Len(lines) + 1)
             e == <<l.event, ByteStart(lines, Len(lines) + 1)>>
  <2>1. /\ Len(longer) = Len(at) + 1 /\ longer[Len(at) + 1] = Len(lines) + 1 /\ Len(at) \in Nat
        /\ \A k \in 1 .. Len(at) : longer[k] = at[k]
    BY <1>1
  <2> HIDE DEF longer
  <2>2. Entries(more, longer)[Len(at) + 1] = e
    BY <1>4, <2>1
  <2>3. \A k \in 1 .. Len(at) : Entries(more, longer)[k] = Entries(lines, at)[k]
    BY <1>1, <1>3, <2>1
  <2>4. /\ Entries(lines, at) \in Seq(AuditEvents \X Nat)
        /\ Entries(more, longer) \in Seq(AuditEvents \X Nat) /\ e \in AuditEvents \X Nat
    <3>n. /\ \A i \in 1 .. Len(lines) + 1 : ByteStart(more, i) \in Nat
          /\ \A i \in 1 .. Len(lines) : ByteStart(lines, i) \in Nat
      BY <1>1, StartsAtNumber
    <3>e. /\ \A i \in 1 .. Len(lines) + 1 : more[i].event \in AuditEvents
          /\ \A i \in 1 .. Len(lines) : lines[i].event \in AuditEvents
      <4>1. \A i \in 1 .. Len(lines) : lines[i] \in Lines /\ more[i] = lines[i]
        BY <1>3
      <4>2. \A i \in 1 .. Len(lines) + 1 : i \in 1 .. Len(lines) \/ more[i] = l
        BY <1>1, <1>4
      <4> QED BY <4>1, <4>2 DEF Lines
    <3>1. \A i \in 1 .. Len(lines) + 1 : <<more[i].event, ByteStart(more, i)>> \in AuditEvents \X Nat
      BY <3>n, <3>e
    <3>2. \A i \in 1 .. Len(lines) : <<lines[i].event, ByteStart(lines, i)>> \in AuditEvents \X Nat
      BY <3>n, <3>e
    <3>3. \A k \in 1 .. Len(at) : at[k] \in 1 .. Len(lines)
      BY <1>1
    <3>4. \A k \in 1 .. Len(longer) : longer[k] \in 1 .. Len(lines) + 1
      BY <1>1, <2>1, <3>3
    <3>5. Len(longer) \in Nat /\ e \in AuditEvents \X Nat
      BY <1>1, <2>1, StartsAtNumber DEF Lines
    <3> QED BY SMTT(30), <2>1, <3>1, <3>2, <3>3, <3>4, <3>5
  <2>5. Len(Entries(more, longer)) = Len(at) + 1 /\ Len(Entries(lines, at)) = Len(at)
    BY <2>1
  <2> DEFINE new == Entries(more, longer)
             old == Entries(lines, at)
  <2>6. /\ new \in Seq(AuditEvents \X Nat) /\ old \in Seq(AuditEvents \X Nat)
        /\ e \in AuditEvents \X Nat /\ Len(new) = Len(old) + 1 /\ new[Len(old) + 1] = e
        /\ \A k \in 1 .. Len(old) : new[k] = old[k]
    BY <2>2, <2>3, <2>4, <2>5
  <2> HIDE DEF new, old, e
  <2>7. new = Append(old, e)
    BY <2>6, IsAppend
  <2> QED BY <2>7 DEF longer, new, old, e
<1> QED BY <1>2, <1>5, <1>6, <1>7 DEF more
-----------------------------------------------------------------------------
(* Without wide lines the scan is right.                                   *)
LEMMA ScanIsIndex ==
    ASSUME NEW lines \in Seq(Lines), \A l \in ToSet(lines) : ~l.wide
    PROVE  Scan(lines) = IndexOf(lines)
<1>1. \A j \in 1 .. Len(lines) : ~lines[j].wide
  BY DEF ToSet
<1>2. ASSUME NEW i \in 1 .. Len(lines) PROVE ByteStart(lines, i) = i - 1
  <2>1. WideBefore(lines, i) = {}
    BY <1>1 DEF WideBefore
  <2> QED BY <2>1, WideCount, FS_EmptySet
<1>3. ASSUME NEW t \in TraceIds PROVE Scan(lines)[t] = OffsetsOf(lines, t)
  <2> DEFINE at == PlacesIn(lines, OfTrace(t))
             scanned == [k \in 1 .. Len(at) |-> <<lines[at[k]].event, at[k] - 1>>]
             right == [k \in 1 .. Len(at) |-> <<lines[at[k]].event, ByteStart(lines, at[k])>>]
  <2>1. Scan(lines)[t] = scanned /\ OffsetsOf(lines, t) = right
    BY DEF Scan, OffsetsOf
  <2>2. \A k \in 1 .. Len(at) : at[k] \in 1 .. Len(lines)
    BY PlacesFacts
  <2> HIDE DEF at
  <2>3. scanned = right
    BY <1>2, <2>2
  <2> QED BY <2>1, <2>3
<1> QED BY <1>3 DEF Scan, IndexOf

(* The lines of a file that begin at one of its beginnings.                *)
LEMMA OneLineAt ==
    ASSUME file \in Seq(Lines), NEW i \in 1 .. Len(file)
    PROVE  LinesAt(ByteStart(file, i)) = {i}
<1>1. ASSUME NEW j \in 1 .. Len(file), ByteStart(file, j) = ByteStart(file, i) PROVE j = i
  <2>1. i \in Nat \ {0} /\ j \in Nat \ {0}
    OBVIOUS
  <2>2. ByteStart(file, i) \in Nat /\ ByteStart(file, j) \in Nat
    BY <2>1, StartsAtNumber
  <2>3. ~(i < j) /\ ~(j < i)
    BY <1>1, <2>1, <2>2, StartsGrow
  <2> QED BY <2>1, <2>3
<1> QED BY <1>1 DEF LinesAt

(* An answer of an index that is right about a trace.                      *)
LEMMA RightAnswer ==
    ASSUME file \in Seq(Lines), NEW t \in TraceIds, index[t] = OffsetsOf(file, t)
    PROVE  Trace(t) = Indexed(file, t) /\ ~TraceRaises(t)
<1> DEFINE at == PlacesIn(file, OfTrace(t))
           n == Len(at)
<1>1. /\ at \in Seq(1 .. Len(file)) /\ Indexed(file, t) = [k \in 1 .. n |-> file[at[k]]]
  BY PlacesFacts DEF Indexed
<1>2. index[t] = [k \in 1 .. n |-> <<file[at[k]].event, ByteStart(file, at[k])>>]
  BY DEF OffsetsOf
<1> HIDE DEF at
<1>3. n \in Nat /\ \A k \in 1 .. n : at[k] \in 1 .. Len(file)
  BY <1>1
<1>4. Len(index[t]) = n /\ \A k \in 1 .. n : index[t][k][2] = ByteStart(file, at[k])
  BY <1>2, <1>3
<1>5. \A k \in 1 .. n : LinesAt(index[t][k][2]) = {at[k]}
  BY <1>3, <1>4, OneLineAt
<1>6. index[t] \in Seq(AuditEvents \X Nat)
  <2>1. \A k \in 1 .. n : ByteStart(file, at[k]) \in Nat /\ file[at[k]].event \in AuditEvents
    <3> TAKE k \in 1 .. n
    <3>1. at[k] \in 1 .. Len(file) /\ at[k] \in Nat \ {0}
      BY <1>3
    <3>2. file[at[k]] \in Lines
      BY <3>1
    <3> QED BY <3>1, <3>2, StartsAtNumber DEF Lines
  <2> QED BY <1>2, <1>3, <2>1
<1>7. Found(t) = index[t]
  <2> DEFINE S == {x \in ToSet(index[t]) : LinesAt(x[2]) # {}}
  <2>1. \A k \in 1 .. Len(index[t]) : index[t][k] \in S
    <3>1. \A k \in 1 .. Len(index[t]) : index[t][k] \in ToSet(index[t])
      BY DEF ToSet
    <3> QED BY <1>4, <1>5, <3>1
  <2> HIDE DEF S
  <2>2. Selected(index[t], S) = index[t]
    BY <1>6, <2>1, SelectedAll
  <2> QED BY <2>2 DEF Found, S
<1>8. \A k \in 1 .. n : file[CHOOSE i \in LinesAt(Found(t)[k][2]) : TRUE] = file[at[k]]
  BY <1>5, <1>7
<1> HIDE DEF n
<1>9. [k \in 1 .. n |-> file[CHOOSE i \in LinesAt(Found(t)[k][2]) : TRUE]]
        = [k \in 1 .. n |-> file[at[k]]]
  BY <1>8
<1>10. \A k \in 1 .. n : ~Inside(index[t][k][2])
  BY <1>5 DEF Inside
<1> QED BY <1>1, <1>4, <1>7, <1>9, <1>10 DEF n, Trace, TraceRaises
-----------------------------------------------------------------------------

(* The log is empty and its index right.                                   *)
LEMMA AuditStarts ==
    ASSUME AuditInit
    PROVE  AuditInv
<1>1. /\ file = <<>> /\ file \in Seq(Lines) /\ held = <<>> /\ held \in Seq(Lines)
      /\ \A w \in Writers : writing[w] = Resting
  BY DEF AuditInit
<1>2. RightFor(file)
  <2>1. Scan(<<>>) = IndexOf(<<>>)
    <3>1. <<>> \in Seq(Lines) /\ ToSet(<<>>) = {}
      BY DEF ToSet
    <3> QED BY <3>1, ScanIsIndex
  <2>2. Scan(<<>>) = [t \in TraceIds |-> <<>>]
    <3>1. \A t \in TraceIds : PlacesIn(<<>>, OfTrace(t)) = <<>>
      <4> TAKE t \in TraceIds
      <4> DEFINE s == <<>>
                 at == PlacesIn(s, OfTrace(t))
      <4>1. s \in Seq(Lines) /\ Len(s) = 0
        OBVIOUS
      <4> HIDE DEF s
      <4>2. at \in Seq(1 .. Len(s))
        BY <4>1, PlacesFacts
      <4> HIDE DEF at
      <4>3. at = <<>>
        BY <4>1, <4>2
      <4> QED BY <4>3 DEF at, s
    <3> QED BY <3>1 DEF Scan
  <2> QED BY <1>1, <2>1, <2>2 DEF AuditInit, RightFor, IndexOf
<1>3. Calm
  BY <1>1, <1>2 DEF Calm, Writing, Resting
<1>4. WritingType /\ HeldIsSpoilt
  BY <1>1 DEF AuditInit, WritingType, HeldIsSpoilt
<1>5. DOMAIN index = TraceIds /\ index = [t \in TraceIds |-> index[t]]
  BY DEF AuditInit
<1> QED BY <1>1, <1>3, <1>4, <1>5 DEF AuditInv

(* A line of a spoilt trace changes no offsets of the others.              *)
LEMMA SpoiltLine ==
    ASSUME NEW lines \in Seq(Lines), NEW l \in Lines, l.trace \in spoilt, RightFor(lines)
    PROVE  RightFor(Append(lines, l))
<1> SUFFICES ASSUME NEW t \in TraceIds \ spoilt PROVE index[t] = OffsetsOf(Append(lines, l), t)
  BY DEF RightFor
<1>1. l \notin OfTrace(t)
  BY DEF OfTrace
<1> QED BY <1>1, OffsetsAppend DEF RightFor

(* A writer that takes the size of the file has its line's offset.         *)
LEMMA TakeOffsetKeeps ==
    ASSUME AuditInv, NEW w \in Writers, TakeOffset(w)
    PROVE  AuditInv'
<1>1. UNCHANGED <<file, held, index>> /\ file \in Seq(Lines) /\ FileEnd \in Nat
  BY StartsAtNumber DEF TakeOffset, AuditInv, FileEnd
<1>2. PICK line \in Lines, offset \in {0} \cup (IF held = <<>> THEN {FileEnd} ELSE {}) :
        /\ writing' = [writing EXCEPT
                         ![w] = [at |-> "log", line |-> line, offset |-> offset]]
        /\ IF held = <<>> /\ offset = FileEnd THEN UNCHANGED spoilt ELSE Spoils(line.trace)
  BY DEF TakeOffset
<1>3. offset \in Nat /\ spoilt \subseteq spoilt'
      /\ (line.trace \notin spoilt' => held = <<>> /\ offset = FileEnd)
  BY <1>1, <1>2 DEF Spoils
<1> DEFINE new == [at |-> "log", line |-> line, offset |-> offset]
<1>4. WritingType' /\ writing'[w] = new /\ \A x \in Writers \ {w} : writing'[x] = writing[x]
  BY <1>2, <1>3 DEF AuditInv, WritingType
<1>5. HeldIsSpoilt'
  BY <1>1, <1>3 DEF AuditInv, HeldIsSpoilt
<1>6. ASSUME interfered' = {} PROVE Calm'
  <2>1. Calm /\ \A x \in Writers : ~Writing(x)
    BY <1>6 DEF TakeOffset, AuditInv, Writing
  <2>2. RightFor(file)'
    BY <1>1, <1>3, <2>1 DEF Calm, RightFor
  <2>3. \A x \in Writers \ {w} : writing'[x] = Resting
    BY <1>4, <2>1 DEF Writing
  <2>4. new.at = "log" /\ new.line = line /\ new.offset = offset /\ new # Resting
    BY DEF Resting
  <2>5. \A x \in Writers : Writing(x)' => x = w
    BY <2>3 DEF Writing
  <2>6. \A x \in Writers : writing'[x].at \in {"log", "register"} => x = w
    BY <2>3 DEF Resting
  <2>7. Writing(w)'
    BY <1>4, <2>4 DEF Writing
  <2>8. Sound(w)' => held' = <<>> /\ writing'[w].offset = FileEnd'
    BY <1>1, <1>3, <1>4, <2>4 DEF Sound, FileEnd
  <2> HIDE DEF new
  <2> QED BY <1>4, <2>2, <2>4, <2>5, <2>6, <2>7, <2>8 DEF Calm
<1> QED BY <1>1, <1>4, <1>5, <1>6 DEF AuditInv

(* What is common to the steps of a writer that has its line logged.       *)
LEMMA LogsFacts ==
    ASSUME AuditInv, NEW w \in Writers, Logs(w)
    PROVE  /\ writing[w].at = "log" /\ writing[w].line \in Lines
           /\ writing'[w] = [at |-> "register", line |-> writing[w].line,
                             offset |-> writing[w].offset]
           /\ \A x \in Writers \ {w} : writing'[x] = writing[x]
           /\ WritingType'
           /\ Calm => /\ \A x \in Writers : Writing(x)' => x = w
                      /\ \A x \in Writers : writing'[x].at \in {"log", "register"} => x = w
                      /\ Writing(w)'
<1>1. /\ writing[w] \in [at : {"log", "register"}, line : Lines, offset : Nat]
      /\ writing[w].at = "log" /\ writing' = [writing EXCEPT ![w].at = "register"]
      /\ WritingType
  BY DEF Logs, AuditInv, WritingType, Resting
<1>2. /\ writing'[w] = [at |-> "register", line |-> writing[w].line, offset |-> writing[w].offset]
      /\ \A x \in Writers \ {w} : writing'[x] = writing[x]
      /\ WritingType'
  BY <1>1 DEF WritingType
<1>3. ASSUME Calm
      PROVE  /\ \A x \in Writers : Writing(x)' => x = w
             /\ \A x \in Writers : writing'[x].at \in {"log", "register"} => x = w
             /\ Writing(w)'
  <2>1. \A x \in Writers \ {w} : writing'[x] = Resting
    BY <1>1, <1>2, <1>3 DEF Calm, Writing, Resting
  <2> QED BY <1>2, <2>1 DEF Writing, Resting
<1> QED BY <1>1, <1>2, <1>3

(* A line that is written begins at the offset taken before, if nobody     *)
(* wrote in between.                                                       *)
LEMMA LogLineKeeps ==
    ASSUME AuditInv, NEW w \in Writers, LogLine(w)
    PROVE  AuditInv'
<1> DEFINE line == writing[w].line
<1>1. Logs(w) /\ file \in Seq(Lines)
  BY DEF LogLine, AuditInv
<1>2. /\ held = <<>> /\ UNCHANGED <<held, spoilt>>
      /\ file' = Append(IF Full THEN <<>> ELSE file, line)
      /\ index' = IF Full THEN Scan(<<>>) ELSE index
      /\ interfered' = interfered \cup (IF Full THEN {"rollover"} ELSE {})
  BY DEF LogLine
<1>3. /\ writing[w].at = "log" /\ line \in Lines
      /\ writing'[w] = [at |-> "register", line |-> line, offset |-> writing[w].offset]
      /\ WritingType'
      /\ Calm => /\ \A x \in Writers : Writing(x)' => x = w
                 /\ \A x \in Writers : writing'[x].at \in {"log", "register"} => x = w
                 /\ Writing(w)'
  BY <1>1, LogsFacts
<1>4. file' \in Seq(Lines)
  BY <1>1, <1>2, <1>3
<1>5. ASSUME interfered' = {} PROVE Calm'
  <2>1. Calm /\ ~Full
    BY <1>2, <1>5 DEF AuditInv
  <2>2. file' = Append(file, line) /\ index' = index
    BY <1>2, <2>1
  <2>3. RightFor(file) /\ (Sound(w) => writing[w].offset = FileEnd)
    BY <1>3, <2>1 DEF Calm
  <2>4. /\ writing'[w].at = "register" /\ writing'[w].line = line
        /\ writing'[w].offset = writing[w].offset
    BY <1>3
  <2>5. Sound(w)' <=> Sound(w)
    BY <1>2, <2>4 DEF Sound
  <2>6. ASSUME ~Sound(w)' PROVE RightFor(file)'
    <3>1. RightFor(Append(file, line))
      BY <1>1, <1>3, <2>3, <2>5, <2>6, SpoiltLine DEF Sound
    <3> QED BY <1>2, <2>2, <3>1 DEF RightFor
  <2>7. ASSUME Sound(w)'
        PROVE  \E before \in Seq(Lines) :
                  /\ file' = Append(before, writing'[w].line)
                  /\ RightFor(before)'
                  /\ writing'[w].offset = ByteStart(before, Len(before) + 1)
    <3>1. PICK before \in Seq(Lines) : before = file
      BY <1>1
    <3>2. \A t \in TraceIds \ spoilt' : index'[t] = OffsetsOf(before, t)
      BY <1>2, <2>2, <2>3, <3>1 DEF RightFor
    <3>3. RightFor(before)'
      BY <3>2 DEF RightFor
    <3>4. writing'[w].offset = ByteStart(before, Len(before) + 1)
      BY <2>3, <2>4, <2>5, <2>7, <3>1 DEF FileEnd
    <3> QED BY <2>2, <2>4, <3>1, <3>3, <3>4
  <2> HIDE DEF line
  <2> QED BY <1>2, <1>3, <2>1, <2>4, <2>6, <2>7 DEF Calm
<1>6. HeldIsSpoilt'
  BY <1>2 DEF AuditInv, HeldIsSpoilt
<1>7. DOMAIN index' = TraceIds /\ index' = [t \in TraceIds |-> index'[t]]
  BY <1>2 DEF AuditInv, Scan
<1> HIDE DEF line
<1> QED BY <1>2, <1>3, <1>4, <1>5, <1>6, <1>7 DEF AuditInv

(* A line the disk refuses spoils its own trace only.                      *)
LEMMA LogLostKeeps ==
    ASSUME AuditInv, NEW w \in Writers, LogLost(w)
    PROVE  AuditInv'
<1> DEFINE line == writing[w].line
<1>1. /\ Logs(w) /\ file \in Seq(Lines) /\ held \in Seq(Lines) /\ UNCHANGED index
      /\ spoilt' = spoilt \cup {line.trace}
  BY DEF LogLost, AuditInv, Spoils
<1>2. /\ writing[w].at = "log" /\ line \in Lines
      /\ writing'[w] = [at |-> "register", line |-> line, offset |-> writing[w].offset]
      /\ WritingType'
      /\ Calm => /\ \A x \in Writers : Writing(x)' => x = w
                 /\ \A x \in Writers : writing'[x].at \in {"log", "register"} => x = w
                 /\ Writing(w)'
  BY <1>1, LogsFacts
<1>3. /\ held' = Append(held, line) \/ held' = held \/ held' = <<>>
      /\ file' = file \/ file' = <<>>
      /\ interfered' = {} => interfered = {} /\ file' = file
  BY DEF LogLost
<1>4. file' \in Seq(Lines) /\ held' \in Seq(Lines)
  <2>1. <<>> \in Seq(Lines) /\ Append(held, line) \in Seq(Lines)
    BY <1>1, <1>2
  <2> HIDE DEF line
  <2> QED BY <1>1, <1>3, <2>1
<1>5. HeldIsSpoilt'
  <2>1. \A i \in 1 .. Len(held) : held[i].trace \in spoilt'
    BY <1>1 DEF AuditInv, HeldIsSpoilt
  <2>2. CASE held' = Append(held, line)
    <3>1. \A i \in 1 .. Len(held') : (i \in 1 .. Len(held) /\ held'[i] = held[i]) \/ held'[i] = line
      BY <1>1, <1>2, <2>2
    <3> QED BY <1>1, <2>1, <3>1 DEF HeldIsSpoilt
  <2> QED BY <1>3, <2>1, <2>2 DEF HeldIsSpoilt
<1>6. ASSUME interfered' = {} PROVE Calm'
  <2>1. Calm /\ file' = file
    BY <1>3, <1>6 DEF AuditInv
  <2>2. RightFor(file)'
    BY <1>1, <1>2, <2>1 DEF Calm, RightFor
  <2>3. writing'[w].at = "register" /\ ~Sound(w)'
    BY <1>1, <1>2 DEF Sound
  <2> HIDE DEF line
  <2> QED BY <1>2, <2>1, <2>2, <2>3 DEF Calm
<1> HIDE DEF line
<1> QED BY <1>1, <1>2, <1>4, <1>5, <1>6 DEF AuditInv

(* Lines that come late are of spoilt traces.                              *)
LEMMA FlushLateKeeps ==
    ASSUME AuditInv, FlushLate
    PROVE  AuditInv'
<1>1. /\ held # <<>> /\ file' = Append(file, Head(held)) /\ held' = Tail(held)
      /\ UNCHANGED <<index, writing, interfered, spoilt>>
      /\ file \in Seq(Lines) /\ held \in Seq(Lines) /\ HeldIsSpoilt
  BY DEF FlushLate, AuditInv
<1>2. Head(held) \in Lines /\ Head(held).trace \in spoilt
  BY <1>1 DEF HeldIsSpoilt
<1>3. file' \in Seq(Lines) /\ held' \in Seq(Lines)
  BY <1>1, <1>2
<1>4. HeldIsSpoilt'
  <2>1. \A i \in 1 .. Len(held') : i + 1 \in 1 .. Len(held) /\ held'[i] = held[i + 1]
    BY <1>1
  <2> QED BY <1>1, <2>1 DEF HeldIsSpoilt
<1>5. RightFor(file) => RightFor(file)'
  BY <1>1, <1>2, SpoiltLine DEF RightFor
<1>6. Calm => Calm'
  <2> SUFFICES ASSUME Calm PROVE Calm'
    OBVIOUS
  <2>1. \A w \in Writers : writing[w].at \in {"log", "register"} => ~Sound(w) /\ RightFor(file)
    BY <1>1 DEF Calm
  <2>2. \A w \in Writers : (Sound(w)' <=> Sound(w)) /\ (Writing(w)' <=> Writing(w))
    BY <1>1 DEF Sound, Writing
  <2> QED BY <1>1, <1>5, <2>1, <2>2 DEF Calm
<1> QED BY <1>1, <1>3, <1>4, <1>6 DEF AuditInv, WritingType

(* A line refused for a missing field: nothing of it is left.              *)
LEMMA LogFailsKeeps ==
    ASSUME AuditInv, NEW w \in Writers, LogFails(w)
    PROVE  AuditInv'
<1>1. /\ writing[w].at = "log" /\ writing' = [writing EXCEPT ![w] = Resting]
      /\ UNCHANGED <<file, held, index, interfered, spoilt>>
  BY DEF LogFails
<1>2. /\ writing'[w] = Resting /\ \A x \in Writers \ {w} : writing'[x] = writing[x]
      /\ WritingType'
  BY <1>1 DEF AuditInv, WritingType
<1>3. ASSUME Calm PROVE Calm'
  <2>1. RightFor(file)'
    BY <1>1, <1>3 DEF Calm, RightFor
  <2>2. \A x \in Writers : writing'[x] = Resting
    BY <1>1, <1>2, <1>3 DEF Calm, Writing, Resting
  <2> QED BY <2>1, <2>2 DEF Calm, Writing, Resting
<1> QED BY <1>1, <1>2, <1>3 DEF AuditInv, HeldIsSpoilt

(* The offset that is registered is right if nobody wrote in between, or   *)
(* it is one of a spoilt trace.                                            *)
LEMMA AppendIndexKeeps ==
    ASSUME AuditInv, NEW w \in Writers, AppendIndex(w)
    PROVE  AuditInv'
<1> DEFINE l == writing[w].line
<1>1. /\ writing[w].at = "register" /\ writing' = [writing EXCEPT ![w] = Resting]
      /\ UNCHANGED <<file, held, interfered, spoilt>>
      /\ index' = IF l.event \in ReplayEvents
                  THEN [index EXCEPT ![l.trace] = Append(@, <<l.event, writing[w].offset>>)]
                  ELSE index
  BY DEF AppendIndex
<1>2. /\ writing'[w] = Resting /\ \A x \in Writers \ {w} : writing'[x] = writing[x]
      /\ WritingType' /\ l \in Lines /\ l.trace \in TraceIds
  BY <1>1 DEF AuditInv, WritingType, Resting, Lines
<1> HIDE DEF l
<1>3. /\ DOMAIN index' = TraceIds /\ index' = [t \in TraceIds |-> index'[t]]
      /\ \A t \in TraceIds : index'[t] =
            IF l.event \in ReplayEvents /\ t = l.trace
            THEN Append(index[t], <<l.event, writing[w].offset>>) ELSE index[t]
  BY <1>1, <1>2 DEF AuditInv
<1>4. ASSUME Calm PROVE Calm'
  <2>1. \A x \in Writers : writing'[x] = Resting
    BY <1>1, <1>2, <1>4 DEF Calm, Writing, Resting
  <2>2. RightFor(file)'
    <3>1. CASE ~Sound(w)
      <4>1. RightFor(file) /\ l.trace \in spoilt
        BY <1>1, <1>4, <3>1 DEF Calm, Sound, l
      <4> QED BY <1>1, <1>3, <4>1 DEF RightFor
    <3>2. CASE Sound(w)
      <4>1. PICK before \in Seq(Lines) :
               /\ file = Append(before, l)
               /\ RightFor(before)
               /\ writing[w].offset = ByteStart(before, Len(before) + 1)
        BY <1>1, <1>4, <3>2 DEF Calm, l
      <4> DEFINE e == <<l.event, ByteStart(before, Len(before) + 1)>>
      <4>2. \A t \in TraceIds : OffsetsOf(file, t) =
               IF l \in OfTrace(t) THEN Append(OffsetsOf(before, t), e) ELSE OffsetsOf(before, t)
        BY <1>2, <4>1, OffsetsAppend
      <4>3. \A t \in TraceIds : l \in OfTrace(t) <=> l.event \in ReplayEvents /\ t = l.trace
        BY <1>2 DEF OfTrace
      <4>4. \A t \in TraceIds \ spoilt : index[t] = OffsetsOf(before, t)
        BY <4>1 DEF RightFor
      <4>5. \A t \in TraceIds : index'[t] =
               IF l.event \in ReplayEvents /\ t = l.trace THEN Append(index[t], e) ELSE index[t]
        BY <1>3, <4>1
      <4> HIDE DEF e
      <4>6. \A t \in TraceIds \ spoilt : index'[t] = OffsetsOf(file, t)
        BY <4>2, <4>3, <4>4, <4>5
      <4> QED BY <1>1, <4>6 DEF RightFor
    <3> QED BY <3>1, <3>2
  <2> QED BY <2>1, <2>2 DEF Calm, Writing, Resting
<1> QED BY <1>1, <1>2, <1>3, <1>4 DEF AuditInv, HeldIsSpoilt

(* A scan of the file makes the index right, of spoilt traces too.         *)
LEMMA RebuildKeeps ==
    ASSUME AuditInv, RebuildIndex
    PROVE  AuditInv'
<1>1. /\ index' = Scan(file) /\ UNCHANGED <<file, held, writing>>
      /\ spoilt' = IF held = <<>> THEN {} ELSE spoilt
  BY DEF RebuildIndex
<1>2. ASSUME interfered' = {} PROVE Calm'
  <2>1. (\A w \in Writers : writing[w] = Resting) /\ \A l \in ToSet(file) : ~l.wide
    BY <1>2 DEF RebuildIndex
  <2>2. index' = IndexOf(file)
    BY <1>1, <2>1, ScanIsIndex DEF AuditInv
  <2>3. RightFor(file)'
    BY <1>1, <2>2 DEF RightFor, IndexOf
  <2> QED BY <1>1, <2>1, <2>3 DEF Calm, Writing, Resting
<1>3. HeldIsSpoilt'
  BY <1>1 DEF AuditInv, HeldIsSpoilt
<1>4. DOMAIN index' = TraceIds /\ index' = [t \in TraceIds |-> index'[t]]
  BY <1>1 DEF Scan
<1> QED BY <1>1, <1>2, <1>3, <1>4 DEF AuditInv, WritingType

(* As long as no two writes overlapped, the file was not rolled over and   *)
(* no rebuild met a wide line, the index holds for each trace without a    *)
(* disk error the offsets of its lines but for the one being written.      *)
THEOREM AuditInductive == AuditSpec => []AuditInv
<1>1. AuditInit => AuditInv
  BY AuditStarts
<1>2. AuditInv /\ [AuditNext]_auditVars => AuditInv'
  <2> SUFFICES ASSUME AuditInv, [AuditNext]_auditVars PROVE AuditInv'
    OBVIOUS
  <2>1. CASE UNCHANGED auditVars
    BY <2>1 DEF auditVars, AuditInv, Calm, Writing, WritingType, HeldIsSpoilt, RightFor, Sound,
                FileEnd
  <2> QED BY <2>1, TakeOffsetKeeps, LogLineKeeps, LogLostKeeps, LogFailsKeeps, FlushLateKeeps,
            AppendIndexKeeps, RebuildKeeps DEF AuditNext
<1> QED BY <1>1, <1>2, PTL DEF AuditSpec

(* The trace route answers with the lines of its own trace, in order, as   *)
(* long as no two writes overlapped, the file was not rolled over, no      *)
(* rebuild met a line with wide characters and no line of that trace met a *)
(* disk error since the last rebuild; what becomes of the lines of other   *)
(* traces does not matter (audit.py:57-85, audit_index.py:60-122), for any *)
(* number of writers, traces and lines.                                    *)
THEOREM TraceAnswers == AuditSpec => []TraceAnswersItsOwn
<1>1. AuditInv => TraceAnswersItsOwn
  <2> SUFFICES ASSUME AuditInv, NEW t \in TraceIds, Undisturbed(t)
               PROVE  Trace(t) = Indexed(file, t) /\ ~TraceRaises(t)
    BY DEF TraceAnswersItsOwn
  <2>1. index[t] = OffsetsOf(file, t) /\ file \in Seq(Lines)
    BY DEF AuditInv, Undisturbed, Calm, Writing, RightFor
  <2> QED BY <2>1, RightAnswer
<1> QED BY <1>1, AuditInductive, PTL
-----------------------------------------------------------------------------
(***************************************************************************)
(* Proofs about RateLimit: two windows that follow one another admit at    *)
(* most twice the limit, and any stretch as long as a window one less.     *)
(*                                                                         *)
(* The history of the admissions is a curve over the ticks: how many up to *)
(* each of them. The bucket of a peer says how much the curve rose since   *)
(* its window began, and a window opens with one hit.                      *)
(***************************************************************************)

(* The curve of the admissions up to each tick, at the tick now.           *)
Curve(T, now) ==
    /\ T \in [Int -> Nat]
    /\ \A n \in Int : n < 0 => T[n] = 0
    /\ \A n \in Int : n >= now => T[n] = T[now]
    /\ \A m, n \in Int : m <= n => T[m] <= T[n]

(* Of a window that began at s and has counted c: how many the curve shows *)
(* since then, how many at most in the stretch before it, and that nothing *)
(* is admitted under it once it has elapsed.                               *)
Windowed(T, now, s, c) ==
    /\ s \in 0 .. now /\ c \in 1 .. MaxRequests
    /\ T[now] - T[s - 1] = c
    /\ T[s] >= T[s - 1] + 1
    /\ \A f \in s - WindowTicks + 1 .. s : T[s - 1] - T[f - 1] <= MaxRequests - 1
    /\ \A n \in Int : n >= s + WindowTicks - 1 => T[n] = T[now]

Within(T) ==
    \A f \in Nat : T[f + WindowTicks - 1] - T[f - 1] <= 2 * MaxRequests - 1

OneMore(T, now) == [n \in Int |-> IF n >= now THEN T[n] + 1 ELSE T[n]]

(* One more admission at the present tick is a curve again.                *)
LEMMA OneMoreCurve ==
    ASSUME NEW now \in Nat, NEW T, Curve(T, now)
    PROVE  Curve(OneMore(T, now), now)
BY DEF Curve, OneMore

(* So is the same curve at the next tick.                                  *)
LEMMA LaterCurve ==
    ASSUME NEW now \in Nat, NEW T, Curve(T, now)
    PROVE  Curve(T, now + 1)
BY DEF Curve

(* A window that is right stays right when time passes.                    *)
LEMMA LaterWindow ==
    ASSUME NEW now \in Nat, NEW T, Curve(T, now), NEW s, NEW c, Windowed(T, now, s, c)
    PROVE  Windowed(T, now + 1, s, c)
<1>1. T[now + 1] = T[now] /\ s \in 0 .. now + 1
  BY DEF Curve, Windowed
<1> QED BY <1>1 DEF Windowed

(* A request more within the window.                                       *)
LEMMA AdmitWithin ==
    ASSUME NEW now \in Nat, NEW T, Curve(T, now), NEW s, NEW c, Windowed(T, now, s, c),
           Within(T), now - s < WindowTicks, c < MaxRequests
    PROVE  /\ Windowed(OneMore(T, now), now, s, c + 1)
           /\ Within(OneMore(T, now))
<1> DEFINE U == OneMore(T, now)
<1>0. s \in 0 .. now /\ c \in 1 .. MaxRequests /\ now \in Int /\ s \in Int
  BY DEF Windowed
<1>1. U \in [Int -> Nat] /\ \A n \in Int : U[n] = IF n >= now THEN T[n] + 1 ELSE T[n]
  BY DEF OneMore, Curve
<1>w. WindowTicks \in Nat \ {0} /\ MaxRequests \in Nat \ {0}
  BY RateAssumption
<1>t. \A n \in Int : T[n] \in Nat
  BY DEF Curve
<1> HIDE DEF U
<1>2. U[now] = T[now] + 1 /\ U[s - 1] = T[s - 1]
  BY <1>0, <1>1
<1>3. U[s] >= U[s - 1] + 1
  BY <1>0, <1>1, <1>2, <1>t DEF Windowed
<1>4. \A f \in s - WindowTicks + 1 .. s : U[s - 1] - U[f - 1] <= MaxRequests - 1
  <2> TAKE f \in s - WindowTicks + 1 .. s
  <2>1. U[f - 1] = T[f - 1]
    BY <1>0, <1>1, <1>w
  <2>2. T[s - 1] - T[f - 1] <= MaxRequests - 1
    BY DEF Windowed
  <2> QED BY <1>2, <2>1, <2>2
<1>5. \A n \in Int : n >= s + WindowTicks - 1 => U[n] = U[now]
  <2> TAKE n \in Int
  <2>1. n >= s + WindowTicks - 1 => n >= now /\ T[n] = T[now]
    BY <1>0, <1>w DEF Windowed
  <2> QED BY <1>1, <1>2, <2>1
<1>6. Windowed(U, now, s, c + 1)
  <2>1. T[now] - T[s - 1] = c
    BY DEF Windowed
  <2>2. U[now] - U[s - 1] = c + 1
    BY <1>0, <1>2, <1>t, <2>1
  <2>3. c + 1 \in 1 .. MaxRequests
    BY <1>0, <1>w
  <2> QED BY <1>0, <1>3, <1>4, <1>5, <2>2, <2>3 DEF Windowed
<1>7. Within(U)
  <2> SUFFICES ASSUME NEW f \in Nat
               PROVE  U[f + WindowTicks - 1] - U[f - 1] <= 2 * MaxRequests - 1
    BY DEF Within
  <2> DEFINE to == f + WindowTicks - 1
  <2>0. to \in Nat /\ f - 1 \in Int /\ f - 1 < to
    BY <1>w
  <2>1. CASE to < now \/ f - 1 >= now
    <3>1. U[to] - U[f - 1] = T[to] - T[f - 1]
      BY <1>1, <1>t, <2>0, <2>1
    <3> QED BY <3>1 DEF Within
  <2>2. CASE to >= now /\ f - 1 < now
    <3>1. U[to] = T[now] + 1 /\ U[f - 1] = T[f - 1]
      BY <1>1, <2>0, <2>2 DEF Curve
    <3>2. T[now] - T[s - 1] = c
      BY DEF Windowed
    <3>3. CASE f - 1 >= s
      <4>1. T[f - 1] >= T[s - 1]
        BY <1>0, <2>0, <3>3 DEF Curve
      <4>2. T[s - 1] \in Nat /\ T[f - 1] \in Nat /\ T[now] \in Nat
        BY <1>0, <1>t, <2>0
      <4> HIDE DEF to
      <4>3. U[to] - U[f - 1] <= 2 * MaxRequests - 1
        BY <1>0, <1>w, <3>1, <3>2, <4>1, <4>2
      <4> QED BY <4>3 DEF to
    <3>4. CASE f <= s
      <4>1. f \in s - WindowTicks + 1 .. s
        BY <1>0, <1>w, <2>2, <3>4
      <4>2. T[s - 1] - T[f - 1] <= MaxRequests - 1
        BY <4>1 DEF Windowed
      <4>3. T[s - 1] \in Nat /\ T[f - 1] \in Nat /\ T[now] \in Nat
        BY <1>0, <1>t, <2>0
      <4> HIDE DEF to
      <4>4. U[to] - U[f - 1] <= 2 * MaxRequests - 1
        BY <1>0, <1>w, <3>1, <3>2, <4>2, <4>3
      <4> QED BY <4>4 DEF to
    <3> QED BY <1>0, <3>3, <3>4
  <2> QED BY <2>0, <2>1, <2>2
<1> QED BY <1>6, <1>7 DEF U

(* A request that opens a window after another, or the first one.          *)
LEMMA AdmitFirst ==
    ASSUME NEW now \in Nat, NEW T, Curve(T, now), Within(T), T[now] = T[now - 1],
           \A f \in now - WindowTicks + 1 .. now : T[now - 1] - T[f - 1] <= MaxRequests - 1
    PROVE  /\ Windowed(OneMore(T, now), now, now, 1)
           /\ Within(OneMore(T, now))
<1> DEFINE U == OneMore(T, now)
<1>1. U \in [Int -> Nat] /\ \A n \in Int : U[n] = IF n >= now THEN T[n] + 1 ELSE T[n]
  BY DEF OneMore, Curve
<1>w. WindowTicks \in Nat \ {0} /\ MaxRequests \in Nat \ {0}
  BY RateAssumption
<1>t. \A n \in Int : T[n] \in Nat
  BY DEF Curve
<1> HIDE DEF U
<1>2. U[now] = T[now] + 1 /\ U[now - 1] = T[now - 1]
  BY <1>1
<1>3. \A f \in now - WindowTicks + 1 .. now : U[now - 1] - U[f - 1] <= MaxRequests - 1
  <2> TAKE f \in now - WindowTicks + 1 .. now
  <2>1. U[f - 1] = T[f - 1]
    BY <1>1, <1>w
  <2> QED BY <1>2, <2>1
<1>4. \A n \in Int : n >= now + WindowTicks - 1 => U[n] = U[now]
  <2> TAKE n \in Int
  <2>1. n >= now + WindowTicks - 1 => n >= now /\ T[n] = T[now]
    BY <1>w DEF Curve
  <2> QED BY <1>1, <1>2, <2>1
<1>5. Windowed(U, now, now, 1)
  <2>1. now \in 0 .. now /\ 1 \in 1 .. MaxRequests /\ T[now] \in Nat
    BY <1>w, <1>t
  <2>2. U[now] - U[now - 1] = 1 /\ U[now] >= U[now - 1] + 1
    BY <1>2, <2>1
  <2> QED BY <1>3, <1>4, <2>1, <2>2 DEF Windowed
<1>6. Within(U)
  <2> SUFFICES ASSUME NEW f \in Nat
               PROVE  U[f + WindowTicks - 1] - U[f - 1] <= 2 * MaxRequests - 1
    BY DEF Within
  <2> DEFINE to == f + WindowTicks - 1
  <2>0. to \in Nat /\ f - 1 \in Int /\ f - 1 < to
    BY <1>w
  <2>1. CASE to < now \/ f - 1 >= now
    <3>1. U[to] - U[f - 1] = T[to] - T[f - 1]
      BY <1>1, <1>t, <2>0, <2>1
    <3> QED BY <3>1 DEF Within
  <2>2. CASE to >= now /\ f - 1 < now
    <3>1. U[to] = T[now] + 1 /\ U[f - 1] = T[f - 1]
      BY <1>1, <2>0, <2>2 DEF Curve
    <3>2. f \in now - WindowTicks + 1 .. now
      BY <1>w, <2>0, <2>2
    <3>3. T[now - 1] - T[f - 1] <= MaxRequests - 1
      BY <3>2
    <3>4. T[now - 1] \in Nat /\ T[f - 1] \in Nat /\ T[now] \in Nat
      BY <1>t, <2>0
    <3> HIDE DEF to
    <3>5. U[to] - U[f - 1] <= 2 * MaxRequests - 1
      BY <1>w, <3>1, <3>3, <3>4
    <3> QED BY <3>5 DEF to
  <2> QED BY <2>0, <2>1, <2>2
<1> QED BY <1>5, <1>6 DEF U

(* What follows of a window that has elapsed.                              *)
LEMMA Elapse ==
    ASSUME NEW now \in Nat, NEW T, Curve(T, now), NEW s, NEW c, Windowed(T, now, s, c),
           now - s >= WindowTicks
    PROVE  /\ T[now] = T[now - 1]
           /\ \A f \in now - WindowTicks + 1 .. now : T[now - 1] - T[f - 1] <= MaxRequests - 1
<1>0. s \in 0 .. now /\ c \in 1 .. MaxRequests /\ \A n \in Int : T[n] \in Nat
  BY DEF Windowed, Curve
<1>w. WindowTicks \in Nat \ {0} /\ MaxRequests \in Nat \ {0}
  BY RateAssumption
<1>1. T[now] = T[now - 1]
  <2>1. now - 1 \in Int /\ now - 1 >= s + WindowTicks - 1
    BY <1>0, <1>w
  <2> QED BY <2>1 DEF Windowed
<1>2. ASSUME NEW f \in now - WindowTicks + 1 .. now
      PROVE  T[now - 1] - T[f - 1] <= MaxRequests - 1
  <2>1. f - 1 \in Int /\ s \in Int /\ s <= f - 1
    BY <1>0, <1>w
  <2>2. T[s] <= T[f - 1]
    BY <2>1 DEF Curve
  <2>3. T[now] - T[s - 1] = c /\ T[s] >= T[s - 1] + 1
    BY DEF Windowed
  <2>4. T[now] \in Nat /\ T[s] \in Nat /\ T[s - 1] \in Nat /\ T[f - 1] \in Nat
    BY <1>0, <2>1
  <2> QED BY <1>0, <1>1, <1>w, <2>2, <2>3, <2>4
<1> QED BY <1>1, <1>2
-----------------------------------------------------------------------------
(* The table.                                                              *)
RateBucket == [peer : Peers, start : 0 .. LastTick, count : 1 .. MaxRequests]

Table == ToSet(buckets)

OnePerPeer(S) == \A x, y \in S : x.peer = y.peer => x = y

Admissions == [n \in Int |-> AdmittedBy(n)]

(* With one bucket for a peer, a look-up finds each bucket of the table.   *)
LEMMA TableFacts ==
    ASSUME buckets \in Seq(RateBucket), OnePerPeer(Table)
    PROVE  /\ Tabled = {b.peer : b \in Table} /\ Table \subseteq RateBucket
           /\ \A b \in Table : BucketOf(b.peer) = b
<1>1. Tabled = {b.peer : b \in Table} /\ Table \subseteq RateBucket
  BY DEF Tabled, Table, ToSet
<1>2. ASSUME NEW b \in Table PROVE BucketOf(b.peer) = b
  BY DEF BucketOf, Table, OnePerPeer
<1> QED BY <1>1, <1>2

(* A new bucket joins the table.                                           *)
LEMMA AppendTable ==
    ASSUME NEW q \in Seq(RateBucket), NEW b \in RateBucket
    PROVE  Append(q, b) \in Seq(RateBucket) /\ ToSet(Append(q, b)) = ToSet(q) \cup {b}
<1> DEFINE r == Append(q, b)
<1>1. /\ r \in Seq(RateBucket) /\ Len(r) = Len(q) + 1 /\ r[Len(q) + 1] = b /\ Len(q) \in Nat
      /\ \A i \in 1 .. Len(q) : r[i] = q[i]
  OBVIOUS
<1>d. ToSet(r) = {r[i] : i \in 1 .. Len(r)} /\ ToSet(q) = {q[i] : i \in 1 .. Len(q)}
  BY DEF ToSet
<1> HIDE DEF r
<1>2. ASSUME NEW x \in ToSet(r) PROVE x \in ToSet(q) \cup {b}
  <2>1. PICK i \in 1 .. Len(q) + 1 : x = r[i]
    BY <1>1, <1>d
  <2> QED BY <1>1, <1>d, <2>1
<1>3. ASSUME NEW x \in ToSet(q) \cup {b} PROVE x \in ToSet(r)
  <2>1. CASE x = b
    <3>1. Len(q) + 1 \in 1 .. Len(r)
      BY <1>1
    <3> QED BY <1>1, <1>d, <2>1, <3>1
  <2>2. CASE x \in ToSet(q)
    <3>1. PICK i \in 1 .. Len(q) : x = q[i]
      BY <1>d, <2>2
    <3>2. i \in 1 .. Len(r)
      BY <1>1
    <3> QED BY <1>1, <1>d, <3>1, <3>2
  <2> QED BY <2>1, <2>2
<1> QED BY <1>1, <1>2, <1>3 DEF r

(* A bucket that is used again replaces the one of its peer.               *)
LEMMA PromotedTable ==
    ASSUME buckets \in Seq(RateBucket), NEW p, NEW b \in RateBucket
    PROVE  /\ Promoted(p, b) \in Seq(RateBucket)
           /\ ToSet(Promoted(p, b)) = {x \in Table : x.peer # p} \cup {b}
<1> DEFINE S == {x \in ToSet(buckets) : x.peer # p}
           q == Selected(buckets, S)
<1>1. IsSelection(q, buckets, S, RateBucket)
  <2> HIDE DEF S
  <2> QED BY SelectedFacts
<1>2. q \in Seq(RateBucket) /\ ToSet(q) = S
  <2> HIDE DEF q
  <2>1. ToSet(q) = {q[i] : i \in 1 .. Len(q)} /\ ToSet(buckets) = {buckets[i] : i \in 1 .. Len(buckets)}
    BY DEF ToSet
  <2>2. ToSet(q) \subseteq S
    BY <1>1, <2>1 DEF IsSelection
  <2>3. S \subseteq ToSet(q)
    BY <1>1, <2>1 DEF IsSelection
  <2> QED BY <1>1, <2>2, <2>3 DEF IsSelection
<1>3. Promoted(p, b) = Append(q, b)
  BY DEF Promoted
<1> HIDE DEF q
<1> QED BY <1>2, <1>3, AppendTable DEF Table

(* A trim adds nothing.                                                    *)
LEMMA TrimmedTable ==
    ASSUME NEW q \in Seq(RateBucket)
    PROVE  LruTrim(q) \in Seq(RateBucket) /\ ToSet(LruTrim(q)) \subseteq ToSet(q)
<1> DEFINE from == IF Len(q) > TableCapacity THEN Len(q) - TableCapacity + 1 ELSE 1
<1>1. from \in 1 .. Len(q) + 1 /\ Len(q) \in Nat
  BY RateAssumption
<1>2. LruTrim(q) = SubSeq(q, from, Len(q))
  BY DEF LruTrim
<1> HIDE DEF from
<1>3. /\ SubSeq(q, from, Len(q)) \in Seq(RateBucket)
      /\ \A i \in 1 .. Len(SubSeq(q, from, Len(q))) :
            SubSeq(q, from, Len(q))[i] = q[from + i - 1] /\ from + i - 1 \in 1 .. Len(q)
  BY <1>1
<1> QED BY <1>2, <1>3 DEF ToSet
-----------------------------------------------------------------------------
(* The curve.                                                              *)
LEMMA AdmittedMore ==
    ASSUME tick \in 0 .. LastTick, admitted \in [0 .. LastTick -> Nat],
           admitted' = [n \in 0 .. LastTick |-> IF n >= tick THEN admitted[n] + 1 ELSE admitted[n]]
    PROVE  Admissions' = OneMore(Admissions, tick) /\ admitted' \in [0 .. LastTick -> Nat]
<1>1. LastTick \in Nat /\ admitted' \in [0 .. LastTick -> Nat]
  BY RateAssumption
<1>2. ASSUME NEW n \in Int
      PROVE  AdmittedBy(n)' = IF n >= tick THEN AdmittedBy(n) + 1 ELSE AdmittedBy(n)
  <2>1. CASE n < 0
    BY <2>1 DEF AdmittedBy
  <2>2. CASE n > LastTick
    <3>1. LastTick \in 0 .. LastTick /\ n >= tick /\ ~(n < 0) /\ LastTick >= tick
      BY <1>1, <2>2
    <3>2. AdmittedBy(n) = admitted[LastTick] /\ AdmittedBy(n)' = admitted'[LastTick]
      BY <2>2, <3>1 DEF AdmittedBy
    <3> QED BY <3>1, <3>2
  <2>3. CASE n \in 0 .. LastTick
    <3>1. AdmittedBy(n) = admitted[n] /\ AdmittedBy(n)' = admitted'[n]
      BY <1>1, <2>3 DEF AdmittedBy
    <3>2. admitted'[n] = IF n >= tick THEN admitted[n] + 1 ELSE admitted[n]
      BY <2>3
    <3> QED BY <3>1, <3>2
  <2> QED BY <1>1, <2>1, <2>2, <2>3
<1>3. Admissions' = [n \in Int |-> AdmittedBy(n)']
  BY DEF Admissions
<1>4. \A n \in Int : Admissions[n] = AdmittedBy(n)
  BY DEF Admissions
<1> QED BY <1>1, <1>2, <1>3, <1>4 DEF OneMore

(* The curve is the same if nothing was admitted.                          *)
LEMMA SameAdmitted ==
    ASSUME admitted' = admitted
    PROVE  Admissions' = Admissions
BY DEF Admissions, AdmittedBy
-----------------------------------------------------------------------------
(* The steps.                                                              *)

(* Where Watched stands, in a table that holds the buckets S.              *)
Stands(S, T, now) ==
    \/ (\A b \in S : b.peer # Watched) /\ T[now] = 0
    \/ \E b \in S : b.peer = Watched /\ Windowed(T, now, b.start, b.count)

RateInv ==
    /\ tick \in 0 .. LastTick /\ tick \in Nat
    /\ buckets \in Seq(RateBucket) /\ OnePerPeer(Table)
    /\ trimmed \in BOOLEAN
    /\ admitted \in [0 .. LastTick -> Nat]
    /\ Curve(Admissions, tick) /\ Within(Admissions)
    /\ ~trimmed => Stands(Table, Admissions, tick)

(* A hit that is not counted: another peer's, or after a trim.             *)
LEMMA NotCounted ==
    ASSUME RateInv, UNCHANGED <<tick, admitted>>, trimmed' \in BOOLEAN,
           buckets' \in Seq(RateBucket), OnePerPeer(Table'),
           ~trimmed' => ~trimmed /\ \A b \in RateBucket :
                            b.peer = Watched => (b \in Table' <=> b \in Table)
    PROVE  RateInv'
<1>1. Admissions' = Admissions
  BY SameAdmitted
<1>2. Table \subseteq RateBucket /\ Table' \subseteq RateBucket
  BY DEF RateInv, Table, ToSet
<1>3. ASSUME ~trimmed' PROVE Stands(Table', Admissions, tick)
  <2>1. Stands(Table, Admissions, tick)
    BY <1>3 DEF RateInv
  <2> QED BY <1>2, <1>3, <2>1 DEF Stands
<1> QED BY <1>1, <1>3 DEF RateInv

(* A hit of Watched that is counted.                                       *)
LEMMA Counted ==
    ASSUME RateInv, ~trimmed, Admit(Watched), UNCHANGED tick, trimmed' \in BOOLEAN,
           buckets' \in Seq(RateBucket), OnePerPeer(Table'),
           Within(OneMore(Admissions, tick)),
           ~trimmed' => \E b \in Table' : /\ b.peer = Watched
                                          /\ Windowed(OneMore(Admissions, tick), tick, b.start, b.count)
    PROVE  RateInv'
<1>1. admitted' = [n \in 0 .. LastTick |-> IF n >= tick THEN admitted[n] + 1 ELSE admitted[n]]
  BY DEF Admit
<1>2. Admissions' = OneMore(Admissions, tick) /\ admitted' \in [0 .. LastTick -> Nat]
  BY <1>1, AdmittedMore DEF RateInv
<1>3. Curve(OneMore(Admissions, tick), tick)
  BY OneMoreCurve DEF RateInv
<1>4. ~trimmed' => Stands(Table', OneMore(Admissions, tick), tick)
  BY DEF Stands
<1> QED BY <1>2, <1>3, <1>4 DEF RateInv

(* The first hit of a peer opens a window.                                 *)
LEMMA HitNewKeeps ==
    ASSUME RateInv, NEW p \in Peers, HitNew(p)
    PROVE  RateInv'
<1> DEFINE b == Bucket(p, tick, 1)
<1>1. b \in RateBucket /\ b.peer = p /\ b.start = tick /\ b.count = 1
  BY RateAssumption DEF Bucket, RateBucket, RateInv
<1>2. buckets' = Append(buckets, b) /\ UNCHANGED <<tick, trimmed>> /\ Admit(p) /\ p \notin Tabled
  BY DEF HitNew
<1> HIDE DEF b
<1>3. buckets' \in Seq(RateBucket) /\ Table' = Table \cup {b}
  BY <1>1, <1>2, AppendTable DEF RateInv, Table
<1>4. \A x \in Table : x.peer # p
  BY <1>2, TableFacts DEF RateInv
<1>5. OnePerPeer(Table')
  BY <1>1, <1>3, <1>4 DEF OnePerPeer, RateInv
<1>6. CASE p = Watched /\ ~trimmed
  <2>1. Admissions[tick] = 0
    BY <1>4, <1>6 DEF RateInv, Stands
  <2>2. \A n \in Int : n <= tick => Admissions[n] = 0
    BY <2>1 DEF RateInv, Curve
  <2>3. /\ Admissions[tick] = Admissions[tick - 1]
        /\ \A f \in tick - WindowTicks + 1 .. tick :
              Admissions[tick - 1] - Admissions[f - 1] <= MaxRequests - 1
    <3>1. tick \in Int /\ WindowTicks \in Nat /\ MaxRequests \in Nat \ {0}
      BY RateAssumption DEF RateInv
    <3>2. Admissions[tick - 1] = 0
      BY <2>2, <3>1
    <3>3. \A f \in tick - WindowTicks + 1 .. tick : Admissions[f - 1] = 0
      BY <2>2, <3>1
    <3> QED BY <2>1, <3>1, <3>2, <3>3
  <2>4. /\ Windowed(OneMore(Admissions, tick), tick, tick, 1)
        /\ Within(OneMore(Admissions, tick))
    BY <2>3, AdmitFirst DEF RateInv
  <2>5. b \in Table' /\ b.peer = Watched
    BY <1>1, <1>3, <1>6
  <2> QED BY <1>1, <1>2, <1>3, <1>5, <1>6, <2>4, <2>5, Counted DEF RateInv
<1>7. CASE ~(p = Watched /\ ~trimmed)
  <2>1. admitted' = admitted
    BY <1>2, <1>7 DEF Admit
  <2>2. ~trimmed => \A x \in RateBucket : x.peer = Watched => (x \in Table' <=> x \in Table)
    BY <1>1, <1>3, <1>7
  <2> QED BY <1>2, <1>3, <1>5, <2>1, <2>2, NotCounted DEF RateInv
<1> QED BY <1>6, <1>7

(* The bucket of a peer in the table.                                      *)
LEMMA BucketFacts ==
    ASSUME RateInv, NEW p \in Tabled
    PROVE  /\ BucketOf(p) \in Table /\ BucketOf(p) \in RateBucket /\ BucketOf(p).peer = p
           /\ \A b \in Table : b.peer = p => b = BucketOf(p)
BY TableFacts DEF RateInv

(* The watched peer's bucket is right about the admissions.                *)
LEMMA WatchedWindow ==
    ASSUME RateInv, Watched \in Tabled, ~trimmed
    PROVE  Windowed(Admissions, tick, BucketOf(Watched).start, BucketOf(Watched).count)
BY BucketFacts DEF RateInv, Stands

(* The hit after a window's end opens the next one.                        *)
LEMMA HitExpiredKeeps ==
    ASSUME RateInv, NEW p \in Peers, HitExpired(p)
    PROVE  RateInv'
<1> DEFINE b == Bucket(p, tick, 1)
<1>1. b \in RateBucket /\ b.peer = p /\ b.start = tick /\ b.count = 1
  BY RateAssumption DEF Bucket, RateBucket, RateInv
<1>2. buckets' = Promoted(p, b) /\ UNCHANGED <<tick, trimmed>> /\ Admit(p) /\ p \in Tabled /\ Elapsed(p)
  BY DEF HitExpired
<1> HIDE DEF b
<1>3. buckets' \in Seq(RateBucket) /\ Table' = {x \in Table : x.peer # p} \cup {b}
  BY <1>1, <1>2, PromotedTable DEF RateInv, Table
<1>5. OnePerPeer(Table')
  BY <1>1, <1>3 DEF OnePerPeer, RateInv
<1>6. CASE p = Watched /\ ~trimmed
  <2> DEFINE old == BucketOf(Watched)
  <2>1. Windowed(Admissions, tick, old.start, old.count) /\ tick - old.start >= WindowTicks
    BY <1>2, <1>6, WatchedWindow DEF Elapsed
  <2> HIDE DEF old
  <2>2. /\ Windowed(OneMore(Admissions, tick), tick, tick, 1)
        /\ Within(OneMore(Admissions, tick))
    BY <2>1, Elapse, AdmitFirst DEF RateInv
  <2>3. b \in Table' /\ b.peer = Watched
    BY <1>1, <1>3, <1>6
  <2> QED BY <1>1, <1>2, <1>3, <1>5, <1>6, <2>2, <2>3, Counted DEF RateInv
<1>7. CASE ~(p = Watched /\ ~trimmed)
  <2>1. admitted' = admitted
    BY <1>2, <1>7 DEF Admit
  <2>2. ~trimmed => \A x \in RateBucket : x.peer = Watched => (x \in Table' <=> x \in Table)
    BY <1>1, <1>3, <1>7
  <2> QED BY <1>2, <1>3, <1>5, <2>1, <2>2, NotCounted DEF RateInv
<1> QED BY <1>6, <1>7

(* A refused hit is not admitted.                                          *)
LEMMA HitOverKeeps ==
    ASSUME RateInv, NEW p \in Peers, HitOver(p)
    PROVE  RateInv'
<1>1. buckets' = Promoted(p, BucketOf(p)) /\ UNCHANGED <<tick, admitted, trimmed>> /\ p \in Tabled
  BY DEF HitOver
<1>2. /\ BucketOf(p) \in Table /\ BucketOf(p) \in RateBucket /\ BucketOf(p).peer = p
      /\ \A b \in Table : b.peer = p => b = BucketOf(p)
  BY <1>1, BucketFacts
<1>3. /\ buckets' \in Seq(RateBucket)
      /\ Table' = {x \in Table : x.peer # p} \cup {BucketOf(p)}
  BY <1>1, <1>2, PromotedTable DEF RateInv, Table
<1>4. Table' = Table
  BY <1>2, <1>3
<1> QED BY <1>1, <1>3, <1>4, NotCounted DEF RateInv

(* An admitted hit is counted in the window.                               *)
LEMMA HitWithinKeeps ==
    ASSUME RateInv, NEW p \in Peers, HitWithin(p)
    PROVE  RateInv'
<1> DEFINE old == BucketOf(p)
           b == [old EXCEPT !.count = @ + 1]
<1>1. /\ p \in Tabled /\ ~Elapsed(p) /\ old.count < MaxRequests
      /\ buckets' = LruTrim(Promoted(p, b))
      /\ trimmed' = (trimmed \/ Watched \in Tabled \ {x.peer : x \in ToSet(buckets')})
      /\ Admit(p) /\ UNCHANGED tick
  BY DEF HitWithin
<1>2. /\ old \in Table /\ old \in RateBucket /\ old.peer = p
      /\ \A x \in Table : x.peer = p => x = old
  BY <1>1, BucketFacts
<1>3. b \in RateBucket /\ b.peer = p /\ b.start = old.start /\ b.count = old.count + 1
  BY <1>1, <1>2, RateAssumption DEF RateBucket
<1> HIDE DEF b
<1>4. buckets' \in Seq(RateBucket) /\ Table' \subseteq {x \in Table : x.peer # p} \cup {b}
  BY <1>1, <1>3, PromotedTable, TrimmedTable DEF RateInv, Table
<1>5. OnePerPeer(Table')
  BY <1>3, <1>4 DEF OnePerPeer, RateInv
<1>6. trimmed' \in BOOLEAN
  BY <1>1
<1>7. ~trimmed' => ~trimmed /\ (Watched \in Tabled => \E x \in Table' : x.peer = Watched)
  <2>1. {x.peer : x \in ToSet(buckets')} = {x.peer : x \in Table'}
    BY DEF Table
  <2> QED BY <1>1, <2>1
<1>8. CASE p = Watched /\ ~trimmed
  <2>1. /\ Windowed(Admissions, tick, old.start, old.count)
        /\ ~(tick - old.start >= WindowTicks)
    BY <1>1, <1>8, WatchedWindow DEF Elapsed
  <2>2. tick - old.start < WindowTicks
    BY <1>2, <2>1, RateAssumption DEF RateInv, RateBucket
  <2>3. /\ Windowed(OneMore(Admissions, tick), tick, b.start, b.count)
        /\ Within(OneMore(Admissions, tick))
    <3> HIDE DEF old
    <3> QED BY <1>1, <1>3, <2>1, <2>2, AdmitWithin DEF RateInv
  <2>4. ~trimmed' => b \in Table' /\ b.peer = Watched
    <3>1. \A x \in Table' : x.peer = Watched => x = b
      BY <1>4, <1>8
    <3> QED BY <1>1, <1>3, <1>7, <1>8, <3>1
  <2>5. ~trimmed' => \E x \in Table' : /\ x.peer = Watched
                                       /\ Windowed(OneMore(Admissions, tick), tick, x.start, x.count)
    BY <2>3, <2>4
  <2> QED BY <1>1, <1>4, <1>5, <1>6, <1>8, <2>3, <2>5, Counted
<1>9. CASE ~(p = Watched /\ ~trimmed)
  <2>1. admitted' = admitted
    BY <1>1, <1>9 DEF Admit
  <2>2. ASSUME ~trimmed', NEW x \in RateBucket, x.peer = Watched
        PROVE  x \in Table' <=> x \in Table
    <3>1. p # Watched
      BY <1>7, <1>9, <2>2
    <3>2. x \in Table' => x \in Table
      BY <1>3, <1>4, <2>2, <3>1
    <3>3. ASSUME x \in Table PROVE x \in Table'
      <4>1. Watched \in Tabled
        BY <2>2, <3>3, TableFacts DEF RateInv
      <4>2. PICK y \in Table' : y.peer = Watched
        BY <1>7, <2>2, <4>1
      <4>3. y \in Table
        BY <1>3, <1>4, <3>1, <4>2
      <4> QED BY <2>2, <3>3, <4>2, <4>3 DEF RateInv, OnePerPeer
    <3> QED BY <3>2, <3>3
  <2> QED BY <1>1, <1>4, <1>5, <1>6, <1>7, <2>1, <2>2, NotCounted
<1> QED BY <1>8, <1>9

(* Time passes.                                                            *)
LEMMA TimeKeeps ==
    ASSUME RateInv, TimePasses
    PROVE  RateInv'
<1>1. /\ tick' = tick + 1 /\ tick' \in 0 .. LastTick /\ UNCHANGED <<buckets, admitted, trimmed>>
      /\ tick \in Nat
  BY RateAssumption DEF TimePasses, RateInv
<1>2. Admissions' = Admissions /\ Table' = Table
  BY <1>1, SameAdmitted DEF Table
<1>3. Curve(Admissions, tick + 1)
  BY <1>1, LaterCurve DEF RateInv
<1>4. Stands(Table, Admissions, tick) => Stands(Table, Admissions, tick + 1)
  <2>1. Admissions[tick + 1] = Admissions[tick]
    BY <1>1 DEF RateInv, Curve
  <2> QED BY <1>1, <2>1, LaterWindow DEF Stands, RateInv
<1> QED BY <1>1, <1>2, <1>3, <1>4 DEF RateInv

(* While nothing was trimmed, the watched peer's bucket tells what was     *)
(* admitted since its window began, and every stretch so far is within the *)
(* bound.                                                                  *)
THEOREM RateInductive == RateSpec => []RateInv
<1>1. RateInit => RateInv
  <2> SUFFICES ASSUME RateInit PROVE RateInv
    OBVIOUS
  <2>1. LastTick \in Nat /\ MaxRequests \in Nat \ {0} /\ WindowTicks \in Nat \ {0}
    BY RateAssumption
  <2>2. /\ tick = 0 /\ buckets = <<>> /\ trimmed = FALSE /\ tick \in 0 .. LastTick
        /\ admitted \in [0 .. LastTick -> Nat] /\ \A n \in 0 .. LastTick : admitted[n] = 0
    BY <2>1 DEF RateInit
  <2>3. Table = {}
    BY <2>2 DEF Table, ToSet
  <2>4. Admissions \in [Int -> Nat] /\ \A n \in Int : Admissions[n] = 0
    <3>1. \A n \in Int : AdmittedBy(n) = 0
      BY <2>1, <2>2 DEF AdmittedBy
    <3> QED BY <3>1 DEF Admissions
  <2>5. Curve(Admissions, tick) /\ Within(Admissions)
    <3> HIDE DEF Admissions
    <3>1. \A f \in Nat : f + WindowTicks - 1 \in Int /\ f - 1 \in Int
      BY <2>1
    <3> QED BY <2>1, <2>2, <2>4, <3>1 DEF Curve, Within
  <2>6. Stands(Table, Admissions, tick)
    BY <2>2, <2>3, <2>4 DEF Stands
  <2>7. OnePerPeer(Table) /\ buckets \in Seq(RateBucket) /\ tick \in Nat /\ trimmed \in BOOLEAN
    <3>1. OnePerPeer(Table)
      BY <2>3 DEF OnePerPeer
    <3>2. buckets \in Seq(RateBucket) /\ tick \in Nat
      BY <2>2
    <3>3. trimmed \in BOOLEAN
      BY <2>2
    <3> QED BY <3>1, <3>2, <3>3
  <2> QED BY <2>2, <2>5, <2>6, <2>7 DEF RateInv
<1>2. RateInv /\ [RateNext]_rateVars => RateInv'
  <2> SUFFICES ASSUME RateInv, [RateNext]_rateVars PROVE RateInv'
    OBVIOUS
  <2>1. ASSUME UNCHANGED <<tick, buckets, admitted, trimmed>> PROVE RateInv'
    BY <2>1, NotCounted DEF RateInv, Table
  <2>2. CASE \E p \in Peers : TellRetryAfter(p)
    BY <2>1, <2>2 DEF TellRetryAfter
  <2>3. CASE UNCHANGED rateVars
    BY <2>1, <2>3 DEF rateVars
  <2> QED BY <2>2, <2>3, HitNewKeeps, HitExpiredKeeps, HitOverKeeps, HitWithinKeeps, TimeKeeps
          DEF RateNext
<1> QED BY <1>1, <1>2, PTL DEF RateSpec

(* The most a peer that is never dropped from the table gets through in a  *)
(* stretch as long as the window is one request short of two windows       *)
(* (rate_limit.py:101-127), for any limit, window, table size and number   *)
(* of peers.                                                               *)
THEOREM TwoWindows == RateSpec => []AtMostTwoWindows
<1>1. RateInv => AtMostTwoWindows
  <2> SUFFICES ASSUME RateInv, NEW from \in 0 .. LastTick
               PROVE  AdmittedBy(from + WindowTicks - 1) - AdmittedBy(from - 1) <= 2 * MaxRequests - 1
    BY DEF AtMostTwoWindows
  <2>1. from \in Nat /\ from + WindowTicks - 1 \in Int /\ from - 1 \in Int
    BY RateAssumption
  <2>2. /\ Admissions[from + WindowTicks - 1] = AdmittedBy(from + WindowTicks - 1)
        /\ Admissions[from - 1] = AdmittedBy(from - 1)
    BY <2>1 DEF Admissions
  <2>3. Admissions[from + WindowTicks - 1] - Admissions[from - 1] <= 2 * MaxRequests - 1
    BY <2>1 DEF RateInv, Within
  <2> QED BY <2>2, <2>3
<1> QED BY <1>1, RateInductive, PTL
=============================================================================
