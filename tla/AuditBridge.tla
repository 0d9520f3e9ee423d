---------------------------- MODULE AuditBridge ----------------------------
(***************************************************************************)
(* AuditEventBridge, observability/audit_bridge.py: the queue between the  *)
(* processes that emit audit events and the drain thread of the main       *)
(* process, and how stop() empties it beside that thread.                  *)
(*                                                                         *)
(* from_addr makes a worker's bridge with manager.Queue(...): a new queue  *)
(* in the manager, which nobody reads, and not the queue of the main       *)
(* process.  The events a worker puts are in `stranded'.                   *)
(***************************************************************************)
EXTENDS Naturals, Sequences, FiniteSets, SequencesExt

CONSTANTS BridgeEvents,     \* events put by the main process
          WorkerEvents,     \* events put by the workers
          QueueMax          \* maxsize, 10000

ASSUME BridgeAssumption ==
    /\ QueueMax \in Nat \ {0}
    /\ BridgeEvents \cap WorkerEvents = {}

VARIABLES
    bridged,    \* "none", "running", "failed" (the service does not start)
    attempt,    \* of the two that start the manager
    manager,    \* its process is alive
    queue,      \* the queue of the main process
    stranded,   \* the queue of the workers' bridges
    drain,      \* "off", "check", "getting", "writing", "exited"
    drainHeld,  \* the event the drain thread has taken, if any
    stopping,   \* stop(): "no", "draining", "writing", "joining", "done"
    stopHeld,   \* the event it has taken, if any
    accepted,   \* history: the events queued, in order
    consumed,   \* history: the events given to the writer, in order
    unwritten,  \* the events the writer raised for
    dropped     \* the events put() counted as dropped

queues  == <<queue, stranded, accepted, dropped>>
readers == <<drain, drainHeld, stopping, stopHeld, consumed, unwritten>>
bridgeVars == <<bridged, attempt, manager, queues, readers>>

AllEvents == BridgeEvents \cup WorkerEvents

BridgeTypeOK ==
    /\ bridged \in {"none", "running", "failed"}
    /\ attempt \in 1 .. 2
    /\ manager \in BOOLEAN
    /\ queue \in Seq(BridgeEvents) /\ stranded \in Seq(WorkerEvents)
    /\ drain \in {"off", "check", "getting", "writing", "exited"}
    /\ stopping \in {"no", "draining", "writing", "joining", "done"}
    /\ drainHeld \in Seq(BridgeEvents) /\ stopHeld \in Seq(BridgeEvents)
    /\ accepted \in Seq(BridgeEvents) /\ consumed \in Seq(BridgeEvents)
    /\ unwritten \subseteq BridgeEvents
    /\ dropped \subseteq AllEvents

BridgeInit ==
    /\ bridged = "none" /\ attempt = 1 /\ manager = FALSE
    /\ queue = <<>> /\ stranded = <<>> /\ accepted = <<>> /\ dropped = {}
    /\ drain = "off" /\ drainHeld = <<>>
    /\ stopping = "no" /\ stopHeld = <<>>
    /\ consumed = <<>> /\ unwritten = {}
-----------------------------------------------------------------------------
(* The lifespan (main.py): a second try, then the service does not start.  *)
StartBridge ==
    /\ bridged = "none"
    /\ \/ /\ bridged' = "running" /\ manager' = TRUE /\ drain' = "check"
          /\ UNCHANGED attempt
       \/ /\ attempt = 1 /\ attempt' = 2 /\ UNCHANGED <<bridged, manager, drain>>
       \/ /\ attempt = 2 /\ bridged' = "failed"
          /\ UNCHANGED <<attempt, manager, drain>>
    /\ UNCHANGED <<queues, drainHeld, stopping, stopHeld, consumed, unwritten>>

ManagerDies ==
    /\ bridged = "running" /\ manager
    /\ manager' = FALSE
    /\ UNCHANGED <<bridged, attempt, queues, readers>>

Seen == ToSet(accepted) \cup ToSet(stranded) \cup dropped

(* put: a full queue, a payload that cannot be sent, a dead manager: drop. *)
Drop(e) ==
    /\ dropped' = dropped \cup {e}
    /\ UNCHANGED <<queue, stranded, accepted>>

BridgePut(e) ==
    /\ bridged = "running" /\ e \notin Seen
    /\ \/ /\ manager /\ Len(queue) < QueueMax
          /\ queue' = Append(queue, e)
          /\ accepted' = Append(accepted, e)
          /\ UNCHANGED <<stranded, dropped>>
       \/ Drop(e)
    /\ UNCHANGED <<bridged, attempt, manager, readers>>

WorkerPut(e) ==
    /\ bridged = "running" /\ e \notin Seen
    /\ \/ /\ manager /\ Len(stranded) < QueueMax
          /\ stranded' = Append(stranded, e)
          /\ UNCHANGED <<queue, accepted, dropped>>
       \/ Drop(e)
    /\ UNCHANGED <<bridged, attempt, manager, readers>>
-----------------------------------------------------------------------------
(* The drain thread                                                        *)

DrainStep(from, to) == drain = from /\ drain' = to

(* It leaves as soon as stop is set, whatever the queue holds.             *)
DrainCheck ==
    /\ DrainStep("check", IF stopping = "no" THEN "getting" ELSE "exited")
    /\ UNCHANGED <<bridged, attempt, manager, queues, drainHeld, stopping,
                   stopHeld, consumed, unwritten>>

DrainGet ==
    /\ DrainStep("getting", "writing")
    /\ manager /\ queue # <<>>
    /\ drainHeld' = <<Head(queue)>>
    /\ queue' = Tail(queue)
    /\ UNCHANGED <<bridged, attempt, manager, stranded, accepted, dropped,
                   stopping, stopHeld, consumed, unwritten>>

(* Half a second without an event, or the manager gone.                    *)
DrainNothing ==
    /\ \/ queue = <<>> /\ manager /\ DrainStep("getting", "check")
       \/ ~manager /\ DrainStep("getting", "exited")
    /\ UNCHANGED <<bridged, attempt, manager, queues, drainHeld, stopping,
                   stopHeld, consumed, unwritten>>

(* writer.write, and the exception it may raise, which is only logged.     *)
Written(held) ==
    /\ consumed' = consumed \o held
    /\ \/ unwritten' = unwritten
       \/ unwritten' = unwritten \cup {held[1]}

DrainWrite ==
    /\ DrainStep("writing", "check")
    /\ Written(drainHeld)
    /\ drainHeld' = <<>>
    /\ UNCHANGED <<bridged, attempt, manager, queues, stopping, stopHeld>>
-----------------------------------------------------------------------------
(* stop()                                                                  *)

StopStep(from, to) == stopping = from /\ stopping' = to

Stop ==
    /\ bridged = "running"
    /\ StopStep("no", "draining")
    /\ UNCHANGED <<bridged, attempt, manager, queues, drain, drainHeld,
                   stopHeld, consumed, unwritten>>

(* Faulty: looks at the first event and leaves it to the thread.           *)
StopGet_Peeks ==
    /\ StopStep("draining", "writing")
    /\ manager /\ queue # <<>>
    /\ stopHeld' = <<Head(queue)>>
    /\ UNCHANGED <<bridged, attempt, manager, queues, drain, drainHeld,
                   consumed, unwritten>>

StopGet ==
    /\ StopStep("draining", "writing")
    /\ manager /\ queue # <<>>
    /\ stopHeld' = <<Head(queue)>>
    /\ queue' = Tail(queue)
    /\ UNCHANGED <<bridged, attempt, manager, stranded, accepted, dropped,
                   drain, drainHeld, consumed, unwritten>>

StopWrite ==
    /\ StopStep("writing", "draining")
    /\ Written(stopHeld)
    /\ stopHeld' = <<>>
    /\ UNCHANGED <<bridged, attempt, manager, queues, drain, drainHeld>>

(* The queue is empty, the manager gone, or the grace over.                *)
StopDrained ==
    /\ StopStep("draining", "joining")
    /\ UNCHANGED <<bridged, attempt, manager, queues, drain, drainHeld,
                   stopHeld, consumed, unwritten>>

(* join(timeout=1.0), after which the thread is left alone.                *)
StopJoined ==
    /\ StopStep("joining", "done")
    /\ UNCHANGED <<bridged, attempt, manager, queues, drain, drainHeld,
                   stopHeld, consumed, unwritten>>

BridgeNext ==
    \/ StartBridge \/ ManagerDies
    \/ \E e \in BridgeEvents : BridgePut(e)
    \/ \E e \in WorkerEvents : WorkerPut(e)
    \/ DrainCheck \/ DrainGet \/ DrainNothing \/ DrainWrite
    \/ Stop \/ StopGet \/ StopWrite \/ StopDrained \/ StopJoined

BridgeSpec == BridgeInit /\ [][BridgeNext]_bridgeVars
-----------------------------------------------------------------------------
(* Two threads take from the queue during stop(); still no queued event is *)
(* written twice, and none is lost but those left in the queue (147-175).  *)
BridgeLosesNothing ==
    LET places == <<ToSet(consumed), ToSet(drainHeld), ToSet(stopHeld), ToSet(queue)>>
    IN  /\ ToSet(accepted) = UNION ToSet(places)
        /\ \A i, j \in 1 .. 4 : i # j => places[i] \cap places[j] = {}
        /\ Len(consumed) = Cardinality(ToSet(consumed))
=============================================================================
