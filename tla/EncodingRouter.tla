--------------------------- MODULE EncodingRouter ---------------------------
(***************************************************************************)
(* The choice between GPU and CPU inside one worker process,               *)
(* services/encoding_router.py.  Three kinds of threads share the router:  *)
(* the initialiser of the process, which registers the GPU; the probe,     *)
(* which repeats the registration every interval; and whoever encodes.     *)
(* The lock covers each reading and each switch of the channel, but not    *)
(* what happens in between: the self-check and the encoding itself.  A     *)
(* verdict, or an exception, may be about a GPU that has changed since.    *)
(*                                                                         *)
(* A definition marked Faulty is a plausible mistake in the one below it,  *)
(* and no behaviour uses it.                                               *)
(***************************************************************************)
EXTENDS Naturals, Sequences

CONSTANTS Encoders,  \* threads that call route
          MaxFaults  \* bound on the changes of the GPU and its passing faults

ASSUME RouterAssumption == MaxFaults \in Nat

VARIABLES
    gpu,        \* the device (see Devices)
    faults,     \* changes and passing faults so far
    channel,    \* RouterState.current_channel
    attempted,  \* RouterState.registration_attempted
    check,      \* where the registering thread is
    verdict,    \* what its last self-check found
    encode,     \* where each encoder is
    events      \* history: the channel_switched events emitted

vars == <<gpu, faults, channel, attempted, check, verdict, encode, events>>

(* A drifted GPU encodes, but too far from the CPU vectors for the check.  *)
Devices == {"good", "drifted", "broken"}

Channels == {"unknown", "cpu", "gpu"}

Checks == {"register", "checking", "publish", "sleep"}

Encodings == {"idle", "gpu", "failed", "cpu"}

Events == [from : Channels, to : Channels]

TypeOK ==
    /\ gpu \in Devices
    /\ faults \in 0 .. MaxFaults
    /\ channel \in Channels
    /\ attempted \in BOOLEAN
    /\ check \in Checks
    /\ verdict \in BOOLEAN
    /\ encode \in [Encoders -> Encodings]
    /\ events \in Seq(Events)

Init ==
    /\ gpu \in Devices
    /\ faults = 0
    /\ channel = "unknown"
    /\ attempted = FALSE
    /\ check = "register"
    /\ verdict = FALSE
    /\ encode = [e \in Encoders |-> "idle"]
    /\ events = <<>>

(* A passing fault: out of memory, a driver hiccup.                        *)
Hiccup == faults < MaxFaults /\ faults' = faults + 1

(* The device breaks, drifts or recovers.                                  *)
GpuChanges ==
    /\ Hiccup
    /\ \E state \in Devices \ {gpu} : gpu' = state
    /\ UNCHANGED <<channel, attempted, check, verdict, encode, events>>

(* _record_transition: state and event in one critical section.            *)
RecordTransition(from, to) ==
    /\ channel' = to
    /\ events' = Append(events, [from |-> from, to |-> to])
-----------------------------------------------------------------------------
(* Registration: by the initialiser first, by the probe from then on       *)

(* try_register_gpu takes the flag, or returns because it is taken.        *)
BeginRegister ==
    /\ check = "register"
    /\ check' = IF attempted THEN "sleep" ELSE "checking"
    /\ attempted' = TRUE
    /\ UNCHANGED <<gpu, faults, channel, verdict, encode, events>>

(* _self_check, without the lock.  An exception out of it is swallowed by  *)
(* the initialiser and by the probe, and nothing is published.             *)
SelfCheck ==
    /\ check = "checking"
    /\ \/ /\ verdict' = (gpu = "good")
          /\ check' = "publish"
          /\ UNCHANGED faults
       \/ /\ Hiccup
          /\ verdict' = FALSE
          /\ check' \in {"publish", "sleep"}
    /\ UNCHANGED <<gpu, channel, attempted, encode, events>>

(* Faulty: a failed check leaves the channel as it is.                     *)
Publish_PassOnly ==
    /\ check = "publish"
    /\ check' = "sleep"
    /\ \/ verdict /\ channel # "gpu" /\ RecordTransition(channel, "gpu")
       \/ (~verdict \/ channel = "gpu") /\ UNCHANGED <<channel, events>>
    /\ UNCHANGED <<gpu, faults, attempted, verdict, encode>>

(* The verdict becomes the channel, with an event if that is a change.     *)
Publish ==
    LET new == IF verdict THEN "gpu" ELSE "cpu" IN
    /\ check = "publish"
    /\ check' = "sleep"
    /\ \/ channel # new /\ RecordTransition(channel, new)
       \/ channel = new /\ UNCHANGED <<channel, events>>
    /\ UNCHANGED <<gpu, faults, attempted, verdict, encode>>

(* Faulty: the flag is not cleared, so the registration returns at once.   *)
ForceReRegister_KeepsFlag ==
    /\ check = "sleep"
    /\ check' = "register"
    /\ UNCHANGED <<gpu, faults, channel, attempted, verdict, encode, events>>

(* The probe's interval is over: force_re_register_gpu clears the flag.    *)
ForceReRegister ==
    /\ check = "sleep"
    /\ check' = "register"
    /\ attempted' = FALSE
    /\ UNCHANGED <<gpu, faults, channel, verdict, encode, events>>
-----------------------------------------------------------------------------
(* Encoding                                                                *)

Move(e, from, to) == /\ encode[e] = from
                     /\ encode' = [encode EXCEPT ![e] = to]

(* route reads the channel under the lock and lets go of it.               *)
Route(e) ==
    /\ Move(e, "idle", IF channel = "gpu" THEN "gpu" ELSE "cpu")
    /\ UNCHANGED <<gpu, faults, channel, attempted, check, verdict, events>>

(* encode_gpu returns or raises.                                           *)
EncodeGpu(e) ==
    /\ \/ gpu # "broken" /\ Move(e, "gpu", "idle") /\ UNCHANGED faults
       \/ gpu = "broken" /\ Move(e, "gpu", "failed") /\ UNCHANGED faults
       \/ Hiccup /\ Move(e, "gpu", "failed")
    /\ UNCHANGED <<gpu, channel, attempted, check, verdict, events>>

(* Faulty: an event for every failure.                                     *)
Transition_Always(from, to) == RecordTransition(from, to)

(* _transition: an event only if the channel really changes.               *)
Transition(from, to) ==
    \/ channel # to /\ RecordTransition(from, to)
    \/ channel = to /\ UNCHANGED <<channel, events>>

(* The exception handler of route: leave the GPU, encode again on the CPU. *)
FallBack(e) ==
    /\ Move(e, "failed", "cpu")
    /\ Transition("gpu", "cpu")
    /\ UNCHANGED <<gpu, faults, attempted, check, verdict>>

EncodeCpu(e) ==
    /\ Move(e, "cpu", "idle")
    /\ UNCHANGED <<gpu, faults, channel, attempted, check, verdict, events>>
-----------------------------------------------------------------------------
CheckStep == BeginRegister \/ SelfCheck \/ Publish \/ ForceReRegister

EncodeStep(e) == EncodeGpu(e) \/ FallBack(e) \/ EncodeCpu(e)

Next == \/ GpuChanges
        \/ CheckStep
        \/ \E e \in Encoders : Route(e) \/ EncodeStep(e)

Spec == Init /\ [][Next]_vars

(* The threads run: the probe wakes up every interval, and an encoding     *)
(* that has begun ends.  Nobody has to call route, no device to change.    *)
FairSpec == /\ Spec
            /\ WF_vars(CheckStep)
            /\ \A e \in Encoders : WF_vars(EncodeStep(e))
-----------------------------------------------------------------------------
(***************************************************************************)
(* Correctness                                                             *)
(***************************************************************************)

(* The channel_switched events tell the whole history of the channel: each *)
(* is a change, starts where the one before it ended, and the last one     *)
(* ends where the channel is.  Late verdicts and late exceptions, whose    *)
(* event names the channel they remember, do not break the chain.          *)
EventsTellTheChannel ==
    /\ events = <<>> => channel = "unknown"
    /\ events # <<>> => /\ events[1].from = "unknown"
                        /\ events[Len(events)].to = channel
    /\ \A i \in 1 .. Len(events) : events[i].from # events[i].to
    /\ \A i \in 1 .. Len(events) - 1 : events[i].to = events[i + 1].from

(* A GPU that stays good is used again, however many late failures were    *)
(* still on their way: the probe brings it back and nothing takes it away. *)
GoodGpuIsUsed == <>[](gpu = "good") => <>[](channel = "gpu")

(* A GPU that stays drifted or broken is left for good, although a drifted *)
(* one never raises and a late verdict may still speak for it.             *)
UnfitGpuIsLeft == <>[](gpu # "good") => <>[](channel # "gpu")

(* The inductive strengthening: whoever is or was on the GPU knows that    *)
(* the channel has left "unknown", so that the "gpu" its event starts from *)
(* is right whenever the event is emitted.                                 *)
OnGpuAfterRegistration ==
    \A e \in Encoders : encode[e] \in {"gpu", "failed"} => channel # "unknown"

IInv == TypeOK /\ OnGpuAfterRegistration /\ EventsTellTheChannel
=============================================================================
