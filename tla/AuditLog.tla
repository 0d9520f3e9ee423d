------------------------------ MODULE AuditLog ------------------------------
(***************************************************************************)
(* The audit log: AuditWriter.write (observability/audit.py), its rotating *)
(* file (audit_handler.py) and the index of trace ids by file offset       *)
(* (audit_index.py), which POST /constraints/trace reads (trace.py).       *)
(* Request handlers write from several threads; a write takes the offset,  *)
(* logs under the handler's lock and registers the offset, as three steps. *)
(* logging reports an error of the file to stderr and goes on: the write   *)
(* registers the offset of a line that is not there and returns True.      *)
(*                                                                         *)
(* A line is one character long, and one byte, or two if it holds text     *)
(* that UTF-8 does not write in one byte per character.                    *)
(***************************************************************************)
EXTENDS Naturals, Sequences, FiniteSets, SequencesExt, Selection

CONSTANTS Writers, TraceIds, AuditEvents,
          ReplayEvents,     \* REPLAY_EVENTS, the ones the index holds
          MaxLines,         \* maxBytes: the file is rolled over beyond
          MaxWrites,        \* bound: writes in a behaviour
          MaxSpoilt         \* bound: traces spoilt at a time

ASSUME AuditAssumption ==
    /\ ReplayEvents \subseteq AuditEvents
    /\ MaxLines \in Nat \ {0} /\ MaxWrites \in Nat /\ MaxSpoilt \in Nat

VARIABLES
    file,       \* the lines of audit.log
    held,       \* lines of the stream's buffer that a flush did not get out
    index,      \* <<event, offset>> entries of each trace id, in order
    writing,    \* what each writer does: its line, the offset it took, where
    writes,     \* how many writes began
    interfered, \* history: what could have spoilt the index so far
    spoilt      \* history: traces with a line the disk refused, or an offset
                \* that could not be told, since the last rebuild

auditVars == <<file, held, index, writing, writes, interfered, spoilt>>

Lines == [event : AuditEvents, trace : TraceIds, wide : BOOLEAN]

Resting == [at |-> "rest"]

Interference == {"overlap", "rollover", "width"}

AuditTypeOK ==
    /\ file \in Seq(Lines) /\ held \in Seq(Lines) /\ spoilt \subseteq TraceIds
    /\ index \in [TraceIds -> Seq(ReplayEvents \X Nat)]
    /\ writing \in [Writers -> {Resting} \cup
            [at : {"log", "register"}, line : Lines, offset : Nat]]
    /\ writes \in 0 .. MaxWrites
    /\ interfered \subseteq Interference

AuditInit ==
    /\ file = <<>> /\ held = <<>> /\ spoilt = {}
    /\ index = [t \in TraceIds |-> <<>>]
    /\ writing = [w \in Writers |-> Resting]
    /\ writes = 0
    /\ interfered = {}

(* Where line i begins: a byte for each line before it, one more for each  *)
(* of those that is wide.                                                  *)
ByteStart(lines, i) == i - 1 + Cardinality({j \in 1 .. i - 1 : lines[j].wide})

(* The lines of a trace the index is to hold.                              *)
OfTrace(t) == {l \in Lines : l.event \in ReplayEvents /\ l.trace = t}

Indexed(lines, t) == Selected(lines, OfTrace(t))

(* _scan_and_populate: the offset it gives a line counts characters.       *)
Scan(lines) ==
    [t \in TraceIds |->
        LET at == PlacesIn(lines, OfTrace(t))
        IN  [k \in 1 .. Len(at) |-> <<lines[at[k]].event, at[k] - 1>>]]
-----------------------------------------------------------------------------
FileEnd == ByteStart(file, Len(file) + 1)

Spoils(t) == spoilt' = spoilt \cup {t} /\ Cardinality(spoilt') <= MaxSpoilt

(* write(): the current offset first.  tell() flushes, and where it raises *)
(* or there is no open stream the offset is 0 (_current_offset).  With the *)
(* skip flag of a migration set write does nothing at all.                 *)
TakeOffset(w) ==
    /\ writing[w] = Resting /\ writes < MaxWrites
    /\ \E line \in Lines, offset \in {0} \cup (IF held = <<>> THEN {FileEnd} ELSE {}) :
        /\ writing' = [writing EXCEPT
                         ![w] = [at |-> "log", line |-> line, offset |-> offset]]
        /\ IF held = <<>> /\ offset = FileEnd THEN UNCHANGED spoilt ELSE Spoils(line.trace)
    /\ writes' = writes + 1
    /\ interfered' = interfered \cup
         (IF \E x \in Writers : writing[x] # Resting THEN {"overlap"} ELSE {})
    /\ UNCHANGED <<file, held, index>>

Full == Len(file) >= MaxLines

(* A required field is missing: write returns False before it logs.        *)
LogFails(w) ==
    /\ writing[w].at = "log"
    /\ writing' = [writing EXCEPT ![w] = Resting]
    /\ UNCHANGED <<file, held, index, writes, interfered, spoilt>>

Logs(w) ==
    /\ writing[w].at = "log"
    /\ writing' = [writing EXCEPT ![w].at = "register"]
    /\ UNCHANGED writes

(* log_event: a file that is full is first put aside as a gzip, and the    *)
(* index rebuilt of the empty one.                                         *)
LogLine(w) ==
    /\ Logs(w) /\ held = <<>>
    /\ file' = Append(IF Full THEN <<>> ELSE file, writing[w].line)
    /\ index' = IF Full THEN Scan(<<>>) ELSE index
    /\ interfered' = interfered \cup (IF Full THEN {"rollover"} ELSE {})
    /\ UNCHANGED <<held, spoilt>>

(* The disk fails and Handler.handleError swallows it: the line stays in   *)
(* the buffer, or is lost, or the roll-over has moved the file away and    *)
(* not come to the rebuild.  The write goes on as after a line.            *)
LogLost(w) ==
    /\ Logs(w)
    /\ \/ held' = Append(held, writing[w].line) /\ UNCHANGED <<file, interfered>>
       \/ UNCHANGED <<held, file, interfered>>
       \/ Full /\ file' = <<>> /\ held' = <<>> /\ interfered' = interfered \cup {"rollover"}
    /\ Spoils(writing[w].line.trace)
    /\ UNCHANGED index

(* A later flush gets the buffer out, line by line.                        *)
FlushLate ==
    /\ held # <<>>
    /\ file' = Append(file, Head(held)) /\ held' = Tail(held)
    /\ UNCHANGED <<index, writing, writes, interfered, spoilt>>

(* Faulty: the offset is taken after the line.                             *)
AppendIndex_After(w) ==
    LET l == writing[w].line
    IN  /\ writing[w].at = "register"
        /\ index' = IF l.event \in ReplayEvents
                    THEN [index EXCEPT ![l.trace] =
                            Append(@, <<l.event, FileEnd>>)]
                    ELSE index
        /\ writing' = [writing EXCEPT ![w] = Resting]
        /\ UNCHANGED <<file, held, writes, interfered, spoilt>>

AppendIndex(w) ==
    LET l == writing[w].line
    IN  /\ writing[w].at = "register"
        /\ index' = IF l.event \in ReplayEvents
                    THEN [index EXCEPT ![l.trace] = Append(@, <<l.event, writing[w].offset>>)]
                    ELSE index
        /\ writing' = [writing EXCEPT ![w] = Resting]
        /\ UNCHANGED <<file, held, writes, interfered, spoilt>>

(* The admin route, or a restart of the service.                           *)
RebuildIndex ==
    /\ index' = Scan(file)
    /\ spoilt' = IF held = <<>> THEN {} ELSE spoilt
    /\ interfered' = interfered
         \cup (IF \E w \in Writers : writing[w] # Resting THEN {"overlap"} ELSE {})
         \cup (IF \E l \in ToSet(file) : l.wide THEN {"width"} ELSE {})
    /\ UNCHANGED <<file, held, writing, writes>>

(* seek: the line at each offset.  An offset within a line gives the rest  *)
(* of it, which is not JSON and skipped, or not UTF-8, and then it raises; *)
(* past the end of the file there is nothing, which is not JSON either.    *)
LinesAt(offset) == {i \in 1 .. Len(file) : ByteStart(file, i) = offset}

Inside(offset) == LinesAt(offset) = {} /\ offset < FileEnd

Found(t) == Selected(index[t], {x \in ToSet(index[t]) : LinesAt(x[2]) # {}})

(* The answer to a trace request, and the request an offset makes raise.   *)
Trace(t) == [k \in 1 .. Len(Found(t)) |-> file[CHOOSE i \in LinesAt(Found(t)[k][2]) : TRUE]]

TraceRaises(t) == \E k \in 1 .. Len(index[t]) : Inside(index[t][k][2])

AuditNext ==
    \/ RebuildIndex \/ FlushLate
    \/ \E w \in Writers : TakeOffset(w) \/ LogLine(w) \/ LogLost(w) \/ LogFails(w)
                             \/ AppendIndex(w)

AuditSpec == AuditInit /\ [][AuditNext]_auditVars
-----------------------------------------------------------------------------
Undisturbed(t) == interfered = {} /\ t \notin spoilt /\ \A w \in Writers : writing[w] = Resting

(* The trace route answers with the lines of its own trace, in order, as   *)
(* long as no two writes overlapped, the file was not rolled over, no      *)
(* rebuild met a line with wide characters and no line of this trace met a *)
(* disk error since the last rebuild; errors of other traces' lines do not *)
(* reach it, although their offsets point at lines of others: seek does    *)
(* not check what it reads (audit.py:57-85, audit_index.py:60-122).  The   *)
(* docstring "Returns False if write fails" (audit.py:58) is not met.      *)
TraceAnswersItsOwn ==
    \A t \in TraceIds : Undisturbed(t) => Trace(t) = Indexed(file, t) /\ ~TraceRaises(t)
=============================================================================
