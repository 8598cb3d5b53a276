------------------------------ MODULE MetricStream ------------------------------
(***************************************************************************)
(* The stream of the metrics app.  A poller calls its function again and   *)
(* again and writes what it returns into its buffer, a Go channel; a       *)
(* goroutine per poller copies from there into the buffer of the combined  *)
(* reader, from which the main loop reads.  Closing a buffer cancels its   *)
(* context, and a goroutine of the buffer then closes the channel: reading *)
(* goes on until the channel is empty, writing panics.                     *)
(*                                                                         *)
(* An event is a metric or an error.  Both travel the same way: CopyMetrics *)
(* writes a metric on, and its caller writes on the error that it returns. *)
(***************************************************************************)
EXTENDS Integers, Sequences

CONSTANTS
    NumPollers,
    BufferSize,  \* of a poller: 8
    MaxBatch,    \* BOUND: events that one call of a poller's function writes
    MaxPolled    \* BOUND: events of one poller

Poller == 1..NumPollers
Multi == 0
Buffer == Poller \union {Multi}
Capacity(b) == IF b = Multi THEN NumPollers ELSE BufferSize

ASSUME StreamAssumption ==
    {NumPollers, BufferSize, MaxBatch, MaxPolled} \subseteq Nat \ {0}

VARIABLES
    Events,     \* per buffer, the channel: a sequence of <<poller, number>>
    cancelled,  \* the buffers that were told to close
    closed,     \* the buffers whose channel is closed
    poller,     \* per poller: "looping", "polling", "gone"
    polled,     \* per poller, the number of the last event its function returned
    written,    \* per poller, the number of the last event it wrote
    holds,      \* per poller, what the goroutine that copies from it holds
    got,        \* history: per poller, the numbers of its events the main loop read
    eos,        \* the main loop has read EOS
    panicked    \* the process

channels == <<Events, cancelled, closed>>
pollers == <<poller, polled, written>>
main == <<got, eos>>
vars == <<channels, pollers, holds, main, panicked>>

Init ==
    /\ Events = [b \in Buffer |-> <<>>]
    /\ cancelled = {} /\ closed = {}
    /\ poller = [p \in Poller |-> "looping"]
    /\ polled = [p \in Poller |-> 0]
    /\ written = [p \in Poller |-> 0]
    /\ holds = [p \in Poller |-> <<>>]
    /\ got = [p \in Poller |-> <<>>]
    /\ eos = FALSE
    /\ panicked = FALSE

\* Deviation: never blocks.
X_Send(b, e) ==
    IF b \in closed
    THEN panicked' = TRUE /\ UNCHANGED Events
    ELSE /\ Events' = [Events EXCEPT ![b] = Append(@, e)]
         /\ UNCHANGED panicked

\* A send: blocks while the channel is open and full, panics once it is closed.
Send(b, e) ==
    IF b \in closed
    THEN panicked' = TRUE /\ UNCHANGED Events
    ELSE /\ Len(Events[b]) < Capacity(b)
         /\ Events' = [Events EXCEPT ![b] = Append(@, e)]
         /\ UNCHANGED panicked

Receive(b) == Events[b] # <<>> /\ Events' = [Events EXCEPT ![b] = Tail(@)]
Drained(b) == b \in closed /\ Events[b] = <<>>

-------------------------------------------------------------------------------
(* NewMetricPoller                                                          *)

PollerStops(p) ==
    /\ poller[p] = "looping" /\ p \in cancelled
    /\ poller' = [poller EXCEPT ![p] = "gone"]
    /\ UNCHANGED <<channels, polled, written, holds, main, panicked>>

\* The function starts to write the metrics it has collected, and an error last.
Polls(p) ==
    /\ poller[p] = "looping" /\ p \notin cancelled
    /\ \E n \in 0..MaxBatch :
          /\ polled[p] + n <= MaxPolled
          /\ polled' = [polled EXCEPT ![p] = @ + n]
    /\ poller' = [poller EXCEPT ![p] = "polling"]
    /\ UNCHANGED <<channels, written, holds, main, panicked>>

\* Deviation: writes the last event again.
X_PollerWrites(p) ==
    /\ poller[p] = "polling" /\ written[p] < polled[p]
    /\ Send(p, <<p, written[p]>>)
    /\ written' = [written EXCEPT ![p] = @ + 1]
    /\ UNCHANGED <<cancelled, closed, poller, polled, holds, main>>

PollerWrites(p) ==
    /\ poller[p] = "polling" /\ written[p] < polled[p]
    /\ Send(p, <<p, written[p] + 1>>)
    /\ written' = [written EXCEPT ![p] = @ + (IF p \in closed THEN 0 ELSE 1)]
    /\ UNCHANGED <<cancelled, closed, poller, polled, holds, main>>

PollerSleeps(p) ==
    /\ poller[p] = "polling" /\ written[p] = polled[p]
    /\ poller' = [poller EXCEPT ![p] = "looping"]
    /\ UNCHANGED <<channels, polled, written, holds, main, panicked>>

-------------------------------------------------------------------------------
(* MetricBuffer.Close, and the goroutines that wait for it.                 *)

Close(b) ==
    /\ b \notin cancelled
    /\ cancelled' = cancelled \union {b}
    /\ UNCHANGED <<Events, closed, pollers, holds, main, panicked>>

ClosesChannel(b) ==
    /\ b \in cancelled \ closed
    /\ closed' = closed \union {b}
    /\ UNCHANGED <<Events, cancelled, pollers, holds, main, panicked>>

\* The combined reader closes its readers, one after the other.
ClosesReader(p) ==
    /\ Multi \in cancelled
    /\ 1..(p - 1) \subseteq cancelled
    /\ Close(p)

-------------------------------------------------------------------------------
(* CopyMetrics, from a poller into the combined reader.                     *)

CopierReads(p) ==
    /\ holds[p] = <<>>
    /\ Receive(p)
    /\ holds' = [holds EXCEPT ![p] = <<Head(Events[p])>>]
    /\ UNCHANGED <<cancelled, closed, pollers, main, panicked>>

\* Deviation: drops what it holds when the combined buffer is full.
X_CopierWrites(p) ==
    /\ holds[p] # <<>>
    /\ IF Multi \notin closed /\ Len(Events[Multi]) = Capacity(Multi)
       THEN UNCHANGED <<Events, panicked>>
       ELSE Send(Multi, holds[p][1])
    /\ holds' = [holds EXCEPT ![p] = <<>>]
    /\ UNCHANGED <<cancelled, closed, pollers, main>>

CopierWrites(p) ==
    /\ holds[p] # <<>>
    /\ Send(Multi, holds[p][1])
    /\ holds' = [holds EXCEPT ![p] = <<>>]
    /\ UNCHANGED <<cancelled, closed, pollers, main>>

\* Deviation: returns without closing what it writes to.
X_CopierEnds(p) == holds[p] = <<>> /\ Drained(p) /\ UNCHANGED vars

\* It has read EOS: it closes what it writes to and returns, and its caller starts
\* it again, over and over.
CopierEnds(p) ==
    /\ holds[p] = <<>> /\ Drained(p)
    /\ cancelled' = cancelled \union {Multi}
    /\ UNCHANGED <<Events, closed, pollers, holds, main, panicked>>

-------------------------------------------------------------------------------
(* The main loop: an error is logged, a metric goes to the writers.         *)

MainReads ==
    /\ Receive(Multi)
    /\ LET e == Head(Events[Multi])
       IN  got' = [got EXCEPT ![e[1]] = Append(@, e[2])]
    /\ UNCHANGED <<cancelled, closed, pollers, holds, eos, panicked>>

\* CopyMetrics returns without an error, and is called again, over and over.
MainEnds ==
    /\ Drained(Multi)
    /\ eos' = TRUE
    /\ UNCHANGED <<channels, pollers, holds, got, panicked>>

-------------------------------------------------------------------------------
Copier(p) == CopierReads(p) \/ CopierWrites(p) \/ CopierEnds(p)
Main == MainReads \/ MainEnds

Next ==
    /\ ~panicked
    /\ \/ \E p \in Poller :
             \/ PollerStops(p) \/ Polls(p) \/ PollerWrites(p) \/ PollerSleeps(p)
             \/ ClosesReader(p) \/ Copier(p)
       \/ \E b \in Buffer : Close(b) \/ ClosesChannel(b)
       \/ Main

\* Goroutines are scheduled, except that a poller's function may hang.
SchedulerFairness ==
    /\ WF_vars(~panicked /\ Main)
    /\ \A p \in Poller : WF_vars(~panicked /\ Copier(p)) /\ WF_vars(~panicked /\ ClosesReader(p))
    /\ \A b \in Buffer : WF_vars(~panicked /\ ClosesChannel(b))

\* Additionally, the functions return.
PollerFairness ==
    \A p \in Poller :
        WF_vars(~panicked /\ (PollerStops(p) \/ PollerWrites(p) \/ PollerSleeps(p)))

Spec == Init /\ [][Next]_vars /\ SchedulerFairness

-------------------------------------------------------------------------------
(* Properties.                                                              *)

\* The types of the variables, with the capacity of the channels.
TypeOK ==
    /\ \A b \in Buffer : /\ Events[b] \in Seq(Poller \X (1..MaxPolled))
                         /\ Len(Events[b]) <= Capacity(b)
    /\ closed \subseteq cancelled /\ cancelled \subseteq Buffer
    /\ poller \in [Poller -> {"looping", "polling", "gone"}]
    /\ polled \in [Poller -> 0..MaxPolled]
    /\ \A p \in Poller : written[p] \in 0..polled[p]
    /\ \A p \in Poller : Len(holds[p]) <= 1
    /\ {eos, panicked} \subseteq BOOLEAN

\* The combined reader merges the pollers' streams: what the main loop reads of a
\* poller is what that poller wrote, in order, nothing lost, repeated or made up,
\* and at most the buffers and a goroutine's hand behind.
Merged == INSTANCE MergedStream WITH
    Source <- Poller,
    Lag <- BufferSize + 1 + NumPollers
KeepsStream == Merged!Spec

\* While nothing is closed the main loop reads every event that was written, even
\* if the functions of other pollers, or of this one, hang.
Delivered ==
    \A p \in Poller, n \in 1..MaxPolled :
        (written[p] >= n) ~> (Len(got[p]) >= n \/ cancelled # {})

\* To close any one of the buffers ends the whole stream, if functions return:
\* every poller stops and the main loop reads EOS, having read all that had reached
\* the combined buffer; or a goroutine that was about to write panics.
CloseEndsAll ==
    PollerFairness =>
        ((cancelled # {}) ~>
            [](\/ panicked
               \/ eos /\ Events[Multi] = <<>> /\ \A p \in Poller : poller[p] = "gone"))
=================================================================================
