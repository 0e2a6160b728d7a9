-------------------------- MODULE SerialTransport --------------------------
(***************************************************************************)
(* BasicSerialTransport<Stream> of api/include/SerialTransport.hpp: one    *)
(* serial port driven through a Boost.Asio strand.                         *)
(*                                                                         *)
(* Application threads call open, close, the handler setters (all of them  *)
(* post a task to the strand) and asyncWrite (which reads and updates      *)
(* atomics on the caller's thread before it posts).  The strand runs its   *)
(* tasks one at a time, in the order they were queued.  The stream         *)
(* completes the read and the write that are in flight, at any time and in *)
(* any order, by queueing their completion handlers on the strand.         *)
(*                                                                         *)
(* A task is one atomic step: only strand tasks write the transport's      *)
(* state, except pendingWrites, and each step that an application thread   *)
(* takes inside asyncWrite is an action of its own.                        *)
(*                                                                         *)
(* The bytes of rxBuffer are not modelled here: no guard or assignment     *)
(* below depends on them.                                                  *)
(***************************************************************************)
EXTENDS Integers, Sequences, FiniteSets, Bags

CONSTANTS
    Packets,        \* the messages the application may write, each one once
    NoPacket,       \* the packet of a read operation
    Size,           \* Size[p]: length of packet p
    Configs,        \* the BufferConfigs an open may carry
    DefaultConfig,  \* Default_Buffer_Config
    ReadErrors,     \* error codes async_read_until may end with
    WriteErrors,    \* error codes async_write may end with
    SizeMax,        \* the largest size_t: pendingWrites wraps below 0
    MaxCalls,       \* bound: how many times each call is made
    QuietReopen     \* the application opens only while it is not writing

ErrorCodes == {"ok", "operation_aborted"} \cup ReadErrors \cup WriteErrors

ASSUME PacketAssumption == NoPacket \notin Packets /\ Size \in [Packets -> Nat]
ASSUME ConfigAssumption ==
    /\ SizeMax \in Nat \ {0}
    /\ Configs \cup {DefaultConfig} \subseteq
         [txMaxElementsInQueue : 0 .. SizeMax, txMaxSizePerElement : 0 .. SizeMax]
\* not_found is async_read_until's own code: the delimiter was not in a full
\* buffer.  async_write has no such outcome.
ASSUME ErrorAssumption ==
    /\ "not_found" \notin WriteErrors
    /\ {"ok", "operation_aborted"} \cap (ReadErrors \cup WriteErrors) = {}

\* frameHandler and recuperableErrorHandler are called only where ReadContinues stands
\* and what they get does not come back to this module.
Handlers    == {"fatal", "write"}
States      == {"Open", "Closed", "Faulted"}  \* Opening, Closing: inside a task
WriteStatus == {"Scheduled", "Closed", "QueueFull", "MessageTooLong"}
WriteResult == {"Written", "Failed", "Cancelled"}
FatalErrors == {"UnpluggedDevice", "PermissionDenied", "ExternallyClosedPort"}
Calls       == {"open", "close", "set"}

ASSUME BoundAssumption == MaxCalls \in [Calls -> Nat] /\ QuietReopen \in BOOLEAN

ReadOp(g)     == [op |-> "read", gen |-> g, pkt |-> NoPacket]
WriteOp(g, p) == [op |-> "write", gen |-> g, pkt |-> p]
Ops == [op : {"read"}, gen : Nat, pkt : {NoPacket}]
         \cup [op : {"write"}, gen : Nat, pkt : Packets]

Tasks == [task : {"open"}, config : Configs]
           \cup [task : {"close"}]
           \cup [task : {"set"}, handler : Handlers, on : BOOLEAN]
           \cup [task : {"write"}, pkt : Packets]
           \cup [task : {"done"}, op : Ops, ec : ErrorCodes]

VARIABLES
    calls,          \* calls made so far, of each kind
    status,         \* status[p]: how far asyncWrite(p) came, or what it returned
    strand,         \* the strand's queue of tasks
    closing, stopped, generation, pendingWrites, currentState, bufferConfig,
    txDeque,        \* packets queued for the port; the front one is being sent
    handlers,       \* the callbacks that are not nullptr
    portOpen,       \* serial.is_open()
    inflight,       \* bag of the operations the stream has not completed
    cancelledGen,   \* operations of this generation or an older one are cancelled
    crashed,        \* std::terminate was called
    \* history, read by no action:
    session,        \* session[p]: generation asyncWrite(p) found running
    posted,         \* packets in the order they were posted to the strand
    wire,           \* packets the port has sent whole, in order
    notices,        \* notices[p]: WriteResults the write handler got for p
    reported        \* FatalErrors the application got since the last open

appVars   == <<calls, status, session, posted>>
coreVars  == <<closing, stopped, generation, currentState, bufferConfig, txDeque,
               handlers>>
portVars  == <<portOpen, cancelledGen>>
noteVars  == <<notices, reported, crashed>>
vars == <<appVars, coreVars, portVars, noteVars, strand, pendingWrites, inflight, wire>>

-----------------------------------------------------------------------------
Init ==
    /\ calls = [c \in Calls |-> 0]
    /\ status = [p \in Packets |-> "none"]
    /\ strand = << >>
    /\ closing = FALSE /\ stopped = TRUE /\ generation = 0 /\ pendingWrites = 0
    /\ currentState = "Closed" /\ bufferConfig = DefaultConfig
    /\ txDeque = << >> /\ handlers = {}
    /\ portOpen = FALSE /\ inflight = EmptyBag /\ cancelledGen = 0
    /\ crashed = FALSE
    /\ session = [p \in Packets |-> 0]
    /\ posted = << >> /\ wire = << >>
    /\ notices = [p \in Packets |-> << >>] /\ reported = << >>

Post(task) == strand' = Append(strand, task)

IsTask(kind, t) == t.task = kind
Queued(kind) == \E i \in 1 .. Len(strand) : IsTask(kind, strand[i])

InSeq(p, s) == \E i \in 1 .. Len(s) : s[i] = p

Called(c) == calls[c] < MaxCalls[c] /\ calls' = [calls EXCEPT ![c] = @ + 1]

-----------------------------------------------------------------------------
(* Application threads.                                                    *)

Writing == \/ \E p \in Packets : status[p] \in {"checked", "reserved"}
           \/ Queued("write")

CallOpen(config) ==
    /\ Called("open")
    /\ QuietReopen => ~Writing
    /\ Post([task |-> "open", config |-> config])
    /\ UNCHANGED <<status, session, posted, coreVars, portVars, noteVars,
                   pendingWrites, inflight, wire>>

\* close() and the destructor's requestClose() post the same task.
CallClose ==
    /\ Called("close")
    /\ Post([task |-> "close"])
    /\ UNCHANGED <<status, session, posted, coreVars, portVars, noteVars,
                   pendingWrites, inflight, wire>>

CallSetHandler(h, on) ==
    /\ Called("set")
    /\ Post([task |-> "set", handler |-> h, on |-> on])
    /\ UNCHANGED <<status, session, posted, coreVars, portVars, noteVars,
                   pendingWrites, inflight, wire>>

\* asyncWrite, first step: is the transport running?
AsyncWriteCheck(p) ==
    /\ status[p] = "none"
    /\ QuietReopen => ~Queued("open")
    /\ status' = [status EXCEPT ![p] = IF closing \/ stopped THEN "Closed" ELSE "checked"]
    /\ session' = [session EXCEPT ![p] = generation]
    /\ UNCHANGED <<calls, posted, coreVars, portVars, noteVars, strand,
                   pendingWrites, inflight, wire>>

FullOffByOne == pendingWrites > bufferConfig.txMaxElementsInQueue    \* mutant
Full         == pendingWrites >= bufferConfig.txMaxElementsInQueue

\* Second step: the size check and the compare-exchange that reserves a slot.  The exchange
\* succeeds on the count the limit was tested with, so load, test and exchange are one step for
\* the count.  They are not for the limit: an open that sets a smaller one between the test and
\* an exchange that still finds its count is not explored.  With QuietReopen there is none.
AsyncWriteReserve(p) ==
    /\ status[p] = "checked"
    /\ IF Size[p] > bufferConfig.txMaxSizePerElement
       THEN status' = [status EXCEPT ![p] = "MessageTooLong"] /\ UNCHANGED pendingWrites
       ELSE IF Full
       THEN status' = [status EXCEPT ![p] = "QueueFull"] /\ UNCHANGED pendingWrites
       ELSE /\ status' = [status EXCEPT ![p] = "reserved"]
            /\ pendingWrites' = pendingWrites + 1
    /\ UNCHANGED <<calls, session, posted, coreVars, portVars, noteVars, strand,
                   inflight, wire>>

\* Third step: the write is handed to the strand.
AsyncWritePost(p) ==
    /\ status[p] = "reserved"
    /\ Post([task |-> "write", pkt |-> p])
    /\ status' = [status EXCEPT ![p] = "Scheduled"]
    /\ posted' = Append(posted, p)
    /\ UNCHANGED <<calls, session, coreVars, portVars, noteVars, pendingWrites,
                   inflight, wire>>

Application ==
    \/ \E config \in Configs : CallOpen(config)
    \/ CallClose
    \/ \E h \in Handlers, on \in BOOLEAN : CallSetHandler(h, on)
    \/ \E p \in Packets : AsyncWriteCheck(p) \/ AsyncWriteReserve(p) \/ AsyncWritePost(p)

-----------------------------------------------------------------------------
(* The strand.  Each action below takes the task at the head of the queue  *)
(* and runs it to its end.                                                 *)

Take(kind) ==
    /\ strand # << >>
    /\ IsTask(kind, Head(strand))
    /\ strand' = Tail(strand)

\* startRead() and doWrite(), called last in the tasks that use them: they test
\* the flags and the deque as those tasks leave them.
StartRead ==
    inflight' = IF closing' \/ stopped' THEN inflight
                ELSE inflight (+) SetToBag({ReadOp(generation')})

DoWrite ==
    inflight' = IF closing' \/ stopped' \/ txDeque' = << >> THEN inflight
                ELSE inflight (+) SetToBag({WriteOp(generation', Head(txDeque'))})

\* mutant: a counter that goes below zero
DecrementSigned == pendingWrites' = pendingWrites - 1
\* fetch_sub(1) on an atomic size_t
Decrement == pendingWrites' = IF pendingWrites = 0 THEN SizeMax ELSE pendingWrites - 1

\* mutant: a cancelled write is dropped without a word
NotifyPortResult(result, p) ==
    notices' = IF "write" \in handlers /\ result # "Cancelled"
               THEN [notices EXCEPT ![p] = Append(@, result)] ELSE notices
\* writeHandler(result, packetID), if there is one
Notify(result, p) ==
    notices' = IF "write" \in handlers THEN [notices EXCEPT ![p] = Append(@, result)]
               ELSE notices

(* open *)
ClearDequeOnly == txDeque' = << >> /\ UNCHANGED pendingWrites    \* mutant: no reset
ResetCountOnly == pendingWrites' = 0 /\ UNCHANGED txDeque        \* mutant: no clear
ClearQueue     == txDeque' = << >> /\ pendingWrites' = 0

OpenIgnored ==
    /\ Take("open")
    /\ closing
    /\ UNCHANGED <<appVars, coreVars, portVars, noteVars, pendingWrites, inflight, wire>>

Reopening ==
    /\ Take("open")
    /\ ~closing
    /\ generation' = generation + 1
    /\ ClearQueue
    /\ bufferConfig' = Head(strand).config
    /\ reported' = << >>
    /\ UNCHANGED <<appVars, closing, handlers, cancelledGen, notices, crashed, wire>>

OpenSucceeds ==
    /\ Reopening
    /\ ~portOpen
    /\ portOpen' = TRUE
    /\ stopped' = FALSE
    /\ currentState' = "Open"
    /\ StartRead

\* serial.open throws: the device is missing or busy, or the port is open already
SerialOpenThrows ==
    /\ Reopening
    /\ stopped' = TRUE
    /\ currentState' = "Faulted"
    /\ UNCHANGED <<portOpen, inflight>>

\* serial.open succeeds and one of the five set_option calls throws
SetOptionThrows ==
    /\ Reopening
    /\ ~portOpen
    /\ portOpen' = TRUE
    /\ stopped' = TRUE
    /\ currentState' = "Faulted"
    /\ UNCHANGED inflight

\* mutants: serial.close without serial.cancel, and the other way round
CloseWithoutCancel == portOpen' = FALSE /\ UNCHANGED cancelledGen
CancelWithoutClose == UNCHANGED portOpen /\ cancelledGen' = generation
\* serial.cancel and serial.close: what is in flight will end as aborted
CancelAndClose == portOpen' = FALSE /\ cancelledGen' = generation

(* closeOnStrand *)
CloseOnStrand ==
    /\ Take("close")
    /\ ~closing
    /\ closing' = TRUE
    /\ stopped' = TRUE
    /\ currentState' = "Closed"
    /\ generation' = generation + 1
    /\ txDeque' = << >>
    /\ CancelAndClose
    /\ UNCHANGED <<appVars, bufferConfig, handlers, noteVars, pendingWrites, inflight, wire>>

CloseAgain ==
    /\ Take("close")
    /\ closing
    /\ UNCHANGED <<appVars, coreVars, portVars, noteVars, pendingWrites, inflight, wire>>

(* setFatalErrorHandler, setWriteHandler *)
SetHandler ==
    /\ Take("set")
    /\ handlers' = IF closing THEN handlers
                   ELSE IF Head(strand).on THEN handlers \cup {Head(strand).handler}
                   ELSE handlers \ {Head(strand).handler}
    /\ UNCHANGED <<appVars, closing, stopped, generation, currentState, bufferConfig,
                   txDeque, portVars, noteVars, pendingWrites, inflight, wire>>

(* the lambda asyncWrite posts *)
WriteCancelled ==
    /\ Take("write")
    /\ closing \/ stopped
    /\ Decrement
    /\ Notify("Cancelled", Head(strand).pkt)
    /\ UNCHANGED <<appVars, coreVars, portVars, reported, crashed, inflight, wire>>

PushFront(p) == txDeque' = <<p>> \o txDeque     \* mutant: at the wrong end
PushBack(p)  == txDeque' = Append(txDeque, p)

\* `idle` is read before the packet is pushed
StartAlways == DoWrite                  \* mutant: idle is not asked
StartNever  == UNCHANGED inflight       \* mutant: idle is read after the push
StartIfIdle == IF txDeque = << >> THEN DoWrite ELSE UNCHANGED inflight

WriteEnqueued ==
    /\ Take("write")
    /\ ~closing /\ ~stopped
    /\ PushBack(Head(strand).pkt)
    /\ UNCHANGED <<closing, stopped, generation>>
    /\ StartIfIdle
    /\ UNCHANGED <<appVars, currentState, bufferConfig, handlers, portVars, noteVars,
                   pendingWrites, wire>>

-----------------------------------------------------------------------------
(* handleRead and handleWrite.                                             *)

StaleSameSession(op) == closing \/ stopped    \* mutant: generation not compared
Stale(op) == closing \/ stopped \/ op.gen # generation

StaleCompletion ==
    /\ Take("done")
    /\ Stale(Head(strand).op)
    /\ UNCHANGED <<appVars, coreVars, portVars, noteVars, pendingWrites, inflight, wire>>

TakeCompletion(kind) ==
    /\ Take("done")
    /\ Head(strand).op.op = kind
    /\ ~Stale(Head(strand).op)

isRecoverableError(ec) == ec = "not_found"

clarifyFatalError ==
    [ec \in {"eof", "bad_file_descriptor", "bad_descriptor", "no_such_device",
             "permission_denied"} |->
        CASE ec = "eof" -> "UnpluggedDevice"
          [] ec = "permission_denied" -> "PermissionDenied"
          [] OTHER -> "ExternallyClosedPort"]

\* mutant: the port is shut and the session goes on
StopPortOnly ==
    /\ currentState' = "Faulted"
    /\ CancelAndClose
    /\ UNCHANGED <<stopped, generation, txDeque, closing, bufferConfig, handlers, inflight>>
\* mutant: the session ends and keeps its generation
StopSameGeneration ==
    /\ stopped' = TRUE
    /\ currentState' = "Faulted"
    /\ txDeque' = << >>
    /\ CancelAndClose
    /\ UNCHANGED <<generation, closing, bufferConfig, handlers, inflight>>
StopAfterIoError ==
    /\ stopped' = TRUE
    /\ currentState' = "Faulted"
    /\ generation' = generation + 1
    /\ txDeque' = << >>
    /\ CancelAndClose
    /\ UNCHANGED <<closing, bufferConfig, handlers, inflight>>

\* The fatal half of dispatchError.  clarifyFatalError throws for a code outside
\* its domain, dispatchError is noexcept: the program ends.
ReportFatal(ec) ==
    /\ StopAfterIoError
    /\ reported' = IF "fatal" \in handlers /\ ec \in DOMAIN clarifyFatalError
                   THEN Append(reported, clarifyFatalError[ec]) ELSE reported
    /\ crashed' = ("fatal" \in handlers /\ ec \notin DOMAIN clarifyFatalError)

\* A frame arrived, or the buffer filled up without a delimiter (recoverFromError):
\* either way the next read is started.
ReadContinues ==
    /\ TakeCompletion("read")
    /\ LET ec == Head(strand).ec IN ec = "ok" \/ isRecoverableError(ec)
    /\ UNCHANGED coreVars
    /\ StartRead
    /\ UNCHANGED <<appVars, portVars, noteVars, pendingWrites, wire>>

ReadFails ==
    /\ TakeCompletion("read")
    /\ LET ec == Head(strand).ec
       IN  ec # "ok" /\ ~isRecoverableError(ec) /\ ReportFatal(ec)
    /\ UNCHANGED <<appVars, notices, pendingWrites, wire>>

WriteCompletes ==
    /\ TakeCompletion("write")
    /\ Head(strand).ec = "ok"
    /\ Decrement
    /\ Notify("Written", Head(txDeque))
    /\ txDeque' = Tail(txDeque)
    /\ UNCHANGED <<closing, stopped, generation>>
    /\ DoWrite
    /\ UNCHANGED <<appVars, currentState, bufferConfig, handlers, portVars,
                   reported, crashed, wire>>

WriteFails ==
    /\ TakeCompletion("write")
    /\ Head(strand).ec # "ok"
    /\ Decrement
    /\ Notify("Failed", Head(txDeque))
    /\ ReportFatal(Head(strand).ec)
    /\ UNCHANGED <<appVars, wire>>

RunStrand ==
    \/ OpenIgnored \/ OpenSucceeds \/ SerialOpenThrows \/ SetOptionThrows
    \/ CloseOnStrand \/ CloseAgain \/ SetHandler
    \/ WriteCancelled \/ WriteEnqueued
    \/ StaleCompletion \/ ReadContinues \/ ReadFails \/ WriteCompletes \/ WriteFails

-----------------------------------------------------------------------------
(* The stream: the operating system's side of the port.                    *)

\* async_read_until and async_write do their work in parts, each part's end a task of the strand.
\* An operation that was cancelled while such a part waited there goes on: with an error if the
\* port is closed (here operation_aborted), or in the port a later session has opened.
Cancelled(op) == op.gen <= cancelledGen

Outcomes(op) ==
    (IF Cancelled(op) THEN {"operation_aborted"} ELSE {})
      \cup (IF ~Cancelled(op) \/ portOpen
            THEN {"ok"} \cup (IF op.op = "read" THEN ReadErrors ELSE WriteErrors)
            ELSE {})

\* The packets sent whole when op ends with ec: a write that goes on in a later session sends the
\* rest of one.  A write whose packet txDeque has given up has a buffer that is gone, which is
\* undefined: here it sends the packet or something that is no packet.  Where the front packet
\* of a later session has taken that place, the write sends and consumes bytes of it; this
\* outcome is left out.
Sent(op, ec) ==
    IF op.op = "read" \/ ec # "ok" \/ Cancelled(op) THEN {wire}
    ELSE {Append(wire, op.pkt)} \cup IF InSeq(op.pkt, txDeque) THEN {} ELSE {wire}

\* The operation ends; its handler is queued on the strand.
StreamCompletes(op) ==
    /\ BagIn(op, inflight)
    /\ inflight' = inflight (-) SetToBag({op})
    /\ \E ec \in Outcomes(op) :
         /\ Post([task |-> "done", op |-> op, ec |-> ec])
         /\ wire' \in Sent(op, ec)
    /\ UNCHANGED <<appVars, coreVars, portVars, noteVars, pendingWrites>>

\* The stream owes an end to a write, and to a cancelled read while the port is closed, but to
\* no other read: the other side of the line may stay silent.
Due(op) == op.op = "write" \/ (Cancelled(op) /\ ~portOpen)

CompleteDue  == \E op \in BagToSet(inflight) : Due(op) /\ StreamCompletes(op)
CompleteRead == \E op \in BagToSet(inflight) : ~Due(op) /\ StreamCompletes(op)

Next ==
    /\ ~crashed
    /\ \/ Application
       \/ RunStrand
       \/ CompleteDue
       \/ CompleteRead

Spec == Init /\ [][Next]_vars

\* The thread in io_context::run() keeps running tasks; the port answers writes and
\* cancellations.  Application threads promise nothing, nor does the remote end.
FairSpec == Spec /\ WF_vars(~crashed /\ RunStrand) /\ WF_vars(~crashed /\ CompleteDue)

-----------------------------------------------------------------------------
(* Type invariant.                                                         *)

TypeOK ==
    /\ calls \in [Calls -> Nat]
    /\ status \in [Packets -> {"none", "checked", "reserved"} \cup WriteStatus]
    /\ strand \in Seq(Tasks)
    /\ closing \in BOOLEAN /\ stopped \in BOOLEAN
    /\ generation \in Nat /\ pendingWrites \in 0 .. SizeMax
    /\ currentState \in States
    /\ bufferConfig \in Configs \cup {DefaultConfig}
    /\ txDeque \in Seq(Packets) /\ handlers \subseteq Handlers
    /\ portOpen \in BOOLEAN /\ cancelledGen \in Nat /\ crashed \in BOOLEAN
    /\ IsABag(inflight) /\ BagToSet(inflight) \subseteq Ops
    /\ session \in [Packets -> Nat]
    /\ posted \in Seq(Packets) /\ wire \in Seq(Packets)
    /\ notices \in [Packets -> Seq(WriteResult)] /\ reported \in Seq(FatalErrors)

-----------------------------------------------------------------------------
(* Safety.                                                                 *)

Running == ~closing /\ ~stopped

\* The positions in a strand of op's completion handler.
Finished(s, op) == {i \in 1 .. Len(s) : IsTask("done", s[i]) /\ s[i].op = op}

Copies(op, B) == IF BagIn(op, B) THEN B[op] ELSE 0

\* How many times op was started without its handler having run yet.
Outstanding(op) == Copies(op, inflight) + Cardinality(Finished(strand, op))

\* The atomics closing and stopped, the state isOpen() reads, the port and the deque
\* are written one by one in five places; after every task they agree.  A transport
\* that says Open accepts writes on an open port, one that is closed or stopped holds
\* no packet, and close() is final: the port is shut and stays shut.
SessionFlags ==
    /\ (currentState = "Open") = Running
    /\ Running => portOpen
    /\ stopped => txDeque = << >>
    /\ closing => stopped /\ ~portOpen /\ currentState = "Closed"

\* While the transport runs there is exactly one read of the current session between
\* startRead and handleRead: frames keep arriving, and no two reads share rxBuffer,
\* whatever reads of earlier sessions are still to complete.
OneReadPerSession == Running => Outstanding(ReadOp(generation)) = 1

\* While the transport runs, the write in flight is the front packet of txDeque and no
\* other: handleWrite takes the packet to report and to pop from the front.
ActiveWriteIsFront ==
    Running => \A p \in Packets :
        Outstanding(WriteOp(generation, p)) =
            IF txDeque # << >> /\ p = Head(txDeque) THEN 1 ELSE 0

\* An operation of a session that is over never carries the generation of the next
\* one: when its completion comes late, Stale recognises it.
OldOpsAreStale ==
    \A op \in BagToSet(inflight) \cup
                {strand[i].op : i \in {j \in 1 .. Len(strand) : IsTask("done", strand[j])}} :
        op.gen <= generation /\ (op.gen = generation => Running)

\* The write handler hears of a packet at most once, Written only of a packet the port
\* has sent whole, Failed and Cancelled only of one it has not.
NoticesTruthful ==
    \A p \in Packets :
        /\ Len(notices[p]) <= 1
        /\ \A i \in 1 .. Len(notices[p]) : (notices[p][i] = "Written") = InSeq(p, wire)

\* The port sends packets in the order they were posted, none of them twice, across
\* errors and reopenings.
WireInOrder ==
    \A i, j \in 1 .. Len(wire) :
        i < j => \E k, l \in 1 .. Len(posted) :
                    k < l /\ posted[k] = wire[i] /\ posted[l] = wire[j]

\* The read and the write of a session can both fail; the application hears of one
\* fatal error and then has to open again.
OneFatalPerSession == Len(reported) <= 1

\* Writes that asyncWrite admitted and the transport still has to deal with.
Admitted ==
    Cardinality({p \in Packets : status[p] = "reserved"})
      + Cardinality({i \in 1 .. Len(strand) : IsTask("write", strand[i])})
      + Len(txDeque)

\* pendingWrites, updated by the callers and by the strand without a common lock, counts
\* the admitted writes of a running transport exactly.
PendingWritesExact == Running => pendingWrites = Admitted

\* The limit asyncWrite enforces holds for what is really queued.
QueueWithinLimit == Running => Admitted <= bufferConfig.txMaxElementsInQueue

-----------------------------------------------------------------------------
(* Action properties.                                                      *)

\* Accepted, and not yet dealt with by the transport.
Unsettled(p) ==
    \/ InSeq(p, txDeque)
    \/ \E i \in 1 .. Len(strand) : IsTask("write", strand[i]) /\ strand[i].pkt = p

\* Once close() has run nothing more is sent and no callback brings anything but the
\* cancellation of a write that was still in the strand.
SilentAfterClose ==
    [][closing =>
         /\ wire' = wire /\ reported' = reported
         /\ \A p \in Packets : notices'[p] # notices[p] => notices'[p] = <<"Cancelled">>]_vars

\* SerialTransport.hpp:91 (success or error is notified), as far as it is true: while there is
\* a write handler, a packet leaves the transport without a notice only with its session, when
\* an error, close or open empties txDeque.
NoSilentLoss ==
    [][\A p \in Packets : Unsettled(p) /\ ~Unsettled(p)' /\ "write" \in handlers =>
          notices'[p] # << >> \/ (InSeq(p, txDeque) /\ generation' # generation)]_vars

\* Every behaviour of the transport is one WriteService allows: no error, reopening or late
\* completion sends a packet twice or out of order, or reports one untruthfully.
Service == INSTANCE WriteService
               WITH accepted <- posted, wire <- wire, heard <- notices, closed <- closing
ImplementsWriteService == Service!Spec

-----------------------------------------------------------------------------
(* Liveness, under FairSpec.                                               *)

\* A write that was accepted does not stay queued for ever.
ScheduledWriteSettles ==
    \A p \in Packets : (status[p] = "Scheduled") ~> (crashed \/ ~Unsettled(p))

\* After close() the handlers of every operation run, so that the references they hold
\* to the Pimpl are dropped.
CloseReleases == closing ~> (crashed \/ (inflight = EmptyBag /\ ~Queued("done")))

-----------------------------------------------------------------------------
(* What the documentation says and the code does not do.                   *)

\* SerialTransport.hpp:90: an I/O error discards the writes; open() restarts the
\* transport.  A write accepted by a session is not sent by a later one.
QueuedInItsSession == \A i \in 1 .. Len(txDeque) : session[txDeque[i]] = generation

=============================================================================
