------------------------------ MODULE Firmware ------------------------------
(***************************************************************************)
(* The two cores of the firmware.  Core 0 initialises the UARTs            *)
(* (Core_0::init) and then lives in the interrupt handler of UART 0, which *)
(* feeds every byte to UART_0_Rx_FrameWaiter.  Core 1 (Core_1::main) takes *)
(* frames out until tryReadFrame returns anything but OK, answers each one *)
(* into UART_0_Tx_FrameWaiter, and waits for an event with __wfe.          *)
(*                                                                         *)
(* FrameWaiter is instantiated as the receive queue.  Its callback, left   *)
(* open there, is __sev: it sets the event register of both cores, and the *)
(* __wfe of a core waits for its register and clears it.                   *)
(*                                                                         *)
(* Instances.hpp declares the queues static in a header, and Core_0.cpp and*)
(* Core_1.cpp are compiled by themselves: each has a UART_0_Rx_FrameWaiter *)
(* of its own.  That is the program with SharedQueues = FALSE.             *)
(***************************************************************************)
EXTENDS Uart, Sequences, FiniteSets, SequencesExt

CONSTANTS
    BufferSize,     \* Rx_Buffer_Size, the size of core 1's buffers too
    MaxFrames,      \* bound: frames the host sends
    MaxLen,         \* bound: data bytes of a frame
    TxBufferSize,   \* Tx_Buffer_Size
    ResponseSize,   \* bytes of an encoded response
    PinChoices,     \* <<Rx, Tx>> pins Core_0::init may be called with, for either UART
    AssertsOn,      \* the build evaluates assert: NDEBUG is not defined
    SharedQueues    \* both cores use one UART_0_Rx_FrameWaiter; not so at this commit

ASSUME FirmwareAssumption ==
    /\ BufferSize \in Nat \ {0} /\ TxBufferSize \in Nat \ {0}
    /\ MaxFrames \in Nat /\ MaxLen \in Nat /\ ResponseSize \in Nat
    /\ PinChoices \subseteq Nat \X Nat
    /\ AssertsOn \in BOOLEAN /\ SharedQueues \in BOOLEAN

VARIABLES
    \* the UART_0_Rx_FrameWaiter that core 0 feeds, the host that sends to it, and core 1
    \* inside tryReadFrame of the one it reads
    frame, sentBytes, producer, dropping, buffer, overflow,
    consumer, pending, capacity, failure, status, lengths, everFull, results,
    ownBuffer, ownOverflow,     \* ring and overflow_m of the one in Core_1.cpp, if not shared
    \* the cores
    boot,           \* the next step of Core_0::init, then "main"; or "aborted"
    core1,          \* Core_1::main: before a call, in or just after it, feeding tx, in __wfe
    events,         \* cores whose event register is set
    tx,             \* UART_0_Tx_FrameWaiter: its ring, droppingFeedBytes_m, overflow_m
    unfed,          \* bytes of the response that core 1 has still to feed to tx
    answered        \* history: frames answered, the one whose response is being fed included

Rx == INSTANCE FrameWaiter WITH Capacities <- {BufferSize}

\* The UART_0_Rx_FrameWaiter of Core_1.cpp: nobody feeds it, core 0 has its own.
Own == INSTANCE FrameWaiter
           WITH Capacities <- {BufferSize}, buffer <- ownBuffer, overflow <- ownOverflow

ownVars   == <<ownBuffer, ownOverflow>>
rxVars    == <<frame, sentBytes, producer, dropping, buffer, overflow, consumer, pending,
               capacity, failure, status, lengths, everFull, results, ownVars>>
core1Vars == <<core1, tx, unfed, answered>>
vars      == <<uartVars, rxVars, boot, core1Vars, events>>

Init ==
    /\ UartInit
    /\ Rx!Init /\ ownBuffer = << >> /\ ownOverflow = FALSE
    /\ boot = "init 0" /\ core1 = "call" /\ events = {}
    /\ tx = [ring |-> << >>, dropping |-> FALSE, overflow |-> FALSE]
    /\ unfed = << >> /\ answered = << >>

-----------------------------------------------------------------------------
(* Core_0::init.                                                           *)

AssertNothing(error, next) == boot' = next      \* mutant: the result is not looked at
AssertNone(error, next) == boot' = IF error = "none" THEN next ELSE "aborted"

\* assert(UART_n_Wrapper.init(...)): with NDEBUG the call is not compiled at all.
InitUart(u, next) ==
    /\ boot = IF u = 0 THEN "init 0" ELSE "init 1"
    /\ IF AssertsOn
       THEN \E pins \in PinChoices, works \in BOOLEAN :
              \E error \in {"none", "baudRateDontSupported", "gpioNotSupportUartRx",
                            "gpioNotSupportUartTx"} :
                 /\ init(u, pins[1], pins[2], works, error)
                 /\ AssertNone(error, next)
       ELSE boot' = next /\ UNCHANGED uartVars
    /\ UNCHANGED <<rxVars, core1Vars, events>>

\* initialize_UART_0_IRQ
SetHandler ==
    /\ boot = "handler"
    /\ setHandlerForIRQ(0)
    /\ boot' = "irq"
    /\ UNCHANGED <<rxVars, core1Vars, events>>

EnableRxIRQ ==
    /\ boot = "irq"
    /\ IF AssertsOn
       THEN \E error \in {"none", "irqHandlerNotSetted"} :
              enableIRQ(0, "Rx", TRUE, error) /\ AssertNone(error, "main")
       ELSE boot' = "main" /\ UNCHANGED uartVars
    /\ UNCHANGED <<rxVars, core1Vars, events>>

Core0Init == InitUart(0, "init 1") \/ InitUart(1, "handler") \/ SetHandler \/ EnableRxIRQ

-----------------------------------------------------------------------------
(* UART_0_IRQ_Handler.                                                     *)

\* Bytes reach core 0 once the UART runs on its pins and the interrupt is enabled.
Receiving == uart[0].enabled /\ gpio[0] # {} /\ 0 \in line /\ "Rx" \in irqs[0]

FeedByte ==
    /\ Receiving
    /\ \E b \in Rx!SentBytes : Rx!FeedDropped(b) \/ Rx!FeedInserted(b) \/ Rx!FeedRefused(b)
    /\ UNCHANGED <<uartVars, ownVars, boot, core1Vars, events>>

FeedRaisesOverflow ==
    /\ Rx!StoreOverflow
    /\ UNCHANGED <<uartVars, ownVars, boot, core1Vars, events>>

SevToCore0 == events' = events \cup {0}     \* mutant: the other core gets no event
Sev == events' = {0, 1}

FeedCallsBack ==
    /\ Rx!Callback
    /\ Sev
    /\ UNCHANGED <<uartVars, ownVars, boot, core1Vars>>

\* Core_0::main: the loop around __wfe is empty.
Core0Main ==
    /\ boot = "main" /\ 0 \in events
    /\ events' = events \ {0}
    /\ UNCHANGED <<uartVars, rxVars, boot, core1Vars>>

-----------------------------------------------------------------------------
(* Core_1::main.                                                           *)

\* A call begins, whichever queue it is of, without a look at the ring.
CallTryReadFrame ==
    /\ core1 = "call"
    /\ Rx!TryReadFrame(BufferSize)
    /\ core1' = "called"
    /\ UNCHANGED <<uartVars, ownVars, boot, events, tx, unfed, answered>>

RunTryReadFrame ==
    /\ core1 = "called"
    /\ IF SharedQueues THEN Rx!Step /\ UNCHANGED ownVars
       ELSE Own!Step /\ UNCHANGED <<buffer, overflow>>
    /\ UNCHANGED <<uartVars, boot, core1Vars, events>>

Returned(s) == core1 = "called" /\ consumer = "idle" /\ status \in s

LeaveLoop ==
    /\ Returned(Rx!ReadFrameStatus \ {"OK"})
    /\ core1' = "sleep"
    /\ UNCHANGED <<uartVars, rxVars, boot, events, tx, unfed, answered>>

\* __wfe
Wake ==
    /\ core1 = "sleep" /\ 1 \in events
    /\ events' = events \ {1}
    /\ core1' = "call"
    /\ UNCHANGED <<uartVars, rxVars, boot, tx, unfed, answered>>

\* ProtocolDecoder::decode of what tryReadFrame wrote: bytes that are not one frame as it
\* was sent fail, and a frame the host made may be of any type and kind.
Decoded ==
    LET result == Last(results)
        f == result.end
    IN  IF result.bytes = Rx!Whole(f)
        THEN [type : {"GetDeviceInfo", "Unknown"}, kind : {"Request", "Response"}, seq : {f}]
        ELSE {}

\* FrameResponder::dispatch knows one type of message, GetDeviceInfoHandle::handle one kind.
Dispatched(received) == received.type = "GetDeviceInfo"
Handled(received) == received.kind = "Request"

\* handleRequest: the response carries the sequence number of the request.  The payload buffer
\* has Tx_Buffer_Size bytes, more than a DeviceInfo_ needs, so the encoding succeeds.
Response(received) == [type |-> "GetDeviceInfo", kind |-> "Response", seq |-> received.seq]

\* `continue` after a failed decode, dispatch or encode
SleepOnFailure == core1' = "sleep"      \* mutant: break in the place of continue
ContinueLoop == core1' = "call"

Discard ==
    /\ Returned({"OK"})
    /\ ContinueLoop
    /\ UNCHANGED <<uartVars, rxVars, boot, events, tx, unfed, answered>>

\* UART_0_Tx_FrameWaiter.feed(byte); 0 is the delimiter
FeedTxOverFull(t, byte) ==              \* mutant: one byte more than the ring holds
    IF t.dropping THEN [t EXCEPT !.dropping = byte # 0]
    ELSE IF Len(t.ring) > TxBufferSize THEN [t EXCEPT !.overflow = TRUE, !.dropping = TRUE]
    ELSE [t EXCEPT !.ring = Append(@, byte)]
FeedTx(t, byte) ==
    IF t.dropping THEN [t EXCEPT !.dropping = byte # 0]
    ELSE IF Len(t.ring) = TxBufferSize THEN [t EXCEPT !.overflow = TRUE, !.dropping = TRUE]
    ELSE [t EXCEPT !.ring = Append(@, byte)]

DelimiterFirst(seq) == <<0>> \o [i \in 1 .. ResponseSize |-> seq]   \* mutant: wrong order
\* feed(codifiedStatus.value()); insertDelimiter()
ResponseBytes(seq) == [i \in 1 .. ResponseSize + 1 |-> IF i <= ResponseSize THEN seq ELSE 0]

Answer ==
    /\ Returned({"OK"})
    /\ \E received \in Decoded :
         /\ Dispatched(received) /\ Handled(received)
         /\ unfed' = ResponseBytes(Response(received).seq)
         /\ answered' = Append(answered, received.seq)
    /\ core1' = "answering"
    /\ UNCHANGED <<uartVars, rxVars, boot, events, tx>>

\* One byte of the response; tx's callback follows a delimiter that got into the ring.
FeedResponse ==
    /\ core1 = "answering"
    /\ tx' = FeedTx(tx, Head(unfed))
    /\ unfed' = Tail(unfed)
    /\ events' = IF Head(unfed) = 0 /\ tx'.ring # tx.ring THEN {0, 1} ELSE events
    /\ core1' = IF unfed' = << >> THEN "call" ELSE "answering"
    /\ UNCHANGED <<uartVars, rxVars, boot, answered>>

Core1 == CallTryReadFrame \/ RunTryReadFrame \/ LeaveLoop \/ Wake \/ Discard \/ Answer
         \/ FeedResponse

Next == Core0Init \/ FeedByte \/ FeedRaisesOverflow \/ FeedCallsBack \/ Core0Main \/ Core1

Spec == Init /\ [][Next]_vars

\* Both cores run; the interrupt handler, once in feed, returns.  The host may fall silent.
FairSpec ==
    /\ Spec
    /\ WF_vars(Core0Init) /\ WF_vars(FeedRaisesOverflow) /\ WF_vars(FeedCallsBack)
    /\ WF_vars(Core1)

-----------------------------------------------------------------------------
TypeOK ==
    /\ Rx!TypeOK /\ ownBuffer \in Seq(Rx!Bytes) /\ ownOverflow \in BOOLEAN
    /\ boot \in {"init 0", "init 1", "handler", "irq", "main", "aborted"}
    /\ core1 \in {"call", "called", "answering", "sleep"} /\ events \subseteq {0, 1}
    /\ tx \in [ring : Seq(0 .. MaxFrames), dropping : BOOLEAN, overflow : BOOLEAN]
    /\ Len(tx.ring) <= TxBufferSize
    /\ unfed \in Seq(0 .. MaxFrames) /\ (core1 = "answering" <=> unfed # << >>)
    /\ answered \in Seq(1 .. MaxFrames)
    /\ handler \subseteq Uarts /\ line \subseteq Uarts /\ irqs \in [Uarts -> SUBSET {"Rx", "Tx"}]

HoldsFrame == \E i \in 1 .. Len(buffer) : buffer[i].delimiter

Asleep == core1 = "sleep" /\ 1 \notin events /\ producer # "callback"

\* Events of several frames become one when core 1 is slow, and its loop ends on every status
\* but OK; still it does not sleep, with no event to come, on a ring that holds a whole frame,
\* as long as the queues are shared, frames are shorter than the ring and no byte was refused.
NoFrameSleptOver == ~everFull /\ Asleep => ~HoldsFrame

\* Under the same conditions every frame that got into the ring is taken out of it.
FrameTaken == HoldsFrame ~> (~HoldsFrame \/ everFull)

\* A loss is told whenever core 1, with the queue shared, has something to do again: after a byte
\* was refused, the call it makes next or the event of a delimiter that still got in ends in a
\* loop that is left with Overflow, or with BufferTooSmall for what the loss joined together.
\* overflow_m stays up until then, whatever the interrupt does between its two stores.  (A core
\* that sleeps without an event is told nothing: RoomWhileAsleep.)
LossReported ==
    (overflow /\ (core1 = "call" \/ 1 \in events)) ~>
        (core1 = "sleep" /\ status \in {"Overflow", "BufferTooSmall"})

\* Core 1 answers a frame at most once and in the order received, and the transmit ring holds
\* those responses from the first on, each behind the other with its delimiter: a response that
\* did not fit leaves nothing behind the place where it broke off.
ResponsesInOrder ==
    /\ \A i, j \in 1 .. Len(answered) : i < j => answered[i] < answered[j]
    /\ Len(tx.ring) <= Len(answered) * (ResponseSize + 1)
    /\ \A i \in 1 .. Len(answered), k \in 1 .. ResponseSize + 1 :
         LET n == (i - 1) * (ResponseSize + 1) + k IN
         n <= Len(tx.ring) => tx.ring[n] = IF k <= ResponseSize THEN answered[i] ELSE 0

\* An interrupt line is open only for a UART that runs, has its handler and was given an Rx and
\* a Tx pin of its own, whichever pins Core_0::init was called with.
InterruptsPrepared ==
    /\ \A u \in line : u \in handler /\ uart[u].enabled /\ irqs[u] # {} /\ Cardinality(gpio[u]) = 2
    /\ gpio[0] \cap gpio[1] = {}

\* Core_0.hpp:15: init initialises what core 0 needs, and errors in it crash the program: when
\* it has returned, both UARTs run and UART 0 interrupts.
InitReturnsReady == boot = "main" => Receiving /\ uart[1].enabled /\ gpio[1] # {}

-----------------------------------------------------------------------------
(* What the tests say and the code does not do.                            *)

\* framewaiter_tests.cpp:100 (OverflowResetsAfterDelimiter): after an overflow the queue hands
\* out frames again.  A full ring without a delimiter, while core 1 sleeps, ends that for good:
\* every later byte is refused or dropped, the delimiters too, and no event ever wakes core 1.
RoomWhileAsleep == Asleep => Len(buffer) < BufferSize
=============================================================================
