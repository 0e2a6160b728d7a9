--------------------------- MODULE FirmwareProofs ---------------------------
(***************************************************************************)
(* Proofs about Firmware: how core 0 starts, for every chip and whichever  *)
(* pins it is given, and that core 1 does not sleep over a frame.  What    *)
(* FrameWaiterProofs shows of the receive queue is instantiated here.      *)
(***************************************************************************)
EXTENDS Firmware, FiniteSetTheorems, SequenceTheorems, TLAPS

-----------------------------------------------------------------------------
(* Core_0::init.                                                           *)

UartState == [enabled : BOOLEAN, RxIRQEnabled : BOOLEAN, TxIRQEnabled : BOOLEAN]

\* UART u was given an Rx and a Tx pin that the chip's table allows, and runs.
OnItsPins(u) ==
    /\ uart[u].enabled
    /\ \E rxPin, txPin \in Int : /\ gpio[u] = {rxPin, txPin}
                           /\ isValidUART_Rx(u, rxPin) /\ isValidUART_Tx(u, txPin)

BootSteps == {"init 0", "init 1", "handler", "irq", "main", "aborted"}

\* What init has done when it is at a step.
BootInv ==
    /\ boot \in BootSteps
    /\ uart \in [Uarts -> UartState] /\ irqs \in [Uarts -> SUBSET {"Rx", "Tx"}]
    /\ gpio \in [Uarts -> SUBSET Int] /\ handler \subseteq Uarts
    /\ \A u \in Uarts : gpio[u] # {} => OnItsPins(u)
    /\ line \subseteq {0}
    /\ 0 \in line => boot = "main" /\ 0 \in handler /\ "Rx" \in irqs[0] /\ gpio[0] # {}
    /\ boot \in {"irq", "main"} => 0 \in handler
    /\ AssertsOn => /\ boot \in BootSteps \ {"init 0", "aborted"} => gpio[0] # {}
                    /\ boot \in BootSteps \ {"init 0", "init 1", "aborted"} => gpio[1] # {}
                    /\ boot = "main" => 0 \in line
    /\ ~AssertsOn => line = {}

\* A pin is no Rx pin and Tx pin in one, and no pin of two UARTs.
LEMMA PinsApart ==
  ASSUME NEW u \in Uarts, NEW rxPin \in Int, NEW txPin \in Int,
         isValidUART_Rx(u, rxPin), isValidUART_Tx(u, txPin),
         NEW v \in Uarts, NEW rxPin2 \in Int, NEW txPin2 \in Int,
         isValidUART_Rx(v, rxPin2), isValidUART_Tx(v, txPin2)
  PROVE  rxPin # txPin2 /\ (u # v => rxPin # rxPin2 /\ txPin # txPin2)
<1> USE DEF isValidUART_Rx, isValidUART_Tx, RP2040_Tx_Valid_Pins, RP2350_Tx_Valid_Pins,
            RP2350_QFN80_Tx_Valid_Pins, Uarts
<1>1. CASE Chip = "RP2040"  BY <1>1
<1>2. CASE Chip = "RP2350A"  BY <1>2
<1>3. CASE Chip = "RP2350A_QFN80"  BY <1>3
<1>4. CASE Chip = "other"  BY <1>4
<1>5. QED  BY <1>1, <1>2, <1>3, <1>4, ChipAssumption DEF Chips

\* Two pins are two.
LEMMA TwoPins ==
  ASSUME NEW a, NEW b, a # b
  PROVE  Cardinality({a, b}) = 2
<1>1. {a, b} = {a} \cup {b} /\ b \notin {a}  OBVIOUS
<1>2. IsFiniteSet({a}) /\ Cardinality({a}) = 1  BY FS_Singleton
<1>3. QED  BY <1>1, <1>2, FS_AddElement

\* A pin as uint8_t is a number.
LEMMA PinIsInt == \A n \in Nat : uint8(n) \in Int
BY DEF uint8

LEMMA InitBoot == Init => BootInv
<1> SUFFICES ASSUME Init PROVE BootInv  OBVIOUS
<1>1. UartInit /\ boot = "init 0"  BY DEF Init
<1>2. /\ uart \in [Uarts -> UartState] /\ irqs \in [Uarts -> SUBSET {"Rx", "Tx"}]
      /\ gpio \in [Uarts -> SUBSET Int] /\ handler = {} /\ line = {}
      /\ \A u \in Uarts : gpio[u] = {}
  BY <1>1 DEF UartInit, UartState
<1>3. QED  BY <1>1, <1>2 DEF BootInv, BootSteps

LEMMA InitUartBoot ==
  ASSUME BootInv, NEW u \in Uarts,
         NEW next, next = IF u = 0 THEN "init 1" ELSE "handler", InitUart(u, next)
  PROVE  BootInv'
<1>1. boot = IF u = 0 THEN "init 0" ELSE "init 1"  BY DEF InitUart
<1>2. CASE ~AssertsOn
  <2>1. boot' = next /\ UNCHANGED uartVars  BY <1>2 DEF InitUart
  <2>2. QED  BY <1>1, <1>2, <2>1 DEF BootInv, uartVars, BootSteps, OnItsPins, Uarts
<1>3. CASE AssertsOn
  <2>1. PICK pins \in PinChoices, works \in BOOLEAN,
             error \in {"none", "baudRateDontSupported", "gpioNotSupportUartRx",
                        "gpioNotSupportUartTx"} :
               init(u, pins[1], pins[2], works, error) /\ AssertNone(error, next)
    BY <1>3 DEF InitUart
  <2> DEFINE rxPin == uint8(pins[1])
             txPin == uint8(pins[2])
  <2>2. rxPin \in Int /\ txPin \in Int
    <3>1. pins[1] \in Nat /\ pins[2] \in Nat  BY FirmwareAssumption
    <3>2. QED  BY <3>1, PinIsInt
  <2>3. uart' \in [Uarts -> UartState] /\ \A v \in Uarts : uart[v].enabled => uart'[v].enabled
    BY <2>1 DEF init, uart_init, BootInv, UartState
  <2>4. CASE error = "none"
    <3>1. works /\ isValidUART_Rx(u, rxPin) /\ isValidUART_Tx(u, txPin)
      BY <2>1, <2>4 DEF init
    <3>2. uart'[u].enabled  BY <2>1, <3>1 DEF init, uart_init, BootInv, UartState
    <3>3. gpio' = [gpio EXCEPT ![u] = {rxPin, txPin}] /\ boot' = next
          /\ UNCHANGED <<handler, line, irqs>>
      BY <2>1, <2>4 DEF init, AssertNone
    <3>4. gpio' \in [Uarts -> SUBSET Int] /\ gpio'[u] = {rxPin, txPin}
          /\ \A v \in Uarts : v # u => gpio'[v] = gpio[v]
      BY <2>2, <3>3 DEF BootInv
    <3>5. \A v \in Uarts : gpio'[v] # {} => OnItsPins(v)'
      <4> SUFFICES ASSUME NEW v \in Uarts, gpio'[v] # {} PROVE OnItsPins(v)'  OBVIOUS
      <4>1. CASE v = u
        BY <2>2, <3>1, <3>2, <3>4, <4>1 DEF OnItsPins, isValidUART_Rx, isValidUART_Tx
      <4>2. CASE v # u
        <5>1. gpio'[v] = gpio[v] /\ OnItsPins(v)  BY <3>4, <4>2 DEF BootInv
        <5>2. QED  BY <2>3, <5>1 DEF OnItsPins, isValidUART_Rx, isValidUART_Tx
      <4>3. QED  BY <4>1, <4>2
    <3>6. boot' \in BootSteps /\ gpio'[u] # {}  BY <3>3, <3>4 DEF BootSteps
    <3>7. line = {}  BY <1>1 DEF BootInv
    <3>8. AssertsOn' => /\ boot' \in BootSteps \ {"init 0", "aborted"} => gpio'[0] # {}
                        /\ boot' \in BootSteps \ {"init 0", "init 1", "aborted"} => gpio'[1] # {}
                        /\ boot' = "main" => 0 \in line'
      BY <1>1, <1>3, <3>3, <3>4, <3>6 DEF BootInv, BootSteps, Uarts
    <3>9. QED
      BY <1>1, <1>3, <2>3, <3>3, <3>4, <3>5, <3>6, <3>7, <3>8 DEF BootInv
  <2>5. CASE error # "none"
    <3>1. boot' = "aborted" /\ UNCHANGED <<gpio, handler, line, irqs>>
      BY <2>1, <2>5 DEF init, AssertNone
    <3>2. \A v \in Uarts : gpio'[v] # {} => OnItsPins(v)'
      BY <2>3, <3>1 DEF BootInv, OnItsPins, isValidUART_Rx, isValidUART_Tx
    <3>3. QED  BY <1>1, <2>3, <3>1, <3>2 DEF BootInv, BootSteps
  <2>6. QED  BY <2>4, <2>5
<1>4. QED  BY <1>2, <1>3

LEMMA SetHandlerBoot ==
  ASSUME BootInv, SetHandler
  PROVE  BootInv'
<1>1. /\ boot = "handler" /\ boot' = "irq" /\ handler' = handler \cup {0}
      /\ UNCHANGED <<uart, line, irqs, gpio>>
  BY DEF SetHandler, setHandlerForIRQ
<1>2. \A u \in Uarts : OnItsPins(u) => OnItsPins(u)'
  BY <1>1 DEF OnItsPins, isValidUART_Rx, isValidUART_Tx
<1>3. QED  BY <1>1, <1>2 DEF BootInv, BootSteps, Uarts

LEMMA EnableRxIRQBoot ==
  ASSUME BootInv, EnableRxIRQ
  PROVE  BootInv'
<1>1. boot = "irq" /\ 0 \in handler /\ line = {}  BY DEF EnableRxIRQ, BootInv
<1>2. CASE ~AssertsOn
  <2>1. boot' = "main" /\ UNCHANGED uartVars  BY <1>2 DEF EnableRxIRQ
  <2>2. \A u \in Uarts : OnItsPins(u) => OnItsPins(u)'
    BY <2>1 DEF uartVars, OnItsPins, isValidUART_Rx, isValidUART_Tx
  <2>3. QED  BY <1>1, <1>2, <2>1, <2>2 DEF BootInv, uartVars, BootSteps
<1>3. CASE AssertsOn
  <2>1. PICK error \in {"none", "irqHandlerNotSetted"} :
             enableIRQ(0, "Rx", TRUE, error) /\ AssertNone(error, "main")
    BY <1>3 DEF EnableRxIRQ
  <2>2. error = "none" /\ boot' = "main"  BY <1>1, <2>1 DEF enableIRQ, AssertNone
  <2>3. /\ uart' = [uart EXCEPT ![0].RxIRQEnabled = TRUE]
        /\ irqs' = [irqs EXCEPT ![0] = EnabledFlags(0)]
        /\ line' = IF EnabledFlags(0) # {} THEN line \cup {0} ELSE line \ {0}
        /\ UNCHANGED <<handler, gpio>>
    BY <2>1, <2>2 DEF enableIRQ
  <2>4. /\ uart' \in [Uarts -> UartState] /\ uart'[0].RxIRQEnabled
        /\ \A u \in Uarts : uart'[u].enabled = uart[u].enabled
    BY <2>3 DEF BootInv, Uarts, UartState
  <2>5. "Rx" \in EnabledFlags(0) /\ EnabledFlags(0) \subseteq {"Rx", "Tx"}
    BY <2>4 DEF EnabledFlags
  <2>6. irqs' \in [Uarts -> SUBSET {"Rx", "Tx"}] /\ "Rx" \in irqs'[0] /\ line' = {0}
    BY <1>1, <2>3, <2>5 DEF BootInv, Uarts
  <2>7. \A u \in Uarts : OnItsPins(u) => OnItsPins(u)'
    BY <2>3, <2>4 DEF OnItsPins, isValidUART_Rx, isValidUART_Tx
  <2>8. gpio[0] # {} /\ gpio[1] # {}  BY <1>1, <1>3 DEF BootInv, BootSteps
  <2>9. QED
    BY <1>1, <1>3, <2>2, <2>3, <2>4, <2>6, <2>7, <2>8 DEF BootInv, BootSteps
<1>4. QED  BY <1>2, <1>3

LEMMA BootStep == BootInv /\ [Next]_vars => BootInv'
<1> SUFFICES ASSUME BootInv, [Next]_vars PROVE BootInv'  OBVIOUS
<1>1. CASE UNCHANGED <<uartVars, boot>>
  <2>1. \A u \in Uarts : OnItsPins(u) => OnItsPins(u)'
    BY <1>1 DEF uartVars, OnItsPins, isValidUART_Rx, isValidUART_Tx
  <2>2. QED  BY <1>1, <2>1 DEF uartVars, BootInv
<1>2. CASE Core0Init
  <2>1. CASE InitUart(0, "init 1")
    <3>1. 0 \in Uarts /\ "init 1" = IF 0 = 0 THEN "init 1" ELSE "handler"  BY DEF Uarts
    <3>2. QED  BY <2>1, <3>1, InitUartBoot
  <2>2. CASE InitUart(1, "handler")
    <3>1. 1 \in Uarts /\ "handler" = IF 1 = 0 THEN "init 1" ELSE "handler"  BY DEF Uarts
    <3>2. QED  BY <2>2, <3>1, InitUartBoot
  <2>3. QED  BY <1>2, <2>1, <2>2, SetHandlerBoot, EnableRxIRQBoot DEF Core0Init
<1>3. CASE FeedByte \/ FeedRaisesOverflow \/ FeedCallsBack \/ Core0Main \/ Core1
  BY <1>1, <1>3
  DEF FeedByte, FeedRaisesOverflow, FeedCallsBack, Core0Main, Core1, CallTryReadFrame,
      RunTryReadFrame, LeaveLoop, Wake, Discard, Answer, FeedResponse
<1>4. QED  BY <1>1, <1>2, <1>3 DEF Next, vars

LEMMA BootInvariance == Spec => []BootInv
BY InitBoot, BootStep, PTL DEF Spec

\* An interrupt line is open only for a UART that runs, has its handler and was given an Rx
\* and a Tx pin of its own, whichever pins init was called with.
THEOREM LinesPrepared == Spec => []InterruptsPrepared
<1>1. BootInv => InterruptsPrepared
  <2> SUFFICES ASSUME BootInv PROVE InterruptsPrepared  OBVIOUS
  <2>1. ASSUME NEW u \in line
        PROVE  u \in handler /\ uart[u].enabled /\ irqs[u] # {} /\ Cardinality(gpio[u]) = 2
    <3>1. u = 0 /\ u \in handler /\ irqs[u] # {} /\ gpio[u] # {} /\ u \in Uarts
      BY <2>1 DEF BootInv, Uarts
    <3>2. PICK rxPin, txPin \in Int :
               /\ gpio[u] = {rxPin, txPin}
               /\ isValidUART_Rx(u, rxPin) /\ isValidUART_Tx(u, txPin)
      BY <3>1 DEF BootInv, OnItsPins
    <3>3. uart[u].enabled  BY <3>1 DEF BootInv, OnItsPins
    <3>4. rxPin # txPin  BY <3>1, <3>2, PinsApart
    <3>5. Cardinality({rxPin, txPin}) = 2  BY <3>4, TwoPins
    <3>6. QED  BY <3>1, <3>2, <3>3, <3>5
  <2>2. gpio[0] \cap gpio[1] = {}
    <3>1. 0 \in Uarts /\ 1 \in Uarts /\ 0 # 1  BY DEF Uarts
    <3>2. CASE gpio[0] = {} \/ gpio[1] = {}  BY <3>2
    <3>3. CASE gpio[0] # {} /\ gpio[1] # {}
      <4>1. OnItsPins(0) /\ OnItsPins(1)  BY <3>1, <3>3 DEF BootInv
      <4>2. PICK rxPin, txPin \in Int :
                 /\ gpio[0] = {rxPin, txPin}
                 /\ isValidUART_Rx(0, rxPin) /\ isValidUART_Tx(0, txPin)
        BY <4>1 DEF OnItsPins
      <4>3. PICK rxPin2, txPin2 \in Int :
                 /\ gpio[1] = {rxPin2, txPin2}
                 /\ isValidUART_Rx(1, rxPin2) /\ isValidUART_Tx(1, txPin2)
        BY <4>1 DEF OnItsPins
      <4>4. rxPin # rxPin2 /\ txPin # txPin2 /\ rxPin # txPin2 /\ rxPin2 # txPin
        BY <3>1, <4>2, <4>3, PinsApart
      <4>5. QED  BY <4>2, <4>3, <4>4
    <3>4. QED  BY <3>2, <3>3
  <2>3. QED  BY <2>1, <2>2 DEF InterruptsPrepared
<1>2. QED  BY <1>1, BootInvariance, PTL

\* When init has returned, in a build that evaluates assert, both UARTs run and UART 0
\* interrupts.
THEOREM BootReturnsReady ==
  ASSUME AssertsOn
  PROVE  Spec => []InitReturnsReady
<1>1. BootInv => InitReturnsReady
  BY DEF BootInv, BootSteps, InitReturnsReady, Receiving, OnItsPins, Uarts
<1>2. QED  BY <1>1, BootInvariance, PTL

-----------------------------------------------------------------------------
(* The receive queue.                                                      *)

RxP == INSTANCE FrameWaiterProofs WITH Capacities <- {BufferSize}

LEMMA RxSize == RxP!SizeAssumption
BY FirmwareAssumption DEF RxP!SizeAssumption

\* The queue of Firmware is the one the proofs are about.
LEMMA SameFeed ==
  /\ \A b : Rx!FeedDropped(b) => RxP!FeedDropped(b)
  /\ \A b : Rx!FeedInserted(b) => RxP!FeedInserted(b)
  /\ \A b : Rx!FeedRefused(b) => RxP!FeedRefused(b)
  /\ Rx!StoreOverflow => RxP!StoreOverflow
  /\ Rx!Callback => RxP!Callback
  /\ Rx!SentBytes = RxP!SentBytes
<1> USE DEF Rx!NextByte, RxP!NextByte, Rx!Data, RxP!Data, Rx!Delimiter, RxP!Delimiter,
            Rx!senderVars, RxP!senderVars, Rx!consumerVars, RxP!consumerVars
<1>1. ASSUME NEW b, Rx!FeedDropped(b) PROVE RxP!FeedDropped(b)
  BY <1>1, Zenon DEF Rx!FeedDropped, RxP!FeedDropped
<1>2. ASSUME NEW b, Rx!FeedInserted(b) PROVE RxP!FeedInserted(b)
  BY <1>2, Zenon DEF Rx!FeedInserted, RxP!FeedInserted
<1>3. ASSUME NEW b, Rx!FeedRefused(b) PROVE RxP!FeedRefused(b)
  BY <1>3, Zenon DEF Rx!FeedRefused, RxP!FeedRefused
<1>4. Rx!StoreOverflow => RxP!StoreOverflow
  BY Zenon DEF Rx!StoreOverflow, RxP!StoreOverflow, Rx!StartDropping, RxP!StartDropping
<1>5. Rx!Callback => RxP!Callback
  BY Zenon DEF Rx!Callback, RxP!Callback
<1>6. Rx!SentBytes = RxP!SentBytes
  BY DEF Rx!SentBytes, RxP!SentBytes
<1>7. QED  BY <1>1, <1>2, <1>3, <1>4, <1>5, <1>6

LEMMA SameRead ==
  /\ Rx!Step => RxP!Step
  /\ \A c : Rx!TryReadFrame(c) => RxP!TryReadFrame(c)
BY Zenon
DEF Rx!Step, RxP!Step, Rx!ReadDelimiter, RxP!ReadDelimiter, Rx!ReadData, RxP!ReadData,
    Rx!ReadTooLong, RxP!ReadTooLong, Rx!ReadEmpty, RxP!ReadEmpty,
    Rx!ExchangeOverflow, RxP!ExchangeOverflow, Rx!ExchangeNothing, RxP!ExchangeNothing,
    Rx!DropByte, RxP!DropByte, Rx!DropEmpty, RxP!DropEmpty,
    Rx!TryReadFrame, RxP!TryReadFrame, Rx!Remove, RxP!Remove,
    Rx!RemoveNothing, RxP!RemoveNothing, Rx!Return, RxP!Return, Rx!Record, RxP!Record,
    Rx!TooSmall, RxP!TooSmall, Rx!PendingFull, RxP!PendingFull,
    Rx!ClearPending, RxP!ClearPending, Rx!OverflowToFalse, RxP!OverflowToFalse,
    Rx!senderVars, RxP!senderVars, Rx!producerVars, RxP!producerVars

\* What a step of the firmware does to the queue that core 0 feeds is a step of the queue, if it
\* is the one core 1 reads, and always if core 1 is not reading.
LEMMA RxMoves ==
  ASSUME [Next]_vars, RunTryReadFrame => SharedQueues
  PROVE  [RxP!Next]_(RxP!vars)
<1>1. CASE UNCHANGED rxVars
  BY <1>1 DEF rxVars, RxP!vars, RxP!senderVars, RxP!producerVars, RxP!consumerVars
<1>2. CASE FeedByte \/ FeedRaisesOverflow \/ FeedCallsBack
  <2>1. RxP!Feed
    BY <1>2, SameFeed DEF FeedByte, FeedRaisesOverflow, FeedCallsBack, RxP!Feed
  <2>2. QED  BY <2>1 DEF RxP!Next
<1>3. CASE CallTryReadFrame \/ RunTryReadFrame
  <2>1. RxP!Consume
    BY <1>3, SameRead DEF CallTryReadFrame, RunTryReadFrame, RxP!Consume
  <2>2. QED  BY <2>1 DEF RxP!Next
<1>4. CASE Core0Init \/ Core0Main \/ LeaveLoop \/ Wake \/ Discard \/ Answer \/ FeedResponse
  BY <1>1, <1>4
  DEF Core0Init, InitUart, SetHandler, EnableRxIRQ, Core0Main, LeaveLoop, Wake, Discard, Answer,
      FeedResponse
<1>5. QED  BY <1>1, <1>2, <1>3, <1>4 DEF Next, Core1, vars

\* A frame that was ended has no more bytes than the host sends in one.
LengthInv == \A f \in 1 .. Len(lengths) : lengths[f] <= MaxLen

RxInv ==
    /\ RxP!TypeInv /\ RxP!ChainInv /\ RxP!OutInv /\ RxP!SmoothInv /\ RxP!EndInv
    /\ LengthInv

LEMMA InitRx == Init => RxInv
<1> SUFFICES ASSUME Init PROVE RxInv  OBVIOUS
<1>1. RxP!Init  BY DEF Init, Rx!Init, RxP!Init
<1>2. 1 .. Len(lengths) = {}  BY <1>1, EmptySeq DEF RxP!Init
<1>3. RxP!TypeInv /\ RxP!ChainInv /\ RxP!OutInv /\ RxP!SmoothInv /\ RxP!EndInv
  BY <1>1, RxSize, RxP!InitType, RxP!InitChain, RxP!InitOut, RxP!InitSmooth, RxP!InitEnd
<1>4. QED  BY <1>2, <1>3 DEF RxInv, LengthInv

LEMMA RxStep ==
  ASSUME SharedQueues, RxInv, [Next]_vars
  PROVE  RxInv'
<1>1. [RxP!Next]_(RxP!vars)  BY RxMoves
<1>2. RxP!TypeInv' /\ RxP!ChainInv' /\ RxP!OutInv' /\ RxP!SmoothInv' /\ RxP!EndInv'
  BY <1>1, RxSize, RxP!TypeStep, RxP!ChainStep, RxP!OutStep, RxP!SmoothStep, RxP!EndStep
  DEF RxInv
<1>3. LengthInv'
  <2>1. /\ lengths \in Seq(Nat) /\ Len(lengths) \in Nat /\ sentBytes \in 0 .. MaxLen
        /\ MaxLen \in Nat
    BY FirmwareAssumption DEF RxInv, RxP!TypeInv, RxP!TypeOK
  <2>2. lengths' = lengths \/ lengths' = Append(lengths, sentBytes)
    BY <1>1
    DEF RxP!Next, RxP!Feed, RxP!FeedDropped, RxP!FeedInserted, RxP!FeedRefused, RxP!NextByte,
        RxP!StoreOverflow, RxP!Callback, RxP!Consume, RxP!Step, RxP!ReadDelimiter,
        RxP!ReadData, RxP!ReadTooLong, RxP!ReadEmpty, RxP!ExchangeOverflow,
        RxP!ExchangeNothing, RxP!DropByte, RxP!DropEmpty, RxP!TryReadFrame, RxP!Remove,
        RxP!RemoveNothing, RxP!senderVars, RxP!vars
  <2>3. CASE lengths' = lengths  BY <2>3 DEF RxInv, LengthInv
  <2>4. CASE lengths' = Append(lengths, sentBytes)
    <3>1. /\ Len(lengths') = Len(lengths) + 1 /\ lengths'[Len(lengths) + 1] = sentBytes
          /\ \A f \in 1 .. Len(lengths) : lengths'[f] = lengths[f]
      BY <2>1, <2>4, AppendProperties
    <3>2. \A f \in 1 .. Len(lengths') : f \in 1 .. Len(lengths) \/ f = Len(lengths) + 1
      BY <2>1, <3>1
    <3>3. QED  BY <2>1, <3>1, <3>2 DEF RxInv, LengthInv
  <2>5. QED  BY <2>2, <2>3, <2>4
<1>4. QED  BY <1>2, <1>3 DEF RxInv

\* If both cores use the same UART_0_Rx_FrameWaiter, there is one FrameQueue between the interrupt
\* and core 1, whatever either core does around its calls of feed and tryReadFrame.  In the
\* program as it is built there is none: NothingReceived.
THEOREM ReceivesThroughQueue ==
  ASSUME SharedQueues
  PROVE  Spec => RxP!ImplementsFrameQueue
<1>1. Init => RxP!Init  BY DEF Init, Rx!Init, RxP!Init
<1>2. Init => RxP!Queue!Init  BY <1>1, RxSize, RxP!QueueInit
<1>3. RxInv /\ [Next]_vars => RxInv' /\ [RxP!Queue!Next]_(RxP!Queue!vars)
  BY RxStep, RxMoves, RxSize, RxP!QueueStep DEF RxInv
<1>4. QED
  BY <1>2, <1>3, InitRx, PTL DEF Spec, RxP!ImplementsFrameQueue, RxP!Queue!Spec

-----------------------------------------------------------------------------
(* Core 1 and its events.                                                  *)

\* Core 1 found the ring empty since it last took its event: it is about to leave its loop.
Leaving ==
    \/ consumer = "exchange"
    \/ core1 = "called" /\ consumer = "idle" /\ status # "OK"
    \/ core1 = "sleep"

\* Inside tryReadFrame core 1 is at no other place; and if it is about to leave its loop, an
\* event is set, or will be, for any frame that has got into the ring since.
WakeInv ==
    /\ core1 # "called" => consumer = "idle"
    /\ ~everFull /\ Leaving /\ HoldsFrame => 1 \in events \/ producer = "callback"

\* Frames are no longer than the ring: while nothing was refused, nothing is lost.
LEMMA SmoothWhileNotFull ==
  ASSUME MaxLen <= BufferSize, RxInv, ~everFull
  PROVE  RxP!Smooth /\ consumer # "dropping" /\ ~overflow
<1>1. /\ lengths \in Seq(Nat) /\ sentBytes \in 0 .. MaxLen /\ MaxLen \in Nat
      /\ BufferSize \in Nat
  BY FirmwareAssumption DEF RxInv, RxP!TypeInv, RxP!TypeOK
<1>2. \A f \in DOMAIN lengths : f \in 1 .. Len(lengths) /\ lengths[f] \in Nat
  BY <1>1, LenProperties, ElementOfSeq
<1>3. RxP!Smooth  BY <1>1, <1>2 DEF RxP!Smooth, RxInv, LengthInv
<1>4. QED  BY <1>3 DEF RxInv, RxP!SmoothInv

LEMMA InitWake == Init => WakeInv
BY DEF Init, Rx!Init, WakeInv, Leaving

\* Feeding a byte: a delimiter that gets into the ring is followed by the callback.
LEMMA FeedWakes ==
  ASSUME RxInv, WakeInv, FeedByte
  PROVE  WakeInv'
<1>1. UNCHANGED <<core1, events, consumer, status>>
  BY DEF FeedByte, core1Vars, Rx!FeedDropped, Rx!FeedInserted, Rx!FeedRefused,
         Rx!consumerVars
<1>2. producer = "idle"
  BY DEF FeedByte, Rx!FeedDropped, Rx!FeedInserted, Rx!FeedRefused, Rx!NextByte
<1>3. ASSUME NEW b, Rx!FeedDropped(b)  PROVE WakeInv'
  <2>1. UNCHANGED <<producer, buffer, everFull>>  BY <1>3 DEF Rx!FeedDropped
  <2>2. QED  BY <1>1, <2>1 DEF WakeInv, Leaving, HoldsFrame
<1>4. ASSUME NEW b \in Rx!SentBytes, Rx!FeedInserted(b)  PROVE WakeInv'
  <2>1. /\ buffer' = Append(buffer, b) /\ everFull' = everFull
        /\ producer' = IF b.delimiter THEN "callback" ELSE "idle"
    BY <1>4 DEF Rx!FeedInserted
  <2>2. CASE b.delimiter  BY <1>1, <2>1, <2>2 DEF WakeInv, Leaving
  <2>3. CASE ~b.delimiter
    <3>1. b \in RxP!Bytes /\ buffer \in Seq(RxP!Bytes) /\ Len(buffer) \in Nat
      <4>1. buffer \in Seq(RxP!Bytes) /\ frame \in Nat /\ sentBytes \in Nat
        BY FirmwareAssumption DEF RxInv, RxP!TypeInv, RxP!TypeOK
      <4>2. b \in RxP!Bytes
        <5>1. \/ b = [frame |-> frame, pos |-> sentBytes + 1, delimiter |-> FALSE]
              \/ b = [frame |-> frame, pos |-> 0, delimiter |-> TRUE]
          BY DEF Rx!SentBytes, Rx!Data, Rx!Delimiter
        <5>2. CASE b = [frame |-> frame, pos |-> sentBytes + 1, delimiter |-> FALSE]
          BY <4>1, <5>2 DEF RxP!Bytes
        <5>3. CASE b = [frame |-> frame, pos |-> 0, delimiter |-> TRUE]
          BY <4>1, <5>3 DEF RxP!Bytes
        <5>4. QED  BY <5>1, <5>2, <5>3
      <4>3. QED  BY <4>1, <4>2
    <3>2. /\ Len(buffer') = Len(buffer) + 1 /\ buffer'[Len(buffer) + 1] = b
          /\ \A i \in 1 .. Len(buffer) : buffer'[i] = buffer[i]
      BY <2>1, <3>1, AppendProperties
    <3>3. \A i \in 1 .. Len(buffer') : i \in 1 .. Len(buffer) \/ i = Len(buffer) + 1
      BY <3>1, <3>2
    <3>4. HoldsFrame' => HoldsFrame  BY <2>3, <3>2, <3>3 DEF HoldsFrame
    <3>5. QED  BY <1>1, <1>2, <2>1, <3>4 DEF WakeInv, Leaving
  <2>4. QED  BY <2>2, <2>3
<1>5. ASSUME NEW b, Rx!FeedRefused(b)  PROVE WakeInv'
  <2>1. everFull'  BY <1>5 DEF Rx!FeedRefused
  <2>2. QED  BY <1>1, <2>1 DEF WakeInv
<1>6. QED  BY <1>3, <1>4, <1>5 DEF FeedByte

\* A step inside tryReadFrame leaves the call with another status than OK, or goes on to
\* look at overflow_m, only after the ring was empty.
LEMMA ReadWakes ==
  ASSUME SharedQueues, MaxLen <= BufferSize, RxInv, WakeInv, RunTryReadFrame
  PROVE  WakeInv'
<1>1. /\ core1 = "called" /\ Rx!Step /\ UNCHANGED <<core1, events>>
  BY DEF RunTryReadFrame, core1Vars
<1>2. UNCHANGED <<producer, everFull>>
  BY <1>1
  DEF Rx!Step, Rx!ReadDelimiter, Rx!ReadData, Rx!ReadTooLong, Rx!ReadEmpty,
      Rx!ExchangeOverflow, Rx!ExchangeNothing, Rx!DropByte, Rx!DropEmpty, Rx!Remove,
      Rx!RemoveNothing, Rx!producerVars
<1> SUFFICES ASSUME ~everFull, Leaving', HoldsFrame'
             PROVE  1 \in events \/ producer = "callback"
  BY <1>1, <1>2 DEF WakeInv
<1>3. consumer # "dropping" /\ ~overflow  BY SmoothWhileNotFull
<1>4. CASE Rx!ReadDelimiter
  <2>1. /\ consumer = "reading" /\ consumer' = "idle"
        /\ status' = IF Len(pending) > capacity THEN "BufferTooSmall" ELSE "OK"
    BY <1>4 DEF Rx!ReadDelimiter, Rx!Remove, Rx!Return, Rx!TooSmall
  <2>2. capacity = BufferSize /\ Len(pending) <= BufferSize /\ Len(pending) \in Nat
    BY <2>1 DEF RxInv, RxP!TypeInv, RxP!TypeOK
  <2>3. status' = "OK"  BY <2>1, <2>2, FirmwareAssumption
  <2>4. QED  BY <1>1, <2>1, <2>3 DEF Leaving
<1>5. CASE Rx!ReadData \/ Rx!ReadTooLong
  BY <1>1, <1>5 DEF Rx!ReadData, Rx!ReadTooLong, Rx!Remove, Leaving
<1>6. CASE Rx!ReadEmpty
  <2>1. buffer' = << >>  BY <1>6 DEF Rx!ReadEmpty, Rx!RemoveNothing
  <2>2. 1 .. Len(buffer') = {}  BY <2>1, EmptySeq
  <2>3. QED  BY <2>2 DEF HoldsFrame
<1>7. CASE Rx!ExchangeOverflow  BY <1>3, <1>7 DEF Rx!ExchangeOverflow
<1>8. CASE Rx!ExchangeNothing
  BY <1>2, <1>8 DEF Rx!ExchangeNothing, Leaving, HoldsFrame, WakeInv
<1>9. CASE Rx!DropByte \/ Rx!DropEmpty
  BY <1>3, <1>9 DEF Rx!DropByte, Rx!DropEmpty, Rx!Remove, Rx!RemoveNothing
<1>10. QED  BY <1>1, <1>4, <1>5, <1>6, <1>7, <1>8, <1>9 DEF Rx!Step

LEMMA WakeStep ==
  ASSUME SharedQueues, MaxLen <= BufferSize, RxInv, WakeInv, [Next]_vars
  PROVE  WakeInv'
<1> USE DEF WakeInv, Leaving, HoldsFrame
<1>1. CASE UNCHANGED <<rxVars, core1, events>>  BY <1>1 DEF rxVars
<1>2. CASE Core0Init
  BY <1>1, <1>2 DEF Core0Init, InitUart, SetHandler, EnableRxIRQ, core1Vars
<1>3. CASE FeedByte  BY <1>3, FeedWakes
<1>4. CASE FeedRaisesOverflow
  BY <1>4 DEF FeedRaisesOverflow, Rx!StoreOverflow, Rx!consumerVars, core1Vars
<1>5. CASE FeedCallsBack
  BY <1>5 DEF FeedCallsBack, Rx!Callback, Sev, Rx!consumerVars, core1Vars
<1>6. CASE Core0Main  BY <1>6 DEF Core0Main, rxVars, core1Vars
<1>7. CASE CallTryReadFrame
  BY <1>7 DEF CallTryReadFrame, Rx!TryReadFrame, Rx!producerVars
<1>8. CASE RunTryReadFrame  BY <1>8, ReadWakes
<1>9. CASE LeaveLoop
  BY <1>9 DEF LeaveLoop, Returned, rxVars
<1>10. CASE Wake  BY <1>10 DEF Wake, rxVars
<1>11. CASE Discard  BY <1>11 DEF Discard, Returned, ContinueLoop, rxVars
<1>12. CASE Answer  BY <1>12 DEF Answer, Returned, rxVars
<1>13. CASE FeedResponse  BY <1>13 DEF FeedResponse, rxVars
<1>14. QED
  BY <1>1, <1>2, <1>3, <1>4, <1>5, <1>6, <1>7, <1>8, <1>9, <1>10, <1>11, <1>12, <1>13
  DEF Next, Core1, vars, core1Vars

\* If both cores use the same UART_0_Rx_FrameWaiter, and as long as frames are no longer than the
\* ring and no byte was refused, core 1 does not sleep, with no event to come, on a ring that
\* holds a whole frame.
THEOREM NoSleepOverFrame ==
  ASSUME SharedQueues, MaxLen <= BufferSize
  PROVE  Spec => []NoFrameSleptOver
<1>1. Init => RxInv /\ WakeInv  BY InitRx, InitWake
<1>2. RxInv /\ WakeInv /\ [Next]_vars => (RxInv /\ WakeInv)'  BY RxStep, WakeStep
<1>3. WakeInv => NoFrameSleptOver  BY DEF WakeInv, Leaving, NoFrameSleptOver, Asleep
<1>4. QED  BY <1>1, <1>2, <1>3, PTL DEF Spec

-----------------------------------------------------------------------------
(* Responses.                                                              *)

TxState == [ring : Seq(0 .. MaxFrames), dropping : BOOLEAN, overflow : BOOLEAN]

ResponseLen == ResponseSize + 1

\* The k-th byte of the response to the i-th frame of a.
ResponseByte(a, i, k) == IF k <= ResponseSize THEN a[i] ELSE 0

CoreTypeInv ==
    /\ core1 \in {"call", "called", "answering", "sleep"} /\ events \subseteq {0, 1}
    /\ tx \in TxState /\ Len(tx.ring) <= TxBufferSize
    /\ unfed \in Seq(0 .. MaxFrames) /\ (core1 = "answering" <=> unfed # << >>)
    /\ answered \in Seq(1 .. MaxFrames)

\* Core 1 answers frames that ended a call, in the order of the calls, and the last of them
\* only once.
AnswerInv ==
    /\ Returned({"OK"}) => results # << >> /\ results[Len(results)].status = "OK"
    /\ \A i, j \in 1 .. Len(answered) : i < j => answered[i] < answered[j]
    /\ \A i \in 1 .. Len(answered) : \E k \in 1 .. Len(results) :
         answered[i] = results[k].end /\ (Returned({"OK"}) => k < Len(results))

\* The ring holds the responses from the first on; while it has room it holds all that was
\* fed, and what is not fed is the end of the last response.
RingHolds(r, a, u, t) ==
    /\ Len(u) <= r
    /\ \A i \in 1 .. Len(u) : u[i] = ResponseByte(a, Len(a), (r - Len(u)) + i)
    /\ Len(t.ring) <= Len(a) * r - Len(u)
    /\ Len(t.ring) < TxBufferSize => ~t.dropping /\ Len(t.ring) = Len(a) * r - Len(u)
    /\ \A i \in 1 .. Len(a), k \in 1 .. r :
         (i - 1) * r + k <= Len(t.ring) => t.ring[(i - 1) * r + k] = ResponseByte(a, i, k)

RingInv == RingHolds(ResponseLen, answered, unfed, tx)

LEMMA Multiple ==
  ASSUME NEW a \in Nat, NEW b \in Nat, NEW r \in Nat, a < b
  PROVE  a * r + r <= b * r
<1>1. PICK d \in Nat : b = (a + 1) + d
  <2>1. b - (a + 1) \in Nat /\ b = (a + 1) + (b - (a + 1))  OBVIOUS
  <2>2. QED  BY <2>1
<1>2. ((a + 1) + d) * r = (a * r + r) + d * r  OBVIOUS
<1>3. d * r \in Nat /\ a * r \in Nat  OBVIOUS
<1>4. QED  BY <1>1, <1>2, <1>3

\* A place in the ring belongs to one byte of one response.
LEMMA OnePlace ==
  ASSUME NEW r \in Nat, NEW a \in Nat, NEW b \in Nat, NEW k \in 1 .. r, NEW q \in 1 .. r,
         a * r + k = b * r + q
  PROVE  a = b /\ k = q
<1>1. a * r \in Nat /\ b * r \in Nat  OBVIOUS
<1>2. ~(a < b)
  <2>1. a < b => a * r + r <= b * r  BY Multiple
  <2>2. QED  BY <1>1, <2>1
<1>3. ~(b < a)
  <2>1. b < a => b * r + r <= a * r  BY Multiple
  <2>2. QED  BY <1>1, <2>1
<1>4. a = b  BY <1>2, <1>3
<1>5. QED  BY <1>1, <1>4

\* What feeding a byte does to the transmit queue.
LEMMA FeedTxResult ==
  ASSUME NEW t \in TxState, Len(t.ring) <= TxBufferSize, NEW byte \in 0 .. MaxFrames,
         NEW u, u = FeedTx(t, byte)
  PROVE  /\ u \in TxState /\ Len(u.ring) <= TxBufferSize
         /\ \/ u.ring = t.ring /\ (t.dropping \/ Len(t.ring) = TxBufferSize)
            \/ /\ u.ring = Append(t.ring, byte) /\ Len(t.ring) < TxBufferSize
               /\ ~t.dropping /\ ~u.dropping
<1>1. /\ t.ring \in Seq(0 .. MaxFrames) /\ t.dropping \in BOOLEAN /\ t.overflow \in BOOLEAN
      /\ Len(t.ring) \in Nat /\ TxBufferSize \in Nat
  BY FirmwareAssumption DEF TxState
<1>2. CASE t.dropping
  <2>1. u = [t EXCEPT !.dropping = byte # 0]  BY <1>2 DEF FeedTx
  <2>2. (byte # 0) \in BOOLEAN  OBVIOUS
  <2>3. u \in TxState /\ u.ring = t.ring  BY <2>1, <2>2 DEF TxState
  <2>4. QED  BY <1>2, <2>3
<1>3. CASE ~t.dropping /\ Len(t.ring) = TxBufferSize
  <2>1. u = [t EXCEPT !.overflow = TRUE, !.dropping = TRUE]  BY <1>3 DEF FeedTx
  <2>2. u \in TxState /\ u.ring = t.ring  BY <2>1 DEF TxState
  <2>3. QED  BY <1>3, <2>2
<1>4. CASE ~t.dropping /\ Len(t.ring) # TxBufferSize
  <2>1. u = [t EXCEPT !.ring = Append(t.ring, byte)]  BY <1>4 DEF FeedTx
  <2>2. Append(t.ring, byte) \in Seq(0 .. MaxFrames)
        /\ Len(Append(t.ring, byte)) = Len(t.ring) + 1
    BY <1>1, AppendProperties
  <2>3. u \in TxState /\ u.ring = Append(t.ring, byte) /\ u.dropping = t.dropping
    BY <2>1, <2>2 DEF TxState
  <2>4. QED  BY <1>1, <1>4, <2>2, <2>3
<1>5. QED  BY <1>2, <1>3, <1>4

LEMMA FeedResponseRing ==
  ASSUME CoreTypeInv, RingInv, FeedResponse
  PROVE  CoreTypeInv' /\ RingInv'
<1> DEFINE byte == Head(unfed)
           A == Len(answered)
           n == Len(unfed)
           m == Len(tx.ring)
<1>1. /\ core1 = "answering" /\ tx' = FeedTx(tx, byte) /\ unfed' = Tail(unfed)
      /\ core1' = IF unfed' = << >> THEN "call" ELSE "answering"
      /\ events' = IF byte = 0 /\ tx'.ring # tx.ring THEN {0, 1} ELSE events
      /\ answered' = answered
  BY DEF FeedResponse
<1>2. /\ unfed # << >> /\ n \in Nat \ {0} /\ byte = unfed[1] /\ byte \in 0 .. MaxFrames
      /\ Tail(unfed) \in Seq(0 .. MaxFrames) /\ Len(Tail(unfed)) = n - 1
      /\ \A i \in 1 .. Len(Tail(unfed)) : Tail(unfed)[i] = unfed[i + 1]
  <2>1. unfed \in Seq(0 .. MaxFrames) /\ unfed # << >>  BY <1>1 DEF CoreTypeInv
  <2>2. n \in Nat \ {0} /\ 1 \in 1 .. n  BY <2>1, EmptySeq
  <2>3. /\ byte = unfed[1] /\ Tail(unfed) \in Seq(0 .. MaxFrames)
        /\ Len(Tail(unfed)) = n - 1
        /\ \A i \in 1 .. Len(Tail(unfed)) : Tail(unfed)[i] = unfed[i + 1]
    BY <2>1, HeadTailProperties
  <2>4. unfed[1] \in 0 .. MaxFrames  BY <2>1, <2>2, ElementOfSeq
  <2>5. QED  BY <2>1, <2>2, <2>3, <2>4
<1>3. /\ tx' \in TxState /\ Len(tx'.ring) <= TxBufferSize
      /\ \/ tx'.ring = tx.ring /\ (tx.dropping \/ m = TxBufferSize)
         \/ /\ tx'.ring = Append(tx.ring, byte) /\ m < TxBufferSize
            /\ ~tx.dropping /\ ~tx'.dropping
  BY <1>1, <1>2, FeedTxResult DEF CoreTypeInv
<1>4. CoreTypeInv'
  <2>1. core1' = "answering" <=> unfed' # << >>  BY <1>1
  <2>2. core1' \in {"call", "called", "answering", "sleep"} /\ events' \subseteq {0, 1}
    BY <1>1 DEF CoreTypeInv
  <2>3. QED  BY <1>1, <1>2, <1>3, <2>1, <2>2 DEF CoreTypeInv
<1>5. /\ ResponseLen \in Nat \ {0} /\ A \in Nat /\ m \in Nat /\ n <= ResponseLen
      /\ TxBufferSize \in Nat /\ m <= TxBufferSize
      /\ tx.ring \in Seq(0 .. MaxFrames)
  BY FirmwareAssumption DEF ResponseLen, CoreTypeInv, TxState, RingInv, RingHolds
<1> HIDE DEF byte, A, n, m
<1>6. PICK r \in Nat \ {0} : r = ResponseLen  BY <1>5
<1>7. /\ \A i \in 1 .. n : unfed[i] = ResponseByte(answered, A, (r - n) + i)
      /\ m <= A * r - n
      /\ m < TxBufferSize => ~tx.dropping /\ m = A * r - n
      /\ \A i \in 1 .. A, k \in 1 .. r :
           (i - 1) * r + k <= m => tx.ring[(i - 1) * r + k] = ResponseByte(answered, i, k)
  BY <1>6 DEF RingInv, RingHolds, A, n, m
<1>8. \A i \in 1 .. n - 1 : unfed'[i] = ResponseByte(answered, A, (r - (n - 1)) + i)
  <2> SUFFICES ASSUME NEW i \in 1 .. n - 1
               PROVE  unfed'[i] = ResponseByte(answered, A, (r - (n - 1)) + i)
    OBVIOUS
  <2>1. i + 1 \in 1 .. n /\ (r - n) + (i + 1) = (r - (n - 1)) + i  BY <1>2
  <2>2. unfed'[i] = unfed[i + 1]  BY <1>1, <1>2
  <2>3. unfed[i + 1] = ResponseByte(answered, A, (r - n) + (i + 1))  BY <1>7, <2>1
  <2>4. QED  BY <2>1, <2>2, <2>3
<1>9. A * r \in Nat  BY <1>5
<1>10. CASE tx'.ring = tx.ring /\ (tx.dropping \/ m = TxBufferSize)
  <2>1. m = TxBufferSize  BY <1>5, <1>7, <1>10
  <2>2. m <= A * r - (n - 1)  BY <1>2, <1>5, <1>7, <1>9
  <2>3. /\ Len(unfed') = n - 1 /\ n - 1 <= r /\ Len(answered') = A /\ answered' = answered
        /\ Len(tx'.ring) = m /\ ~(m < TxBufferSize)
    BY <1>1, <1>2, <1>5, <1>6, <1>10, <2>1 DEF A, m
  <2>4. RingHolds(r, answered', unfed', tx')
    BY <1>7, <1>8, <1>10, <2>2, <2>3 DEF RingHolds
  <2>5. QED  BY <1>4, <1>6, <2>4 DEF RingInv
<1>11. CASE /\ tx'.ring = Append(tx.ring, byte) /\ m < TxBufferSize
            /\ ~tx.dropping /\ ~tx'.dropping
  <2>1. /\ Len(tx'.ring) = m + 1 /\ tx'.ring[m + 1] = byte
        /\ \A i \in 1 .. m : tx'.ring[i] = tx.ring[i]
    BY <1>2, <1>5, <1>11, AppendProperties DEF m
  <2>2. m = A * r - n  BY <1>7, <1>11
  <2>3. A # 0
    <3>1. A = 0 => A * r = 0  BY <1>6
    <3>2. QED  BY <1>2, <1>5, <2>2, <3>1
  <2>4. PICK p \in Nat : p = A - 1
    <3>1. A - 1 \in Nat  BY <1>5, <2>3
    <3>2. QED  BY <3>1
  <2>5. A * r = p * r + r
    <3>1. A = p + 1  BY <1>5, <2>4
    <3>2. (p + 1) * r = p * r + r  OBVIOUS
    <3>3. QED  BY <3>1, <3>2
  <2>6. PICK q \in 1 .. r : q = (r - n) + 1
    <3>1. (r - n) + 1 \in 1 .. r  BY <1>2, <1>5, <1>6
    <3>2. QED  BY <3>1
  <2>7. p * r \in Nat /\ m + 1 = p * r + q  BY <1>2, <1>5, <2>2, <2>5, <2>6
  <2>8. byte = ResponseByte(answered, A, q)
    <3>1. 1 \in 1 .. n  BY <1>2
    <3>2. unfed[1] = ResponseByte(answered, A, (r - n) + 1)  BY <1>7, <3>1
    <3>3. QED  BY <1>2, <2>6, <3>2
  <2>9. ASSUME NEW i \in 1 .. A, NEW k \in 1 .. r, (i - 1) * r + k <= m + 1
        PROVE  tx'.ring[(i - 1) * r + k] = ResponseByte(answered, i, k)
    <3>1. PICK a \in Nat : a = i - 1
      <4>1. i - 1 \in Nat  OBVIOUS
      <4>2. QED  BY <4>1
    <3>2. a * r \in Nat /\ a * r + k <= m + 1  BY <2>9, <3>1
    <3>3. CASE a * r + k = m + 1
      <4>1. a = p /\ k = q  BY <2>7, <3>3, OnePlace
      <4>2. i = A  BY <1>5, <2>4, <3>1, <4>1
      <4>3. QED  BY <2>1, <2>8, <3>1, <3>3, <4>1, <4>2
    <3>4. CASE a * r + k # m + 1
      <4>1. a * r + k \in 1 .. m  BY <1>5, <3>2, <3>4
      <4>2. tx.ring[a * r + k] = ResponseByte(answered, i, k)  BY <1>7, <3>1, <4>1
      <4>3. QED  BY <2>1, <3>1, <4>1, <4>2
    <3>5. QED  BY <3>3, <3>4
  <2>10. m + 1 = A * r - (n - 1)  BY <1>2, <1>5, <1>9, <2>2
  <2>11. /\ Len(unfed') = n - 1 /\ n - 1 <= r /\ Len(answered') = A /\ answered' = answered
    BY <1>1, <1>2, <1>5, <1>6 DEF A
  <2>12. RingHolds(r, answered', unfed', tx')
    <3>1. /\ Len(unfed') <= r
          /\ Len(tx'.ring) = A * r - Len(unfed') /\ ~tx'.dropping
      BY <1>11, <2>1, <2>10, <2>11
    <3>2. \A i \in 1 .. Len(unfed') :
            unfed'[i] = ResponseByte(answered', Len(answered'), (r - Len(unfed')) + i)
      BY <1>8, <2>11
    <3>3. \A i \in 1 .. Len(answered'), k \in 1 .. r :
            (i - 1) * r + k <= Len(tx'.ring) =>
              tx'.ring[(i - 1) * r + k] = ResponseByte(answered', i, k)
      BY <2>1, <2>9, <2>11
    <3>4. Len(tx'.ring) <= Len(answered') * r - Len(unfed')
      <4>1. A * r - Len(unfed') \in Int  BY <1>2, <1>9, <2>11
      <4>2. QED  BY <2>11, <3>1, <4>1
    <3>5. QED  BY <2>11, <3>1, <3>2, <3>3, <3>4 DEF RingHolds
  <2>13. QED  BY <1>4, <1>6, <2>12 DEF RingInv
<1>12. QED  BY <1>3, <1>4, <1>10, <1>11

\* A step inside tryReadFrame ends the call with OK only when it records a result that is OK.
LEMMA ReadRecords ==
  ASSUME SharedQueues, RxInv, RunTryReadFrame
  PROVE  /\ UNCHANGED <<core1, tx, unfed, answered, events>>
         /\ \/ results' = results /\ (consumer' = "idle" => status' # "OK")
            \/ \E rec : /\ results' = Append(results, rec)
                        /\ consumer' = "idle" /\ status' = "OK" => rec.status = "OK"
<1>1. Rx!Step /\ UNCHANGED <<core1, tx, unfed, answered, events>>
  BY DEF RunTryReadFrame, core1Vars
<1>2. failure # "OK"  BY DEF RxInv, RxP!TypeInv, RxP!TypeOK
<1>3. CASE Rx!ReadDelimiter
  BY <1>1, <1>3 DEF Rx!ReadDelimiter, Rx!Return, Rx!Record
<1>4. CASE Rx!ReadTooLong
  BY <1>1, <1>4 DEF Rx!ReadTooLong, Rx!Record
<1>5. CASE Rx!ReadData \/ Rx!ReadEmpty \/ Rx!ExchangeOverflow
  BY <1>1, <1>5
  DEF Rx!ReadData, Rx!ReadEmpty, Rx!ExchangeOverflow, Rx!Remove, Rx!RemoveNothing
<1>6. CASE Rx!ExchangeNothing
  BY <1>1, <1>6 DEF Rx!ExchangeNothing, Rx!Return
<1>7. CASE Rx!DropByte \/ Rx!DropEmpty
  BY <1>1, <1>2, <1>7
  DEF Rx!DropByte, Rx!DropEmpty, Rx!Return, Rx!Remove, Rx!RemoveNothing
<1>8. QED  BY <1>1, <1>3, <1>4, <1>5, <1>6, <1>7 DEF Rx!Step

LEMMA ResultsAreSeq ==
  ASSUME RxInv
  PROVE  results \in Seq(RxP!Result) /\ Len(results) \in Nat
BY DEF RxInv, RxP!TypeInv, RxP!TypeOK, RxP!Result

LEMMA ReadAnswers ==
  ASSUME SharedQueues, RxInv, RxInv', CoreTypeInv, AnswerInv, RunTryReadFrame
  PROVE  AnswerInv'
<1>1. UNCHANGED <<core1, answered>>  BY ReadRecords
<1>2. CASE results' = results /\ (consumer' = "idle" => status' # "OK")
  BY <1>1, <1>2 DEF AnswerInv, Returned
<1>3. ASSUME NEW rec, results' = Append(results, rec),
             consumer' = "idle" /\ status' = "OK" => rec.status = "OK"
      PROVE  AnswerInv'
  <2>1. /\ results \in Seq(RxP!Result) /\ Len(results) \in Nat /\ results' \in Seq(RxP!Result)
        /\ Len(results') \in Nat
    BY DEF RxInv, RxP!TypeInv, RxP!TypeOK, RxP!Result
  <2>2. /\ Len(results') = Len(results) + 1 /\ results'[Len(results')] = rec
        /\ \A i \in 1 .. Len(results) : results'[i] = results[i]
    BY <1>3, <2>1
  <2>3. Returned({"OK"})' => results' # << >> /\ results'[Len(results')].status = "OK"
    BY <1>3, <2>1, <2>2, EmptySeq DEF Returned
  <2>4. ASSUME NEW i \in 1 .. Len(answered)
        PROVE  \E k \in 1 .. Len(results') : /\ answered[i] = results'[k].end
                                             /\ k < Len(results')
    <3>1. PICK k \in 1 .. Len(results) : answered[i] = results[k].end  BY DEF AnswerInv
    <3>2. k \in 1 .. Len(results') /\ k < Len(results')  BY <2>1, <2>2
    <3>3. QED  BY <2>2, <3>1, <3>2
  <2>5. QED  BY <1>1, <2>3, <2>4 DEF AnswerInv
<1>4. QED  BY <1>2, <1>3, ReadRecords

\* The last result of a call that returned OK is a frame that was sent, and a later one than
\* those answered.
LEMMA LastIsNew ==
  ASSUME RxInv, AnswerInv, Returned({"OK"})
  PROVE  /\ Len(results) \in Nat \ {0} /\ results[Len(results)].end \in 1 .. MaxFrames
         /\ \A i \in 1 .. Len(answered) : answered[i] < results[Len(results)].end
<1> DEFINE last == Len(results)
<1>1. results \in Seq(RxP!Result) /\ last \in Nat /\ results # << >>
      /\ results[last].status = "OK"
  BY ResultsAreSeq DEF AnswerInv
<1>2. last \in Nat \ {0} /\ last \in 1 .. Len(results)  BY <1>1, EmptySeq
<1>3. results[last] \in RxP!Result  BY <1>1, <1>2, ElementOfSeq
<1>4. results[last].end \in Nat /\ results[last].end # 0
  BY <1>1, <1>2, <1>3 DEF RxInv, RxP!EndInv, RxP!Result
<1>5. results[last].end < frame
  BY <1>2 DEF RxInv, RxP!OutInv, RxP!ResultsBehind, RxP!ResultBehind
<1>6. frame \in Nat /\ frame <= MaxFrames + 1 /\ MaxFrames \in Nat
  BY FirmwareAssumption DEF RxInv, RxP!EndInv, RxP!TypeInv, RxP!TypeOK
<1>7. ASSUME NEW i \in 1 .. Len(answered)  PROVE answered[i] < results[last].end
  <2>1. PICK k \in 1 .. Len(results) : answered[i] = results[k].end /\ k < last
    BY DEF AnswerInv
  <2>2. QED  BY <1>2, <1>4, <2>1 DEF RxInv, RxP!EndInv
<1>8. QED  BY <1>2, <1>4, <1>5, <1>6, <1>7

\* Answering a frame takes its number and leaves the whole response to be fed.
LEMMA AnswerStep ==
  ASSUME RxInv, CoreTypeInv, RingInv, AnswerInv, Answer
  PROVE  CoreTypeInv' /\ RingInv' /\ AnswerInv'
<1> DEFINE A == Len(answered)
           last == Len(results)
           f == results[last].end
<1>1. /\ Returned({"OK"}) /\ core1 = "called" /\ core1' = "answering"
      /\ UNCHANGED <<results, tx, events>>
  BY DEF Answer, Returned, rxVars
<1>2. /\ last \in Nat \ {0} /\ f \in 1 .. MaxFrames
      /\ \A i \in 1 .. A : answered[i] < f
  BY <1>1, LastIsNew
<1>3. unfed' = ResponseBytes(f) /\ answered' = Append(answered, f)
  <2>1. PICK received \in Decoded : /\ unfed' = ResponseBytes(Response(received).seq)
                                    /\ answered' = Append(answered, received.seq)
    BY DEF Answer
  <2>2. received.seq = Last(results).end  BY DEF Decoded
  <2>3. Last(results) = results[last]  BY DEF Last
  <2>4. Response(received).seq = received.seq  BY DEF Response
  <2>5. QED  BY <2>1, <2>2, <2>3, <2>4
<1> HIDE DEF f, last
<1>4. /\ answered \in Seq(1 .. MaxFrames) /\ A \in Nat /\ unfed = << >> /\ Len(unfed) = 0
      /\ tx \in TxState /\ Len(tx.ring) \in Nat /\ tx.ring \in Seq(0 .. MaxFrames)
  BY <1>1, EmptySeq DEF CoreTypeInv, TxState
<1>5. /\ answered' \in Seq(1 .. MaxFrames) /\ Len(answered') = A + 1
      /\ answered'[A + 1] = f /\ \A i \in 1 .. A : answered'[i] = answered[i]
  BY <1>2, <1>3, <1>4, AppendProperties
<1> HIDE DEF A
<1>6. PICK r \in Nat \ {0} : r = ResponseLen /\ r = ResponseSize + 1
  BY FirmwareAssumption DEF ResponseLen
<1>7. /\ unfed' \in Seq(0 .. MaxFrames) /\ Len(unfed') = r /\ unfed' # << >>
      /\ \A i \in 1 .. r : unfed'[i] = IF i <= ResponseSize THEN f ELSE 0
  <2>1. unfed' = [i \in 1 .. r |-> IF i <= ResponseSize THEN f ELSE 0]
    BY <1>3, <1>6 DEF ResponseBytes
  <2>2. \A i \in 1 .. r : (IF i <= ResponseSize THEN f ELSE 0) \in 0 .. MaxFrames
    BY <1>2, FirmwareAssumption
  <2>3. unfed' \in Seq(0 .. MaxFrames)
    <3>1. unfed' \in [1 .. r -> 0 .. MaxFrames]  BY <2>1, <2>2, Zenon
    <3>2. QED  BY <1>6, <3>1, SeqDef
  <2>4. Len(unfed') = r
    <3>1. DOMAIN unfed' = 1 .. r  BY <2>1, Zenon
    <3>2. QED  BY <1>6, <2>3, <3>1, LenProperties
  <2>5. \A i \in 1 .. r : unfed'[i] = IF i <= ResponseSize THEN f ELSE 0  BY <2>1, Zenon
  <2>6. QED  BY <2>3, <2>4, <2>5, <1>6, EmptySeq
<1>8. CoreTypeInv'
  BY <1>1, <1>5, <1>7 DEF CoreTypeInv
<1>9. RingHolds(r, answered', unfed', tx')
  <2>1. RingHolds(r, answered, unfed, tx)  BY <1>6 DEF RingInv
  <2>2. /\ Len(tx.ring) <= A * r
        /\ Len(tx.ring) < TxBufferSize => ~tx.dropping /\ Len(tx.ring) = A * r
        /\ \A i \in 1 .. A, k \in 1 .. r :
             (i - 1) * r + k <= Len(tx.ring) =>
               tx.ring[(i - 1) * r + k] = ResponseByte(answered, i, k)
    <3>1. A * r \in Nat  BY <1>4, <1>6 DEF A
    <3>2. A * r - 0 = A * r  BY <3>1
    <3>3. QED  BY <2>1, <1>4, <3>2 DEF RingHolds, A
  <2>3. A \in Nat /\ A * r \in Nat /\ (A + 1) * r - r = A * r
    <3>1. A \in Nat  BY <1>4 DEF A
    <3>2. QED  BY <1>6, <3>1
  <2>4. \A i \in 1 .. r : unfed'[i] = ResponseByte(answered', A + 1, (r - r) + i)
    BY <1>5, <1>6, <1>7 DEF ResponseByte
  <2>5. ASSUME NEW i \in 1 .. A + 1, NEW k \in 1 .. r, (i - 1) * r + k <= Len(tx.ring)
        PROVE  tx.ring[(i - 1) * r + k] = ResponseByte(answered', i, k)
    <3>1. CASE i \in 1 .. A  BY <1>5, <2>2, <2>5, <3>1 DEF ResponseByte
    <3>2. CASE i = A + 1
      <4>1. i - 1 = A  BY <2>3, <3>2
      <4>2. (i - 1) * r + k = A * r + k  BY <4>1
      <4>3. PICK p \in Nat : p = A * r  BY <2>3
      <4>4. p + k <= Len(tx.ring) /\ Len(tx.ring) <= p  BY <2>2, <2>5, <4>2, <4>3
      <4>5. QED  BY <1>4, <4>4
    <3>3. QED  BY <2>3, <3>1, <3>2
  <2>6. /\ Len(unfed') = r /\ Len(answered') = A + 1 /\ tx' = tx
        /\ Len(answered') * r - Len(unfed') = A * r
    BY <1>1, <1>5, <1>7, <2>3
  <2>7. /\ Len(unfed') <= r
        /\ \A i \in 1 .. Len(unfed') :
             unfed'[i] = ResponseByte(answered', Len(answered'), (r - Len(unfed')) + i)
    BY <1>6, <2>4, <2>6
  <2>8. /\ Len(tx'.ring) <= Len(answered') * r - Len(unfed')
        /\ Len(tx'.ring) < TxBufferSize =>
             ~tx'.dropping /\ Len(tx'.ring) = Len(answered') * r - Len(unfed')
    BY <2>2, <2>6
  <2>9. \A i \in 1 .. Len(answered'), k \in 1 .. r :
          (i - 1) * r + k <= Len(tx'.ring) =>
            tx'.ring[(i - 1) * r + k] = ResponseByte(answered', i, k)
    BY <2>5, <2>6
  <2>10. QED  BY <2>7, <2>8, <2>9 DEF RingHolds
<1>10. AnswerInv'
  <2>1. ~Returned({"OK"})'  BY <1>1 DEF Returned
  <2>2. A \in Nat  BY <1>4 DEF A
  <2>3. \A i, j \in 1 .. A + 1 : i < j => answered'[i] < answered'[j]
    <3> SUFFICES ASSUME NEW i \in 1 .. A + 1, NEW j \in 1 .. A + 1, i < j
                 PROVE  answered'[i] < answered'[j]
      OBVIOUS
    <3>1. i \in 1 .. A /\ (j \in 1 .. A \/ j = A + 1)  BY <2>2
    <3>2. QED  BY <1>2, <1>5, <3>1 DEF AnswerInv, A
  <2>4. \A i \in 1 .. A + 1 : \E k \in 1 .. last : answered'[i] = results[k].end
    <3> SUFFICES ASSUME NEW i \in 1 .. A + 1
                 PROVE  \E k \in 1 .. last : answered'[i] = results[k].end
      OBVIOUS
    <3>1. CASE i \in 1 .. A  BY <1>5, <3>1 DEF AnswerInv, A, last
    <3>2. CASE i = A + 1
      <4>1. last \in 1 .. last  BY <1>2
      <4>2. QED  BY <1>5, <3>2, <4>1 DEF f
    <3>3. QED  BY <2>2, <3>1, <3>2
  <2>5. QED  BY <1>1, <1>5, <2>1, <2>3, <2>4 DEF AnswerInv, last
<1>11. QED  BY <1>6, <1>8, <1>9, <1>10 DEF RingInv

ResponsesInv == CoreTypeInv /\ RingInv /\ AnswerInv

LEMMA InitResponses == Init => ResponsesInv
<1> SUFFICES ASSUME Init PROVE ResponsesInv  OBVIOUS
<1>1. /\ core1 = "call" /\ events = {} /\ unfed = << >> /\ answered = << >>
      /\ tx = [ring |-> << >>, dropping |-> FALSE, overflow |-> FALSE] /\ results = << >>
  BY DEF Init, Rx!Init
<1>2. /\ Len(unfed) = 0 /\ Len(answered) = 0 /\ Len(tx.ring) = 0
      /\ unfed \in Seq(0 .. MaxFrames) /\ answered \in Seq(1 .. MaxFrames)
      /\ tx.ring \in Seq(0 .. MaxFrames)
  BY <1>1, EmptySeq
<1>3. CoreTypeInv
  <2>1. tx \in TxState  BY <1>1, <1>2 DEF TxState
  <2>2. Len(tx.ring) <= TxBufferSize  BY <1>2, FirmwareAssumption
  <2>3. QED  BY <1>1, <1>2, <2>1, <2>2 DEF CoreTypeInv
<1>4. RingInv
  <2>1. PICK r \in Nat \ {0} : r = ResponseLen  BY FirmwareAssumption DEF ResponseLen
  <2>2. 1 .. 0 = {} /\ 0 * r - 0 = 0 /\ 0 <= r  BY <2>1
  <2>3. tx.dropping = FALSE  BY <1>1
  <2>4. QED  BY <1>2, <2>1, <2>2, <2>3 DEF RingInv, RingHolds
<1>5. AnswerInv
  <2>1. ~Returned({"OK"}) /\ 1 .. 0 = {}  BY <1>1 DEF Returned
  <2>2. QED  BY <1>2, <2>1 DEF AnswerInv
<1>6. QED  BY <1>3, <1>4, <1>5 DEF ResponsesInv

\* A step of another kind leaves the responses alone.
LEMMA ResponsesStay ==
  ASSUME ResponsesInv, UNCHANGED <<tx, unfed, answered, results>>, events' \subseteq {0, 1},
         core1' = core1 \/ (core1 # "answering" /\ core1' \in {"call", "called", "sleep"}),
         Returned({"OK"})' => Returned({"OK"})
  PROVE  ResponsesInv'
<1>1. CoreTypeInv'  BY DEF ResponsesInv, CoreTypeInv
<1>2. RingInv'  BY DEF ResponsesInv, RingInv
<1>3. AnswerInv'  BY DEF ResponsesInv, AnswerInv
<1>4. QED  BY <1>1, <1>2, <1>3 DEF ResponsesInv

LEMMA ResponsesStep ==
  ASSUME SharedQueues, RxInv, ResponsesInv, [Next]_vars
  PROVE  ResponsesInv'
<1> USE DEF Returned
<1>1. RxInv' /\ events \subseteq {0, 1}  BY RxStep DEF ResponsesInv, CoreTypeInv
<1>2. CASE UNCHANGED vars
  BY <1>1, <1>2, ResponsesStay DEF vars, core1Vars, rxVars
<1>3. CASE Core0Init
  BY <1>1, <1>3, ResponsesStay
  DEF Core0Init, InitUart, SetHandler, EnableRxIRQ, core1Vars, rxVars
<1>4. CASE FeedByte
  BY <1>1, <1>4, ResponsesStay
  DEF FeedByte, core1Vars, Rx!FeedDropped, Rx!FeedInserted, Rx!FeedRefused, Rx!consumerVars
<1>5. CASE FeedRaisesOverflow
  BY <1>1, <1>5, ResponsesStay
  DEF FeedRaisesOverflow, core1Vars, Rx!StoreOverflow, Rx!consumerVars
<1>6. CASE FeedCallsBack
  BY <1>1, <1>6, ResponsesStay
  DEF FeedCallsBack, core1Vars, Rx!Callback, Rx!consumerVars, Sev
<1>7. CASE Core0Main
  BY <1>1, <1>7, ResponsesStay DEF Core0Main, core1Vars, rxVars
<1>8. CASE CallTryReadFrame
  BY <1>1, <1>8, ResponsesStay DEF CallTryReadFrame, Rx!TryReadFrame
<1>9. CASE RunTryReadFrame
  <2>1. AnswerInv'  BY <1>1, <1>9, ReadAnswers DEF ResponsesInv
  <2>2. UNCHANGED <<core1, tx, unfed, answered, events>>  BY <1>9, ReadRecords
  <2>3. QED  BY <2>1, <2>2 DEF ResponsesInv, CoreTypeInv, RingInv
<1>10. CASE LeaveLoop
  BY <1>1, <1>10, ResponsesStay DEF LeaveLoop, rxVars
<1>11. CASE Wake
  BY <1>1, <1>11, ResponsesStay DEF Wake, rxVars
<1>12. CASE Discard
  BY <1>1, <1>12, ResponsesStay DEF Discard, ContinueLoop, rxVars
<1>13. CASE Answer  BY <1>13, AnswerStep DEF ResponsesInv
<1>14. CASE FeedResponse
  <2>1. CoreTypeInv' /\ RingInv'  BY <1>14, FeedResponseRing DEF ResponsesInv
  <2>2. UNCHANGED <<answered, results>> /\ ~Returned({"OK"})
        /\ core1' \in {"call", "answering"}
    BY <1>14 DEF FeedResponse, rxVars
  <2>3. AnswerInv'  BY <2>2 DEF ResponsesInv, AnswerInv
  <2>4. QED  BY <2>1, <2>3 DEF ResponsesInv
<1>15. QED
  BY <1>2, <1>3, <1>4, <1>5, <1>6, <1>7, <1>8, <1>9, <1>10, <1>11, <1>12, <1>13, <1>14
  DEF Next, Core1

LEMMA ResponsesInvariance ==
  ASSUME SharedQueues
  PROVE  Spec => [](RxInv /\ ResponsesInv)
<1>1. Init => RxInv /\ ResponsesInv  BY InitRx, InitResponses
<1>2. RxInv /\ ResponsesInv /\ [Next]_vars => (RxInv /\ ResponsesInv)'
  BY RxStep, ResponsesStep
<1>3. QED  BY <1>1, <1>2, PTL DEF Spec

-----------------------------------------------------------------------------
(* Queues that are not shared.                                             *)

\* Nobody feeds the receive queue of Core_1.cpp.
OwnEmpty == ownBuffer = << >> /\ ownOverflow = FALSE

\* tryReadFrame of an empty queue finds nothing and no loss.
LEMMA ReadsNothing ==
  ASSUME OwnEmpty, Own!Step, consumer # "dropping"
  PROVE  /\ UNCHANGED ownVars
         /\ \/ consumer = "reading" /\ consumer' = "exchange" /\ status' = status
            \/ consumer = "exchange" /\ consumer' = "idle" /\ status' = "IncompleteFrame"
         /\ UNCHANGED <<frame, sentBytes, lengths, producer, dropping, everFull, pending,
                        capacity, failure, results>>
BY DEF OwnEmpty, ownVars, Own!Step, Own!ReadDelimiter, Own!ReadData, Own!ReadTooLong,
       Own!ReadEmpty, Own!ExchangeOverflow, Own!ExchangeNothing, Own!DropByte, Own!DropEmpty,
       Own!Remove, Own!RemoveNothing, Own!Return, Own!senderVars, Own!producerVars

\* Core 1 never gets a frame, so that it answers none.
ApartInv ==
    /\ RxP!TypeInv /\ OwnEmpty
    /\ consumer # "dropping" /\ status = "IncompleteFrame" /\ results = << >>
    /\ core1 \in {"call", "called", "sleep"} /\ events \subseteq {0, 1}
    /\ tx = [ring |-> << >>, dropping |-> FALSE, overflow |-> FALSE]
    /\ unfed = << >> /\ answered = << >>

LEMMA InitApart == Init => ApartInv
<1> SUFFICES ASSUME Init PROVE ApartInv  OBVIOUS
<1>1. RxP!TypeInv
  <2>1. RxP!Init  BY DEF Init, Rx!Init, RxP!Init
  <2>2. QED  BY <2>1, RxSize, RxP!InitType
<1>2. QED  BY <1>1 DEF Init, Rx!Init, ApartInv, OwnEmpty

LEMMA ApartRead ==
  ASSUME ~SharedQueues, ApartInv, RunTryReadFrame
  PROVE  ApartInv'
<1>1. /\ Own!Step /\ UNCHANGED <<buffer, overflow>>
      /\ UNCHANGED <<core1, tx, unfed, answered, events>>
  BY DEF RunTryReadFrame, core1Vars
<1>2. /\ UNCHANGED ownVars
      /\ \/ consumer = "reading" /\ consumer' = "exchange" /\ status' = status
         \/ consumer = "exchange" /\ consumer' = "idle" /\ status' = "IncompleteFrame"
      /\ UNCHANGED <<frame, sentBytes, lengths, producer, dropping, everFull, pending,
                     capacity, failure, results>>
  BY <1>1, ReadsNothing DEF ApartInv
<1>3. RxP!TypeInv'
  BY <1>1, <1>2 DEF ApartInv, RxP!TypeInv, RxP!TypeOK, RxP!ReadFrameStatus
<1>4. QED  BY <1>1, <1>2, <1>3 DEF ApartInv, OwnEmpty, ownVars

LEMMA ApartStep ==
  ASSUME ~SharedQueues, ApartInv, [Next]_vars
  PROVE  ApartInv'
<1>1. CASE RunTryReadFrame  BY <1>1, ApartRead
<1>2. CASE ~RunTryReadFrame
  <2>1. RxP!TypeInv'
    <3>1. [RxP!Next]_(RxP!vars)  BY <1>2, RxMoves
    <3>2. QED  BY <3>1, RxSize, RxP!TypeStep DEF ApartInv
  <2> DEFINE Quiet == /\ UNCHANGED <<ownVars, status, results, tx, unfed, answered>>
                      /\ consumer' # "dropping" /\ events' \subseteq {0, 1}
                      /\ core1' \in {"call", "called", "sleep"}
  <2>2. ASSUME Quiet PROVE ApartInv'
    BY <2>1, <2>2 DEF ApartInv, OwnEmpty, ownVars
  <2> USE DEF ApartInv
  <2>3. CASE UNCHANGED vars  BY <2>2, <2>3 DEF vars, rxVars, core1Vars
  <2>4. CASE Core0Init
    BY <2>2, <2>4 DEF Core0Init, InitUart, SetHandler, EnableRxIRQ, rxVars, core1Vars
  <2>5. CASE FeedByte
    BY <2>2, <2>5
    DEF FeedByte, core1Vars, Rx!FeedDropped, Rx!FeedInserted, Rx!FeedRefused, Rx!consumerVars
  <2>6. CASE FeedRaisesOverflow
    BY <2>2, <2>6 DEF FeedRaisesOverflow, core1Vars, Rx!StoreOverflow, Rx!consumerVars
  <2>7. CASE FeedCallsBack
    BY <2>2, <2>7 DEF FeedCallsBack, core1Vars, Rx!Callback, Rx!consumerVars, Sev
  <2>8. CASE Core0Main  BY <2>2, <2>8 DEF Core0Main, core1Vars, rxVars
  <2>9. CASE CallTryReadFrame  BY <2>2, <2>9 DEF CallTryReadFrame, Rx!TryReadFrame
  <2>10. CASE LeaveLoop \/ Wake  BY <2>2, <2>10 DEF LeaveLoop, Wake, rxVars
  <2>11. CASE Discard \/ Answer \/ FeedResponse
    BY <2>11 DEF Discard, Answer, FeedResponse, Returned
  <2>12. QED
    BY <1>2, <2>3, <2>4, <2>5, <2>6, <2>7, <2>8, <2>9, <2>10, <2>11 DEF Next, Core1
<1>3. QED  BY <1>1, <1>2

LEMMA ApartInvariance ==
  ASSUME ~SharedQueues
  PROVE  Spec => []ApartInv
<1>1. ApartInv /\ [Next]_vars => ApartInv'  BY ApartStep
<1>2. QED  BY <1>1, InitApart, PTL DEF Spec

\* In the program as it is built, each core with queues of its own, no frame ever comes out of
\* tryReadFrame and none is answered, whatever the host sends.
THEOREM NothingReceived ==
  ASSUME ~SharedQueues
  PROVE  Spec => [](results = << >> /\ answered = << >>)
<1>1. ApartInv => results = << >> /\ answered = << >>  BY DEF ApartInv
<1>2. QED  BY <1>1, ApartInvariance, PTL

\* If the queues are shared, core 1's own are not used.
LEMMA OwnStaysEmpty ==
  ASSUME SharedQueues
  PROVE  Spec => []OwnEmpty
<1>1. Init => OwnEmpty  BY DEF Init, OwnEmpty
<1>2. OwnEmpty /\ [Next]_vars => OwnEmpty'
  <2> SUFFICES ASSUME OwnEmpty, [Next]_vars PROVE OwnEmpty'  OBVIOUS
  <2>1. UNCHANGED ownVars
    BY DEF Next, Core0Init, Core1, InitUart, SetHandler, EnableRxIRQ, FeedByte,
           FeedRaisesOverflow, FeedCallsBack, Core0Main, CallTryReadFrame, RunTryReadFrame,
           LeaveLoop, Wake, Discard, Answer, FeedResponse, vars, rxVars
  <2>2. QED  BY <2>1 DEF OwnEmpty, ownVars
<1>3. QED  BY <1>1, <1>2, PTL DEF Spec

-----------------------------------------------------------------------------
(* With or without shared queues.                                          *)

\* Core 1 answers every frame at most once and in the order received, and the transmit ring
\* holds the responses from the first on, each whole up to where the ring ran full.  (With queues
\* that are not shared there are none: NothingReceived.)
THEOREM AnsweredInOrder == Spec => []ResponsesInOrder
<1>1. ResponsesInv => ResponsesInOrder
  <2> SUFFICES ASSUME ResponsesInv PROVE ResponsesInOrder  OBVIOUS
  <2>1. PICK r \in Nat \ {0} : r = ResponseLen /\ r = ResponseSize + 1
    BY FirmwareAssumption DEF ResponseLen
  <2>2. RingHolds(r, answered, unfed, tx)  BY <2>1 DEF ResponsesInv, RingInv
  <2>3. /\ Len(answered) \in Nat /\ Len(unfed) \in Nat /\ Len(tx.ring) \in Nat
    BY DEF ResponsesInv, CoreTypeInv, TxState
  <2>4. Len(tx.ring) <= Len(answered) * r
    <3>1. Len(answered) * r \in Nat  BY <2>1, <2>3
    <3>2. Len(tx.ring) <= Len(answered) * r - Len(unfed)  BY <2>2 DEF RingHolds
    <3>3. QED  BY <2>3, <3>1, <3>2
  <2>5. \A i, j \in 1 .. Len(answered) : i < j => answered[i] < answered[j]
    BY DEF ResponsesInv, AnswerInv
  <2>6. \A i \in 1 .. Len(answered), k \in 1 .. r :
          (i - 1) * r + k <= Len(tx.ring) =>
            tx.ring[(i - 1) * r + k] = IF k <= ResponseSize THEN answered[i] ELSE 0
    BY <2>2 DEF RingHolds, ResponseByte
  <2>7. QED  BY <2>1, <2>4, <2>5, <2>6 DEF ResponsesInOrder
<1>2. ApartInv => ResponsesInOrder
  <2> SUFFICES ASSUME ApartInv PROVE ResponsesInOrder  OBVIOUS
  <2>1. Len(answered) = 0 /\ Len(tx.ring) = 0  BY EmptySeq DEF ApartInv
  <2>2. 1 .. 0 = {} /\ 0 * (ResponseSize + 1) = 0  BY FirmwareAssumption
  <2>3. QED  BY <2>1, <2>2 DEF ResponsesInOrder
<1>3. CASE SharedQueues  BY <1>1, <1>3, ResponsesInvariance, PTL
<1>4. CASE ~SharedQueues  BY <1>2, <1>4, ApartInvariance, PTL
<1>5. QED  BY <1>3, <1>4

\* Every variable of the firmware keeps its type, and core 1 feeds a response exactly while
\* bytes of it are left.
THEOREM FirmwareTypeCorrect == Spec => []TypeOK
<1>1. RxP!TypeInv => Rx!TypeOK
  BY DEF RxP!TypeInv, RxP!TypeOK, Rx!TypeOK, Rx!Bytes, RxP!Bytes, Rx!ReadFrameStatus,
         RxP!ReadFrameStatus
<1>2. OwnEmpty => ownBuffer \in Seq(Rx!Bytes) /\ ownOverflow \in BOOLEAN
  BY EmptySeq DEF OwnEmpty
<1>3. RxInv /\ ResponsesInv /\ BootInv /\ OwnEmpty => TypeOK
  <2> SUFFICES ASSUME RxInv, ResponsesInv, BootInv, OwnEmpty PROVE TypeOK  OBVIOUS
  <2>1. Rx!TypeOK  BY <1>1 DEF RxInv
  <2>2. line \subseteq Uarts  BY DEF BootInv, Uarts
  <2>3. QED
    BY <1>2, <2>1, <2>2 DEF TypeOK, BootInv, BootSteps, ResponsesInv, CoreTypeInv, TxState
<1>4. ApartInv /\ BootInv => TypeOK
  <2> SUFFICES ASSUME ApartInv, BootInv PROVE TypeOK  OBVIOUS
  <2>1. Rx!TypeOK  BY <1>1 DEF ApartInv
  <2>2. line \subseteq Uarts  BY DEF BootInv, Uarts
  <2>3. /\ unfed \in Seq(0 .. MaxFrames) /\ answered \in Seq(1 .. MaxFrames)
        /\ tx \in [ring : Seq(0 .. MaxFrames), dropping : BOOLEAN, overflow : BOOLEAN]
        /\ Len(tx.ring) <= TxBufferSize
    BY EmptySeq, FirmwareAssumption DEF ApartInv
  <2>4. QED  BY <1>2, <2>1, <2>2, <2>3 DEF TypeOK, BootInv, BootSteps, ApartInv
<1>5. CASE SharedQueues
  BY <1>3, <1>5, ResponsesInvariance, BootInvariance, OwnStaysEmpty, PTL
<1>6. CASE ~SharedQueues  BY <1>4, <1>6, ApartInvariance, BootInvariance, PTL
<1>7. QED  BY <1>5, <1>6

=============================================================================
