-------------------------------- MODULE Uart --------------------------------
(***************************************************************************)
(* UARTWrapper of firmware/lib/UARTWrapper/UARTWrapper.cpp with the pin    *)
(* tables of firmware/include/ValidPins.hpp: what its operations do to the *)
(* two UARTs, their interrupt lines and the pins.  A module of operations; *)
(* Firmware calls them in the order Core_0::init does.                     *)
(***************************************************************************)
EXTENDS Integers

CONSTANTS Chip      \* the chip the firmware is compiled for

Chips == {"RP2040", "RP2350A", "RP2350A_QFN80", "other"}
ASSUME ChipAssumption == Chip \in Chips

Uarts == {0, 1}

VARIABLES
    uart,       \* uart[u].enabled: hardware; .RxIRQEnabled, .TxIRQEnabled: the wrapper's flags
    handler,    \* UARTs whose interrupt line has an exclusive handler
    line,       \* UARTs whose interrupt line is enabled
    irqs,       \* irqs[u]: the interrupts the UART raises, of {"Rx", "Tx"}
    gpio        \* gpio[u]: pins with GPIO_FUNC_UART that u was given

uartVars == <<uart, handler, line, irqs, gpio>>

UartInit ==
    /\ uart = [u \in Uarts |-> [enabled |-> FALSE, RxIRQEnabled |-> FALSE, TxIRQEnabled |-> FALSE]]
    /\ handler = {} /\ line = {}
    /\ irqs = [u \in Uarts |-> {}] /\ gpio = [u \in Uarts |-> {}]

-----------------------------------------------------------------------------
(* ValidPins.hpp.  The Rx pin next to each Tx pin is the one after it.     *)

RP2040_Tx_Valid_Pins == [u \in Uarts |-> IF u = 0 THEN {0, 12, 16, 28} ELSE {4, 8, 20, 24}]
RP2350_Tx_Valid_Pins == [u \in Uarts |-> IF u = 0 THEN {0, 2, 12, 14, 16, 18, 28}
                                                  ELSE {4, 6, 8, 10, 20, 22, 24, 26}]
RP2350_QFN80_Tx_Valid_Pins == [u \in Uarts |-> IF u = 0 THEN {30, 32, 34, 44, 46}
                                                        ELSE {36, 38, 40, 42}]

isValidUART_Tx(u, pin) ==
    CASE Chip = "RP2040"  -> pin \in RP2040_Tx_Valid_Pins[u]
      [] Chip = "RP2350A" -> pin \in RP2350_Tx_Valid_Pins[u]
      [] Chip = "RP2350A_QFN80" ->
            pin \in RP2350_Tx_Valid_Pins[u] \cup RP2350_QFN80_Tx_Valid_Pins[u]
      [] OTHER -> FALSE

RxOfAnyUart(u, pin) == \E v \in Uarts : isValidUART_Tx(v, pin - 1)    \* mutant: u not asked
isValidUART_Rx(u, pin) == isValidUART_Tx(u, pin - 1)

-----------------------------------------------------------------------------
\* uart_init of the SDK: the rate cannot be set, or the UART is enabled (isInitializated).
uart_init(u, works) ==
    uart' = IF works THEN [uart EXCEPT ![u].enabled = TRUE] ELSE uart

\* Pins are uint8_t here and uint in Core_0::init: 257 is pin 1.
uint8(n) == n % 256

\* UARTWrapper::init.  The UART stays enabled when a pin is refused.
init(u, rx, tx, works, error) ==
    LET rxPin == uint8(rx)
        txPin == uint8(tx)
    IN
    /\ uart_init(u, works)
    /\ error = CASE ~works -> "baudRateDontSupported"
                 [] works /\ ~isValidUART_Rx(u, rxPin) -> "gpioNotSupportUartRx"
                 [] works /\ isValidUART_Rx(u, rxPin) /\ ~isValidUART_Tx(u, txPin)
                      -> "gpioNotSupportUartTx"
                 [] OTHER -> "none"
    /\ gpio' = IF error = "none" THEN [gpio EXCEPT ![u] = {rxPin, txPin}] ELSE gpio
    /\ UNCHANGED <<handler, line, irqs>>

setHandlerForIRQ(u) ==
    /\ handler' = handler \cup {u}
    /\ UNCHANGED <<uart, line, irqs, gpio>>

\* enableRxIRQ and enableTxIRQ, by way of enableIRQ
EnabledFlags(u) ==
    {i \in {"Rx", "Tx"} : IF i = "Rx" THEN uart'[u].RxIRQEnabled ELSE uart'[u].TxIRQEnabled}

enableIRQ(u, which, enable, error) ==
    /\ error = IF enable /\ u \notin handler THEN "irqHandlerNotSetted" ELSE "none"
    /\ uart' = IF error # "none" THEN uart
               ELSE IF which = "Rx" THEN [uart EXCEPT ![u].RxIRQEnabled = enable]
               ELSE [uart EXCEPT ![u].TxIRQEnabled = enable]
    /\ line' = IF error # "none" THEN line
               ELSE IF EnabledFlags(u) # {} THEN line \cup {u} ELSE line \ {u}
    /\ irqs' = IF error # "none" THEN irqs ELSE [irqs EXCEPT ![u] = EnabledFlags(u)]
    /\ UNCHANGED <<handler, gpio>>
=============================================================================
