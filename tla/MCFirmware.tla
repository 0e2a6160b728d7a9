----------------------------- MODULE MCFirmware -----------------------------
(* Instances of Firmware for TLC. *)
EXTENDS Firmware

\* Valid for UART 0, valid for UART 1, one valid pin with one of the other UART, and pins that
\* are 1 and 2 as uint8_t.
MCPins == {<<1, 0>>, <<5, 4>>, <<1, 4>>, <<5, 0>>, <<257, 258>>}
=============================================================================
