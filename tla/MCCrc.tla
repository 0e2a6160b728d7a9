------------------------------- MODULE MCCrc -------------------------------
(* Instance of Crc for TLC. *)
EXTENDS Crc

\* No message, messages of one byte, strays of two and three bytes with a right and a wrong
\* CRC (0xE1F0 is that of <<0>>), and the message of the standard check value.
MCMessages == {<< >>, <<0>>, <<255>>, <<255, 255>>, <<0, 0>>, <<0, 225, 240>>, <<0, 240, 225>>,
               <<49, 50, 51, 52, 53, 54, 55, 56, 57>>,
               <<49, 50, 51, 52, 53, 54, 55, 56, 57, 41, 177>>}
\* Max_Payload_Lenght is 512; the field has 16 bits.
MCHeaders == {[version |-> 2, flags |-> f, payloadLenght |-> n] :
                 f \in {0, 128}, n \in {1, 255, 256, 512, 65535}}
=============================================================================
