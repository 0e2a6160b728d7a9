-------------------------------- MODULE Crc --------------------------------
(***************************************************************************)
(* protocol/src: CrcCalculator (addCRC, removeCRC), the byte helpers and   *)
(* Header::toBytes.  A sender adds the CRC to a message, the line may flip *)
(* bits of what is sent, a receiver removes the CRC; both are given a      *)
(* buffer of some size with old bytes in it.                               *)
(***************************************************************************)
EXTENDS Integers, Sequences, FiniteSets

CONSTANTS
    Messages,       \* messages the sender may send: sequences of bytes
    Headers,        \* headers it may send as a message, see toBytes
    BufferSizes,    \* sizes of the output buffers
    OldBytes,       \* what they hold before a call
    MaxBurst,       \* bound: bits between the first and the last flip of a burst
    MaxTripled      \* bound: bytes in which any three bits may be flipped

Byte == 0 .. 255
UInt16 == 0 .. 65535
CRC_Lenght == 2

ASSUME MessageAssumption == Messages \subseteq Seq(Byte)
ASSUME HeaderAssumption ==
    Headers \subseteq [version : Byte, flags : Byte, payloadLenght : UInt16]
ASSUME BufferAssumption == BufferSizes \subseteq Nat /\ OldBytes \subseteq Byte

-----------------------------------------------------------------------------
(* The byte helpers and Header::toBytes.                                   *)

NotTruncated(twoBytes) == twoBytes              \* mutant: no conversion to a byte
getHighByte(twoBytes) == twoBytes \div 256
getLowByte(twoBytes)  == twoBytes % 256
bindTwobytes(high, low) == high * 256 + low

\* mutant: the payload length with its low byte first
LengthLowFirst(h) ==
    <<h.version, h.flags, getLowByte(h.payloadLenght), getHighByte(h.payloadLenght)>>
toBytes(h) ==
    <<h.version, h.flags, getHighByte(h.payloadLenght), getLowByte(h.payloadLenght)>>

-----------------------------------------------------------------------------
(* CRC::Calculate with CRC_16_CCITTFALSE: polynomial x^16 + x^12 + x^5 + 1,*)
(* initial value 0xFFFF, no reflection, no final inversion.                *)

\* The weights of the bits of a byte, in the order the CRC takes them.
Weight == <<128, 64, 32, 16, 8, 4, 2, 1>>
Bit(bytes, i) == (bytes[((i - 1) \div 8) + 1] \div Weight[((i - 1) % 8) + 1]) % 2

Flip(c, weight) == IF (c \div weight) % 2 = 1 THEN c - weight ELSE c + weight

Shift(c, bit) ==
    LET shifted == (2 * c) % 65536
    IN  IF c \div 32768 = bit THEN shifted ELSE Flip(Flip(Flip(shifted, 1), 32), 4096)

\* The register after each bit.
Register(bytes) ==
    LET crc[i \in 0 .. 8 * Len(bytes)] ==
            IF i = 0 THEN 65535 ELSE Shift(crc[i - 1], Bit(bytes, i))
    IN  crc
Calculate(bytes) == Register(bytes)[8 * Len(bytes)]

\* test_crc_calculator.cpp:203-217, the check value of the standard.
ASSUME CheckValueAssumption == Calculate(<<49, 50, 51, 52, 53, 54, 55, 56, 57>>) = 10673

-----------------------------------------------------------------------------
(* CrcCalculator.  A call returns a view of length size of the buffer, or  *)
(* an error, and the buffer it leaves.                                     *)

Success(size, buffer) == [error |-> "none", size |-> size, buffer |-> buffer]
Failure(error, buffer) == [error |-> error, size |-> 0, buffer |-> buffer]

\* std::memcpy to the front of the buffer
Written(bytes, buffer) ==
    [i \in DOMAIN buffer |-> IF i <= Len(bytes) THEN bytes[i] ELSE buffer[i]]

minimumAddingOutputBufferSize(n) == n + CRC_Lenght

LowByteFirst(crc) == <<getLowByte(crc), getHighByte(crc)>>      \* mutant
CrcBytes(crc) == <<getHighByte(crc), getLowByte(crc)>>

addCRC(input, buffer) ==
    IF input = << >> THEN Failure("InputBufferTooSmall", buffer)
    ELSE IF minimumAddingOutputBufferSize(Len(input)) > Len(buffer)
    THEN Failure("OutputBufferTooSmall", buffer)
    ELSE Success(Len(input) + CRC_Lenght, Written(input \o CrcBytes(Calculate(input)), buffer))

\* mutant: the empty payload is refused
RemovingSome(n) == IF n <= CRC_Lenght THEN -1 ELSE n - CRC_Lenght
\* -1: InputBufferTooSmall
minimumRemovingOutputBufferSize(n) == IF n < CRC_Lenght THEN -1 ELSE n - CRC_Lenght

\* mutant: the low byte alone is compared
LowByteMatches(input, n) == input[n + 2] = getLowByte(Calculate(SubSeq(input, 1, n)))
CrcMatches(input, n) ==
    bindTwobytes(input[n + 1], input[n + 2]) = Calculate(SubSeq(input, 1, n))

CopiedFirst(bytes, buffer) == Written(bytes, buffer)    \* mutant: copied, then compared
Untouched(bytes, buffer) == buffer

removeCRC(input, buffer) ==
    LET n == minimumRemovingOutputBufferSize(Len(input)) IN
    IF n = -1 THEN Failure("InputBufferTooSmall", buffer)
    ELSE IF n > Len(buffer) THEN Failure("OutputBufferTooSmall", buffer)
    ELSE IF ~CrcMatches(input, n)
    THEN Failure("CrcMismatch", Untouched(SubSeq(input, 1, n), buffer))
    ELSE Success(n, Written(SubSeq(input, 1, n), buffer))

-----------------------------------------------------------------------------
VARIABLES
    phase,      \* "idle", then what was done last: "added", "sent" and "removed", or
                \* "stray" and "judged" for bytes that addCRC did not make
    message,    \* what the sender gave to addCRC
    header,     \* the header it is, if it is one
    line,       \* the bytes on the line
    flips,      \* bits the line flipped
    before,     \* the output buffer before the last call
    result      \* what that call returned and left in the buffer

vars == <<phase, message, header, line, flips, before, result>>

NoHeader == [version |-> 0, flags |-> 0, payloadLenght |-> 0]
Buffers == UNION {[1 .. n -> OldBytes] : n \in BufferSizes}

Init ==
    /\ phase = "idle" /\ header \in Headers \cup {NoHeader}
    /\ message \in IF header \in Headers THEN {toBytes(header)} ELSE Messages
    /\ line = << >> /\ flips = {} /\ before = << >> /\ result = Success(0, << >>)

AddCRC ==
    /\ phase = "idle"
    /\ before' \in Buffers
    /\ result' = addCRC(message, before')
    /\ phase' = "added"
    /\ UNCHANGED <<message, header, line, flips>>

\* The bits the line may flip in n bytes: one or two anywhere, three anywhere if they are few,
\* or any in a short stretch.
Damages(n) ==
    LET bits == 1 .. 8 * n
        burst(first) == {{first} \cup s : s \in SUBSET ((first + 1 .. first + MaxBurst - 1) \cap bits)}
        triples == IF n <= MaxTripled THEN {{a, b, c} : a, b, c \in bits} ELSE {}
    IN  {{}} \cup {{a, b} : a, b \in bits} \cup triples \cup UNION {burst(first) : first \in bits}

Damaged(bytes, bits) ==
    LET sent(i) == (Bit(bytes, i) + (IF i \in bits THEN 1 ELSE 0)) % 2
    IN  [j \in 1 .. Len(bytes) |->
           128 * sent(8 * j - 7) + 64 * sent(8 * j - 6) + 32 * sent(8 * j - 5)
           + 16 * sent(8 * j - 4) + 8 * sent(8 * j - 3) + 4 * sent(8 * j - 2)
           + 2 * sent(8 * j - 1) + sent(8 * j)]

Send ==
    /\ phase = "added" /\ result.error = "none"
    /\ flips' \in Damages(result.size)
    /\ line' = Damaged(SubSeq(result.buffer, 1, result.size), flips')
    /\ phase' = "sent"
    /\ UNCHANGED <<message, header, before, result>>

\* A receiver hands to removeCRC whatever it took for a frame, short ones included.
Stray ==
    /\ phase = "idle" /\ header = NoHeader
    /\ line' = message
    /\ phase' = "stray"
    /\ UNCHANGED <<message, header, flips, before, result>>

RemoveCRC ==
    /\ phase \in {"sent", "stray"}
    /\ before' \in Buffers
    /\ result' = removeCRC(line, before')
    /\ phase' = IF phase = "sent" THEN "removed" ELSE "judged"
    /\ UNCHANGED <<message, header, line, flips>>

Next == AddCRC \/ Send \/ Stray \/ RemoveCRC

Spec == Init /\ [][Next]_vars

-----------------------------------------------------------------------------
TypeOK ==
    /\ phase \in {"idle", "added", "sent", "removed", "stray", "judged"}
    /\ line \in Seq(Byte)
    /\ result.error \in {"none", "InputBufferTooSmall", "OutputBufferTooSmall", "CrcMismatch"}
    /\ result.buffer \in Seq(Byte) /\ result.size \in 0 .. Len(result.buffer)

View(r) == SubSeq(r.buffer, 1, r.size)

\* What arrives undamaged in a buffer large enough for the message is the message; the length
\* field of a header is read back from its two bytes.
RoundTrip ==
    phase = "removed" /\ flips = {} =>
        IF Len(before) < Len(message) THEN result.error = "OutputBufferTooSmall"
        ELSE /\ result.error = "none" /\ View(result) = message
             /\ header # NoHeader =>
                    bindTwobytes(View(result)[3], View(result)[4]) = header.payloadLenght

\* What CRC-16-CCITT promises: damage within sixteen bits never passes for a message, nor does
\* an odd number of flipped bits, ...
DamageDetected ==
    phase = "removed" /\ Len(before) >= Len(message)
        /\ \/ \E first \in flips : flips \subseteq first .. first + 15
           \/ Cardinality(flips) % 2 = 1
        => result.error = "CrcMismatch"

\* ... nor do two flipped bits, however far apart, in messages as short as these.
FlipPairDetected ==
    phase = "removed" /\ (\E a, b \in flips : flips = {a, b})
        /\ Len(before) >= Len(message) => result.error = "CrcMismatch"

\* Buffers are owned by the caller: a call that fails leaves its buffer as it was, one that
\* succeeds changes nothing behind the view it returns.
BufferRespected ==
    phase \in {"added", "removed", "judged"} =>
        /\ DOMAIN result.buffer = DOMAIN before
        /\ \A i \in DOMAIN before : i > result.size => result.buffer[i] = before[i]

\* A message with its CRC, high byte first, has the remainder 0: the frame any receiver of
\* CRC-16-CCITT-FALSE accepts, not only removeCRC.
StandardFrame == phase = "added" /\ result.error = "none" => Calculate(View(result)) = 0

\* What addCRC could have made; the CRC of no message too, though addCRC refuses to make it.
MadeByAddCRC(bytes) ==
    LET n == Len(bytes) - CRC_Lenght
        made == addCRC(SubSeq(bytes, 1, n), bytes)
    IN  IF n = 0 THEN bytes = CrcBytes(65535)
        ELSE made.error = "none" /\ View(made) = bytes

\* Whatever is taken for a frame, removeCRC accepts it exactly when it could have been made by
\* addCRC; the empty message, which addCRC refuses, is the one exception.
AcceptsOnlyFrames ==
    phase = "judged" =>
        (result.error = "none" <=> /\ Len(line) >= CRC_Lenght
                                   /\ Len(before) >= Len(line) - CRC_Lenght
                                   /\ MadeByAddCRC(line))
=============================================================================
