---------------------------- MODULE FrameWaiter ----------------------------
(***************************************************************************)
(* FrameWaiter<BufferSize> of firmware/lib/FrameWaiter/FrameWaiter.hpp: a  *)
(* single-producer single-consumer byte queue that hands out frames.  The  *)
(* producer is the UART interrupt of core 0, which feeds one byte at a     *)
(* time; the consumer is core 1, which calls tryReadFrame.                 *)
(*                                                                         *)
(* The two sides share the ring and the atomic overflow_m, and every access*)
(* to one of them is a step of its own.  droppingFeedBytes_m is touched by *)
(* the producer only, pendingFrameBuffer_m by the consumer only, and what  *)
(* is done to them goes with the shared access next to it.  Ring insert and*)
(* remove are atomic: insert is refused exactly when the ring holds        *)
(* BufferSize bytes, remove exactly when it is empty.                      *)
(*                                                                         *)
(* A byte is known by the frame the sender put it in and its place there,  *)
(* so that what comes out can be compared with what went in.               *)
(***************************************************************************)
EXTENDS Integers, Sequences, FiniteSets

CONSTANTS
    BufferSize,     \* bytes the ring and the pending frame can hold
    Capacities,     \* capacities of the output buffers tryReadFrame is called with
    MaxFrames,      \* bound: frames the sender sends
    MaxLen          \* bound: data bytes of a frame

ASSUME SizeAssumption ==
    /\ BufferSize \in Nat \ {0} /\ Capacities \subseteq Nat
    /\ MaxFrames \in Nat /\ MaxLen \in Nat

Data(f, k)  == [frame |-> f, pos |-> k, delimiter |-> FALSE]
Delimiter(f) == [frame |-> f, pos |-> 0, delimiter |-> TRUE]
Bytes == [frame : Nat, pos : Nat, delimiter : BOOLEAN]

ReadFrameStatus == {"OK", "BufferTooSmall", "IncompleteFrame", "Overflow"}

VARIABLES
    \* the sender
    frame,          \* number of the frame being sent
    sentBytes,      \* data bytes of it that were fed
    \* the producer
    producer,       \* "idle", or in feed: "overflow" or "callback" comes next
    dropping,       \* droppingFeedBytes_m
    \* shared
    buffer,         \* buffer_m
    overflow,       \* overflow_m
    \* the consumer
    consumer,       \* "idle", or in tryReadFrame: "reading", "exchange", "dropping"
    pending,        \* the pendingFrameSize_m bytes of pendingFrameBuffer_m
    capacity,       \* bufferCapacity of the call
    failure,        \* what the call returns after dropBufferUntilDelimiterOrEmpty
    status,         \* what the last call returned
    \* history
    lengths,        \* lengths of the frames sent so far
    everFull,       \* some insert was refused
    results         \* calls that returned OK or BufferTooSmall, in order

senderVars   == <<frame, sentBytes, lengths>>
producerVars == <<producer, dropping>>
consumerVars == <<consumer, pending, capacity, failure, status, results>>
vars == <<senderVars, producerVars, consumerVars, buffer, overflow, everFull>>

Init ==
    /\ frame = 1 /\ sentBytes = 0
    /\ producer = "idle" /\ dropping = FALSE
    /\ buffer = << >> /\ overflow = FALSE
    /\ consumer = "idle" /\ pending = << >> /\ capacity = 0
    /\ failure = "Overflow" /\ status = "IncompleteFrame"
    /\ lengths = << >> /\ everFull = FALSE /\ results = << >>

-----------------------------------------------------------------------------
(* The producer: feed(byte).                                               *)

\* The sender's next byte: one more data byte of the frame, or its delimiter.
NextByte(b) ==
    /\ producer = "idle"
    /\ frame <= MaxFrames
    /\ \/ /\ sentBytes < MaxLen
          /\ b = Data(frame, sentBytes + 1)
          /\ sentBytes' = sentBytes + 1
          /\ UNCHANGED <<frame, lengths>>
       \/ /\ b = Delimiter(frame)
          /\ sentBytes' = 0
          /\ frame' = frame + 1
          /\ lengths' = Append(lengths, sentBytes)

SentBytes == {Data(frame, sentBytes + 1), Delimiter(frame)}

FeedDropped(b) ==
    /\ NextByte(b)
    /\ dropping
    /\ dropping' = ~b.delimiter
    /\ UNCHANGED <<producer, consumerVars, buffer, overflow, everFull>>

FeedInserted(b) ==
    /\ NextByte(b)
    /\ ~dropping
    /\ Len(buffer) < BufferSize
    /\ buffer' = Append(buffer, b)
    /\ producer' = IF b.delimiter THEN "callback" ELSE "idle"
    /\ UNCHANGED <<dropping, consumerVars, overflow, everFull>>

FeedRefused(b) ==
    /\ NextByte(b)
    /\ ~dropping
    /\ Len(buffer) = BufferSize
    /\ producer' = "overflow"
    /\ everFull' = TRUE
    /\ UNCHANGED <<dropping, consumerVars, buffer, overflow>>

ForgetDropping  == UNCHANGED dropping       \* mutant: the second store is missing
StartDropping   == dropping' = TRUE

\* overflow_m.store(true); droppingFeedBytes_m.store(true)
StoreOverflow ==
    /\ producer = "overflow"
    /\ overflow' = TRUE
    /\ StartDropping
    /\ producer' = "idle"
    /\ UNCHANGED <<senderVars, consumerVars, buffer, everFull>>

\* callback_m(): the consumer is told; what it does with that is not FrameWaiter's
Callback ==
    /\ producer = "callback"
    /\ producer' = "idle"
    /\ UNCHANGED <<senderVars, dropping, consumerVars, buffer, overflow, everFull>>

Feed ==
    \/ \E b \in SentBytes : FeedDropped(b) \/ FeedInserted(b) \/ FeedRefused(b)
    \/ StoreOverflow
    \/ Callback

-----------------------------------------------------------------------------
(* The consumer: tryReadFrame.                                             *)

TryReadFrame(c) ==
    /\ consumer = "idle"
    /\ consumer' = "reading"
    /\ capacity' = c
    /\ UNCHANGED <<senderVars, producerVars, pending, failure, status, results, buffer,
                   overflow, everFull>>

\* buffer_m.remove(byte) inside the loop that is named by where
Remove(where) ==
    /\ consumer = where
    /\ buffer # << >>
    /\ buffer' = Tail(buffer)
    /\ UNCHANGED <<senderVars, producerVars, capacity, everFull>>

RemoveNothing(where) ==
    /\ consumer = where
    /\ buffer = << >>
    /\ UNCHANGED <<senderVars, producerVars, capacity, buffer, everFull>>

Return(s) == consumer' = "idle" /\ status' = s

\* end is the frame of the delimiter that ended the call, 0 when there was none
Record(s, end) ==
    results' = Append(results,
        [status |-> s, capacity |-> capacity, bytes |-> pending, end |-> end])

\* pendingFrameSize_m = 0
KeepPending  == UNCHANGED pending           \* mutant: no reset
ClearPending == pending' = << >>

TooSmallOrEqual == Len(pending) >= capacity         \* mutant: off by one
TooSmall        == Len(pending) > capacity

PendingOverFull == Len(pending) > BufferSize        \* mutant: off by one
PendingFull     == Len(pending) >= BufferSize

ReadDelimiter ==
    /\ Remove("reading")
    /\ Head(buffer).delimiter
    /\ LET s == IF TooSmall THEN "BufferTooSmall" ELSE "OK" IN
         /\ Return(s)
         /\ Record(s, Head(buffer).frame)
    /\ ClearPending
    /\ UNCHANGED <<failure, overflow>>

ReadData ==
    /\ Remove("reading")
    /\ ~Head(buffer).delimiter
    /\ ~PendingFull
    /\ pending' = Append(pending, Head(buffer))
    /\ UNCHANGED <<consumer, failure, status, results, overflow>>

\* a data byte that the pending frame has no room for
ReadTooLong ==
    /\ Remove("reading")
    /\ ~Head(buffer).delimiter
    /\ PendingFull
    /\ consumer' = "dropping"
    /\ failure' = "BufferTooSmall"
    /\ Record("BufferTooSmall", 0)
    /\ ClearPending
    /\ UNCHANGED <<status, overflow>>

\* mutant: overflow_m is not looked at while a frame is pending
ReadEmptyShortcut ==
    /\ RemoveNothing("reading")
    /\ IF pending = << >> THEN consumer' = "exchange" /\ UNCHANGED status
       ELSE Return("IncompleteFrame")
    /\ UNCHANGED <<pending, failure, results, overflow>>

ReadEmpty ==
    /\ RemoveNothing("reading")
    /\ consumer' = "exchange"
    /\ UNCHANGED <<pending, failure, status, results, overflow>>

LoadOverflow     == UNCHANGED overflow          \* mutant: load in the place of exchange
OverflowToFalse  == overflow' = FALSE

\* overflow_m.exchange(false)
ExchangeOverflow ==
    /\ consumer = "exchange"
    /\ overflow
    /\ OverflowToFalse
    /\ consumer' = "dropping"
    /\ failure' = "Overflow"
    /\ ClearPending
    /\ UNCHANGED <<senderVars, producerVars, capacity, status, results, buffer, everFull>>

ExchangeNothing ==
    /\ consumer = "exchange"
    /\ ~overflow
    /\ Return("IncompleteFrame")
    /\ UNCHANGED <<senderVars, producerVars, pending, capacity, failure, results, buffer,
                   overflow, everFull>>

\* dropBufferUntilDelimiterOrEmpty, one byte at a time
DropByte ==
    /\ Remove("dropping")
    /\ IF Head(buffer).delimiter THEN Return(failure) ELSE UNCHANGED <<consumer, status>>
    /\ UNCHANGED <<pending, failure, results, overflow>>

DropEmpty ==
    /\ RemoveNothing("dropping")
    /\ Return(failure)
    /\ UNCHANGED <<pending, failure, results, overflow>>

Step ==
    \/ ReadDelimiter \/ ReadData \/ ReadTooLong \/ ReadEmpty
    \/ ExchangeOverflow \/ ExchangeNothing
    \/ DropByte \/ DropEmpty

Consume == Step \/ \E c \in Capacities : TryReadFrame(c)

Next == Feed \/ Consume

Spec == Init /\ [][Next]_vars

-----------------------------------------------------------------------------
TypeOK ==
    /\ frame \in Nat /\ sentBytes \in 0 .. MaxLen /\ lengths \in Seq(Nat)
    /\ producer \in {"idle", "overflow", "callback"} /\ dropping \in BOOLEAN
    /\ buffer \in Seq(Bytes) /\ Len(buffer) <= BufferSize /\ overflow \in BOOLEAN
    /\ consumer \in {"idle", "reading", "exchange", "dropping"}
    /\ pending \in Seq(Bytes) /\ Len(pending) <= BufferSize
    /\ capacity \in Capacities \cup {0}
    /\ failure \in {"Overflow", "BufferTooSmall"} /\ status \in ReadFrameStatus
    /\ everFull \in BOOLEAN
    /\ results \in Seq([status : {"OK", "BufferTooSmall"}, capacity : Capacities,
                        bytes : Seq(Bytes), end : Nat])

Delivered == {i \in 1 .. Len(results) : results[i].status = "OK"}

Whole(f) == [k \in 1 .. lengths[f] |-> Data(f, k)]

Earlier(a, b) == a.frame < b.frame \/ (a.frame = b.frame /\ a.pos < b.pos)

\* No byte is delivered twice and none before one that was sent earlier, whatever was
\* dropped on either side.
DeliveredInOrder ==
    \A i, j \in Delivered :
        \A k \in 1 .. Len(results[i].bytes), l \in 1 .. Len(results[j].bytes) :
            i < j \/ (i = j /\ k < l) => Earlier(results[i].bytes[k], results[j].bytes[l])

\* While the ring never was full and no frame was longer than it, the n-th frame sent is
\* the n-th result: delivered whole, or refused because the caller's buffer is shorter.
FaithfulWithoutOverflow ==
    ~everFull /\ sentBytes <= BufferSize /\ (\A f \in DOMAIN lengths : lengths[f] <= BufferSize) =>
        \A n \in 1 .. Len(results) :
            /\ n <= Len(lengths)
            /\ results[n].bytes = Whole(n)
            /\ results[n].status = IF lengths[n] > results[n].capacity
                                   THEN "BufferTooSmall" ELSE "OK"

\* droppingFeedBytes_m keeps the rest of a frame out of the ring, its delimiter included,
\* once one byte of it was refused.  So what is delivered has no hole inside a frame, and
\* the frame whose delimiter ended it lost nothing at its end.
NoHoleInFrame ==
    \A i \in Delivered : LET b == results[i].bytes IN
        \A k \in 1 .. Len(b) :
            IF k < Len(b)
            THEN b[k + 1].frame = b[k].frame => b[k + 1].pos = b[k].pos + 1
            ELSE b[k].frame = results[i].end => b[k].pos = lengths[b[k].frame]

\* What comes out was sent, in this order, each byte once and each frame without a hole.
DeliveredAsSent == DeliveredInOrder /\ NoHoleInFrame

\* The bytes that were inserted and neither delivered nor dropped, oldest first.
Chain == pending \o buffer

\* feed and tryReadFrame, with every order of their steps, are one queue that loses the rest of a
\* frame when it is full and tells so: no order of the two stores of feed, of the exchange of
\* overflow_m and of the removals loses or drops a byte in another way.
Queue == INSTANCE FrameQueue
             WITH Size <- BufferSize, count <- sentBytes,
                  losing <- dropping \/ producer = "overflow",
                  lost <- overflow \/ producer = "overflow",
                  queue <- Chain,
                  discarding <- IF consumer = "dropping" THEN failure ELSE "no",
                  answer <- status, taken <- results
ImplementsFrameQueue == Queue!Spec
=============================================================================
