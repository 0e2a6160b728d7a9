----------------------------- MODULE FrameQueue -----------------------------
(***************************************************************************)
(* What FrameWaiter promises to its two sides, whatever their steps in the *)
(* ring and the flag between them are: one queue of bytes that may lose the*)
(* rest of a frame when it is full, and that is read a frame at a time.    *)
(* Bytes are lost or thrown away in these ways only, and the reader is told*)
(* Overflow only after a loss.                                             *)
(***************************************************************************)
EXTENDS Integers, Sequences

CONSTANTS
    Size,           \* bytes from which on the queue may be full, and the longest frame it reads
    Capacities      \* capacities of the reader's buffers

VARIABLES
    frame, count,   \* the frame being written and how many data bytes of it were
    losing,         \* its rest is being lost
    lost,           \* something was lost and not told
    queue,          \* bytes written and neither read, lost nor thrown away
    discarding,     \* what the reader will be told when the next delimiter is thrown away, or "no"
    answer,         \* what the reader was told last
    taken           \* frames it got, or was refused

vars == <<frame, count, losing, lost, queue, discarding, answer, taken>>

Init ==
    /\ frame = 1 /\ count = 0 /\ losing = FALSE /\ lost = FALSE
    /\ queue = << >> /\ discarding = "no" /\ answer = "IncompleteFrame" /\ taken = << >>

-----------------------------------------------------------------------------
Keep(b) ==
    /\ ~losing
    /\ queue' = Append(queue, b)
    /\ UNCHANGED <<losing, lost>>

Lose(b) ==
    /\ ~losing /\ Len(queue) >= Size
    /\ losing' = TRUE /\ lost' = TRUE
    /\ UNCHANGED queue

LoseMore(b) ==
    /\ losing
    /\ losing' = ~b.delimiter
    /\ UNCHANGED <<queue, lost>>

Write(b) ==
    /\ frame' = IF b.delimiter THEN frame + 1 ELSE frame
    /\ count' = b.pos
    /\ Keep(b) \/ Lose(b) \/ LoseMore(b)
    /\ UNCHANGED <<discarding, answer, taken>>

\* A data byte or the delimiter.
WriteByte ==
    \/ Write([frame |-> frame, pos |-> count + 1, delimiter |-> FALSE])
    \/ Write([frame |-> frame, pos |-> 0, delimiter |-> TRUE])

-----------------------------------------------------------------------------
IsData(n) == n <= Len(queue) /\ \A i \in 1 .. n : ~queue[i].delimiter
Drop(n)   == queue' = SubSeq(queue, n + 1, Len(queue))

Taken(s, c, n, end) ==
    taken' = Append(taken,
        [status |-> s, capacity |-> c, bytes |-> SubSeq(queue, 1, n), end |-> end])

\* The first frame is read, or refused because the reader's buffer is shorter.
Take(c, n) ==
    /\ discarding = "no"
    /\ IsData(n) /\ n < Len(queue) /\ queue[n + 1].delimiter
    /\ Drop(n + 1)
    /\ answer' = IF n > c THEN "BufferTooSmall" ELSE "OK"
    /\ Taken(answer', c, n, queue[n + 1].frame)
    /\ UNCHANGED <<lost, discarding>>

\* It is refused because it is longer than any the queue reads.
Refuse(c) ==
    /\ discarding = "no"
    /\ IsData(Size + 1)
    /\ Drop(Size + 1)
    /\ Taken("BufferTooSmall", c, Size, 0)
    /\ discarding' = "BufferTooSmall"
    /\ UNCHANGED <<lost, answer>>

\* A loss is told when the beginning of a frame at most, n bytes, waits to be read; it goes.
Tell(n) ==
    /\ discarding = "no" /\ lost
    /\ IsData(n)
    /\ Drop(n)
    /\ lost' \in {FALSE, losing}
    /\ discarding' = "Overflow"
    /\ UNCHANGED <<answer, taken>>

Discard ==
    /\ discarding # "no" /\ queue # << >>
    /\ Drop(1)
    /\ \/ ~queue[1].delimiter /\ UNCHANGED <<discarding, answer>>
       \/ queue[1].delimiter /\ discarding' = "no" /\ answer' = discarding
    /\ UNCHANGED <<lost, taken>>

DiscardAll ==
    /\ discarding # "no" /\ queue = << >>
    /\ discarding' = "no" /\ answer' = discarding
    /\ UNCHANGED <<lost, queue, taken>>

NoFrame ==
    /\ discarding = "no"
    /\ answer' = "IncompleteFrame"
    /\ UNCHANGED <<lost, queue, discarding, taken>>

Read ==
    /\ \/ \E c \in Capacities : Refuse(c) \/ \E n \in 0 .. Size : Take(c, n)
       \/ \E n \in 0 .. Size : Tell(n)
       \/ Discard \/ DiscardAll \/ NoFrame
    /\ UNCHANGED <<frame, count, losing>>

Next == WriteByte \/ Read

Spec == Init /\ [][Next]_vars
=============================================================================
