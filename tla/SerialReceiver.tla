--------------------------- MODULE SerialReceiver ---------------------------
(***************************************************************************)
(* The receiving side of BasicSerialTransport: the bytes of rxBuffer, the  *)
(* frames cut out of it, and the async_read_until operations that grow,    *)
(* fill and shrink it.  All of them share the one vector, those of earlier *)
(* sessions included until their last handler has run.                     *)
(*                                                                         *)
(* async_read_until(serial, dynamic_buffer(rxBuffer, max), delimiter) is a *)
(* loop: search the bytes not searched yet; if there is no delimiter and   *)
(* room is left, grow the vector to max, read some bytes into the new      *)
(* part, shrink it by what was not filled, and search again.  Each pass    *)
(* through that loop, and handleRead with the last one, is one task of the *)
(* strand.  Transmission shows here only by the errors that stop the       *)
(* transport; the order of the strand's tasks is left open.                *)
(*                                                                         *)
(* A byte is known by its number among the bytes the port has read; the    *)
(* zeros a growing vector is filled with are 0.                            *)
(***************************************************************************)
EXTENDS Integers, Sequences, FiniteSetsExt

CONSTANTS
    RxBufferMaxSize,    \* bufferConfig.rxBufferMaxSize
    MaxBytes,           \* bound: bytes the device sends
    MaxOpens,           \* bound: calls of open
    CleanReopen         \* open is called only when no handler of a read is outstanding

ASSUME ReceiverAssumption ==
    RxBufferMaxSize \in Nat \ {0} /\ MaxBytes \in Nat /\ MaxOpens \in Nat /\ CleanReopen \in BOOLEAN

VARIABLES
    closing, stopped, generation,
    portOpen,       \* serial.is_open()
    mem, size,      \* rxBuffer: its memory, and how much of it the vector holds
    reads,          \* the async_read_until operations whose handler has not run
    wild,           \* a search or an erase went past the end of the vector
    \* history, read by no action:
    received,       \* received[n]: byte n is a delimiter
    start,          \* bytes received before the session
    taken,          \* what handleRead took out of rxBuffer in this session, in order
    thrown          \* the frame handler threw in this session

flagVars   == <<closing, stopped, generation, portOpen>>
bufferVars == <<mem, size, reads>>
vars == <<flagVars, bufferVars, wild, received, start, taken, thrown>>

Running == ~closing /\ ~stopped

Positions == 1 .. RxBufferMaxSize
More == 0                       \* the search ends without an answer
Full == RxBufferMaxSize + 1     \* not_found: the vector is full

\* An operation waits for the port (ec "pending") or its handler is queued: it reads up to
\* room bytes to mem[at + 1], got is how many it read.
Op(g, at, room, ec) == [gen |-> g, at |-> at, room |-> room, got |-> 0, ec |-> ec]

Init ==
    /\ closing = FALSE /\ stopped = TRUE /\ generation = 0 /\ portOpen = FALSE
    /\ mem = [i \in Positions |-> 0] /\ size = 0 /\ reads = {} /\ wild = FALSE
    /\ received = << >> /\ start = 0 /\ taken = << >> /\ thrown = FALSE

-----------------------------------------------------------------------------
(* The loop of async_read_until.                                           *)

Delimiters(m, from, to) == {i \in from + 1 .. to : m[i] # 0 /\ received[m[i]]}

\* mutant: the answer is the last delimiter, not the first
LookLast(from, m, n) ==
    IF Delimiters(m, from, n) # {} THEN Max(Delimiters(m, from, n))
    ELSE IF n = RxBufferMaxSize THEN Full ELSE More
Look(from, m, n) ==
    IF Delimiters(m, from, n) # {} THEN Min(Delimiters(m, from, n))
    ELSE IF n = RxBufferMaxSize THEN Full ELSE More

\* One search in m[1 .. n], after which the operation of session g joins others: with an
\* answer it ends at once, with none it grows the vector and reads.
Search(g, from, m, n, others) ==
    LET found == Look(from, m, n) IN
    IF found # More
    THEN /\ reads' = others \cup {Op(g, found, 0, "ok")}
         /\ mem' = m /\ size' = n
    ELSE /\ reads' = others \cup {Op(g, n, RxBufferMaxSize - n,
                                     IF portOpen' THEN "pending" ELSE "bad_descriptor")}
         /\ mem' = [i \in Positions |-> IF i <= n THEN m[i] ELSE 0]
         /\ size' = RxBufferMaxSize

\* The vector when the bytes o did not fill are cut off, for dynamic_buffer at most all of it.
ShrunkBelow(o) == size - (o.room - o.got)       \* mutant: cut off whatever the vector holds
Shrunk(o) == Max({0, size - (o.room - o.got)})

Fate(o) == IF o.got = 0 THEN o.at ELSE Look(o.at, mem, Shrunk(o))

-----------------------------------------------------------------------------
(* Tasks of the strand.                                                    *)

\* mutant: what rxBuffer holds already is not searched
ReadNewBytesOnly(m, n, others) ==
    IF closing' \/ stopped' THEN reads' = others /\ mem' = m /\ size' = n
    ELSE Search(generation', n, m, n, others)
\* startRead(), called last in the tasks that use it
StartRead(m, n, others) ==
    IF closing' \/ stopped' THEN reads' = others /\ mem' = m /\ size' = n
    ELSE Search(generation', 0, m, n, others)

\* serial.cancel and serial.close: operations waiting for the port end with nothing read
Cancelled(ops) == {IF o.ec = "pending" THEN [o EXCEPT !.ec = "operation_aborted"] ELSE o : o \in ops}

Reopening ==
    /\ ~closing
    /\ generation < 2 * MaxOpens
    /\ CleanReopen => reads = {}
    /\ generation' = generation + 1
    /\ start' = Len(received) /\ taken' = << >> /\ thrown' = FALSE
    /\ UNCHANGED <<closing, wild, received>>

OpenSucceeds ==
    /\ ~portOpen
    /\ portOpen' = TRUE /\ stopped' = FALSE
    /\ Reopening
    /\ StartRead(mem, 0, reads)

\* serial.open throws, or a set_option after it
OpenThrows ==
    /\ portOpen' \in {portOpen, TRUE} /\ stopped' = TRUE
    /\ Reopening
    /\ size' = 0
    /\ UNCHANGED <<mem, reads>>

\* mutant: stopped is not set
StopUnmarked(others) ==
    /\ stopped' = stopped /\ portOpen' = FALSE
    /\ generation' = generation + 1
    /\ size' = 0 /\ reads' = Cancelled(others)
    /\ UNCHANGED <<mem, wild, received, start, taken, thrown>>
Stop(others) ==
    /\ stopped' = TRUE /\ portOpen' = FALSE
    /\ generation' = generation + 1
    /\ size' = 0 /\ reads' = Cancelled(others)
    /\ UNCHANGED <<mem, wild, received, start, taken, thrown>>

CloseOnStrand == ~closing /\ closing' = TRUE /\ Stop(reads)

\* A write fails: stopAfterIoError by way of handleWrite.
WriteFails == Running /\ UNCHANGED closing /\ Stop(reads)

Stale(o) == ~Running \/ o.gen # generation

Finished == {o \in reads : o.ec # "pending"}

\* Bytes came, but no delimiter, and the vector is not full.
ReadsOn(o) ==
    /\ o.ec = "ok" /\ Fate(o) = More
    /\ UNCHANGED flagVars
    /\ Search(o.gen, o.at, mem, Shrunk(o), reads \ {o})
    /\ UNCHANGED <<wild, received, start, taken, thrown>>

StaleRead(o) ==
    /\ Stale(o)
    /\ o.ec = "ok" => Fate(o) # More
    /\ reads' = reads \ {o} /\ size' = Shrunk(o)
    /\ UNCHANGED <<flagVars, mem, wild, received, start, taken, thrown>>

TakeOut(kind, n) == taken' = Append(taken, [kind |-> kind, bytes |-> SubSeq(mem, 1, n)])

ReadFails(o) ==
    /\ ~Stale(o) /\ o.ec # "ok"
    /\ UNCHANGED closing
    /\ Stop(reads \ {o})

\* recoverFromError(RxBufferFull)
RecoverFromError(others) == StartRead(mem, 0, others)

ReadFull(o) ==
    /\ ~Stale(o) /\ o.ec = "ok" /\ Fate(o) = Full
    /\ TakeOut("full", Shrunk(o))
    /\ UNCHANGED flagVars
    /\ RecoverFromError(reads \ {o})
    /\ UNCHANGED <<wild, received, start, thrown>>

IsFrame(o) == ~Stale(o) /\ o.ec = "ok" /\ Fate(o) \in Positions

\* rxBuffer.erase(begin, begin + n)
EraseNothing(n) == mem                          \* mutant: the frame is not erased
Erased(n) == [i \in Positions |-> IF i + n <= RxBufferMaxSize THEN mem[i + n] ELSE 0]

ReadFrame(o) ==
    /\ IsFrame(o)
    /\ TakeOut("frame", Fate(o))
    /\ UNCHANGED flagVars
    /\ StartRead(Erased(Fate(o)), Shrunk(o) - Fate(o), reads \ {o})
    /\ UNCHANGED <<wild, received, start, thrown>>

\* The frame handler throws: neither the erase nor startRead is reached.
FrameHandlerThrows(o) ==
    /\ IsFrame(o)
    /\ TakeOut("frame", Fate(o))
    /\ thrown' = TRUE
    /\ reads' = reads \ {o} /\ size' = Shrunk(o)
    /\ UNCHANGED <<flagVars, mem, wild, received, start>>

\* A search that starts past the end of the vector, or the erase of a frame that an operation
\* of an earlier session has cut off since it was found: undefined behaviour.
PastTheEnd(o) ==
    /\ o.at > Shrunk(o)
    /\ o.got > 0 \/ (IsFrame(o) /\ o.room = 0)

ReadWild(o) ==
    /\ PastTheEnd(o)
    /\ wild' = TRUE
    /\ UNCHANGED <<flagVars, bufferVars, received, start, taken, thrown>>

HandleRead ==
    \E o \in Finished :
        \/ ReadWild(o)
        \/ /\ ~PastTheEnd(o)
           /\ \/ ReadsOn(o) \/ StaleRead(o) \/ ReadFails(o) \/ ReadFull(o)
              \/ ReadFrame(o) \/ FrameHandlerThrows(o)

-----------------------------------------------------------------------------
(* The port.                                                               *)

StreamReads(o) ==
    \E k \in 1 .. o.room : \E bytes \in [1 .. k -> BOOLEAN] :
        /\ Len(received) + k <= MaxBytes
        /\ received' = received \o bytes
        /\ mem' = [i \in Positions |-> IF i \in o.at + 1 .. o.at + k
                                       THEN Len(received) + i - o.at ELSE mem[i]]
        /\ reads' = (reads \ {o}) \cup {[o EXCEPT !.got = k, !.ec = "ok"]}
        /\ UNCHANGED <<flagVars, size, wild, start, taken, thrown>>

StreamFails(o) ==
    /\ reads' = (reads \ {o}) \cup {[o EXCEPT !.ec = "eof"]}
    /\ UNCHANGED <<flagVars, mem, size, wild, received, start, taken, thrown>>

Stream == \E o \in reads \ Finished : StreamReads(o) \/ StreamFails(o)

Next ==
    /\ ~wild
    /\ OpenSucceeds \/ OpenThrows \/ CloseOnStrand \/ WriteFails \/ HandleRead \/ Stream

Spec == Init /\ [][Next]_vars

\* The thread in io_context::run() runs the tasks of the strand; the device promises nothing.
FairSpec == Spec /\ WF_vars(~wild /\ HandleRead)

-----------------------------------------------------------------------------
TypeOK ==
    /\ {closing, stopped, portOpen, wild, thrown} \subseteq BOOLEAN
    /\ generation \in Nat
    /\ mem \in [Positions -> 0 .. Len(received)] /\ size \in 0 .. RxBufferMaxSize
    /\ reads \subseteq
         [gen : 1 .. generation, at : 0 .. Full, room : 0 .. RxBufferMaxSize,
          got : 0 .. RxBufferMaxSize,
          ec : {"pending", "ok", "eof", "operation_aborted", "bad_descriptor"}]
    /\ received \in Seq(BOOLEAN) /\ start \in 0 .. Len(received)
    /\ taken \in Seq([kind : {"frame", "full"}, bytes : Seq(0 .. Len(received))])

\* The last of the session's bytes that was taken before the i-th time, and before now.
TakenBefore(i) == IF i = 1 THEN start
                  ELSE LET b == taken[i - 1].bytes IN b[Len(b)]
Gone == TakenBefore(Len(taken) + 1)

\* TODO.txt:12 (packets are delivered in the order received): what the frame handler and the
\* overflow handler were given is, put together, what the port read in this session from its
\* first byte on: nothing is lost between two frames, repeated or left over from before.
NothingLost ==
    \A i \in 1 .. Len(taken) : LET b == taken[i].bytes IN
        b # << >> /\ \A j \in 1 .. Len(b) : b[j] = TakenBefore(i) + j

\* A frame ends with the only delimiter in it; bytes are thrown away only when they fill the
\* buffer and none of them is a delimiter.
FramesDelimited ==
    \A i \in 1 .. Len(taken) : LET b == taken[i].bytes IN
        IF taken[i].kind = "frame"
        THEN \A j \in 1 .. Len(b) : b[j] # 0 /\ received[b[j]] = (j = Len(b))
        ELSE Len(b) = RxBufferMaxSize /\ \A j \in 1 .. Len(b) : b[j] # 0 /\ ~received[b[j]]

\* Between two tasks of a session rxBuffer holds exactly the bytes the port has read and
\* nobody has taken, in order, followed by the room of the read in progress.
BufferHoldsTheRest ==
    Running /\ ~thrown => \A o \in reads :
        LET held == IF o.room = 0 THEN size ELSE o.at + o.got
        IN  /\ Gone + held = Len(received)
            /\ size = IF o.room = 0 THEN held ELSE RxBufferMaxSize
            /\ \A i \in 1 .. held : mem[i] = Gone + i

\* While a session runs no search and no erase goes past the end of rxBuffer: only an operation
\* that close or an error left behind can find the vector cleared under it.
SessionInBounds == Running => ~wild

\* A delimiter that was read is handed out, with its frame, unless the session ends first or
\* the frame handler throws: several frames in one read are not left waiting for the next.
FrameHandedOut ==
    \A n \in 1 .. MaxBytes :
        (Running /\ n \in start + 1 .. Len(received) /\ received[n])
          ~> (wild \/ thrown \/ ~Running \/ n <= Gone)

=============================================================================
