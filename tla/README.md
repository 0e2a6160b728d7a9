# TLA+ models of EasyLoRa-Reforged

These modules model the stateful core of the repository: the host's serial transport
(`api/`), sending and receiving side; the firmware's two cores with the byte queue between
them, the interrupt set-up and the pin tables (`firmware/`); and the CRC and header of the
protocol (`protocol/`). TLC checks them on small instances; TLAPS proves their safety
properties for every value of their constants. Paths below are relative to the
repository's root.

## The system

A PC talks to a Pico over a serial port. On the PC, `SerialTransport` sends and
receives delimited frames asynchronously with Boost.Asio. On the Pico, core 0
takes bytes from the UART in an interrupt and feeds a `FrameWaiter`; core 1 takes
frames from it, decodes them, dispatches them to a handler and queues the encoded
response in a second `FrameWaiter`.

| Component | State | Operations | Interaction | What makes it hard |
|---|---|---|---|---|
| `SerialTransport` (`api/include/SerialTransport.hpp`) | `closing`, `stopped`, `generation`, `pendingWrites`, `currentState_m`, `bufferConfig`, `txDeque`, `rxBuffer`, four handlers, the port | `open`, `close`, destructor, four setters, `asyncWrite`, `isOpen`, `handleRead`, `handleWrite` | callers post tasks to a strand; the port posts completions; handlers are called on the strand | callers race with the strand; completions come late or for an earlier session; errors, reopening and closing cross with queued tasks |
| `FrameWaiter` (`firmware/lib/FrameWaiter/FrameWaiter.hpp`) | ring, pending frame, `overflow_m`, `droppingFeedBytes_m` | `feed`, `insertDelimiter`, `tryReadFrame` | producer: interrupt; consumer: other core; callback `__sev` | lock-free; overflow in the middle of a frame; refused frames whose end is still to come |
| `Core_0`, `UARTWrapper` | interrupt enable flags | `init`, interrupt handler | feeds the receive queue | static instances per translation unit; initialisation inside `assert` |
| `Core_1` | static buffers | frame loop | `tryReadFrame`, dispatch, feeds the transmit queue, `__wfe` | the loop stops at the first status that is not OK and sleeps; nobody drains the transmit queue |
| `FrameResponder`, `GetDeviceInfoHandler` | none | request to response | called by core 1 | error paths |
| `protocol` (CRC, header, bytes) | none | `addCRC`, `removeCRC`, `toBytes` | none yet | widths and lengths |
| `ProtocolEncoder`, `EasyLoRa`, `SerialTransportStates` | none | empty or unused | | |

What makes each of them correct:

* **SerialTransport.** Sessions stay apart: a completion, a write or an error of
  one session does not act on another. There is one read and at most one write in
  flight. Packets go out in the order they were posted; what the write handler is
  told is true. The counter that limits the queue is exact. A closed transport is
  silent. Accepted writes leave the queue.
* **FrameWaiter.** What comes out is in the order in which it came in, without
  duplicates and without a hole inside a frame; without overflow every frame comes
  out whole; a loss is reported.
* **Firmware loop.** Every frame in the ring is looked at and every request gets one
  response.
* **Protocol.** `removeCRC` undoes `addCRC` and notices changes.

`PROJECT.json` lists the hazards behind these properties, each at its line.

## Modules

| Module | Content |
|---|---|
| `SerialTransport` | sessions, transmit queue, errors, the port and the application threads; properties |
| `WriteService` | abstract: what callers of `asyncWrite` are promised |
| `MCSerialTransport` | constants for TLC |
| `SerialTransportProofs` | types, sessions, one read and one write in flight, one report of a fatal error |
| `WriteOrderProofs` | the way of a packet: order, true notices, silence after close, where packets are lost |
| `WriteServiceProofs` | `SerialTransport` implements `WriteService` |
| `WriteCountProofs` | the counter that limits the queue |
| `SerialReceiver` | the bytes of `rxBuffer` and the reads that share it; properties |
| `SerialReceiverProofs` | what `handleRead` hands out, and that it stays inside the vector |
| `FrameWaiter` | the queue, its producer and its consumer; properties |
| `FrameQueue` | abstract: what `FrameWaiter` promises to its two sides |
| `FrameWaiterProofs` | order, no hole in a frame, every frame whole without overflow; `FrameWaiter` implements `FrameQueue` |
| `Uart` | operations of `UARTWrapper` and the tables of `ValidPins.hpp` |
| `Firmware` | `Core_0`, `Core_1`, responder and handler around an instance of `FrameWaiter`, on top of `Uart`; properties |
| `FirmwareProofs` | initialisation, no sleep over a frame, nothing received through queues of one's own, responses in order |
| `MCFirmware` | pins for TLC |
| `Crc` | `CrcCalculator`, byte helpers, `Header::toBytes`, and a line that damages bytes; properties |
| `CrcProofs` | round trip, detection of bursts and of odd damage, acceptance of frames only |
| `MCCrc` | messages for TLC |

### SerialTransport

*Variables* are the members of `Pimpl` under their own names (`portOpen` is
`serial.is_open()`), the strand's queue of tasks `strand`, the bag `inflight` of
operations the port has not completed, `status[p]` (where a call of `asyncWrite`
stands or what it returned) and history variables, which no action reads.

*Actions.* `CallOpen`, `CallClose`, `CallSetHandler` post a task. `asyncWrite` runs on
the caller's thread in three actions: `AsyncWriteCheck` (the two atomic flags),
`AsyncWriteReserve` (the size and the compare-exchange) and `AsyncWritePost`. Each
strand task is one action, guarded by the head of the queue: four outcomes of `open`
(ignored, succeeds, `serial.open` throws, a `set_option` throws), `closeOnStrand`, the
setters, the lambda of `asyncWrite` (`WriteCancelled`, `WriteEnqueued`) and the completion
handlers. `StreamCompletes` is the port: it ends an operation with one of its
`Outcomes` and queues the handler.

*Why a task is one step.* Only strand tasks write the transport's state, and the
strand runs one at a time. `asyncWrite` reads `closing`, `stopped`, `bufferConfig` and
`pendingWrites` from other threads. A read in the middle of a task sees a value that
the model shows before or after it, with these exceptions: a call that meets the
`stopped` of a reopening halfway gets `Closed`, a result that changes nothing; and a
call that meets the assignment of `bufferConfig` is a data race of which the model
explores the old and the new value only. The size check, the load of `pendingWrites`, the limit test and the
compare-exchange are one step: an `open` between the limit test and an exchange that still finds its
count is not explored, which only matters when it sets a smaller limit, and never under `QuietReopen`. `Opening` and `Closing` exist only inside a
task and are not states of the model. User callbacks may call the public functions:
all of them post, and `asyncWrite` called in a callback is covered by the
three-step interleaving (its check before the task and its reservation after it
included). Callbacks are assumed not to throw here; the
frame handler may in `SerialReceiver`.

*The port.* An operation ends with `ok`, an error code, or, once it was cancelled,
`operation_aborted`. A completion that was queued before the cancellation keeps its
result. Boost.Asio reads and writes in parts, and the end of each part is a task of the strand: an
operation cancelled while such a task is queued goes on, in a port that a later session has opened
if there is one, and then has any outcome (`Outcomes`). `wire` has the packets sent whole; a write that goes
on in a later session sends the rest of one, and which bytes that puts between the packets of
that session is not modelled. `close`, an error or an `open` on an open port clears `txDeque` while
`async_write` still refers to its front packet, which is undefined behaviour; such a write
sends its packet or something that is no packet (`Sent`). Through the dynamic buffer that refers to the vanished packet it
could also send and consume bytes of a later session's front packet in its place; that outcome is left out.

*Refinement.* `WriteService` keeps four things: the packets in order of acceptance, the
packets on the line, what the write handler heard of each, and whether `close` has run. It
sends a packet only behind everything sent before it was accepted, and never one that
was reported. `SerialTransport` implements it with `accepted <- posted`, `heard <- notices`,
`closed <- closing`: sessions, errors, reopenings and late completions are stutters or steps of
it. What the service does not promise is that each packet is sent or reported;
`NoSilentLoss` says where packets may vanish (with their session, out of `txDeque`),
`ScheduledWriteSettles` that they do not stay.

*Left out.* The bytes of `rxBuffer`, which are `SerialReceiver`'s (`ReadContinues` stands for
both ways of going on; no guard here depends on the bytes), and the setters of the frame and
recoverable-error handlers. The memory of moved-from transports and `shared_ptr`
counts are not modelled; `CloseReleases` stands for the latter.

### SerialReceiver

*Variables.* `mem` and `size` are `rxBuffer`: its memory and how much of it the vector
holds. `reads` is the set of `async_read_until` operations whose handler has not
run, each with its session, the place in the buffer it searches or reads from (`at`), the room
it has grown the vector by and how much of it was filled. Bytes are numbered in the order in
which the port read them, so that a byte lost, repeated or moved shows.

*Actions.* `async_read_until` is a loop of Boost.Asio over the caller's vector: search,
grow the vector to its maximum, read some, shrink by what was not filled, search again. Every
pass and the handler at its end is a task of the strand. `ReadsOn` is a pass without an answer,
`StaleRead`, `ReadFails`, `ReadFull`, `ReadFrame` and `FrameHandlerThrows` are passes that end
in `handleRead`, each with all it calls: `startRead` begins with a search of what
is in the buffer (`Search`), and an answer found there is queued at once. `StreamReads` fills
any number of bytes. `OpenSucceeds`, `OpenThrows`, `CloseOnStrand` and `WriteFails` are the
tasks of `SerialTransport` that touch `rxBuffer` or the session; their order is left open,
which allows more than the strand does.

*Shared vector.* `open`, `close` and errors clear the vector under reads that have
not ended. A read that had filled bytes before shrinks the vector when it continues, by
`Shrunk`, before anyone compares generations. `CleanReopen` says that `open` is called only
when the handlers of all reads have run. Even then a clear may come between the bytes of
a pass and its search, which then starts past the end of the vector; and with other reads
sharing the vector the bytes of an answer may be cut off before its frame is erased. Both
are undefined behaviour (`PastTheEnd`): `ReadWild`, where the model stops. `SessionInBounds`
says that only an operation left behind by a close or an error meets it, never the read of the
running session.

### FrameWaiter

`feed` is called by one producer, `tryReadFrame` by one consumer, and every access to
the ring or to `overflow_m` is an action. What only one side touches
(`droppingFeedBytes_m`, `pendingFrameBuffer_m`) changes with the shared access next to it.
In the two stores of `feed` (lines 89, 90) the second is the producer's own, so they are
one action. The ring is external (`jnk0le::Ringbuffer`): insert is refused when
`BufferSize` bytes are in it. Bytes are pairs of frame and position. `feed(range)` and
`insertDelimiter` are sequences of `feed`. A null output buffer changes nothing and is
left out.

*Refinement.* In `FrameQueue` every step is atomic and there is one queue. Its writer appends a byte
or, when the queue may be full, begins to lose the rest of the frame. Its reader takes the first
frame, refuses it, throws bytes away up to a delimiter, or is told that something was lost; it is
told `Overflow` only after a loss. `FrameWaiter` implements it with `queue` as the
bytes in `pendingFrameBuffer_m` that no delimiter has ended, followed by those in the ring (`Chain`). `losing` holds
from the refused insert on, that is from before `droppingFeedBytes_m` and `overflow_m` are stored,
`lost` likewise. The two loads of `tryReadFrame`
(`overflow_m`, then the ring) and the store that resets the flag come at different times; where the
consumer stands between them, `discarding`, `answer` and `taken` are what it has decided by then.
`FrameQueue` does not promise that a loss is told (`LossReported` of `Firmware` says when), and it allows what
the code does after one: the beginning of the frame that lost its end may be joined to the next
frame.

### Uart and Firmware

`Uart` has the two UARTs, handlers, interrupt lines, the interrupts they raise and the
pins they were given, and `UARTWrapper`'s operations as operators over them, with the
error each returns. `init` takes `uint8_t` pins and `Core_0::init` any `uint`: 257 is pin 1. The Rx tables of `ValidPins.hpp` are the Tx tables plus one; a chip other
than the three gets no valid pin.

`Firmware` instantiates `FrameWaiter` as `UART_0_Rx_FrameWaiter`. `FeedByte`,
`FeedRaisesOverflow` and `FeedCallsBack` are the interrupt of core 0 (bytes come only once
`Receiving` holds), `InitUart`, `SetHandler` and `EnableRxIRQ` are `Core_0::init`, whose calls
are inside `assert` and missing with `AssertsOn = FALSE`. `Core_1::main` is
`CallTryReadFrame`, `RunTryReadFrame`, then `LeaveLoop`, `Discard` (a `continue`) or `Answer`,
and `Wake` for `__wfe`. `events` are the event registers that `__sev` sets and `__wfe`
clears. `Answer` encodes a response and `FeedResponse` feeds it to the transmit queue byte by
byte; nobody else touches that queue, so its `feed` of a byte, with the call of `__sev` behind a delimiter, is one step (`FeedTx`). What `tryReadFrame` returns is decoded only if it is one frame as the host sent it;
its type and kind are then open. `src/firmware/main.cpp` is empty: the order in which
the cores start is left open.

*Shared queues.* `Instances.hpp` declares the queues `static`, and `Core_0.cpp` and `Core_1.cpp` are
compiled separately (`firmware/CMakeLists.txt:99-101`): at this commit each core has queues of its own. This is
`SharedQueues = FALSE`: core 0 feeds `buffer`, core 1 reads `ownBuffer` (the instance `Own`), and
no frame ever reaches it (`NothingReceived`, run `static_queues`). With
`SharedQueues = TRUE`, which is what an `inline` or `extern` declaration would give, `Own` is not
used. What is shown of receiving is shown under this condition. The transmit queue is of core 1 alone
either way.

*Losses.* `tryReadFrame` looks at `overflow_m` only when the ring is empty, and core 1 calls it only
after an event. `LossReported` therefore promises a report only when core 1 still has a call or an event before it;
the loop then ends with `Overflow`, or with `BufferTooSmall` when the loss has joined the beginning of a frame
to the next one. A core 1 that sleeps with no event to come is told nothing (`dead_receiver`).

### Crc

A sender adds the CRC to a message or header, the line flips up to two bits anywhere, three in short
frames, or any in a burst (`Damaged`), a receiver removes the CRC; or a receiver is handed any bytes (`Stray`).
`addCRC` and `removeCRC` return an error or a view, and the buffer they leave, which held
`OldBytes` before. `CRC::Calculate` is external; `Register` is its register after each bit, and
the check value of the repository's tests is an assumption that TLC evaluates.

Two properties say what damage `removeCRC` notices. `DamageDetected` (all flips within sixteen bits, or
an odd number of them anywhere) is true for messages of any length. `FlipPairDetected` (one or two flips anywhere) is not: two bits
32767 apart cancel in the register. Frames of this protocol are far shorter.

## Runs

| Run | Question | Result |
|---|---|---|
| `transport_safety` | sessions, order, true reports and silence after close, with two writes, two opens, one close, one setter call, all error classes | holds |
| `transport_counter` | three packets that fit and one that does not, queues of one and two, reopening only while not writing | holds |
| `transport_live` | do accepted writes leave the queue, does close release everything | holds |
| `receiver` | five bytes, delimiters anywhere, any split, buffer of three, two opens, errors and throwing handlers; no open while a read is outstanding; order, whole frames, the rest in the buffer, no access past its end | holds |
| `framewaiter_safety` | three frames of 0 to 3 bytes, ring of 2, output of 1 or 2; order, holes, and is it one queue to its two sides | holds |
| `firmware` | queues shared: initialisation with five pin choices, three frames of 0 to 2 bytes, ring of 3, transmit ring of 4 for responses of 3; frames not slept over, losses told, responses in order | holds |
| `crc` | nine messages, ten headers, buffers of 0, 3, 6 and 11 bytes, bursts of 7 bits, pairs of flips, triples in three bytes; round trip, damage noticed, buffers kept | holds |
| `lost_count` | limit of the queue when reopening during a write | violated |
| `reopened_read` | does a late read leave a reopened session alone | violated |
| `static_queues` | queues as `Instances.hpp` declares them: are frames taken out of the ring | violated |
| `dead_receiver` | is there room in the ring while core 1 sleeps | violated |
| `release_boot` | is a firmware built with NDEBUG ready after `init` | violated |

The violated properties state what the repository's comments, plans or tests say;
`PROJECT.json` quotes the lines under "findings". In short:

* `reopened_read`: close or an error clears `rxBuffer`, `open` starts a session with a read of
  its own, then the old read completes: it shrinks the vector by the room it had not used,
  so that bytes of the new session are cut off.
* `static_queues`: core 0 feeds the queue of `Core_0.cpp`, its `__sev` wakes core 1, and core 1
  finds the queue of `Core_1.cpp` empty. This is the code at this commit; what `firmware` shows of receiving
  is about the program with shared queues.
* `dead_receiver`: a ring that fills up without a delimiter refuses everything from then on, and
  core 1, which alone could empty it, waits for a delimiter to be inserted.
* `firmware` holds with more conditions that are part of what it shows: `NoFrameSleptOver` and
  `FrameTaken` end with the first refused byte. After one, `tryReadFrame` may
  return `Overflow` or `BufferTooSmall` with whole frames behind it whose events are spent, and
  core 1 sleeps on them until the next delimiter comes.

Known differences that have no run of their own: packets behind the one that failed are dropped without
a notice (`NoSilentLoss` says only then; `SerialTransport.hpp:91` promises a notice); a write accepted
before an error is sent after a reopening (excluded in `transport_counter` by
`QuietReopen`, which `QueuedInItsSession` needs); an `open` that fails in `set_option` leaves the port
open, so that no later `open` succeeds; the beginning of a frame that overflowed is returned
joined to the next frame, and the tail of a refused frame as a frame, both with OK
(`FaithfulWithoutOverflow` excludes both while the ring never was full); after
`RxBufferFull` the tail of the over-long frame reaches the frame handler; an error code that
`clarifyFatalError` does not list is thrown out of the `noexcept` `dispatchError`, and the program ends without
calling the fatal error handler (`crashed` in the model; `SerialTransport.hpp:71` promises the call).

### Bounds

* Two opens suffice for two sessions, and an error, a failing open or an open on an open
  port in either. Two packets suffice for one in flight and one waiting, and for an order.
  One `close` in the safety run and two in `transport_live`, where the second finds
  `closing` set; the destructor posts the same task as `close`.
* Error codes stand for the classes the code distinguishes: recoverable (`not_found`),
  classified fatal (`eof`, `bad_descriptor`) and unclassified (`io_error`).
* `SizeMax = 1023` stands for the largest `size_t`; it only has to be far above every
  count, so that a wrapped counter cannot be mistaken for one.
* `MaxCalls` bounds the calls, `MaxFrames` and `MaxLen` what the sender sends. A ring of 2
  with frames of up to 3 makes it run full within a frame, and makes a frame of exactly
  the size of the ring and one that is longer.
* Five bytes and a buffer of three give a frame and the beginning of the next, a full buffer with and
  without a delimiter at its end, and a rest after the overflow; two opens give a late read.
* In `firmware` a ring of 3 holds one frame of 2 bytes, or one and part of the next, so that it runs
  full; three frames give two events merged into one. A transmit ring of 4 holds one response of 3
  bytes and one byte of the second. The five pin choices are valid for UART 0, for UART 1, mixed, and above 255.
  `LossReported` was checked with `MaxLen = 4` as well (834 thousand states, no error), where losses join frames to ones
  that do not fit.
* In `crc`, `MaxBurst = 7` covers bursts within a byte and across two; messages of one and
  two bytes make all double errors enumerable. `MaxTripled = 3` is a message of one byte: its triples are the odd
  damages that are longer than sixteen bits, and a polynomial with a term missing lets some pass. Buffer sizes are below, at and above the
  lengths that matter.
* `transport_safety` uses the symmetry of the packets that fit; the liveness runs use none.
* `CHECK_DEADLOCK FALSE` in the other configurations: a program whose calls are all made, or
  that has terminated, a silent host and a message that was judged stop. `FrameWaiter` checks
  for deadlock.

### Fairness

`FairSpec` of `SerialTransport` asks that tasks of the strand run and that the port
ends writes, and cancelled reads once it is closed. The first is the thread in `io_context::run()`
(the exception that `open` rethrows leaves `run`; the program is assumed to call it
again). The second is the operating system's promise; the code has no timeout
that would replace it. Nothing is asked of application threads or of the remote side.
`FairSpec` of `Firmware` asks that the cores run and that the interrupt handler, once called, returns. Nobody is
assumed to poll: core 1 sleeps in `__wfe` until its event register is set, and the host may fall silent at
any time. The host stops after `MaxFrames` frames, and `overflow_m` is looked at only when the ring is empty, so
that `LossReported` rests on pauses of the sender. `FrameWaiter` alone has no liveness properties. `FairSpec` of `SerialReceiver` asks that the strand runs
tasks; the port promises nothing.

## Proofs

The theorems hold for every value of the constants, from the named assumptions of the modules
and, where the table says so, a hypothesis on a constant. All but the three about refinements
(`KeepsTheService`, `KeepsTheQueue`, `ReceivesThroughQueue`) and `NothingReceived` have the form `Spec => []P`,
where `P` is a property that a run checks.

| Module | Theorems | Hypothesis |
|---|---|---|
| `SerialTransportProofs` | `TypeCorrect`, `SessionFlagsAgree`, `ExactlyOneRead`, `OnlyFrontIsWritten`, `LateCompletionsAreStale`, `FatalReportedOnce` | |
| `WriteOrderProofs` | `SentInOrder`, `HandlerHearsTheTruth`, `CloseIsFinal`, `LossOnlyWithSession` | |
| `WriteServiceProofs` | `KeepsTheService` | |
| `WriteCountProofs` | `CountIsExact`, `LimitHolds`, `SentInItsSession` | `QuietReopen` |
| `SerialReceiverProofs` | `TypeCorrect` | |
| | `HandedOutInOrder`, `FramesAreWhole`, `BufferIsTheRest`, `NoWildRead` | `CleanReopen` |
| `FrameWaiterProofs` | `TypeCorrect`, `AsSentOut`, `KeepsTheQueue`, `FaithfulOut` | |
| `FirmwareProofs` | `FirmwareTypeCorrect`, `LinesPrepared`, `AnsweredInOrder` | |
| | `BootReturnsReady` | `AssertsOn` |
| | `ReceivesThroughQueue` | `SharedQueues` |
| | `NoSleepOverFrame` | `SharedQueues`, `MaxLen <= BufferSize` |
| | `NothingReceived` | `~SharedQueues` |
| `CrcProofs` | `TypeCorrect`, `RoundTripHolds`, `DamagesDetected`, `BuffersRespected`, `StandardFrames`, `OnlyFramesAccepted` | |

The hypotheses are not conveniences: `lost_count`, `reopened_read`, `release_boot` and `static_queues` show what
fails without the first four (for the receiver `NothingLost`, for the shared queues
`FrameTaken`), and `dead_receiver` where a ring that is too small leads.

*SerialTransport.* None of the properties is inductive alone. `OneReadPerSession` counts the reads
of the current session, and an open starts a read of the next generation: that this
is the first one has to be known for generations that do not exist yet. The inductive invariant
is `IInv == TypeOK /\ SessionFlags /\ Ledger`. `Ledger` says of every operation whose
generation is the current one or a later one that it is outstanding (in the bag, or with its
handler in the queue) exactly as often as the state asks for: once for the read of a
running session and for the write of its front packet, and otherwise never. A step
either keeps the generation and moves one operation (started, completed, handled), or
raises it, and then the old operations drop out of what `Ledger` says and the new ones are
not outstanding. `TypeOK` needs `Ledger` too: `handleWrite` takes the front of the deque, and only
`Ledger` says that it is not empty. The lemmas `FinishedAppend`, `FinishedTail`, `StartOp` and `EndOp`
count completions in the queue and in the bag; there is one lemma for each group of
actions. `FatalReportedOnce` adds to `IInv` that nothing was reported while the session runs.

*The way of a packet.* A packet that was posted and not dealt with is *in line*: a task of the
strand, in `txDeque`, or sent by an `async_write` that nobody cancelled. `LineInv`, on top of `IInv`,
says that no packet is posted twice, that the tasks, the deque and the live writes are in the order of
posting and behind everything the port has sent (`OrderInv`), that the write handler was told
nothing of a packet in line (`UntoldInv`) and otherwise at most one result, a true one (`ToldInv`,
`EndsInv`), and whose operations are cancelled (`CancelInv`). A write that nobody cancelled but whose session is over (an `open` on a port that was
open already ended it) may still send its packet; that keeps the order because the packets
behind it left the line with the session, and no later `open` succeeds. The invariant also carries the refinement: each step of the transport is shown to
be a step of `WriteService` or to change nothing a caller sees, action by action.

*The counter.* Callers reserve in `pendingWrites`, the strand gives back, `open` resets it. `QueueInv`
says that no `open` is queued together with a write or a caller in the middle of `asyncWrite`, that the
counter of a running transport is the number of packets reserved for and not yet
dealt with, and that all of them were admitted by the running session.

*SerialReceiver.* The types hold whatever late reads do to the vector. The rest needs the invariant `ReadInv`: of the one
operation of the session, `OpInv` says how many bytes of the vector are its, that they are those read
and not handed out, that there is no delimiter up to where it has searched, and that an answer it
found is the first delimiter or, without one, a full buffer.

*FrameWaiter.* The bytes taken out of the ring but not yet returned, followed by those in it, are one `Chain`:
the producer appends to it, the consumer moves the border or takes bytes off the front. `ChainInv` says that the chain is in the
order of sending without a gap inside a frame, and ends at the byte sent last unless the producer
drops; `OutInv` that the results are behind it. `SmoothInv` is about runs in which nothing was refused: no
flag is up, and the chain is all that was sent after the frames returned. `EndInv` (each delimiter ends one
call, in ascending order) is what `Firmware` needs. The refinement needs `TypeInv` and `ChainInv`: with `Chain` as the queue,
`QueueFeed` and `QueueRead` show each action to be one of `FrameQueue`'s or to change nothing of it; a
refused frame that starts to be thrown away is the case where `ChainInv`'s limit on the pending bytes counts.

*Firmware.* `BootInv` says what each step of `init` has done, for every chip and choice of pins. `RxInv`
is the invariant of `FrameWaiterProofs`, used through an instance (`RxP`): every step of `Firmware` is a
step of its queue or leaves it alone, if the queue is shared. Then the receive queue is a `FrameQueue` here too
(`ReceivesThroughQueue`). If it is not, `ApartInv` says that the queue of `Core_1.cpp` stays empty,
so that each of core 1's calls returns `IncompleteFrame` (`NothingReceived`); the types and the order of responses
are proved for either case. `WakeInv` adds that a core 1 that leaves its loop over a frame has an event
to come: the delimiter's `__sev` is after its insertion, so either the last call of `tryReadFrame` saw the delimiter, or
the event register is set, or the callback is pending. `AnswerInv` ties `answered`, the response being fed and the
transmit ring to the requests that came out of the receive queue.

*Crc.* `Register` is a recursive function; that it exists, has 16 bits and depends on the
earlier bits only is shown by least counterexample (the induction theorems of the library
cannot be used here, `LeastNumber` takes their place). From it follow that a message with its CRC leaves 0,
and `BurstChanges`: two registers fed with the same bits keep being different, they differ in
the lowest bit after the first flip, and if sixteen bits later they were equal, going back bit by bit
they would lose one low bit of agreement a step and still agree in the lowest one. `OddChanges` counts ones: the
polynomial has four terms, so a step changes the parity of the register by the bit it takes (`ShiftParity`), and two
messages that differ in an odd number of bits leave registers of different parity. `CallInv` says what the buffers and
the line hold after each call.

*Only model-checked.* Liveness (`ScheduledWriteSettles`, `CloseReleases`, `FrameHandedOut`, `LossReported`, `FrameTaken`) is out
of the prover's reach. `FlipPairDetected` is false for long messages, and a proof of it for short ones needs the order of the
generator polynomial, which is a computation and no argument the provers find. The violated properties are
traces, which TLC shows.

## Plan

**Bytes of partial writes**: what the rest of a late write puts between the packets of a reopened
session: a module like `SerialReceiver`.

## Not modelled

The bytes of partial writes (and what a write whose packet was cleared does to a later front packet), exceptions of callbacks other than the frame handler, and torn reads of
`bufferConfig`. Of `UARTWrapper`, `write`, `enableTxIRQ` and `getUARTInstance`, which nothing calls.
Whether a pin's UART function is GPIO_FUNC_UART on the RP2350 (pins 2, 6, 10 and so on need the
auxiliary function there) is the SDK's matter and not in the tables.
`ProtocolEncoder` has an empty body, the decoder and codec that core 1 includes are not in the
repository, `EasyLoRa` is empty and `SerialTransportStates` is not used. `messages` is a
generated type. `FakeSerialStream` is a test double. Build files and scripts are left aside.
