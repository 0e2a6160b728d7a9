-------------------------- MODULE WriteOrderProofs --------------------------
(***************************************************************************)
(* Proofs about the way of a packet through SerialTransport: from          *)
(* asyncWrite by way of the strand and txDeque to the port, and back to    *)
(* the write handler.                                                      *)
(*                                                                         *)
(* A packet that was posted and not dealt with is in line: a task of the   *)
(* strand, in txDeque, or sent by an async_write that no close or error    *)
(* cancelled.  The invariant says that the line is in the order of         *)
(* posting, behind everything the port has sent, and that the write        *)
(* handler was told nothing about the packets in it.                       *)
(***************************************************************************)
EXTENDS SerialTransportProofs

-----------------------------------------------------------------------------
(* Cancelled operations.                                                   *)

\* An operation that is not cancelled belongs to the running session, or an open on a port
\* that was open already ended its session (the port stays open, no later open succeeds).
CancelInv ==
    /\ cancelledGen <= generation /\ (Running => cancelledGen < generation)
    /\ \A op \in BagToSet(inflight) :
         op.gen > cancelledGen => portOpen /\ (op.gen = generation \/ stopped)

\* Being in the bag is having a copy there.
LEMMA InBag ==
  ASSUME NEW B, OpBag(B), NEW op
  PROVE  /\ op \in BagToSet(B) <=> Copies(op, B) >= 1
         /\ op \in BagToSet(B) => op \in Ops
BY DEF OpBag, IsABag, BagToSet, Copies, BagIn

\* What a started or a completed operation makes of the set of operations in flight.
LEMMA StartSet ==
  ASSUME NEW B, OpBag(B), NEW o \in Ops
  PROVE  BagToSet(B (+) SetToBag({o})) = BagToSet(B) \cup {o}
BY DEF OpBag, IsABag, BagToSet, SetToBag, (+)

LEMMA EndSet ==
  ASSUME NEW B, OpBag(B), NEW o, BagIn(o, B)
  PROVE  BagToSet(B (-) SetToBag({o})) \subseteq BagToSet(B)
BY DEF OpBag, IsABag, BagToSet, BagIn, SetToBag, (-)

\* The operations that a step of the strand adds to the bag are of the running session.
LEMMA NewOps ==
  ASSUME TypeOK, TypeOK', StartRead \/ DoWrite \/ inflight' = inflight
  PROVE  BagToSet(inflight)' \subseteq
           BagToSet(inflight) \cup {op \in Ops : op.gen = generation' /\ Running'}
<1>1. OpBag(inflight) /\ generation' \in Nat /\ txDeque' \in Seq(Packets)
  BY DEF TypeOK, OpBag
<1>2. CASE inflight' = inflight  BY <1>2 DEF BagToSet
<1>3. ASSUME NEW o \in Ops, o.gen = generation', Running',
             inflight' = inflight (+) SetToBag({o})
      PROVE  BagToSet(inflight)' \subseteq
               BagToSet(inflight) \cup {op \in Ops : op.gen = generation' /\ Running'}
  <2>1. BagToSet(inflight') = BagToSet(inflight) \cup {o}  BY <1>1, <1>3, StartSet
  <2>2. QED  BY <1>3, <2>1 DEF BagToSet
<1>4. CASE StartRead
  <2>1. ReadOp(generation') \in Ops /\ ReadOp(generation').gen = generation'
    BY <1>1, OpType DEF ReadOp
  <2>2. QED  BY <1>2, <1>3, <1>4, <2>1 DEF StartRead, Running
<1>5. CASE DoWrite
  <2>1. ASSUME txDeque' # << >>
        PROVE  /\ WriteOp(generation', Head(txDeque')) \in Ops
               /\ WriteOp(generation', Head(txDeque')).gen = generation'
    <3>1. Head(txDeque') \in Packets  BY <1>1, <2>1, HeadTailProperties
    <3>2. QED  BY <1>1, <3>1, OpType DEF WriteOp
  <2>2. QED  BY <1>2, <1>3, <1>5, <2>1 DEF DoWrite, Running
<1>6. QED  BY <1>2, <1>4, <1>5

\* A step of the strand that keeps the session, or opens one on a closed port, or ends one.
LEMMA CancelKept ==
  ASSUME IInv, IInv', CancelInv,
         UNCHANGED <<closing, stopped, generation, portOpen, cancelledGen>>,
         BagToSet(inflight)' \subseteq
           BagToSet(inflight) \cup {op \in Ops : op.gen = generation' /\ Running'}
  PROVE  CancelInv'
<1>1. SessionFlags'  BY DEF IInv
<1>2. Running' => portOpen'  BY <1>1 DEF SessionFlags
<1>3. QED  BY <1>2 DEF CancelInv, Running

\* CancelInv is inductive beside IInv.
LEMMA CancelStep ==
  ASSUME IInv, IInv', CancelInv, [Next]_vars
  PROVE  CancelInv'
<1> USE DEF appVars, coreVars, portVars, noteVars
<1> DEFINE Same == UNCHANGED <<closing, stopped, generation, portOpen, cancelledGen>>
           NewSet == BagToSet(inflight) \cup {op \in Ops : op.gen = generation' /\ Running'}
<1>1. /\ TypeOK /\ TypeOK' /\ OpBag(inflight)
      /\ generation \in Nat /\ cancelledGen \in Nat /\ SessionFlags /\ SessionFlags'
  BY DEF IInv, TypeOK, OpBag
<1>2. \A op \in BagToSet(inflight) : op \in Ops /\ op.gen \in Nat /\ op.gen <= generation
  BY <1>1, InBag, OpParts, OldOps DEF OldOpsAreStale
<1>3. CASE Same /\ inflight' = inflight
  BY <1>3, <1>1, CancelKept, NewOps
<1>4. CASE Application \/ UNCHANGED vars
  <2>1. Same /\ inflight' = inflight
    BY <1>4 DEF Application, CallOpen, CallClose, CallSetHandler, AsyncWriteCheck,
                AsyncWriteReserve, AsyncWritePost, vars
  <2>2. QED  BY <1>3, <2>1
<1>5. CASE OpenIgnored \/ CloseAgain \/ SetHandler \/ WriteCancelled \/ StaleCompletion
  <2>1. Same /\ inflight' = inflight
    BY <1>5 DEF OpenIgnored, CloseAgain, SetHandler, WriteCancelled, StaleCompletion
  <2>2. QED  BY <1>3, <2>1
<1>6. CASE WriteEnqueued \/ ReadContinues \/ WriteCompletes
  <2>1. Same /\ (StartRead \/ DoWrite \/ inflight' = inflight)
    BY <1>6 DEF WriteEnqueued, StartIfIdle, ReadContinues, WriteCompletes
  <2>2. BagToSet(inflight)' \subseteq NewSet  BY <1>1, <2>1, NewOps
  <2>3. QED  BY <2>1, <2>2, CancelKept
<1>7. CASE OpenSucceeds \/ SetOptionThrows
  <2>1. /\ ~portOpen /\ portOpen' /\ generation' = generation + 1
        /\ cancelledGen' = cancelledGen /\ (StartRead \/ inflight' = inflight)
    BY <1>7 DEF OpenSucceeds, SetOptionThrows, Reopening
  <2>2. BagToSet(inflight)' \subseteq NewSet  BY <1>1, <2>1, NewOps
  <2>3. \A op \in BagToSet(inflight) : op.gen <= cancelledGen
    BY <1>1, <1>2, <2>1 DEF CancelInv
  <2>4. QED  BY <1>1, <2>1, <2>2, <2>3 DEF CancelInv
<1>8. CASE SerialOpenThrows
  <2>1. /\ portOpen' = portOpen /\ generation' = generation + 1 /\ stopped' = TRUE
        /\ cancelledGen' = cancelledGen /\ inflight' = inflight
    BY <1>8 DEF SerialOpenThrows, Reopening
  <2>2. BagToSet(inflight)' = BagToSet(inflight)  BY <2>1 DEF BagToSet
  <2>3. QED  BY <1>1, <2>1, <2>2 DEF CancelInv, Running
<1>9. CASE CloseOnStrand \/ ReadFails \/ WriteFails
  <2>1. /\ cancelledGen' = generation /\ generation' = generation + 1
        /\ inflight' = inflight /\ stopped' = TRUE
    BY <1>9 DEF CloseOnStrand, ReadFails, WriteFails, ReportFatal, StopAfterIoError,
                CancelAndClose
  <2>2. BagToSet(inflight)' = BagToSet(inflight)  BY <2>1 DEF BagToSet
  <2>3. QED  BY <1>1, <1>2, <2>1, <2>2 DEF CancelInv, Running
<1>10. CASE CompleteDue \/ CompleteRead
  <2>1. PICK op \in BagToSet(inflight) : StreamCompletes(op)
    BY <1>10 DEF CompleteDue, CompleteRead
  <2>2. Same /\ BagIn(op, inflight) /\ inflight' = inflight (-) SetToBag({op})
    BY <2>1 DEF StreamCompletes
  <2>3. BagToSet(inflight)' \subseteq BagToSet(inflight)
    <3>1. BagToSet(inflight (-) SetToBag({op})) \subseteq BagToSet(inflight)
      BY <1>1, <2>2, EndSet
    <3>2. QED  BY <2>2, <3>1 DEF BagToSet
  <2>4. QED  BY <2>2, <2>3, CancelKept
<1>11. QED
  BY <1>4, <1>5, <1>6, <1>7, <1>8, <1>9, <1>10 DEF Next, RunStrand

-----------------------------------------------------------------------------
(* Sequences of packets and of tasks.                                      *)

\* p stands before q in s.
Precedes(s, p, q) == \E k, l \in 1 .. Len(s) : k < l /\ s[k] = p /\ s[l] = q

Distinct(s) == \A k, l \in 1 .. Len(s) : s[k] = s[l] => k = l

\* s is in the order of o.
Ordered(s, o) == \A i, j \in 1 .. Len(s) : i < j => Precedes(o, s[i], s[j])

\* p's write task is in the queue of tasks s.
Waits(s, p) == \E i \in 1 .. Len(s) : IsTask("write", s[i]) /\ s[i].pkt = p

\* The write tasks in s are in the order of o.
TasksOrdered(s, o) ==
    \A i, j \in 1 .. Len(s) :
        i < j /\ IsTask("write", s[i]) /\ IsTask("write", s[j])
          => Precedes(o, s[i].pkt, s[j].pkt)

\* The handler of op's end with ec is in the queue of tasks s.
Ended(s, op, ec) == \E i \in 1 .. Len(s) : IsTask("done", s[i]) /\ s[i].op = op /\ s[i].ec = ec

\* What a longer sequence has in it, and in which order.
LEMMA PrecedesAppend ==
  ASSUME NEW S, NEW s \in Seq(S), NEW x \in S
  PROVE  /\ \A p, q : Precedes(s, p, q) => Precedes(Append(s, x), p, q)
         /\ \A p : InSeq(p, s) => Precedes(Append(s, x), p, x)
         /\ \A p : InSeq(p, Append(s, x)) <=> InSeq(p, s) \/ p = x
<1>1. /\ Len(s) \in Nat /\ Len(Append(s, x)) = Len(s) + 1
      /\ \A i \in 1 .. Len(s) : Append(s, x)[i] = s[i]
      /\ Append(s, x)[Len(s) + 1] = x
  BY AppendProperties
<1>2. QED  BY <1>1 DEF Precedes, InSeq

\* The elements of a sequence are its head and those of its tail.
LEMMA InSeqTail ==
  ASSUME NEW S, NEW s \in Seq(S), s # << >>
  PROVE  \A p : InSeq(p, s) <=> p = Head(s) \/ InSeq(p, Tail(s))
<1>1. /\ Len(s) \in Nat \ {0} /\ Head(s) = s[1] /\ Len(Tail(s)) = Len(s) - 1
      /\ \A i \in 1 .. Len(Tail(s)) : Tail(s)[i] = s[i + 1]
  BY HeadTailProperties, EmptySeq
<1>2. ASSUME NEW i \in 1 .. Len(s)
      PROVE  i = 1 \/ (i - 1 \in 1 .. Len(Tail(s)) /\ Tail(s)[i - 1] = s[i])
  BY <1>1
<1>3. ASSUME NEW i \in 1 .. Len(Tail(s))
      PROVE  i + 1 \in 1 .. Len(s) /\ s[i + 1] = Tail(s)[i]
  BY <1>1
<1>4. 1 \in 1 .. Len(s)  BY <1>1
<1>5. QED  BY <1>1, <1>2, <1>3, <1>4 DEF InSeq

\* Without repetition nothing stands before itself.
LEMMA NotBeforeItself ==
  ASSUME NEW S, NEW s \in Seq(S), Distinct(s)
  PROVE  \A p : ~Precedes(s, p, p)
BY DEF Distinct, Precedes

\* An element that comes after all others in o may be appended.
LEMMA OrderedAppend ==
  ASSUME NEW S, NEW s \in Seq(S), NEW x \in S, NEW o, Ordered(s, o),
         \A p : InSeq(p, s) => Precedes(o, p, x)
  PROVE  Ordered(Append(s, x), o)
<1>1. /\ Len(s) \in Nat /\ Len(Append(s, x)) = Len(s) + 1
      /\ \A i \in 1 .. Len(s) : Append(s, x)[i] = s[i]
      /\ Append(s, x)[Len(s) + 1] = x
  BY AppendProperties
<1>2. QED  BY <1>1 DEF Ordered, InSeq

\* The first element of an ordered sequence comes before the others.
LEMMA OrderedTail ==
  ASSUME NEW S, NEW s \in Seq(S), s # << >>, NEW o, Ordered(s, o)
  PROVE  /\ Ordered(Tail(s), o)
         /\ \A p : InSeq(p, Tail(s)) => Precedes(o, Head(s), p)
<1>1. /\ Len(s) \in Nat \ {0} /\ Head(s) = s[1] /\ Len(Tail(s)) = Len(s) - 1
      /\ \A i \in 1 .. Len(Tail(s)) : Tail(s)[i] = s[i + 1]
  BY HeadTailProperties, EmptySeq
<1>2. ASSUME NEW i \in 1 .. Len(Tail(s))
      PROVE  i + 1 \in 1 .. Len(s) /\ 1 < i + 1 /\ 1 \in 1 .. Len(s) /\ s[i + 1] = Tail(s)[i]
  BY <1>1
<1>3. \A p : InSeq(p, Tail(s)) => Precedes(o, Head(s), p)
  BY <1>1, <1>2 DEF Ordered, InSeq
<1>4. Ordered(Tail(s), o)
  <2> SUFFICES ASSUME NEW i \in 1 .. Len(Tail(s)), NEW j \in 1 .. Len(Tail(s)), i < j
               PROVE  Precedes(o, Tail(s)[i], Tail(s)[j])
    BY DEF Ordered
  <2>1. i + 1 < j + 1  BY <1>1
  <2>2. QED  BY <1>2, <2>1 DEF Ordered
<1>5. QED  BY <1>3, <1>4

\* What the strand waits to write after it queued a task.
LEMMA WaitsAppend ==
  ASSUME NEW s \in Seq(Tasks), NEW t \in Tasks
  PROVE  /\ \A p : Waits(Append(s, t), p) <=> Waits(s, p) \/ (t.task = "write" /\ t.pkt = p)
         /\ \A op, ec : Ended(Append(s, t), op, ec) <=>
                          Ended(s, op, ec) \/ (t.task = "done" /\ t.op = op /\ t.ec = ec)
<1>1. /\ Len(s) \in Nat /\ Len(Append(s, t)) = Len(s) + 1
      /\ \A i \in 1 .. Len(s) : Append(s, t)[i] = s[i]
      /\ Append(s, t)[Len(s) + 1] = t
  BY AppendProperties
<1>2. QED  BY <1>1 DEF Waits, Ended, IsTask

\* What the strand waits to write after it took its first task.
LEMMA WaitsTail ==
  ASSUME NEW s \in Seq(Tasks), s # << >>
  PROVE  /\ \A p : Waits(s, p) <=>
                     Waits(Tail(s), p) \/ (Head(s).task = "write" /\ Head(s).pkt = p)
         /\ \A op, ec : Ended(s, op, ec) <=>
              \/ Ended(Tail(s), op, ec)
              \/ Head(s).task = "done" /\ Head(s).op = op /\ Head(s).ec = ec
<1>1. /\ Len(s) \in Nat \ {0} /\ Head(s) = s[1] /\ Len(Tail(s)) = Len(s) - 1
      /\ \A i \in 1 .. Len(Tail(s)) : Tail(s)[i] = s[i + 1]
  BY HeadTailProperties, EmptySeq
<1>2. ASSUME NEW i \in 1 .. Len(s)
      PROVE  i = 1 \/ (i - 1 \in 1 .. Len(Tail(s)) /\ Tail(s)[i - 1] = s[i])
  BY <1>1
<1>3. ASSUME NEW i \in 1 .. Len(Tail(s))
      PROVE  i + 1 \in 1 .. Len(s) /\ s[i + 1] = Tail(s)[i]
  BY <1>1
<1>4. 1 \in 1 .. Len(s)  BY <1>1
<1>5. \A p : Waits(s, p) <=>
             Waits(Tail(s), p) \/ (Head(s).task = "write" /\ Head(s).pkt = p)
  BY <1>1, <1>2, <1>3, <1>4 DEF Waits, IsTask
<1>6. \A op, ec : Ended(s, op, ec) <=>
             \/ Ended(Tail(s), op, ec)
             \/ Head(s).task = "done" /\ Head(s).op = op /\ Head(s).ec = ec
  <2> SUFFICES ASSUME NEW op, NEW ec
               PROVE  Ended(s, op, ec) <=>
                        \/ Ended(Tail(s), op, ec)
                        \/ Head(s).task = "done" /\ Head(s).op = op /\ Head(s).ec = ec
    OBVIOUS
  <2>1. Ended(Tail(s), op, ec) => Ended(s, op, ec)  BY <1>3 DEF Ended
  <2>2. Head(s).task = "done" /\ Head(s).op = op /\ Head(s).ec = ec => Ended(s, op, ec)
    BY <1>1, <1>4 DEF Ended, IsTask
  <2>3. ASSUME Ended(s, op, ec)
        PROVE  \/ Ended(Tail(s), op, ec)
               \/ Head(s).task = "done" /\ Head(s).op = op /\ Head(s).ec = ec
    <3>1. PICK i \in 1 .. Len(s) : IsTask("done", s[i]) /\ s[i].op = op /\ s[i].ec = ec
      BY <2>3 DEF Ended
    <3>2. CASE i = 1  BY <1>1, <3>1, <3>2 DEF IsTask
    <3>3. CASE i # 1  BY <1>2, <3>1, <3>3 DEF Ended
    <3>4. QED  BY <3>2, <3>3
  <2>4. QED  BY <2>1, <2>2, <2>3
<1>7. QED  BY <1>5, <1>6

\* Queueing keeps the order of the write tasks if a write comes after those queued.
LEMMA TasksAppend ==
  ASSUME NEW s \in Seq(Tasks), NEW t \in Tasks, NEW o, TasksOrdered(s, o),
         t.task = "write" => \A p : Waits(s, p) => Precedes(o, p, t.pkt)
  PROVE  TasksOrdered(Append(s, t), o)
<1>1. /\ Len(s) \in Nat /\ Len(Append(s, t)) = Len(s) + 1
      /\ \A i \in 1 .. Len(s) : Append(s, t)[i] = s[i]
      /\ Append(s, t)[Len(s) + 1] = t
  BY AppendProperties
<1>2. QED  BY <1>1 DEF TasksOrdered, Waits, IsTask

\* The first task, if it is a write, comes before the other writes.
LEMMA TasksTail ==
  ASSUME NEW s \in Seq(Tasks), s # << >>, NEW o, TasksOrdered(s, o)
  PROVE  /\ TasksOrdered(Tail(s), o)
         /\ Head(s).task = "write" =>
              \A p : Waits(Tail(s), p) => Precedes(o, Head(s).pkt, p)
<1>1. /\ Len(s) \in Nat \ {0} /\ Head(s) = s[1] /\ Len(Tail(s)) = Len(s) - 1
      /\ \A i \in 1 .. Len(Tail(s)) : Tail(s)[i] = s[i + 1]
  BY HeadTailProperties, EmptySeq
<1>2. ASSUME NEW i \in 1 .. Len(Tail(s))
      PROVE  i + 1 \in 1 .. Len(s) /\ 1 < i + 1 /\ 1 \in 1 .. Len(s) /\ s[i + 1] = Tail(s)[i]
  BY <1>1
<1>3. Head(s).task = "write" => \A p : Waits(Tail(s), p) => Precedes(o, Head(s).pkt, p)
  BY <1>1, <1>2 DEF TasksOrdered, Waits, IsTask
<1>4. TasksOrdered(Tail(s), o)
  <2> SUFFICES ASSUME NEW i \in 1 .. Len(Tail(s)), NEW j \in 1 .. Len(Tail(s)), i < j,
                      IsTask("write", Tail(s)[i]), IsTask("write", Tail(s)[j])
               PROVE  Precedes(o, Tail(s)[i].pkt, Tail(s)[j].pkt)
    BY DEF TasksOrdered
  <2>1. i + 1 < j + 1  BY <1>1
  <2>2. QED  BY <1>2, <2>1 DEF TasksOrdered
<1>5. QED  BY <1>3, <1>4

-----------------------------------------------------------------------------
(* The line.                                                               *)

\* A write that still sends its packet.
Live(op) == op.op = "write" /\ op.gen > cancelledGen

Flies(p) == \E op \in BagToSet(inflight) : Live(op) /\ op.pkt = p

InLine(p) == Waits(strand, p) \/ InSeq(p, txDeque) \/ Flies(p)

\* asyncWrite posts a packet once, when it returns Scheduled.
PostedOnce == Distinct(posted) /\ \A p \in Packets : InSeq(p, posted) <=> status[p] = "Scheduled"

\* The strand's write tasks are in order, behind all that is under way or sent.
StrandOrder ==
    /\ TasksOrdered(strand, posted)
    /\ \A p, q : Waits(strand, p) /\ (InSeq(q, txDeque) \/ InSeq(q, wire) \/ Flies(q))
                   => Precedes(posted, q, p)

\* So is txDeque, except that its front packet may be sent with its handler still to run.
DequeOrder ==
    /\ Ordered(txDeque, posted)
    /\ \A p, q : InSeq(p, txDeque) /\ InSeq(q, wire)
                   => Precedes(posted, q, p) \/ (p = q /\ p = Head(txDeque))

\* At most one write still sends, a packet behind all that was sent.
LiveWrites ==
    \A op \in BagToSet(inflight) : Live(op) =>
        /\ \A q : InSeq(q, wire) => Precedes(posted, q, op.pkt)
        /\ Copies(op, inflight) = 1
        /\ \A o \in BagToSet(inflight) : Live(o) => o = op

\* The port sends packets that were posted, in their order.
SentOrder == Ordered(wire, posted) /\ \A p : InSeq(p, wire) => InSeq(p, posted)

OrderInv == PostedOnce /\ StrandOrder /\ DequeOrder /\ LiveWrites /\ SentOrder

\* A packet in line was posted, and the write handler knows nothing of it.
UntoldInv == \A p \in Packets : InLine(p) => InSeq(p, posted) /\ notices[p] = << >>

\* What the write handler heard of a packet is one result, and the truth.
ToldInv ==
    \A p \in Packets :
        \/ notices[p] = << >>
        \/ /\ InSeq(p, posted)
           /\ \E r \in WriteResult : notices[p] = <<r>> /\ (r = "Written" <=> InSeq(p, wire))

\* The end of a write of the current session says whether its packet was sent.
EndsInv ==
    \A p \in Packets, ec \in ErrorCodes :
        Ended(strand, WriteOp(generation, p), ec) => (ec = "ok" <=> InSeq(p, wire))

LineInv == CancelInv /\ OrderInv /\ UntoldInv /\ ToldInv /\ EndsInv

-----------------------------------------------------------------------------
(* Steps by which packets only leave the line.                             *)

Shrinks ==
    /\ UNCHANGED <<posted, wire>>
    /\ txDeque' = txDeque \/ txDeque' = << >>
    /\ \A p \in Packets : status'[p] = "Scheduled" <=> status[p] = "Scheduled"
    /\ \A p : Waits(strand', p) => Waits(strand, p)
    /\ TasksOrdered(strand, posted) => TasksOrdered(strand', posted)
    /\ \A op \in BagToSet(inflight') :
         Live(op)' => /\ op \in BagToSet(inflight) /\ Live(op)
                      /\ Copies(op, inflight') = Copies(op, inflight)

\* The empty sequence has nothing in it and is ordered.
LEMMA EmptyOrdered == \A p, o : ~InSeq(p, << >>) /\ Ordered(<< >>, o)
BY DEF InSeq, Ordered

\* Such a step keeps the order, and lets nothing into the line.
LEMMA ShrinkOrder ==
  ASSUME OrderInv, Shrinks
  PROVE  OrderInv' /\ \A p : InLine(p)' => InLine(p)
<1>1. \A p : Flies(p)' => Flies(p)  BY DEF Shrinks, Flies, BagToSet
<1>2. \A p : InSeq(p, txDeque') => InSeq(p, txDeque) /\ txDeque' = txDeque
  BY EmptyOrdered DEF Shrinks
<1>3. \A p : InLine(p)' => InLine(p)  BY <1>1, <1>2 DEF Shrinks, InLine
<1>4. PostedOnce'  BY DEF OrderInv, PostedOnce, Shrinks
<1>5. StrandOrder'  BY <1>1, <1>2 DEF OrderInv, StrandOrder, Shrinks
<1>6. DequeOrder'  BY <1>2, EmptyOrdered DEF OrderInv, DequeOrder, Shrinks
<1>7. LiveWrites'
  <2> SUFFICES ASSUME NEW op \in BagToSet(inflight'), Live(op)'
               PROVE  /\ \A q : InSeq(q, wire') => Precedes(posted', q, op.pkt)
                      /\ Copies(op, inflight') = 1
                      /\ \A o \in BagToSet(inflight') : Live(o)' => o = op
    BY DEF LiveWrites, BagToSet, Copies, BagIn
  <2>1. /\ op \in BagToSet(inflight) /\ Live(op)
        /\ Copies(op, inflight') = Copies(op, inflight)
    BY DEF Shrinks
  <2>2. QED  BY <2>1 DEF OrderInv, LiveWrites, Shrinks
<1>8. SentOrder'  BY DEF OrderInv, SentOrder, Shrinks
<1>9. QED  BY <1>3, <1>4, <1>5, <1>6, <1>7, <1>8 DEF OrderInv

\* Taking a task off the strand, or queueing one that is not a write.
LEMMA StrandShrinks ==
  ASSUME TypeOK,
         \/ \E kind : Take(kind)
         \/ \E t \in Tasks : t.task # "write" /\ Post(t)
         \/ strand' = strand
  PROVE  /\ \A p : Waits(strand', p) => Waits(strand, p)
         /\ TasksOrdered(strand, posted) => TasksOrdered(strand', posted)
<1>1. strand \in Seq(Tasks)  BY DEF TypeOK
<1>2. ASSUME NEW kind, Take(kind)
      PROVE  /\ \A p : Waits(strand', p) => Waits(strand, p)
             /\ TasksOrdered(strand, posted) => TasksOrdered(strand', posted)
  <2>1. strand # << >> /\ strand' = Tail(strand)  BY <1>2, TakeType
  <2>2. \A p : Waits(Tail(strand), p) => Waits(strand, p)  BY <1>1, <2>1, WaitsTail
  <2>3. TasksOrdered(strand, posted) => TasksOrdered(Tail(strand), posted)
    BY <1>1, <2>1, TasksTail
  <2>4. QED  BY <2>1, <2>2, <2>3
<1>3. ASSUME NEW t \in Tasks, t.task # "write", Post(t)
      PROVE  /\ \A p : Waits(strand', p) => Waits(strand, p)
             /\ TasksOrdered(strand, posted) => TasksOrdered(strand', posted)
  BY <1>1, <1>3, WaitsAppend, TasksAppend DEF Post
<1>4. QED  BY <1>2, <1>3

\* The bag keeps its writes when a read starts, and loses some when more are cancelled.
LEMMA BagShrinks ==
  ASSUME IInv, CancelInv, TypeOK', StartRead \/ inflight' = inflight,
         cancelledGen' = cancelledGen \/ cancelledGen' = generation
  PROVE  \A op \in BagToSet(inflight') :
           Live(op)' => /\ op \in BagToSet(inflight) /\ Live(op)
                        /\ Copies(op, inflight') = Copies(op, inflight)
<1>1. /\ OpBag(inflight) /\ OpBag(inflight') /\ generation \in Nat /\ generation' \in Nat
      /\ cancelledGen \in Nat /\ cancelledGen <= generation
  BY DEF IInv, TypeOK, OpBag, BagToSet, IsABag, CancelInv
<1> SUFFICES ASSUME NEW op \in BagToSet(inflight'), Live(op)'
             PROVE  /\ op \in BagToSet(inflight) /\ Live(op)
                    /\ Copies(op, inflight') = Copies(op, inflight)
  OBVIOUS
<1>2. op \in Ops /\ op.gen \in Nat  BY <1>1, InBag, OpParts
<1>3. op.op = "write" /\ op.gen > cancelledGen' /\ op.gen > cancelledGen
  BY <1>1, <1>2 DEF Live
<1>4. CASE inflight' = inflight  BY <1>3, <1>4 DEF Live
<1>5. CASE inflight' = inflight (+) SetToBag({ReadOp(generation')})
  <2>1. ReadOp(generation') \in Ops /\ op # ReadOp(generation')
    BY <1>1, <1>3, OpType DEF ReadOp
  <2>2. Copies(op, inflight') = Copies(op, inflight) + 0
    BY <1>1, <1>5, <2>1, StartOp
  <2>3. Copies(op, inflight') = Copies(op, inflight)  BY <1>1, <2>2, CopiesNat
  <2>4. Copies(op, inflight') >= 1  BY <1>1, InBag
  <2>5. op \in BagToSet(inflight)  BY <1>1, <2>3, <2>4, InBag
  <2>6. QED  BY <1>3, <2>3, <2>5 DEF Live
<1>6. QED  BY <1>4, <1>5 DEF StartRead

-----------------------------------------------------------------------------
(* Steps that leave the wire alone.                                        *)

\* The write handler hears nothing, or the truth about a posted packet that it knew nothing of
\* and that is out of the line.
Tells ==
    \/ notices' = notices
    \/ \E p \in Packets, r \in WriteResult :
         /\ notices' = [notices EXCEPT ![p] = <<r>>]
         /\ InSeq(p, posted) /\ ~InLine(p)' /\ (r = "Written" <=> InSeq(p, wire))

LEMMA ToldKept ==
  ASSUME TypeOK, UntoldInv, ToldInv, UNCHANGED <<posted, wire>>, Tells,
         \A p \in Packets : InLine(p)' => InLine(p)
  PROVE  UntoldInv' /\ ToldInv'
<1>1. notices \in [Packets -> Seq(WriteResult)]  BY DEF TypeOK
<1>2. CASE notices' = notices  BY <1>2 DEF UntoldInv, ToldInv
<1>3. ASSUME NEW p \in Packets, NEW r \in WriteResult,
             notices' = [notices EXCEPT ![p] = <<r>>],
             InSeq(p, posted), ~InLine(p)', r = "Written" <=> InSeq(p, wire)
      PROVE  UntoldInv' /\ ToldInv'
  <2>1. /\ notices'[p] = <<r>>
        /\ \A q \in Packets : q # p => notices'[q] = notices[q]
    BY <1>1, <1>3
  <2>2. UntoldInv'  BY <1>3, <2>1 DEF UntoldInv
  <2>3. ToldInv'
    <3> SUFFICES ASSUME NEW q \in Packets
                 PROVE  \/ notices'[q] = << >>
                        \/ /\ InSeq(q, posted')
                           /\ \E s \in WriteResult :
                                notices'[q] = <<s>> /\ (s = "Written" <=> InSeq(q, wire'))
      BY DEF ToldInv
    <3>1. CASE q = p  BY <1>3, <2>1, <3>1
    <3>2. CASE q # p  BY <2>1, <3>2 DEF ToldInv
    <3>3. QED  BY <3>1, <3>2
  <2>4. QED  BY <2>2, <2>3
<1>4. QED  BY <1>2, <1>3 DEF Tells

\* No completion of a generation to come is in the queue.
LEMMA EndedGen ==
  ASSUME IInv
  PROVE  \A op, ec : Ended(strand, op, ec) =>
           /\ op \in Ops /\ op.gen <= generation /\ (op.gen = generation => Running)
           /\ Cardinality(Finished(strand, op)) >= 1
<1> SUFFICES ASSUME NEW op, NEW i \in 1 .. Len(strand),
                    IsTask("done", strand[i]), strand[i].op = op
             PROVE  /\ op \in Ops /\ op.gen <= generation /\ (op.gen = generation => Running)
                    /\ Cardinality(Finished(strand, op)) >= 1
  BY DEF Ended
<1>1. TypeOK /\ strand \in Seq(Tasks)  BY DEF IInv, TypeOK
<1>2. op \in Ops  BY <1>1, TaskParts, ElementOfSeq DEF IsTask
<1>3. op.gen <= generation /\ (op.gen = generation => Running)
  BY OldOps DEF OldOpsAreStale
<1>4. Cardinality(Finished(strand, op)) # 0
  <2>1. Finished(strand, op) # {}  BY DEF Finished
  <2>2. QED  BY <1>1, <2>1, FinishedFinite, FS_EmptySet
<1>5. QED  BY <1>1, <1>2, <1>3, <1>4, OutstandingNat

LEMMA EndsKept ==
  ASSUME IInv, EndsInv, UNCHANGED wire,
         generation' = generation \/ generation' = generation + 1,
         \A op \in Ops, ec \in ErrorCodes : Ended(strand', op, ec) => Ended(strand, op, ec)
  PROVE  EndsInv'
<1> SUFFICES ASSUME NEW p \in Packets, NEW ec \in ErrorCodes,
                    Ended(strand', WriteOp(generation', p), ec)
             PROVE  ec = "ok" <=> InSeq(p, wire)
  BY DEF EndsInv
<1>1. generation \in Nat /\ generation' \in Nat  BY DEF IInv, TypeOK
<1>2. WriteOp(generation', p) \in Ops  BY <1>1, OpType
<1>3. Ended(strand, WriteOp(generation', p), ec)  BY <1>2
<1>4. WriteOp(generation', p).gen <= generation  BY <1>3, EndedGen
<1>5. generation' = generation  BY <1>1, <1>4 DEF WriteOp
<1>6. QED  BY <1>3, <1>5 DEF EndsInv

\* A strand that loses its first task, or gets one that is no completion, ends nothing new.
LEMMA EndedKept ==
  ASSUME TypeOK,
         \/ \E kind : Take(kind)
         \/ \E t \in Tasks : t.task # "done" /\ Post(t)
         \/ strand' = strand
  PROVE  \A op, ec : Ended(strand', op, ec) => Ended(strand, op, ec)
<1>1. strand \in Seq(Tasks)  BY DEF TypeOK
<1>2. ASSUME NEW kind, Take(kind)
      PROVE  \A op, ec : Ended(strand', op, ec) => Ended(strand, op, ec)
  BY <1>1, <1>2, TakeType, WaitsTail
<1>3. ASSUME NEW t \in Tasks, t.task # "done", Post(t)
      PROVE  \A op, ec : Ended(strand', op, ec) => Ended(strand, op, ec)
  BY <1>1, <1>3, WaitsAppend DEF Post
<1>4. QED  BY <1>2, <1>3

\* A step by which packets only leave the line.
LEMMA ShrinkStep ==
  ASSUME IInv, LineInv, CancelInv', Shrinks, Tells,
         generation' = generation \/ generation' = generation + 1,
         \A op \in Ops, ec \in ErrorCodes : Ended(strand', op, ec) => Ended(strand, op, ec)
  PROVE  LineInv'
<1>1. OrderInv' /\ \A p : InLine(p)' => InLine(p)  BY ShrinkOrder DEF LineInv
<1>2. UntoldInv' /\ ToldInv'
  BY <1>1, ToldKept DEF LineInv, IInv, Shrinks
<1>3. EndsInv'  BY EndsKept DEF LineInv, Shrinks
<1>4. QED  BY <1>1, <1>2, <1>3 DEF LineInv

-----------------------------------------------------------------------------
(* Application threads.                                                    *)

\* Calls that post no write.
LEMMA CallLine ==
  ASSUME IInv, IInv', LineInv, CancelInv',
         \/ \E c \in Configs : CallOpen(c)
         \/ CallClose
         \/ \E h \in Handlers, on \in BOOLEAN : CallSetHandler(h, on)
         \/ \E p \in Packets : AsyncWriteCheck(p) \/ AsyncWriteReserve(p)
         \/ UNCHANGED vars
  PROVE  LineInv'
<1> USE DEF appVars, coreVars, portVars, noteVars
<1>1. TypeOK /\ TypeOK' /\ CancelInv  BY DEF IInv, LineInv
<1>2. \/ \E t \in Tasks : t.task \notin {"write", "done"} /\ Post(t)
      \/ strand' = strand
  BY TaskType DEF CallOpen, CallClose, CallSetHandler, AsyncWriteCheck, AsyncWriteReserve, vars
<1>3. UNCHANGED <<posted, wire, txDeque, inflight, cancelledGen, generation, notices>>
  BY DEF CallOpen, CallClose, CallSetHandler, AsyncWriteCheck, AsyncWriteReserve, vars
<1>4. \A p \in Packets : status'[p] = "Scheduled" <=> status[p] = "Scheduled"
  <2>1. CASE status' = status  BY <2>1
  <2>2. ASSUME NEW q \in Packets, AsyncWriteCheck(q) \/ AsyncWriteReserve(q)
        PROVE  \A p \in Packets : status'[p] = "Scheduled" <=> status[p] = "Scheduled"
    <3>1. status \in [Packets -> {"none", "checked", "reserved"} \cup WriteStatus]
      BY <1>1 DEF TypeOK
    <3>2. PICK s : s # "Scheduled" /\ status[q] # "Scheduled"
                    /\ status' = [status EXCEPT ![q] = s]
      BY <2>2 DEF AsyncWriteCheck, AsyncWriteReserve
    <3>3. QED  BY <3>1, <3>2
  <2>3. QED
    BY <2>1, <2>2 DEF CallOpen, CallClose, CallSetHandler, vars
<1>5. Shrinks
  <2>1. /\ \A p : Waits(strand', p) => Waits(strand, p)
        /\ TasksOrdered(strand, posted) => TasksOrdered(strand', posted)
    BY <1>1, <1>2, StrandShrinks
  <2>2. QED  BY <1>1, <1>3, <1>4, <2>1, BagShrinks DEF Shrinks
<1>6. \A op, ec : Ended(strand', op, ec) => Ended(strand, op, ec)
  BY <1>1, <1>2, EndedKept
<1>7. QED  BY <1>3, <1>5, <1>6, ShrinkStep DEF Tells

\* What is in order in one sequence is in order in a longer one.
LEMMA OrderedMore ==
  ASSUME NEW o, NEW o2, \A p, q : Precedes(o, p, q) => Precedes(o2, p, q)
  PROVE  /\ \A s : Ordered(s, o) => Ordered(s, o2)
         /\ \A s : TasksOrdered(s, o) => TasksOrdered(s, o2)
BY DEF Ordered, TasksOrdered

\* A packet is posted at the end of the line, and for the first time.
LEMMA PostLine ==
  ASSUME IInv, IInv', LineInv, CancelInv', NEW p \in Packets, AsyncWritePost(p)
  PROVE  LineInv'
<1> DEFINE t == [task |-> "write", pkt |-> p]
<1>1. /\ TypeOK /\ TypeOK' /\ strand \in Seq(Tasks) /\ posted \in Seq(Packets)
      /\ t \in Tasks /\ t.task = "write" /\ t.pkt = p
  BY TaskType DEF IInv, TypeOK
<1>2. /\ strand' = Append(strand, t) /\ posted' = Append(posted, p)
      /\ UNCHANGED <<wire, txDeque, inflight, cancelledGen, generation, notices>>
      /\ status[p] = "reserved" /\ status' = [status EXCEPT ![p] = "Scheduled"]
  BY DEF AsyncWritePost, Post, coreVars, portVars, noteVars
<1>3. /\ ~InSeq(p, posted)
      /\ \A q, r : Precedes(posted, q, r) => Precedes(posted', q, r)
      /\ \A q : InSeq(q, posted) => Precedes(posted', q, p)
      /\ \A q : InSeq(q, posted') <=> InSeq(q, posted) \/ q = p
  BY <1>1, <1>2, PrecedesAppend DEF LineInv, OrderInv, PostedOnce
<1>4. /\ \A q : Waits(strand', q) <=> Waits(strand, q) \/ q = p
      /\ \A op, ec : Ended(strand', op, ec) => Ended(strand, op, ec)
  BY <1>1, <1>2, WaitsAppend
<1>5. /\ \A q : Flies(q)' <=> Flies(q)
      /\ \A q : InLine(q)' <=> InLine(q) \/ q = p
  BY <1>2, <1>4 DEF Flies, InLine, Live, BagToSet
<1>6. /\ \A q : Waits(strand, q) => q \in Packets
      /\ \A q : InSeq(q, txDeque) => q \in Packets
      /\ \A q : InSeq(q, wire) => q \in Packets
      /\ \A q : Flies(q) => q \in Packets
  <2>1. \A q : Waits(strand, q) => q \in Packets
    BY <1>1, TaskParts, ElementOfSeq DEF Waits, IsTask
  <2>2. txDeque \in Seq(Packets) /\ wire \in Seq(Packets)  BY <1>1 DEF TypeOK
  <2>3. ASSUME NEW q, Flies(q)  PROVE q \in Packets
    <3>1. PICK op \in BagToSet(inflight) : op.op = "write" /\ op.pkt = q
      BY <2>3 DEF Flies, Live
    <3>2. op \in Ops  BY <1>1 DEF TypeOK
    <3>3. QED  BY <3>1, <3>2, OpParts
  <2>4. QED  BY <2>1, <2>2, <2>3, ElementOfSeq DEF InSeq
<1>7. ToldInv'  BY <1>2, <1>3 DEF LineInv, ToldInv
<1>8. UntoldInv'
  <2>1. notices[p] = << >>  BY <1>3 DEF LineInv, ToldInv
  <2>2. QED  BY <1>2, <1>3, <1>5, <2>1 DEF LineInv, UntoldInv
<1>9. EndsInv'
  BY <1>2, <1>4, EndsKept DEF LineInv
<1>10. PostedOnce'
  <2>1. Distinct(posted')
    <3>1. /\ Len(posted) \in Nat /\ Len(posted') = Len(posted) + 1
          /\ \A i \in 1 .. Len(posted) : posted'[i] = posted[i]
          /\ posted'[Len(posted) + 1] = p
      BY <1>1, <1>2, AppendProperties
    <3>2. QED  BY <1>3, <3>1 DEF LineInv, OrderInv, PostedOnce, Distinct, InSeq
  <2>2. status \in [Packets -> {"none", "checked", "reserved"} \cup WriteStatus]
    BY <1>1 DEF TypeOK
  <2>3. QED  BY <1>2, <1>3, <2>1, <2>2 DEF LineInv, OrderInv, PostedOnce
<1>11. \A q : InLine(q) \/ InSeq(q, wire) => InSeq(q, posted)
  <2>1. \A q : InLine(q) => InSeq(q, posted)  BY <1>6 DEF LineInv, UntoldInv, InLine
  <2>2. QED  BY <2>1 DEF LineInv, OrderInv, SentOrder
<1>12. StrandOrder'
  <2>1. TasksOrdered(strand', posted')
    <3>1. TasksOrdered(strand, posted')
      BY <1>3, OrderedMore DEF LineInv, OrderInv, StrandOrder
    <3>2. \A q : Waits(strand, q) => Precedes(posted', q, p)
      BY <1>3, <1>11 DEF InLine
    <3>3. QED  BY <1>1, <1>2, <3>1, <3>2, TasksAppend
  <2>2. \A r, q : Waits(strand', r) /\ (InSeq(q, txDeque') \/ InSeq(q, wire') \/ Flies(q)')
                  => Precedes(posted', q, r)
    BY <1>2, <1>3, <1>4, <1>5, <1>11 DEF LineInv, OrderInv, StrandOrder, InLine
  <2>3. QED  BY <2>1, <2>2 DEF StrandOrder
<1>13. DequeOrder' /\ SentOrder'
  BY <1>2, <1>3, OrderedMore DEF LineInv, OrderInv, DequeOrder, SentOrder
<1>14. LiveWrites'
  <2>1. BagToSet(inflight') = BagToSet(inflight) /\ \A op : Live(op)' = Live(op)
    BY <1>2 DEF Live, BagToSet
  <2>2. \A op : Copies(op, inflight') = Copies(op, inflight)  BY <1>2
  <2>3. QED
    BY <1>2, <1>3, <2>1, <2>2 DEF LineInv, OrderInv, LiveWrites, Live
<1>15. QED  BY <1>7, <1>8, <1>9, <1>10, <1>12, <1>13, <1>14 DEF LineInv, OrderInv

-----------------------------------------------------------------------------
(* The strand.                                                             *)

\* Tasks of the strand that start no write: packets stay where they are, or leave the line
\* with their session.
LEMMA TaskShrinks ==
  ASSUME IInv, IInv', CancelInv,
         \/ OpenIgnored \/ OpenSucceeds \/ SerialOpenThrows \/ SetOptionThrows
         \/ CloseOnStrand \/ CloseAgain \/ SetHandler \/ WriteCancelled
         \/ StaleCompletion \/ ReadContinues \/ ReadFails \/ WriteFails
  PROVE  /\ Shrinks
         /\ generation' = generation \/ generation' = generation + 1
         /\ \A op, ec : Ended(strand', op, ec) => Ended(strand, op, ec)
<1> USE DEF appVars, coreVars, portVars, noteVars
<1>1. TypeOK /\ TypeOK'  BY DEF IInv
<1>2. \E kind : Take(kind)
  BY DEF OpenIgnored, OpenSucceeds, SerialOpenThrows, SetOptionThrows, Reopening,
         CloseOnStrand, CloseAgain, SetHandler, WriteCancelled, StaleCompletion,
         ReadContinues, ReadFails, WriteFails, TakeCompletion
<1>3. /\ UNCHANGED <<posted, wire, status>>
      /\ txDeque' = txDeque \/ txDeque' = << >>
      /\ StartRead \/ inflight' = inflight
      /\ cancelledGen' = cancelledGen \/ cancelledGen' = generation
      /\ generation' = generation \/ generation' = generation + 1
  <2>1. CASE OpenIgnored \/ CloseAgain \/ SetHandler \/ WriteCancelled \/ StaleCompletion
               \/ ReadContinues
    BY <2>1 DEF OpenIgnored, CloseAgain, SetHandler, WriteCancelled, StaleCompletion,
                ReadContinues
  <2>2. CASE OpenSucceeds \/ SerialOpenThrows \/ SetOptionThrows
    BY <2>2 DEF OpenSucceeds, SerialOpenThrows, SetOptionThrows, Reopening, ClearQueue
  <2>3. CASE CloseOnStrand \/ ReadFails \/ WriteFails
    BY <2>3 DEF CloseOnStrand, ReadFails, WriteFails, ReportFatal, StopAfterIoError,
                CancelAndClose
  <2>4. QED  BY <2>1, <2>2, <2>3
<1>4. /\ \A p : Waits(strand', p) => Waits(strand, p)
      /\ TasksOrdered(strand, posted) => TasksOrdered(strand', posted)
  BY <1>1, <1>2, StrandShrinks
<1>5. \A op \in BagToSet(inflight') :
        Live(op)' => /\ op \in BagToSet(inflight) /\ Live(op)
                     /\ Copies(op, inflight') = Copies(op, inflight)
  BY <1>1, <1>3, BagShrinks
<1>6. Shrinks  BY <1>3, <1>4, <1>5 DEF Shrinks
<1>7. \A op, ec : Ended(strand', op, ec) => Ended(strand, op, ec)
  BY <1>1, <1>2, EndedKept
<1>8. QED  BY <1>3, <1>6, <1>7

\* Those of them that tell the write handler nothing.
LEMMA SilentTaskLine ==
  ASSUME IInv, IInv', LineInv, CancelInv',
         \/ OpenIgnored \/ OpenSucceeds \/ SerialOpenThrows \/ SetOptionThrows
         \/ CloseOnStrand \/ CloseAgain \/ SetHandler
         \/ StaleCompletion \/ ReadContinues \/ ReadFails
  PROVE  LineInv'
<1>1. notices' = notices
  BY DEF noteVars, OpenIgnored, OpenSucceeds, SerialOpenThrows, SetOptionThrows, Reopening,
         CloseOnStrand, CloseAgain, SetHandler, StaleCompletion, ReadContinues, ReadFails
<1>2. QED  BY <1>1, TaskShrinks, ShrinkStep DEF LineInv, Tells

\* In the line nothing comes twice: a packet leaves it when its task does.
LEMMA HeadOfLine ==
  ASSUME IInv, LineInv, Take("write")
  PROVE  LET p == Head(strand).pkt IN
         /\ p \in Packets /\ Waits(strand, p) /\ InLine(p)
         /\ ~Waits(strand', p) /\ ~InSeq(p, txDeque) /\ ~InSeq(p, wire) /\ ~Flies(p)
<1> DEFINE p == Head(strand).pkt
<1>1. /\ strand \in Seq(Tasks) /\ strand # << >> /\ strand' = Tail(strand)
      /\ Head(strand).task = "write" /\ p \in Packets
  BY TakeType, TaskParts DEF IInv, TypeOK
<1>2. Waits(strand, p)  BY <1>1, WaitsTail
<1>3. \A q : ~Precedes(posted, q, q)
  BY NotBeforeItself DEF IInv, TypeOK, LineInv, OrderInv, PostedOnce
<1>4. ~InSeq(p, txDeque) /\ ~InSeq(p, wire) /\ ~Flies(p)
  BY <1>2, <1>3 DEF LineInv, OrderInv, StrandOrder
<1>5. ~Waits(strand', p)
  BY <1>1, <1>3, TasksTail DEF LineInv, OrderInv, StrandOrder
<1>6. QED  BY <1>1, <1>2, <1>4, <1>5 DEF InLine

\* The handler hears one more result of a packet it knew nothing of.
LEMMA FirstNotice ==
  ASSUME TypeOK, NEW p \in Packets, NEW r \in WriteResult, notices[p] = << >>, Notify(r, p)
  PROVE  notices' = notices \/ notices' = [notices EXCEPT ![p] = <<r>>]
<1>1. CASE "write" \in handlers
  <2>1. notices' = [notices EXCEPT ![p] = Append(notices[p], r)]  BY <1>1 DEF Notify
  <2>2. Append(<< >>, r) = <<r>>  OBVIOUS
  <2>3. QED  BY <2>1, <2>2
<1>2. CASE "write" \notin handlers  BY <1>2 DEF Notify
<1>3. QED  BY <1>1, <1>2

\* A write the strand finds after its session is over leaves the line, cancelled.
LEMMA WriteCancelledLine ==
  ASSUME IInv, IInv', LineInv, CancelInv', WriteCancelled
  PROVE  LineInv'
<1> SUFFICES ASSUME NEW p, p = Head(strand).pkt  PROVE LineInv'
  OBVIOUS
<1>1. Take("write") /\ Notify("Cancelled", p) /\ txDeque' = txDeque
  BY DEF WriteCancelled, coreVars
<1>2. /\ p \in Packets /\ InLine(p) /\ ~Waits(strand', p)
      /\ ~InSeq(p, txDeque) /\ ~InSeq(p, wire) /\ ~Flies(p)
  BY <1>1, HeadOfLine
<1>3. /\ Shrinks
      /\ generation' = generation \/ generation' = generation + 1
      /\ \A op, ec : Ended(strand', op, ec) => Ended(strand, op, ec)
  BY TaskShrinks DEF LineInv
<1>4. InSeq(p, posted) /\ notices[p] = << >>  BY <1>2 DEF LineInv, UntoldInv
<1>5. Flies(p)' => Flies(p)  BY <1>3 DEF Flies, Shrinks, BagToSet
<1>6. ~InLine(p)'  BY <1>1, <1>2, <1>5 DEF InLine
<1>7. notices' = notices \/ notices' = [notices EXCEPT ![p] = <<"Cancelled">>]
  BY <1>1, <1>2, <1>4, FirstNotice DEF IInv, WriteResult
<1>8. Tells  BY <1>2, <1>4, <1>6, <1>7 DEF Tells, WriteResult
<1>9. QED  BY <1>3, <1>8, ShrinkStep

\* While the transport runs, the only write that sends is the front packet's.
LEMMA LiveIsFront ==
  ASSUME IInv, CancelInv, Running, NEW op \in BagToSet(inflight), Live(op)
  PROVE  /\ txDeque # << >> /\ op = WriteOp(generation, Head(txDeque))
         /\ Copies(op, inflight) = 1 /\ Cardinality(Finished(strand, op)) = 0
<1>1. TypeOK /\ Ledger /\ OpBag(inflight) /\ generation \in Nat
  BY DEF IInv, TypeOK, OpBag
<1>2. op \in Ops /\ Copies(op, inflight) >= 1  BY <1>1, InBag
<1>3. op.gen = generation /\ op.op = "write"  BY DEF CancelInv, Live, Running
<1>4. /\ Outstanding(op) = Expected(op)
      /\ Outstanding(op) = Copies(op, inflight) + Cardinality(Finished(strand, op))
  BY <1>1, <1>2, <1>3 DEF Ledger, Outstanding
<1>5. Copies(op, inflight) \in Nat /\ Cardinality(Finished(strand, op)) \in Nat
  BY <1>1, OutstandingNat
<1>6. Expected(op) >= 1 /\ Expected(op) <= 1 /\ Expected(op) \in Int
  BY <1>2, <1>4, <1>5 DEF Expected
<1>7. txDeque # << >> /\ op.pkt = Head(txDeque)  BY <1>3, <1>6 DEF Expected
<1>8. op = WriteOp(op.gen, op.pkt)  BY <1>2, <1>3, OpParts
<1>9. QED  BY <1>2, <1>3, <1>4, <1>5, <1>6, <1>7, <1>8

\* When a write of the running session has ended, no other is sending, and what its handler
\* tells is whether the front packet was sent.
LEMMA EndedFront ==
  ASSUME IInv, LineInv, TakeCompletion("write")
  PROVE  LET p == Head(txDeque) IN
         /\ Running /\ txDeque # << >> /\ p \in Packets /\ \A q : ~Flies(q)
         /\ (Head(strand).ec = "ok" <=> InSeq(p, wire))
         /\ InSeq(p, posted) /\ notices[p] = << >>
         /\ InSeq(p, txDeque) /\ ~Waits(strand', p) /\ ~InSeq(p, Tail(txDeque))
<1> DEFINE p == Head(txDeque)
           o == WriteOp(generation, p)
<1>1. /\ TypeOK /\ strand \in Seq(Tasks) /\ txDeque \in Seq(Packets)
      /\ generation \in Nat /\ Take("done")
  BY DEF IInv, TypeOK, TakeCompletion
<1>2. Running /\ txDeque # << >> /\ Head(strand).op = o  BY CurrentExpected
<1>3. /\ strand # << >> /\ strand' = Tail(strand) /\ Head(strand) \in Tasks
      /\ Head(strand).task = "done" /\ Head(strand).ec \in ErrorCodes
  BY <1>1, TakeType, TaskParts
<1>4. p \in Packets  BY <1>1, <1>2, HeadTailProperties
<1>5. Ended(strand, o, Head(strand).ec)  BY <1>1, <1>2, <1>3, WaitsTail
<1>6. \A q : ~Flies(q)
  <2>1. Cardinality(Finished(strand, o)) >= 1  BY <1>5, EndedGen
  <2>2. ASSUME NEW op \in BagToSet(inflight), Live(op)  PROVE FALSE
    BY <1>2, <2>1, <2>2, LiveIsFront DEF LineInv
  <2>3. QED  BY <2>2 DEF Flies
<1>7. Head(strand).ec = "ok" <=> InSeq(p, wire)
  BY <1>3, <1>4, <1>5 DEF LineInv, EndsInv
<1>8. InSeq(p, txDeque)  BY <1>1, <1>2, InSeqTail
<1>9. InSeq(p, posted) /\ notices[p] = << >>
  BY <1>4, <1>8 DEF LineInv, UntoldInv, InLine
<1>10. \A q : ~Precedes(posted, q, q)
  BY NotBeforeItself DEF IInv, TypeOK, LineInv, OrderInv, PostedOnce
<1>11. ~Waits(strand, p)  BY <1>8, <1>10 DEF LineInv, OrderInv, StrandOrder
<1>12. ~Waits(strand', p)  BY <1>1, <1>3, <1>11, WaitsTail
<1>13. ~InSeq(p, Tail(txDeque))
  BY <1>1, <1>2, <1>10, OrderedTail DEF LineInv, OrderInv, DequeOrder
<1>14. QED  BY <1>2, <1>4, <1>6, <1>7, <1>8, <1>9, <1>12, <1>13

\* The front packet's write failed: it leaves the line with all others of its session.
LEMMA WriteFailsLine ==
  ASSUME IInv, IInv', LineInv, CancelInv', WriteFails
  PROVE  LineInv'
<1> SUFFICES ASSUME NEW p, p = Head(txDeque)  PROVE LineInv'
  OBVIOUS
<1>1. /\ TakeCompletion("write") /\ Head(strand).ec # "ok"
      /\ Notify("Failed", p) /\ txDeque' = << >>
  BY DEF WriteFails, ReportFatal, StopAfterIoError
<1>2. /\ p \in Packets /\ \A q : ~Flies(q)
      /\ ~InSeq(p, wire) /\ InSeq(p, posted) /\ notices[p] = << >> /\ ~Waits(strand', p)
  BY <1>1, EndedFront
<1>3. /\ Shrinks
      /\ generation' = generation \/ generation' = generation + 1
      /\ \A op, ec : Ended(strand', op, ec) => Ended(strand, op, ec)
  BY TaskShrinks DEF LineInv
<1>4. Flies(p)' => Flies(p)  BY <1>3 DEF Flies, Shrinks, BagToSet
<1>5. ~InLine(p)'  BY <1>1, <1>2, <1>4, EmptyOrdered DEF InLine
<1>6. notices' = notices \/ notices' = [notices EXCEPT ![p] = <<"Failed">>]
  BY <1>1, <1>2, FirstNotice DEF IInv, WriteResult
<1>7. Tells  BY <1>2, <1>5, <1>6 DEF Tells, WriteResult
<1>8. QED  BY <1>3, <1>7, ShrinkStep

\* doWrite, with no write sending: the front packet's is the only one then.
LEMMA DoWriteLive ==
  ASSUME IInv, TypeOK', CancelInv, \A q : ~Flies(q), DoWrite, cancelledGen' = cancelledGen
  PROVE  \A op \in BagToSet(inflight') : Live(op)' =>
           /\ txDeque' # << >> /\ op = WriteOp(generation', Head(txDeque'))
           /\ Copies(op, inflight') = 1
<1> SUFFICES ASSUME NEW op \in BagToSet(inflight'), Live(op)'
             PROVE  /\ txDeque' # << >> /\ op = WriteOp(generation', Head(txDeque'))
                    /\ Copies(op, inflight') = 1
  OBVIOUS
<1>1. OpBag(inflight) /\ generation' \in Nat /\ txDeque' \in Seq(Packets)
  BY DEF IInv, TypeOK, OpBag
<1>2. op \notin BagToSet(inflight)  BY DEF Flies, Live
<1>3. ~(closing' \/ stopped' \/ txDeque' = << >>)  BY <1>2 DEF DoWrite
<1> DEFINE o == WriteOp(generation', Head(txDeque'))
<1>4. o \in Ops  BY <1>1, <1>3, OpType, HeadTailProperties
<1>5. inflight' = inflight (+) SetToBag({o})  BY <1>3 DEF DoWrite
<1>6. /\ BagToSet(inflight') = BagToSet(inflight) \cup {o}
      /\ Copies(o, inflight') = Copies(o, inflight) + 1
  BY <1>1, <1>4, <1>5, StartOp, StartSet
<1>7. op = o  BY <1>2, <1>6
<1>8. Copies(o, inflight) = 0  BY <1>1, <1>2, <1>7, InBag, CopiesNat
<1>9. QED  BY <1>3, <1>6, <1>7, <1>8

\* The front packet was sent: it leaves the line, and the next one's write starts.
LEMMA WriteCompletesLine ==
  ASSUME IInv, IInv', LineInv, CancelInv', WriteCompletes
  PROVE  LineInv'
<1> SUFFICES ASSUME NEW p, p = Head(txDeque)  PROVE LineInv'
  OBVIOUS
<1>1. /\ TakeCompletion("write") /\ Take("done") /\ Head(strand).ec = "ok"
      /\ Notify("Written", p) /\ txDeque' = Tail(txDeque) /\ DoWrite
      /\ UNCHANGED <<posted, wire, status, cancelledGen, generation>>
  BY DEF WriteCompletes, TakeCompletion, appVars, portVars
<1>2. /\ TypeOK /\ TypeOK' /\ txDeque \in Seq(Packets) /\ txDeque' \in Seq(Packets)
  BY DEF IInv, TypeOK
<1>3. /\ txDeque # << >> /\ p \in Packets /\ \A q : ~Flies(q)
      /\ InSeq(p, wire) /\ InSeq(p, posted) /\ notices[p] = << >>
      /\ ~Waits(strand', p) /\ ~InSeq(p, txDeque')
  BY <1>1, EndedFront
<1>4. \A op \in BagToSet(inflight') : Live(op)' =>
        /\ txDeque' # << >> /\ op = WriteOp(generation', Head(txDeque'))
        /\ op.pkt = Head(txDeque') /\ Copies(op, inflight') = 1
  <2>1. \A op \in BagToSet(inflight') : Live(op)' =>
          /\ txDeque' # << >> /\ op = WriteOp(generation', Head(txDeque'))
          /\ Copies(op, inflight') = 1
    BY <1>1, <1>2, <1>3, DoWriteLive DEF LineInv
  <2>2. QED  BY <2>1 DEF WriteOp
<1>5. \A q : Flies(q)' => InSeq(q, txDeque')
  BY <1>2, <1>4, InSeqTail DEF Flies, BagToSet
<1>6. \A q : InSeq(q, txDeque) <=> q = p \/ InSeq(q, txDeque')
  BY <1>1, <1>2, <1>3, InSeqTail
<1>7. /\ \A q : Waits(strand', q) => Waits(strand, q)
      /\ TasksOrdered(strand, posted) => TasksOrdered(strand', posted)
      /\ \A op, ec : Ended(strand', op, ec) => Ended(strand, op, ec)
  BY <1>1, <1>2, StrandShrinks, EndedKept
<1>8. \A q : InLine(q)' => InLine(q) /\ q # p
  BY <1>3, <1>5, <1>6, <1>7 DEF InLine
<1>9. UntoldInv' /\ ToldInv'
  <2>1. notices' = notices \/ notices' = [notices EXCEPT ![p] = <<"Written">>]
    BY <1>1, <1>2, <1>3, FirstNotice DEF WriteResult
  <2>2. ~InLine(p)'  BY <1>8
  <2>3. Tells  BY <1>3, <2>1, <2>2 DEF Tells, WriteResult
  <2>4. QED  BY <1>1, <1>2, <1>8, <2>3, ToldKept DEF LineInv
<1>10. EndsInv'  BY <1>1, <1>7, EndsKept DEF LineInv
<1>11. PostedOnce' /\ SentOrder'  BY <1>1 DEF LineInv, OrderInv, PostedOnce, SentOrder
<1>12. StrandOrder'
  BY <1>1, <1>5, <1>6, <1>7 DEF LineInv, OrderInv, StrandOrder
<1>13. \A r, q : InSeq(r, txDeque') /\ InSeq(q, wire) => Precedes(posted, q, r)
  BY <1>3, <1>6 DEF LineInv, OrderInv, DequeOrder
<1>14. DequeOrder'
  <2>1. Ordered(txDeque', posted)
    BY <1>1, <1>2, <1>3, OrderedTail DEF LineInv, OrderInv, DequeOrder
  <2>2. QED  BY <1>1, <1>13, <2>1 DEF DequeOrder
<1>15. LiveWrites'
  <2> SUFFICES ASSUME NEW op \in BagToSet(inflight'), Live(op)'
               PROVE  /\ \A q : InSeq(q, wire') => Precedes(posted', q, op.pkt)
                      /\ Copies(op, inflight') = 1
                      /\ \A o \in BagToSet(inflight') : Live(o)' => o = op
    BY DEF LiveWrites, BagToSet, Copies, BagIn
  <2>1. InSeq(op.pkt, txDeque')  BY <1>2, <1>4, InSeqTail
  <2>2. QED  BY <1>1, <1>4, <1>13, <2>1
<1>16. QED
  BY <1>9, <1>10, <1>11, <1>12, <1>14, <1>15 DEF LineInv, OrderInv

\* A packet goes from the strand to the end of txDeque; if it is alone its write starts.
LEMMA WriteEnqueuedLine ==
  ASSUME IInv, IInv', LineInv, CancelInv', WriteEnqueued
  PROVE  LineInv'
<1> SUFFICES ASSUME NEW p, p = Head(strand).pkt  PROVE LineInv'
  OBVIOUS
<1>1. /\ Take("write") /\ Running /\ txDeque' = Append(txDeque, p) /\ StartIfIdle
      /\ UNCHANGED <<posted, wire, status, cancelledGen, generation, notices>>
  BY DEF WriteEnqueued, PushBack, Running, appVars, portVars, noteVars
<1>2. /\ TypeOK /\ TypeOK' /\ CancelInv /\ strand \in Seq(Tasks) /\ txDeque \in Seq(Packets)
  BY DEF IInv, TypeOK, LineInv
<1>3. /\ p \in Packets /\ Waits(strand, p) /\ ~InSeq(p, wire)
      /\ strand # << >> /\ strand' = Tail(strand) /\ Head(strand).task = "write"
  BY <1>1, <1>2, HeadOfLine, TakeType
<1>4. \A q : InSeq(q, txDeque') <=> InSeq(q, txDeque) \/ q = p
  BY <1>1, <1>2, <1>3, PrecedesAppend
<1>5. /\ txDeque' # << >>
      /\ Head(txDeque') = IF txDeque = << >> THEN p ELSE Head(txDeque)
  BY <1>1, <1>2, <1>3, HeadTailAppend, AppendProperties
<1>6. \A op \in BagToSet(inflight') : Live(op)' =>
        \/ op \in BagToSet(inflight) /\ Live(op) /\ inflight' = inflight
        \/ /\ op.pkt = p /\ Copies(op, inflight') = 1
           /\ \A o \in BagToSet(inflight') : Live(o)' => o = op
  <2>1. CASE txDeque # << >>
    <3>1. inflight' = inflight  BY <1>1, <2>1 DEF StartIfIdle
    <3>2. QED  BY <1>1, <3>1 DEF Live
  <2>2. CASE txDeque = << >>
    <3>1. \A q : ~Flies(q)  BY <1>1, <1>2, <2>2, LiveIsFront DEF Flies
    <3>2. \A op \in BagToSet(inflight') : Live(op)' =>
            /\ op = WriteOp(generation', Head(txDeque')) /\ Copies(op, inflight') = 1
      BY <1>1, <1>2, <2>2, <3>1, DoWriteLive DEF StartIfIdle
    <3>3. WriteOp(generation', p).pkt = p  BY DEF WriteOp
    <3>4. QED  BY <1>5, <2>2, <3>2, <3>3
  <2>3. QED  BY <2>1, <2>2
<1>7. \A q : Flies(q)' => Flies(q) \/ q = p  BY <1>6 DEF Flies, BagToSet
<1>8. /\ \A q : Waits(strand', q) => Waits(strand, q) /\ Precedes(posted, p, q)
      /\ TasksOrdered(strand', posted)
      /\ \A op, ec : Ended(strand', op, ec) => Ended(strand, op, ec)
  BY <1>1, <1>2, <1>3, WaitsTail, TasksTail DEF LineInv, OrderInv, StrandOrder
<1>9. \A q : InLine(q)' => InLine(q)
  BY <1>3, <1>4, <1>7, <1>8 DEF InLine
<1>10. UntoldInv' /\ ToldInv'
  BY <1>1, <1>2, <1>9, ToldKept DEF LineInv, Tells
<1>11. EndsInv'  BY <1>1, <1>8, EndsKept DEF LineInv
<1>12. PostedOnce' /\ SentOrder'  BY <1>1 DEF LineInv, OrderInv, PostedOnce, SentOrder
<1>13. StrandOrder'
  BY <1>1, <1>4, <1>7, <1>8 DEF LineInv, OrderInv, StrandOrder
<1>14. \A q : InSeq(q, txDeque) \/ InSeq(q, wire) => Precedes(posted, q, p)
  BY <1>3 DEF LineInv, OrderInv, StrandOrder
<1>15. DequeOrder'
  <2>1. Ordered(txDeque', posted)
    BY <1>1, <1>2, <1>3, <1>14, OrderedAppend DEF LineInv, OrderInv, DequeOrder
  <2>2. \A r, q : InSeq(r, txDeque') /\ InSeq(q, wire')
                    => Precedes(posted', q, r) \/ (r = q /\ r = Head(txDeque'))
    BY <1>1, <1>4, <1>5, <1>14, EmptyOrdered DEF LineInv, OrderInv, DequeOrder
  <2>3. QED  BY <1>1, <2>1, <2>2 DEF DequeOrder
<1>16. LiveWrites'
  <2> SUFFICES ASSUME NEW op \in BagToSet(inflight'), Live(op)'
               PROVE  /\ \A q : InSeq(q, wire') => Precedes(posted', q, op.pkt)
                      /\ Copies(op, inflight') = 1
                      /\ \A o \in BagToSet(inflight') : Live(o)' => o = op
    BY DEF LiveWrites, BagToSet, Copies, BagIn
  <2>1. CASE op \in BagToSet(inflight) /\ Live(op) /\ inflight' = inflight
    BY <1>1, <2>1 DEF LineInv, OrderInv, LiveWrites, Live
  <2>2. CASE ~(op \in BagToSet(inflight) /\ Live(op) /\ inflight' = inflight)
    BY <1>1, <1>6, <1>14, <2>2
  <2>3. QED  BY <2>1, <2>2
<1>17. QED
  BY <1>10, <1>11, <1>12, <1>13, <1>15, <1>16 DEF LineInv, OrderInv

-----------------------------------------------------------------------------
(* The stream.                                                             *)

\* Only a write that was not cancelled and ends well sends its packet; the front packet's, if
\* it ends well, sends it for certain.
LEMMA WireGrows ==
  ASSUME IInv, CancelInv, NEW op \in BagToSet(inflight), NEW ec, wire' \in Sent(op, ec)
  PROVE  /\ wire' = wire \/ (Live(op) /\ ec = "ok" /\ wire' = Append(wire, op.pkt))
         /\ op.op = "write" /\ op.gen = generation =>
              /\ Live(op) /\ Running
              /\ wire' = IF ec = "ok" THEN Append(wire, op.pkt) ELSE wire
<1>1. /\ TypeOK /\ OpBag(inflight) /\ generation \in Nat /\ cancelledGen \in Nat
      /\ txDeque \in Seq(Packets)
  BY DEF IInv, TypeOK, OpBag
<1>2. op \in Ops /\ op.gen \in Nat /\ op.op \in {"read", "write"}  BY <1>1, InBag, OpParts
<1>3. wire' = wire \/ (Live(op) /\ ec = "ok" /\ wire' = Append(wire, op.pkt))
  BY <1>1, <1>2 DEF Sent, Cancelled, Live
<1>4. ASSUME op.op = "write", op.gen = generation
      PROVE  /\ Live(op) /\ Running
             /\ wire' = IF ec = "ok" THEN Append(wire, op.pkt) ELSE wire
  <2>1. Running  BY <1>4, OldOps DEF OldOpsAreStale
  <2>2. Live(op) /\ ~Cancelled(op)  BY <1>1, <1>4, <2>1 DEF CancelInv, Live, Cancelled
  <2>3. txDeque # << >> /\ op.pkt = Head(txDeque)
    BY <2>1, <2>2, LiveIsFront DEF WriteOp
  <2>4. InSeq(op.pkt, txDeque)  BY <1>1, <2>3, InSeqTail
  <2>5. QED  BY <1>4, <2>1, <2>2, <2>4 DEF Sent
<1>5. QED  BY <1>3, <1>4

LEMMA StreamLine ==
  ASSUME IInv, IInv', LineInv, CancelInv', NEW op \in BagToSet(inflight), StreamCompletes(op)
  PROVE  LineInv'
<1>1. /\ TypeOK /\ TypeOK' /\ CancelInv /\ OpBag(inflight) /\ OpBag(inflight')
      /\ strand \in Seq(Tasks) /\ wire \in Seq(Packets) /\ op \in Ops
  BY DEF IInv, TypeOK, LineInv, OpBag, BagToSet, IsABag
<1>2. PICK ec \in Outcomes(op) :
        /\ Post([task |-> "done", op |-> op, ec |-> ec])
        /\ wire' \in Sent(op, ec)
  BY DEF StreamCompletes
<1> DEFINE t == [task |-> "done", op |-> op, ec |-> ec]
<1>3. t \in Tasks /\ t.task = "done" /\ t.op = op /\ t.ec = ec
  <2>1. ec \in ErrorCodes  BY DEF Outcomes, ErrorCodes
  <2>2. QED  BY <1>1, <2>1, TaskType
<1>4. UNCHANGED <<posted, status, txDeque, cancelledGen, generation, notices>>
  BY DEF StreamCompletes, appVars, coreVars, portVars, noteVars
<1>5. \A q : ~Precedes(posted, q, q)
  BY <1>1, NotBeforeItself DEF TypeOK, LineInv, OrderInv, PostedOnce
<1>6. \A o \in BagToSet(inflight') : Live(o)' =>
        /\ o \in BagToSet(inflight) /\ Live(o) /\ o # op
        /\ Copies(o, inflight') = Copies(o, inflight)
  <2> SUFFICES ASSUME NEW o \in BagToSet(inflight'), Live(o)'
               PROVE  /\ o \in BagToSet(inflight) /\ Live(o) /\ o # op
                      /\ Copies(o, inflight') = Copies(o, inflight)
    OBVIOUS
  <2>1. BagIn(op, inflight) /\ inflight' = inflight (-) SetToBag({op})
    BY DEF StreamCompletes
  <2>2. o \in BagToSet(inflight)  BY <1>1, <2>1, EndSet
  <2>3. Live(o)  BY <1>4 DEF Live
  <2>4. Copies(o, inflight) = 1  BY <2>2, <2>3 DEF LineInv, OrderInv, LiveWrites
  <2>5. Copies(o, inflight') = Copies(o, inflight) - (IF o = op THEN 1 ELSE 0)
    BY <1>1, <2>1, EndOp
  <2>6. Copies(o, inflight') >= 1  BY <1>1, InBag
  <2>7. QED  BY <2>2, <2>3, <2>4, <2>5, <2>6
<1>7. /\ \A p : Waits(strand', p) <=> Waits(strand, p)
      /\ TasksOrdered(strand, posted) => TasksOrdered(strand', posted)
      /\ \A o, e : Ended(strand', o, e) <=> Ended(strand, o, e) \/ (o = op /\ e = ec)
  BY <1>1, <1>2, <1>3, WaitsAppend, TasksAppend DEF Post
<1>8. /\ wire' = wire \/ (Live(op) /\ ec = "ok" /\ wire' = Append(wire, op.pkt))
      /\ op.op = "write" /\ op.gen = generation =>
           /\ Live(op) /\ Running
           /\ wire' = IF ec = "ok" THEN Append(wire, op.pkt) ELSE wire
  BY <1>1, <1>2, WireGrows
<1>9. ASSUME Live(op)
      PROVE  /\ op.pkt \in Packets /\ InLine(op.pkt) /\ ~InSeq(op.pkt, wire)
             /\ \A q : InSeq(q, wire) => Precedes(posted, q, op.pkt)
             /\ \A o \in BagToSet(inflight) : Live(o) => o = op
  <2>1. op.pkt \in Packets  BY <1>1, <1>9, OpParts DEF Live
  <2>2. InLine(op.pkt)  BY <1>9 DEF InLine, Flies
  <2>3. /\ \A q : InSeq(q, wire) => Precedes(posted, q, op.pkt)
        /\ \A o \in BagToSet(inflight) : Live(o) => o = op
    BY <1>9 DEF LineInv, OrderInv, LiveWrites
  <2>4. QED  BY <1>5, <2>1, <2>2, <2>3
<1>10. ASSUME wire' # wire
       PROVE  /\ Live(op) /\ ec = "ok" /\ wire' = Append(wire, op.pkt)
              /\ \A q : InSeq(q, wire') <=> InSeq(q, wire) \/ q = op.pkt
              /\ \A o \in BagToSet(inflight') : ~Live(o)'
  <2>1. Live(op) /\ ec = "ok" /\ wire' = Append(wire, op.pkt)  BY <1>8, <1>10
  <2>2. \A q : InSeq(q, wire') <=> InSeq(q, wire) \/ q = op.pkt
    BY <1>1, <1>9, <2>1, PrecedesAppend
  <2>3. \A o \in BagToSet(inflight') : ~Live(o)'  BY <1>6, <1>9, <2>1
  <2>4. QED  BY <2>1, <2>2, <2>3
<1>11. EndsInv'
  <2> SUFFICES ASSUME NEW q \in Packets, NEW e \in ErrorCodes,
                      Ended(strand', WriteOp(generation, q), e)
               PROVE  e = "ok" <=> InSeq(q, wire')
    BY <1>4 DEF EndsInv
  <2>1. WriteOp(generation, q).op = "write" /\ WriteOp(generation, q).pkt = q
        /\ WriteOp(generation, q).gen = generation
    BY DEF WriteOp
  <2>2. CASE op = WriteOp(generation, q) /\ e = ec
    <3>1. Live(op) /\ op.pkt = q /\ wire' = IF e = "ok" THEN Append(wire, q) ELSE wire
      BY <1>8, <2>1, <2>2
    <3>2. QED  BY <1>1, <1>9, <3>1, PrecedesAppend
  <2>3. CASE Ended(strand, WriteOp(generation, q), e)
    <3>1. e = "ok" <=> InSeq(q, wire)  BY <2>3 DEF LineInv, EndsInv
    <3>2. ASSUME wire' # wire, q = op.pkt  PROVE FALSE
      <4>1. /\ Running /\ Cardinality(Finished(strand, WriteOp(generation, q))) >= 1
        BY <2>1, <2>3, EndedGen
      <4>2. /\ op = WriteOp(generation, Head(txDeque))
            /\ Cardinality(Finished(strand, op)) = 0
        BY <1>1, <1>10, <3>2, <4>1, LiveIsFront
      <4>3. op = WriteOp(generation, q)  BY <3>2, <4>2 DEF WriteOp
      <4>4. QED  BY <4>1, <4>2, <4>3
    <3>3. QED  BY <1>10, <3>1, <3>2
  <2>4. QED  BY <1>7, <2>2, <2>3
<1>12. CASE wire' = wire
  <2>1. Shrinks  BY <1>4, <1>6, <1>7, <1>12 DEF Shrinks
  <2>2. OrderInv' /\ \A p : InLine(p)' => InLine(p)  BY <2>1, ShrinkOrder DEF LineInv
  <2>3. UntoldInv' /\ ToldInv'
    BY <1>1, <1>4, <1>12, <2>2, ToldKept DEF LineInv, Tells
  <2>4. QED  BY <1>11, <2>2, <2>3 DEF LineInv
<1>13. CASE wire' # wire
  <2> DEFINE p == op.pkt
  <2>1. /\ Live(op) /\ wire' = Append(wire, p)
        /\ \A q : InSeq(q, wire') <=> InSeq(q, wire) \/ q = p
        /\ \A o \in BagToSet(inflight') : ~Live(o)'
    BY <1>10, <1>13
  <2>2. /\ p \in Packets /\ InLine(p) /\ Flies(p)
        /\ \A q : InSeq(q, wire) => Precedes(posted, q, p)
    BY <1>9, <2>1 DEF Flies
  <2>3. InSeq(p, posted) /\ notices[p] = << >>  BY <2>2 DEF LineInv, UntoldInv
  <2>4. \A q : ~Flies(q)'  BY <2>1 DEF Flies, BagToSet
  <2>5. \A q : InLine(q)' => InLine(q)  BY <1>4, <1>7, <2>4 DEF InLine
  <2>6. UntoldInv'  BY <1>4, <2>5 DEF LineInv, UntoldInv
  <2>7. ToldInv'  BY <1>4, <2>1, <2>3 DEF LineInv, ToldInv
  <2>8. PostedOnce'  BY <1>4 DEF LineInv, OrderInv, PostedOnce
  <2>9. SentOrder'
    BY <1>1, <1>4, <2>1, <2>2, <2>3, OrderedAppend DEF LineInv, OrderInv, SentOrder
  <2>10. StrandOrder'
    BY <1>4, <1>7, <2>1, <2>2, <2>4 DEF LineInv, OrderInv, StrandOrder
  <2>11. LiveWrites'  BY <2>1 DEF LiveWrites, BagToSet
  <2>12. \A r : InSeq(r, txDeque) => Precedes(posted, p, r) \/ (r = p /\ r = Head(txDeque))
    <3>1. CASE Running
      <4>1. txDeque # << >> /\ op = WriteOp(generation, Head(txDeque))
        BY <1>1, <2>1, <3>1, LiveIsFront
      <4>2. p = Head(txDeque)  BY <4>1 DEF WriteOp
      <4>3. txDeque \in Seq(Packets)  BY <1>1 DEF TypeOK
      <4>4. QED
        BY <4>1, <4>2, <4>3, InSeqTail, OrderedTail DEF LineInv, OrderInv, DequeOrder
    <3>2. CASE ~Running
      <4>1. txDeque = << >>  BY <3>2 DEF IInv, SessionFlags, Running
      <4>2. QED  BY <4>1, EmptyOrdered
    <3>3. QED  BY <3>1, <3>2
  <2>13. DequeOrder'
    BY <1>4, <2>1, <2>12 DEF LineInv, OrderInv, DequeOrder
  <2>14. QED
    BY <1>11, <2>6, <2>7, <2>8, <2>9, <2>10, <2>11, <2>13 DEF LineInv, OrderInv
<1>14. QED  BY <1>12, <1>13

-----------------------------------------------------------------------------
(* The invariant.                                                          *)

\* At the start nothing is in line, sent or told.
LEMMA InitLineInv == Init => LineInv
<1> SUFFICES ASSUME Init PROVE LineInv  OBVIOUS
<1>1. /\ posted = << >> /\ wire = << >> /\ txDeque = << >> /\ strand = << >>
      /\ notices = [p \in Packets |-> << >>] /\ status = [p \in Packets |-> "none"]
      /\ generation = 0 /\ cancelledGen = 0 /\ stopped /\ BagToSet(inflight) = {}
  BY DEF Init, EmptyBag, SetToBag, BagToSet
<1>2. /\ \A p : ~InSeq(p, << >>) /\ ~Waits(strand, p) /\ ~Flies(p)
      /\ \A op, ec : ~Ended(strand, op, ec)
  BY <1>1 DEF InSeq, Waits, Flies, Ended
<1>3. CancelInv  BY <1>1 DEF CancelInv, Running
<1>4. PostedOnce  BY <1>1, <1>2 DEF PostedOnce, Distinct
<1>5. StrandOrder /\ DequeOrder /\ SentOrder
  BY <1>1, <1>2, EmptyOrdered DEF StrandOrder, DequeOrder, SentOrder, TasksOrdered
<1>6. LiveWrites  BY <1>1 DEF LiveWrites
<1>7. UntoldInv /\ ToldInv /\ EndsInv
  BY <1>1, <1>2 DEF UntoldInv, ToldInv, EndsInv, InLine
<1>8. QED  BY <1>3, <1>4, <1>5, <1>6, <1>7 DEF LineInv, OrderInv

\* LineInv is inductive beside IInv.
LEMMA LineStep == IInv /\ LineInv /\ [Next]_vars => LineInv'
<1> SUFFICES ASSUME IInv, LineInv, [Next]_vars PROVE LineInv'  OBVIOUS
<1>1. IInv'  BY NextIInv
<1>2. CancelInv'  BY <1>1, CancelStep DEF LineInv
<1>3. CASE Application
  BY <1>1, <1>2, <1>3, CallLine, PostLine DEF Application
<1>4. CASE RunStrand
  BY <1>1, <1>2, <1>4, SilentTaskLine, WriteCancelledLine, WriteFailsLine,
     WriteCompletesLine, WriteEnqueuedLine
  DEF RunStrand
<1>5. CASE CompleteDue \/ CompleteRead
  BY <1>1, <1>2, <1>5, StreamLine DEF CompleteDue, CompleteRead
<1>6. CASE UNCHANGED vars  BY <1>1, <1>2, <1>6, CallLine
<1>7. QED  BY <1>3, <1>4, <1>5, <1>6 DEF Next

LEMMA LineInvariance == Spec => [](IInv /\ LineInv)
<1>1. Init => IInv /\ LineInv  BY InitIInv, InitLineInv
<1>2. IInv /\ LineInv /\ [Next]_vars => (IInv /\ LineInv)'  BY NextIInv, LineStep
<1>3. QED  BY <1>1, <1>2, PTL DEF Spec

\* The port sends packets in the order in which asyncWrite posted them, none of them twice,
\* whatever sessions failed, were closed or reopened in between.
THEOREM SentInOrder == Spec => []WireInOrder
<1>1. LineInv => WireInOrder
  BY DEF LineInv, OrderInv, SentOrder, Ordered, Precedes, WireInOrder
<1>2. QED  BY <1>1, LineInvariance, PTL

\* The write handler hears of a packet at most once: Written if the port has sent it whole,
\* Failed or Cancelled if it has not and never will.
THEOREM HandlerHearsTheTruth == Spec => []NoticesTruthful
<1>1. ASSUME LineInv PROVE NoticesTruthful
  <2> SUFFICES ASSUME NEW p \in Packets
               PROVE  /\ Len(notices[p]) <= 1
                      /\ \A i \in 1 .. Len(notices[p]) :
                           (notices[p][i] = "Written") = InSeq(p, wire)
    BY DEF NoticesTruthful
  <2>1. CASE notices[p] = << >>  BY <2>1
  <2>2. ASSUME NEW r \in WriteResult, notices[p] = <<r>>, r = "Written" <=> InSeq(p, wire)
        PROVE  /\ Len(notices[p]) <= 1
               /\ \A i \in 1 .. Len(notices[p]) :
                    (notices[p][i] = "Written") = InSeq(p, wire)
    <3>1. Len(notices[p]) = 1 /\ notices[p][1] = r  BY <2>2
    <3>2. InSeq(p, wire) \in BOOLEAN  BY Zenon DEF InSeq
    <3>3. (r = "Written") = InSeq(p, wire)  BY <2>2, <3>2, Zenon
    <3>4. QED  BY <3>1, <3>3
  <2>3. QED  BY <1>1, <2>1, <2>2 DEF LineInv, ToldInv
<1>2. QED  BY <1>1, LineInvariance, PTL

-----------------------------------------------------------------------------
(* close() is the end; packets do not vanish.                              *)

\* In a closed transport every operation in flight is cancelled and the port is shut: none of
\* them can send any more.
LEMMA ClosedWire ==
  ASSUME IInv, CancelInv, closing, NEW op \in BagToSet(inflight), StreamCompletes(op)
  PROVE  wire' = wire
<1>1. /\ OpBag(inflight) /\ ~portOpen /\ cancelledGen \in Nat
  BY DEF IInv, TypeOK, OpBag, SessionFlags
<1>2. op \in Ops /\ op.gen \in Nat  BY <1>1, InBag, OpParts
<1>3. Cancelled(op)  BY <1>1, <1>2 DEF CancelInv, Cancelled
<1>4. Outcomes(op) = {"operation_aborted"}  BY <1>1, <1>3 DEF Outcomes
<1>5. QED  BY <1>3, <1>4 DEF StreamCompletes, Sent

ClosedStep ==
    closing =>
      /\ wire' = wire /\ reported' = reported
      /\ \A p \in Packets : notices'[p] # notices[p] => notices'[p] = <<"Cancelled">>

\* The tasks that still do something are the writes that were in the strand before close().
LEMMA ClosedIsSilent == IInv /\ LineInv /\ [Next]_vars => [ClosedStep]_vars
<1> SUFFICES ASSUME IInv, LineInv, Next, closing
             PROVE  /\ wire' = wire /\ reported' = reported
                    /\ \A p \in Packets :
                         notices'[p] # notices[p] => notices'[p] = <<"Cancelled">>
  BY DEF ClosedStep
<1> USE DEF appVars, coreVars, portVars, noteVars
<1>1. CASE Application
  BY <1>1 DEF Application, CallOpen, CallClose, CallSetHandler, AsyncWriteCheck,
              AsyncWriteReserve, AsyncWritePost
<1>2. CASE OpenIgnored \/ CloseAgain \/ SetHandler \/ StaleCompletion
  BY <1>2 DEF OpenIgnored, CloseAgain, SetHandler, StaleCompletion
<1>3. CASE WriteCancelled
  <2> SUFFICES ASSUME NEW q, q = Head(strand).pkt
               PROVE  \A p \in Packets :
                        notices'[p] # notices[p] => notices'[p] = <<"Cancelled">>
    BY <1>3 DEF WriteCancelled
  <2>1. Take("write") /\ Notify("Cancelled", q)  BY <1>3 DEF WriteCancelled
  <2>2. q \in Packets /\ InLine(q)  BY <2>1, HeadOfLine
  <2>3. notices[q] = << >>  BY <2>2 DEF LineInv, UntoldInv
  <2>4. notices' = notices \/ notices' = [notices EXCEPT ![q] = <<"Cancelled">>]
    BY <2>1, <2>2, <2>3, FirstNotice DEF IInv, WriteResult
  <2>5. notices \in [Packets -> Seq(WriteResult)]  BY DEF IInv, TypeOK
  <2>6. QED  BY <2>2, <2>4, <2>5
<1>4. CASE OpenSucceeds \/ SerialOpenThrows \/ SetOptionThrows \/ CloseOnStrand
             \/ WriteEnqueued \/ ReadContinues \/ ReadFails \/ WriteCompletes \/ WriteFails
  BY <1>4 DEF OpenSucceeds, SerialOpenThrows, SetOptionThrows, Reopening, CloseOnStrand,
              WriteEnqueued, ReadContinues, ReadFails, WriteCompletes, WriteFails,
              TakeCompletion, Stale
<1>5. CASE CompleteDue \/ CompleteRead
  <2>1. PICK op \in BagToSet(inflight) : StreamCompletes(op)
    BY <1>5 DEF CompleteDue, CompleteRead
  <2>2. wire' = wire  BY <2>1, ClosedWire DEF LineInv
  <2>3. QED  BY <2>1, <2>2 DEF StreamCompletes
<1>6. QED  BY <1>1, <1>2, <1>3, <1>4, <1>5 DEF Next, RunStrand

\* After close() nothing is sent and no handler brings anything but the cancellation of a
\* write that was still in the strand.
THEOREM CloseIsFinal == Spec => SilentAfterClose
<1>1. IInv /\ LineInv /\ [Next]_vars => [ClosedStep]_vars  BY ClosedIsSilent
<1>2. QED  BY <1>1, LineInvariance, PTL DEF Spec, SilentAfterClose, ClosedStep

LossStep ==
    \A p \in Packets : Unsettled(p) /\ ~Unsettled(p)' /\ "write" \in handlers =>
        notices'[p] # << >> \/ (InSeq(p, txDeque) /\ generation' # generation)

\* A packet that is dealt with was told, or its session ended while it was in txDeque.
LEMMA LossIsTold == IInv /\ LineInv /\ [Next]_vars => [LossStep]_vars
<1> SUFFICES ASSUME IInv, LineInv, Next, NEW p \in Packets,
                    Unsettled(p), ~Unsettled(p)', "write" \in handlers
             PROVE  notices'[p] # << >> \/ (InSeq(p, txDeque) /\ generation' # generation)
  BY DEF LossStep
<1> USE DEF appVars, coreVars, portVars, noteVars
<1>1. /\ TypeOK /\ strand \in Seq(Tasks) /\ txDeque \in Seq(Packets) /\ generation \in Nat
      /\ notices \in [Packets -> Seq(WriteResult)]
  BY DEF IInv, TypeOK
<1>2. Waits(strand, p) \/ InSeq(p, txDeque)  BY DEF Unsettled, Waits
<1>3. ~Waits(strand', p) /\ ~InSeq(p, txDeque')  BY DEF Unsettled, Waits
<1>4. ASSUME NEW q \in Packets, NEW r \in WriteResult, Notify(r, q)
      PROVE  notices'[q] # << >>
  BY <1>1, <1>4, AppendProperties DEF Notify
<1>5. ASSUME NEW kind, kind # "write", Take(kind)
      PROVE  ~Waits(strand, p) /\ InSeq(p, txDeque)
  <2>1. strand # << >> /\ strand' = Tail(strand) /\ Head(strand).task = kind
    BY <1>1, <1>5, TakeType
  <2>2. Waits(strand, p) <=> Waits(Tail(strand), p)
    BY <1>1, <1>5, <2>1, WaitsTail
  <2>3. QED  BY <1>2, <1>3, <2>1, <2>2
<1>6. ASSUME \/ \E t \in Tasks : Post(t)
             \/ strand' = strand
      PROVE  ~Waits(strand, p) /\ InSeq(p, txDeque)
  BY <1>1, <1>2, <1>3, <1>6, WaitsAppend DEF Post
<1>7. CASE Application
  <2>1. txDeque' = txDeque
    BY <1>7 DEF Application, CallOpen, CallClose, CallSetHandler, AsyncWriteCheck,
                AsyncWriteReserve, AsyncWritePost
  <2>2. \/ \E t \in Tasks : Post(t)
        \/ strand' = strand
    BY <1>7, TaskType
    DEF Application, CallOpen, CallClose, CallSetHandler, AsyncWriteCheck,
        AsyncWriteReserve, AsyncWritePost
  <2>3. QED  BY <1>3, <1>6, <2>1, <2>2
<1>8. CASE OpenIgnored \/ CloseAgain \/ SetHandler \/ StaleCompletion \/ ReadContinues
  <2>1. /\ txDeque' = txDeque
        /\ \E kind \in {"open", "close", "set", "done"} : Take(kind)
    BY <1>8 DEF OpenIgnored, CloseAgain, SetHandler, StaleCompletion, ReadContinues,
                TakeCompletion
  <2>2. QED  BY <1>3, <1>5, <2>1
<1>9. CASE OpenSucceeds \/ SerialOpenThrows \/ SetOptionThrows \/ CloseOnStrand
             \/ ReadFails \/ WriteFails
  <2>1. /\ generation' = generation + 1
        /\ \E kind \in {"open", "close", "done"} : Take(kind)
    BY <1>9 DEF OpenSucceeds, SerialOpenThrows, SetOptionThrows, Reopening, CloseOnStrand,
                ReadFails, WriteFails, ReportFatal, StopAfterIoError, TakeCompletion
  <2>2. QED  BY <1>1, <1>5, <2>1
<1>10. CASE WriteCancelled \/ WriteEnqueued
  <2> SUFFICES ASSUME NEW q, q = Head(strand).pkt  PROVE notices'[p] # << >>
    OBVIOUS
  <2>1. Take("write")  BY <1>10 DEF WriteCancelled, WriteEnqueued
  <2>2. q \in Packets /\ \A r : Waits(strand, r) <=> Waits(strand', r) \/ r = q
    <3>1. /\ strand # << >> /\ strand' = Tail(strand)
          /\ Head(strand).task = "write" /\ q \in Packets
      BY <1>1, <2>1, TakeType, TaskParts
    <3>2. QED  BY <1>1, <3>1, WaitsTail
  <2>3. CASE WriteEnqueued
    <3>1. txDeque' = Append(txDeque, q)  BY <2>3 DEF WriteEnqueued, PushBack
    <3>2. \A r : InSeq(r, txDeque') <=> InSeq(r, txDeque) \/ r = q
      BY <1>1, <2>2, <3>1, PrecedesAppend
    <3>3. QED  BY <1>2, <1>3, <2>2, <3>2
  <2>4. CASE WriteCancelled
    <3>1. txDeque' = txDeque /\ Notify("Cancelled", q)  BY <2>4 DEF WriteCancelled
    <3>2. p = q  BY <1>2, <1>3, <2>2, <3>1
    <3>3. QED  BY <1>4, <2>2, <3>1, <3>2 DEF WriteResult
  <2>5. QED  BY <1>10, <2>3, <2>4
<1>11. CASE WriteCompletes
  <2> SUFFICES ASSUME NEW q, q = Head(txDeque)  PROVE notices'[p] # << >>
    OBVIOUS
  <2>1. /\ TakeCompletion("write") /\ Take("done") /\ txDeque' = Tail(txDeque)
        /\ Notify("Written", q)
    BY <1>11 DEF WriteCompletes, TakeCompletion
  <2>2. q \in Packets /\ txDeque # << >>  BY <2>1, EndedFront
  <2>3. InSeq(p, txDeque)  BY <1>5, <2>1
  <2>4. p = q  BY <1>1, <1>3, <2>1, <2>2, <2>3, InSeqTail
  <2>5. QED  BY <1>4, <2>1, <2>2, <2>4 DEF WriteResult
<1>12. CASE CompleteDue \/ CompleteRead
  <2>1. PICK op \in BagToSet(inflight) : StreamCompletes(op)
    BY <1>12 DEF CompleteDue, CompleteRead
  <2>2. PICK ec \in Outcomes(op) : Post([task |-> "done", op |-> op, ec |-> ec])
    BY <2>1 DEF StreamCompletes
  <2>3. op \in Ops /\ ec \in ErrorCodes  BY <1>1 DEF TypeOK, Outcomes, ErrorCodes
  <2>4. InSeq(p, txDeque)  BY <1>6, <2>2, <2>3, TaskType
  <2>5. txDeque' = txDeque  BY <2>1 DEF StreamCompletes
  <2>6. QED  BY <1>3, <2>4, <2>5
<1>13. QED
  BY <1>7, <1>8, <1>9, <1>10, <1>11, <1>12 DEF Next, RunStrand

\* SerialTransport.hpp:91, as far as it is true: with a write handler set, a packet goes
\* without a notice only with its session.
THEOREM LossOnlyWithSession == Spec => NoSilentLoss
<1>1. IInv /\ LineInv /\ [Next]_vars => [LossStep]_vars  BY LossIsTold
<1>2. QED  BY <1>1, LineInvariance, PTL DEF Spec, NoSilentLoss, LossStep

=============================================================================
