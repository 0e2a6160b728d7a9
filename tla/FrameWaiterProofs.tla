------------------------- MODULE FrameWaiterProofs -------------------------
(***************************************************************************)
(* Proofs about FrameWaiter, for a ring of any size, frames of any length  *)
(* and output buffers of any capacity.                                     *)
(*                                                                         *)
(* What is on its way from feed to a result, the pending bytes followed by *)
(* those of the ring, is one chain: the producer appends to it and the     *)
(* consumer moves a border in it or takes bytes off its front.  The        *)
(* invariants say how the bytes of the chain follow one another, and how   *)
(* it follows what was delivered and precedes what is still to be sent.    *)
(***************************************************************************)
EXTENDS FrameWaiter, SequenceTheorems, TLAPS

-----------------------------------------------------------------------------
(* Type correctness.                                                       *)

Result == [status : {"OK", "BufferTooSmall"}, capacity : Capacities,
           bytes : Seq(Bytes), end : Nat]

\* A call has its capacity, and every frame before the current one has its length.
TypeInv ==
    /\ TypeOK
    /\ consumer # "idle" => capacity \in Capacities
    /\ frame = Len(lengths) + 1

\* The byte the sender sends is the current frame's.
LEMMA NextByteType ==
  ASSUME TypeInv, NEW b, NextByte(b)
  PROVE  /\ b \in Bytes /\ b.frame = frame /\ lengths' \in Seq(Nat)
         /\ frame' \in Nat /\ sentBytes' \in 0 .. MaxLen /\ frame' = Len(lengths') + 1
         /\ b.delimiter => /\ b.pos = 0 /\ sentBytes' = 0 /\ frame' = frame + 1
                           /\ lengths' = Append(lengths, sentBytes)
         /\ ~b.delimiter => /\ b.pos = sentBytes + 1 /\ sentBytes' = sentBytes + 1
                            /\ UNCHANGED <<frame, lengths>>
<1>1. /\ frame \in Nat /\ sentBytes \in 0 .. MaxLen /\ lengths \in Seq(Nat)
      /\ frame = Len(lengths) + 1 /\ MaxLen \in Nat
  BY SizeAssumption DEF TypeInv, TypeOK
<1>2. CASE /\ sentBytes < MaxLen /\ b = Data(frame, sentBytes + 1)
           /\ sentBytes' = sentBytes + 1 /\ UNCHANGED <<frame, lengths>>
  BY <1>1, <1>2 DEF Data, Bytes
<1>3. CASE /\ b = Delimiter(frame) /\ sentBytes' = 0 /\ frame' = frame + 1
           /\ lengths' = Append(lengths, sentBytes)
  <2>1. lengths' \in Seq(Nat) /\ Len(lengths') = Len(lengths) + 1
    BY <1>1, <1>3, AppendProperties
  <2>2. QED  BY <1>1, <1>3, <2>1 DEF Delimiter, Bytes
<1>4. QED  BY <1>2, <1>3 DEF NextByte

LEMMA FeedType ==
  ASSUME TypeInv, Feed
  PROVE  TypeInv'
<1> USE DEF TypeInv, consumerVars, producerVars, senderVars
<1>1. TypeOK  OBVIOUS
<1>2. ASSUME NEW b, FeedDropped(b)  PROVE TypeInv'
  <2>1. NextByte(b) /\ b \in Bytes  BY <1>2, NextByteType DEF FeedDropped
  <2>2. dropping' \in BOOLEAN  BY <1>2 DEF FeedDropped
  <2>3. QED  BY <1>2, <2>1, <2>2, NextByteType DEF FeedDropped, TypeOK
<1>3. ASSUME NEW b, FeedInserted(b)  PROVE TypeInv'
  <2>1. NextByte(b) /\ b \in Bytes  BY <1>3, NextByteType DEF FeedInserted
  <2>2. buffer' \in Seq(Bytes) /\ Len(buffer') = Len(buffer) + 1 /\ Len(buffer) \in Nat
    BY <1>3, <2>1, AppendProperties DEF FeedInserted, TypeOK
  <2>3. Len(buffer') <= BufferSize  BY <1>3, <2>2, SizeAssumption DEF FeedInserted
  <2>4. QED  BY <1>3, <2>1, <2>2, <2>3, NextByteType DEF FeedInserted, TypeOK
<1>4. ASSUME NEW b, FeedRefused(b)  PROVE TypeInv'
  <2>1. NextByte(b)  BY <1>4 DEF FeedRefused
  <2>2. QED  BY <1>4, <2>1, NextByteType DEF FeedRefused, TypeOK
<1>5. CASE StoreOverflow  BY <1>5 DEF StoreOverflow, StartDropping, TypeOK
<1>6. CASE Callback  BY <1>6 DEF Callback, TypeOK
<1>7. QED  BY <1>2, <1>3, <1>4, <1>5, <1>6 DEF Feed

LEMMA RemoveType ==
  ASSUME TypeInv, NEW where, Remove(where)
  PROVE  /\ buffer # << >> /\ buffer' = Tail(buffer) /\ Head(buffer) \in Bytes
         /\ Tail(buffer) \in Seq(Bytes) /\ Len(Tail(buffer)) <= BufferSize
         /\ Len(buffer) \in Nat \ {0} /\ Len(Tail(buffer)) = Len(buffer) - 1
<1>1. buffer \in Seq(Bytes) /\ buffer # << >> /\ Len(buffer) <= BufferSize
  BY DEF TypeInv, TypeOK, Remove
<1>2. QED  BY <1>1, HeadTailProperties, EmptySeq, SizeAssumption DEF Remove

\* A result that is recorded is one.
LEMMA RecordType ==
  ASSUME TypeInv, consumer # "idle", NEW s \in {"OK", "BufferTooSmall"}, NEW end \in Nat,
         Record(s, end)
  PROVE  results' \in Seq(Result)
<1> DEFINE r == [status |-> s, capacity |-> capacity, bytes |-> pending, end |-> end]
<1>1. r \in Result  BY DEF TypeInv, TypeOK, Result
<1>2. results \in Seq(Result)  BY DEF TypeInv, TypeOK, Result
<1>3. results' = Append(results, r)  BY DEF Record
<1>4. QED  BY <1>1, <1>2, <1>3, AppendProperties

LEMMA ConsumeType ==
  ASSUME TypeInv, Consume
  PROVE  TypeInv'
<1> USE DEF TypeInv, producerVars, senderVars
<1>1. TypeOK /\ << >> \in Seq(Bytes) /\ Len(<< >>) = 0 /\ BufferSize \in Nat
  BY EmptySeq, SizeAssumption
<1>2. ASSUME NEW c \in Capacities, TryReadFrame(c)  PROVE TypeInv'
  BY <1>2 DEF TryReadFrame, TypeOK
<1>3. CASE ReadDelimiter
  <2>1. PICK s \in {"OK", "BufferTooSmall"} :
             Return(s) /\ Record(s, Head(buffer).frame) /\ Remove("reading")
    BY <1>3 DEF ReadDelimiter
  <2>2. Head(buffer).frame \in Nat /\ consumer # "idle"
    BY <2>1, RemoveType DEF Bytes, Remove
  <2>3. results' \in Seq(Result)  BY <2>1, <2>2, RecordType
  <2>4. QED
    BY <1>1, <1>3, <2>1, <2>3, RemoveType
    DEF ReadDelimiter, Remove, Return, ClearPending, TypeOK, Result, ReadFrameStatus
<1>4. CASE ReadData
  <2>1. Remove("reading") /\ pending' = Append(pending, Head(buffer)) /\ ~PendingFull
    BY <1>4 DEF ReadData
  <2>2. Len(pending) \in Nat /\ pending' \in Seq(Bytes) /\ Len(pending') = Len(pending) + 1
    BY <1>1, <2>1, RemoveType, AppendProperties DEF TypeOK
  <2>3. Len(pending') <= BufferSize  BY <1>1, <2>1, <2>2 DEF PendingFull
  <2>4. QED  BY <1>4, <2>1, <2>2, <2>3, RemoveType DEF ReadData, Remove, TypeOK
<1>5. CASE ReadTooLong
  <2>1. Record("BufferTooSmall", 0) /\ Remove("reading")  BY <1>5 DEF ReadTooLong
  <2>2. results' \in Seq(Result)  BY <2>1, RecordType DEF Remove
  <2>3. QED
    BY <1>1, <1>5, <2>1, <2>2, RemoveType DEF ReadTooLong, Remove, ClearPending, TypeOK, Result
<1>6. CASE ReadEmpty  BY <1>6 DEF ReadEmpty, RemoveNothing, TypeOK
<1>7. CASE ExchangeOverflow
  <2>1. pending' \in Seq(Bytes) /\ Len(pending') <= BufferSize
    BY <1>1, <1>7, SizeAssumption DEF ExchangeOverflow, ClearPending
  <2>2. QED  BY <1>7, <2>1 DEF ExchangeOverflow, OverflowToFalse, TypeOK
<1>8. CASE ExchangeNothing
  BY <1>8 DEF ExchangeNothing, Return, TypeOK, ReadFrameStatus
<1>9. CASE DropByte
  <2>1. Remove("dropping")  BY <1>9 DEF DropByte
  <2>2. QED
    BY <1>9, <2>1, RemoveType DEF DropByte, Remove, Return, TypeOK, ReadFrameStatus
<1>10. CASE DropEmpty
  BY <1>10 DEF DropEmpty, RemoveNothing, Return, TypeOK, ReadFrameStatus
<1>11. QED
  BY <1>2, <1>3, <1>4, <1>5, <1>6, <1>7, <1>8, <1>9, <1>10 DEF Consume, Step

LEMMA TypeStep == TypeInv /\ [Next]_vars => TypeInv'
<1> SUFFICES ASSUME TypeInv, [Next]_vars PROVE TypeInv'  OBVIOUS
<1>1. CASE UNCHANGED vars
  BY <1>1 DEF vars, senderVars, producerVars, consumerVars, TypeInv, TypeOK
<1>2. QED  BY <1>1, FeedType, ConsumeType DEF Next

LEMMA InitType == Init => TypeInv
<1> SUFFICES ASSUME Init PROVE TypeInv  OBVIOUS
<1>1. /\ << >> \in Seq(Bytes) /\ << >> \in Seq(Nat) /\ << >> \in Seq(Result)
      /\ Len(<< >>) = 0 /\ BufferSize \in Nat /\ MaxLen \in Nat
  BY EmptySeq, SizeAssumption
<1>2. 0 \in 0 .. MaxLen /\ 0 <= BufferSize  BY <1>1
<1>3. /\ buffer \in Seq(Bytes) /\ Len(buffer) <= BufferSize
      /\ pending \in Seq(Bytes) /\ Len(pending) <= BufferSize
      /\ lengths \in Seq(Nat) /\ Len(lengths) = 0 /\ results \in Seq(Result)
  BY <1>1, <1>2 DEF Init
<1>4. /\ frame = 1 /\ sentBytes = 0 /\ producer = "idle" /\ dropping = FALSE
      /\ overflow = FALSE /\ consumer = "idle" /\ capacity = 0 /\ failure = "Overflow"
      /\ status = "IncompleteFrame" /\ everFull = FALSE
  BY DEF Init
<1>5. frame \in Nat /\ frame = Len(lengths) + 1  BY <1>3, <1>4
<1>6. sentBytes \in 0 .. MaxLen  BY <1>2, <1>4
<1>7. results \in Seq([status : {"OK", "BufferTooSmall"}, capacity : Capacities,
                        bytes : Seq(Bytes), end : Nat])
  BY <1>3 DEF Result
<1>8. TypeOK  BY <1>3, <1>4, <1>5, <1>6, <1>7 DEF TypeOK, ReadFrameStatus
<1>9. QED  BY <1>4, <1>5, <1>8 DEF TypeInv

\* Every variable keeps its type; neither the ring nor the pending frame outgrows its array.
THEOREM TypeCorrect == Spec => []TypeOK
<1>1. TypeInv => TypeOK  BY DEF TypeInv
<1>2. QED  BY <1>1, InitType, TypeStep, PTL DEF Spec

-----------------------------------------------------------------------------
(* The chain.                                                              *)

\* a was sent before b, where one of them may be a delimiter, which ends its frame.
Before(a, b) ==
    \/ a.frame < b.frame
    \/ a.frame = b.frame /\ ~a.delimiter /\ (b.delimiter \/ a.pos < b.pos)

\* b was sent when k data bytes of frame f were.
WasSent(b, f, k) == b.frame \in 1 .. f /\ (b.frame = f => ~b.delimiter /\ b.pos <= k)

\* Between a and b, if they are of one frame, nothing of it was sent; l are the lengths of
\* the frames.
NoGap(a, b, l) ==
    a.frame = b.frame => IF b.delimiter THEN a.pos = l[a.frame] ELSE b.pos = a.pos + 1

AllSent(s, f, k) == \A i \in 1 .. Len(s) : WasSent(s[i], f, k)
InOrder(s)       == \A i, j \in 1 .. Len(s) : i < j => Before(s[i], s[j])
Gapless(s, l)    == \A i, j \in 1 .. Len(s) : j = i + 1 => NoGap(s[i], s[j], l)

\* The last byte of s, if it is of frame f, is its k-th.
EndsAt(s, f, k)  == \A i \in 1 .. Len(s) : i = Len(s) /\ s[i].frame = f => s[i].pos = k

\* The chain is in the order of sending and has no gap inside a frame; neither will it have
\* one when the next byte is inserted, as long as the producer is not dropping.
ChainInv ==
    /\ consumer = "dropping" => pending = << >>
    /\ \A i \in 1 .. Len(pending) : ~pending[i].delimiter
    /\ AllSent(Chain, frame, sentBytes) /\ InOrder(Chain) /\ Gapless(Chain, lengths)
    /\ ~dropping /\ producer # "overflow" => EndsAt(Chain, frame, sentBytes)

\* What the chain is made of.
LEMMA ChainParts ==
  ASSUME TypeInv
  PROVE  /\ Chain \in Seq(Bytes) /\ Len(Chain) = Len(pending) + Len(buffer)
         /\ Len(pending) \in Nat /\ Len(buffer) \in Nat
         /\ \A i \in 1 .. Len(pending) : Chain[i] = pending[i]
         /\ \A i \in 1 .. Len(buffer) : Chain[Len(pending) + i] = buffer[i]
<1>1. /\ pending \in Seq(Bytes) /\ buffer \in Seq(Bytes)
      /\ Len(pending) \in Nat /\ Len(buffer) \in Nat
  BY DEF TypeInv, TypeOK
<1>2. QED  BY <1>1, ConcatProperties DEF Chain

\* The chain grows at its end.
LEMMA ChainGrows ==
  ASSUME TypeInv, NEW b \in Bytes, buffer' = Append(buffer, b), pending' = pending
  PROVE  Chain' = Append(Chain, b)
<1>1. pending \in Seq(Bytes) /\ buffer \in Seq(Bytes)  BY DEF TypeInv, TypeOK
<1>2. pending \o Append(buffer, b) = Append(pending \o buffer, b)
  <2>1. /\ Append(buffer, b) \in Seq(Bytes) /\ Len(Append(buffer, b)) = Len(buffer) + 1
        /\ \A i \in 1 .. Len(buffer) : Append(buffer, b)[i] = buffer[i]
        /\ Append(buffer, b)[Len(buffer) + 1] = b
        /\ Len(buffer) \in Nat /\ Len(pending) \in Nat
    BY <1>1, AppendProperties
  <2> DEFINE s == pending \o Append(buffer, b)
             t == Append(pending \o buffer, b)
             n == Len(pending) + Len(buffer)
  <2>2. /\ pending \o buffer \in Seq(Bytes) /\ Len(pending \o buffer) = n
        /\ \A i \in 1 .. n : (pending \o buffer)[i] =
                               IF i <= Len(pending) THEN pending[i] ELSE buffer[i - Len(pending)]
    BY <1>1, ConcatProperties
  <2>3. /\ s \in Seq(Bytes) /\ Len(s) = Len(pending) + Len(Append(buffer, b))
        /\ \A i \in 1 .. Len(pending) + Len(Append(buffer, b)) : s[i] =
             IF i <= Len(pending) THEN pending[i] ELSE Append(buffer, b)[i - Len(pending)]
    BY <1>1, <2>1, ConcatProperties
  <2>4. /\ t \in Seq(Bytes) /\ Len(t) = n + 1 /\ t[n + 1] = b
        /\ \A i \in 1 .. n : t[i] = (pending \o buffer)[i]
    BY <2>2, AppendProperties
  <2>5. ASSUME NEW i \in 1 .. n + 1  PROVE s[i] = t[i]
    <3>1. CASE i <= Len(pending)  BY <2>1, <2>2, <2>3, <2>4, <3>1
    <3>2. CASE i = n + 1
      <4>1. i - Len(pending) = Len(buffer) + 1 /\ ~(i <= Len(pending))  BY <2>1, <3>2
      <4>2. QED  BY <2>1, <2>3, <2>4, <3>2, <4>1
    <3>3. CASE i > Len(pending) /\ i # n + 1
      <4>1. i - Len(pending) \in 1 .. Len(buffer) /\ i \in 1 .. n  BY <2>1, <3>3
      <4>2. QED  BY <2>1, <2>2, <2>3, <2>4, <3>3, <4>1
    <3>4. QED  BY <2>1, <3>1, <3>2, <3>3
  <2>6. Len(s) = n + 1  BY <2>1, <2>3
  <2> HIDE DEF s, t, n
  <2>7. s = t  BY <2>3, <2>4, <2>5, <2>6, SeqEqual
  <2>8. QED  BY <2>7 DEF s, t
<1>3. QED  BY <1>2 DEF Chain

\* s is what remains of c when its first n bytes are gone.
Rest(s, c, n) ==
    /\ n \in 0 .. Len(c) /\ Len(s) = Len(c) - n
    /\ \A i \in 1 .. Len(s) : s[i] = c[n + i]

\* The consumer takes bytes off the front of the chain.
LEMMA ChainShrinks ==
  ASSUME TypeInv, TypeInv'
  PROVE  /\ pending' = pending /\ buffer' = buffer => Chain' = Chain
         /\ pending' = << >> /\ buffer' = buffer => Rest(Chain', Chain, Len(pending))
         /\ pending' = << >> /\ buffer # << >> /\ buffer' = Tail(buffer) =>
              Rest(Chain', Chain, Len(pending) + 1)
         /\ buffer # << >> /\ pending' = Append(pending, Head(buffer)) /\ buffer' = Tail(buffer)
              => Rest(Chain', Chain, 0)
<1>1. /\ Len(Chain) = Len(pending) + Len(buffer)
      /\ Len(pending) \in Nat /\ Len(buffer) \in Nat
      /\ \A i \in 1 .. Len(pending) : Chain[i] = pending[i]
      /\ \A i \in 1 .. Len(buffer) : Chain[Len(pending) + i] = buffer[i]
  BY ChainParts
<1>2. /\ Len(Chain') = Len(pending') + Len(buffer')
      /\ Len(pending') \in Nat /\ Len(buffer') \in Nat
      /\ \A i \in 1 .. Len(pending') : Chain'[i] = pending'[i]
      /\ \A i \in 1 .. Len(buffer') : Chain'[Len(pending') + i] = buffer'[i]
  <2>1. /\ pending' \in Seq(Bytes) /\ buffer' \in Seq(Bytes)
        /\ Len(pending') \in Nat /\ Len(buffer') \in Nat /\ Chain' = pending' \o buffer'
    BY DEF TypeInv, TypeOK, Chain
  <2>2. QED  BY <2>1, ConcatProperties
<1>3. pending \in Seq(Bytes) /\ buffer \in Seq(Bytes)  BY DEF TypeInv, TypeOK
<1>4. buffer # << >> =>
        /\ Len(buffer) \in Nat \ {0} /\ Head(buffer) = buffer[1] /\ Head(buffer) \in Bytes
        /\ Len(Tail(buffer)) = Len(buffer) - 1
        /\ \A i \in 1 .. Len(Tail(buffer)) : Tail(buffer)[i] = buffer[i + 1]
  BY <1>3, HeadTailProperties, EmptySeq
<1>5. CASE pending' = << >>
  <2>1. Len(pending') = 0  BY <1>5
  <2>2. /\ Len(Chain') = Len(buffer')
        /\ \A i \in 1 .. Len(buffer') : Chain'[i] = buffer'[i]
    BY <1>2, <2>1
  <2>3. buffer' = buffer => Rest(Chain', Chain, Len(pending))  BY <1>1, <2>2 DEF Rest
  <2>4. ASSUME buffer # << >>, buffer' = Tail(buffer)
        PROVE  Rest(Chain', Chain, Len(pending) + 1)
    <3>1. ASSUME NEW i \in 1 .. Len(Chain')
          PROVE  Chain'[i] = Chain[(Len(pending) + 1) + i]
      <4>1. i \in 1 .. Len(Tail(buffer)) /\ i + 1 \in 1 .. Len(buffer)
            /\ Len(pending) + (i + 1) = (Len(pending) + 1) + i
        BY <1>1, <1>4, <2>2, <2>4
      <4>2. Chain'[i] = buffer[i + 1]  BY <1>4, <2>2, <2>4, <4>1
      <4>3. Chain[Len(pending) + (i + 1)] = buffer[i + 1]  BY <1>1, <4>1
      <4>4. QED  BY <4>1, <4>2, <4>3
    <3>2. /\ Len(pending) + 1 \in 0 .. Len(Chain)
          /\ Len(Chain') = Len(Chain) - (Len(pending) + 1)
      BY <1>1, <1>4, <2>2, <2>4
    <3>3. QED  BY <3>1, <3>2 DEF Rest
  <2>5. ASSUME pending' = pending, buffer' = buffer  PROVE Chain' = Chain
    BY <2>5 DEF Chain
  <2>6. ASSUME pending' = Append(pending, Head(buffer)), buffer # << >>  PROVE FALSE
    BY <1>3, <1>4, <1>5, <2>1, <2>6, <1>1, AppendProperties
  <2>7. QED  BY <1>5, <2>3, <2>4, <2>5, <2>6
<1>6. ASSUME buffer # << >>, pending' = Append(pending, Head(buffer)), buffer' = Tail(buffer)
      PROVE  Rest(Chain', Chain, 0)
  <2>1. /\ Len(pending') = Len(pending) + 1
        /\ \A i \in 1 .. Len(pending) : pending'[i] = pending[i]
        /\ pending'[Len(pending) + 1] = buffer[1]
    BY <1>3, <1>4, <1>6, AppendProperties
  <2>2. ASSUME NEW i \in 1 .. Len(Chain')  PROVE Chain'[i] = Chain[0 + i]
    <3>1. CASE i <= Len(pending)  BY <1>1, <1>2, <2>1, <3>1
    <3>2. CASE i = Len(pending) + 1
      <4>1. Chain'[i] = buffer[1]  BY <1>1, <1>2, <2>1, <3>2
      <4>2. 1 \in 1 .. Len(buffer)  BY <1>4, <1>6
      <4>3. Chain[Len(pending) + 1] = buffer[1]  BY <1>1, <4>2
      <4>4. QED  BY <1>1, <3>2, <4>1, <4>3
    <3>3. CASE i > Len(pending) + 1
      <4>1. PICK j \in 1 .. Len(buffer') : i = Len(pending') + j
        <5>1. i - Len(pending') \in 1 .. Len(buffer')  BY <1>1, <1>2, <2>1, <3>3
        <5>2. i = Len(pending') + (i - Len(pending'))  BY <1>1, <2>1
        <5>3. QED  BY <5>1, <5>2
      <4>2. Chain'[i] = buffer[j + 1]  BY <1>2, <1>4, <1>6, <4>1
      <4>3. j + 1 \in 1 .. Len(buffer) /\ i = Len(pending) + (j + 1)
        BY <1>1, <1>4, <1>6, <2>1, <4>1
      <4>4. Chain[Len(pending) + (j + 1)] = buffer[j + 1]  BY <1>1, <4>3
      <4>5. QED  BY <4>2, <4>3, <4>4
    <3>4. QED  BY <1>1, <3>1, <3>2, <3>3
  <2>3. Len(Chain') = Len(Chain) - 0 /\ 0 \in 0 .. Len(Chain)
    BY <1>1, <1>2, <1>4, <1>6, <2>1
  <2>4. QED  BY <2>2, <2>3 DEF Rest
<1>7. QED  BY <1>5, <1>6 DEF Chain

\* What remains of a sequence has its properties.
LEMMA RestKeeps ==
  ASSUME NEW c \in Seq(Bytes), NEW s \in Seq(Bytes), NEW n, Rest(s, c, n),
         NEW f, NEW k, NEW l
  PROVE  /\ AllSent(c, f, k) => AllSent(s, f, k)
         /\ InOrder(c) => InOrder(s)
         /\ Gapless(c, l) => Gapless(s, l)
         /\ EndsAt(c, f, k) => EndsAt(s, f, k)
<1>1. Len(c) \in Nat /\ Len(s) \in Nat /\ n \in 0 .. Len(c) /\ Len(s) = Len(c) - n
  BY DEF Rest
<1>2. \A i \in 1 .. Len(s) : n + i \in 1 .. Len(c) /\ s[i] = c[n + i]
  BY <1>1 DEF Rest
<1>3. /\ \A i, j \in 1 .. Len(s) : i < j => n + i < n + j
      /\ \A i, j \in 1 .. Len(s) : j = i + 1 => n + j = (n + i) + 1
      /\ \A i \in 1 .. Len(s) : i = Len(s) => n + i = Len(c)
  BY <1>1
<1>4. AllSent(c, f, k) => AllSent(s, f, k)  BY <1>2 DEF AllSent
<1>5. InOrder(c) => InOrder(s)  BY <1>2, <1>3 DEF InOrder
<1>6. Gapless(c, l) => Gapless(s, l)  BY <1>2, <1>3 DEF Gapless
<1>7. EndsAt(c, f, k) => EndsAt(s, f, k)  BY <1>2, <1>3 DEF EndsAt
<1>8. QED  BY <1>4, <1>5, <1>6, <1>7

\* From the k-th byte of frame f the sender goes on to the next one, or to the next frame.
Sends(f, k, l, f2, k2, l2) ==
    \/ f2 = f /\ k2 = k + 1 /\ l2 = l
    \/ f2 = f + 1 /\ k2 = 0 /\ l2 = Append(l, k)

LEMMA SendsByte ==
  ASSUME TypeInv, NEW b, NextByte(b)
  PROVE  Sends(frame, sentBytes, lengths, frame', sentBytes', lengths')
BY NextByteType DEF Sends, Bytes

\* Sending leaves what was sent, and the gaps in it, as they were.
LEMMA SentStays ==
  ASSUME NEW f \in Nat, NEW k \in Nat, NEW l \in Seq(Nat), f = Len(l) + 1,
         NEW f2, NEW k2, NEW l2, Sends(f, k, l, f2, k2, l2),
         NEW s \in Seq(Bytes), AllSent(s, f, k)
  PROVE  /\ AllSent(s, f2, k2)
         /\ Gapless(s, l) => Gapless(s, l2)
         /\ f2 # f => EndsAt(s, f2, k2)
         /\ \A g \in 1 .. f - 1 : l2[g] = l[g]
<1>1. /\ Len(l) \in Nat /\ Len(s) \in Nat
      /\ \A i \in 1 .. Len(s) : s[i] \in Bytes /\ WasSent(s[i], f, k)
  BY ElementOfSeq DEF AllSent
<1>2. \A a \in Bytes : a.frame \in Nat /\ a.pos \in Nat /\ a.delimiter \in BOOLEAN
  BY DEF Bytes
<1>3. \A g \in 1 .. f - 1 : l2[g] = l[g]
  BY <1>1, AppendProperties DEF Sends
<1>4. \A a \in Bytes : WasSent(a, f, k) => WasSent(a, f2, k2) /\ (f2 # f => a.frame # f2)
  BY <1>2 DEF WasSent, Sends
<1>5. \A a, b \in Bytes : WasSent(b, f, k) /\ NoGap(a, b, l) => NoGap(a, b, l2)
  <2> SUFFICES ASSUME NEW a \in Bytes, NEW b \in Bytes, WasSent(b, f, k), NoGap(a, b, l)
               PROVE  NoGap(a, b, l2)
    OBVIOUS
  <2>1. a.frame = b.frame /\ b.delimiter => a.frame \in 1 .. f - 1
    BY <1>2 DEF WasSent
  <2>2. QED  BY <1>3, <2>1 DEF NoGap
<1>6. AllSent(s, f2, k2)  BY <1>1, <1>4 DEF AllSent
<1>7. Gapless(s, l) => Gapless(s, l2)  BY <1>1, <1>5 DEF Gapless
<1>8. f2 # f => EndsAt(s, f2, k2)  BY <1>1, <1>4 DEF EndsAt
<1>9. QED  BY <1>3, <1>6, <1>7, <1>8

\* A byte that is inserted follows the last one of the chain.
LEMMA InsertedFollows ==
  ASSUME NEW f \in Nat, NEW k \in Nat, NEW l \in Seq(Nat), f = Len(l) + 1,
         NEW f2, NEW k2, NEW l2, Sends(f, k, l, f2, k2, l2),
         NEW s \in Seq(Bytes), AllSent(s, f, k), InOrder(s), Gapless(s, l), EndsAt(s, f, k),
         NEW b \in Bytes, b.frame = f, b.delimiter <=> f2 = f + 1,
         ~b.delimiter => b.pos = k + 1
  PROVE  LET t == Append(s, b) IN
         /\ \A i \in 1 .. Len(s) : Before(s[i], b)
         /\ AllSent(t, f2, k2) /\ InOrder(t) /\ Gapless(t, l2) /\ EndsAt(t, f2, k2)
<1> SUFFICES ASSUME NEW t, t = Append(s, b)
             PROVE  /\ \A i \in 1 .. Len(s) : Before(s[i], b)
                    /\ AllSent(t, f2, k2) /\ InOrder(t) /\ Gapless(t, l2) /\ EndsAt(t, f2, k2)
  OBVIOUS
<1>1. /\ Len(s) \in Nat /\ Len(l) \in Nat /\ Len(t) = Len(s) + 1 /\ t[Len(s) + 1] = b
      /\ \A i \in 1 .. Len(s) : t[i] = s[i] /\ s[i] \in Bytes /\ WasSent(s[i], f, k)
  BY AppendProperties, ElementOfSeq DEF AllSent
<1>2. \A a \in Bytes : a.frame \in Nat /\ a.pos \in Nat /\ a.delimiter \in BOOLEAN
  BY DEF Bytes
<1>3. AllSent(s, f2, k2) /\ Gapless(s, l2)  BY SentStays
<1>4. WasSent(b, f2, k2)
  <2>1. f \in 1 .. f2  BY <1>1 DEF Sends
  <2>2. b.frame = f2 => ~b.delimiter /\ b.pos = k2  BY DEF Sends
  <2>3. QED  BY <1>2, <2>1, <2>2 DEF WasSent, Sends
<1>5. \A a \in Bytes : WasSent(a, f, k) => Before(a, b)
  BY <1>2 DEF WasSent, Before
<1>6. ASSUME NEW i \in 1 .. Len(s), i = Len(s)  PROVE NoGap(s[i], b, l2)
  <2>1. s[i].frame = f => s[i].pos = k  BY <1>6 DEF EndsAt
  <2>2. b.delimiter => l2[f] = k  BY AppendProperties, <1>1 DEF Sends
  <2>3. QED  BY <2>1, <2>2 DEF NoGap
<1>7. AllSent(t, f2, k2)  BY <1>1, <1>3, <1>4 DEF AllSent
<1>8. InOrder(t)
  <2> SUFFICES ASSUME NEW i \in 1 .. Len(t), NEW j \in 1 .. Len(t), i < j
               PROVE  Before(t[i], t[j])
    BY DEF InOrder
  <2>1. CASE j = Len(s) + 1
    <3>1. i \in 1 .. Len(s)  BY <1>1, <2>1
    <3>2. QED  BY <1>1, <1>5, <2>1, <3>1
  <2>2. CASE j # Len(s) + 1
    <3>1. PICK m \in Nat : m = Len(s) /\ Len(t) = m + 1  BY <1>1
    <3>2. i \in 1 .. m + 1 /\ j \in 1 .. m + 1 /\ j # m + 1  BY <2>2, <3>1
    <3>3. i \in 1 .. m /\ j \in 1 .. m  BY <3>2
    <3>4. Before(s[i], s[j])  BY <3>1, <3>3 DEF InOrder
    <3>5. QED  BY <1>1, <3>1, <3>3, <3>4
  <2>3. QED  BY <2>1, <2>2
<1>9. Gapless(t, l2)
  <2> SUFFICES ASSUME NEW i \in 1 .. Len(t), NEW j \in 1 .. Len(t), j = i + 1
               PROVE  NoGap(t[i], t[j], l2)
    BY DEF Gapless
  <2>1. CASE i = Len(s)  BY <1>1, <1>6, <2>1
  <2>2. CASE i # Len(s)
    <3>1. i \in 1 .. Len(s) /\ j \in 1 .. Len(s)  BY <1>1, <2>2
    <3>2. QED  BY <1>1, <1>3, <3>1 DEF Gapless
  <2>3. QED  BY <2>1, <2>2
<1>10. EndsAt(t, f2, k2)
  <2>1. b.frame = f2 => b.pos = k2  BY DEF Sends
  <2>2. QED  BY <1>1, <2>1 DEF EndsAt
<1>11. QED  BY <1>1, <1>5, <1>7, <1>8, <1>9, <1>10

-----------------------------------------------------------------------------
(* The chain invariant is inductive.                                       *)

\* What it says of one state, once the chain itself is out of sight.
ChainSteady(c, f, k, l, steady) ==
    /\ AllSent(c, f, k) /\ InOrder(c) /\ Gapless(c, l)
    /\ steady => EndsAt(c, f, k)

\* The consumer's pending bytes are data of one call.
PendingSteady ==
    /\ consumer = "dropping" => pending = << >>
    /\ \A i \in 1 .. Len(pending) : ~pending[i].delimiter

LEMMA ChainInvParts ==
  ChainInv <=> /\ PendingSteady
               /\ ChainSteady(Chain, frame, sentBytes, lengths,
                              ~dropping /\ producer # "overflow")
BY DEF ChainInv, PendingSteady, ChainSteady

\* A fed byte is sent, whether it is inserted or not.
LEMMA FeedSends ==
  ASSUME TypeInv, ChainInv, NEW b, NextByte(b), TypeInv'
  PROVE  /\ Sends(frame, sentBytes, lengths, frame', sentBytes', lengths')
         /\ AllSent(Chain, frame', sentBytes') /\ Gapless(Chain, lengths')
         /\ frame' # frame => EndsAt(Chain, frame', sentBytes')
         /\ \A g \in 1 .. frame - 1 : lengths'[g] = lengths[g]
<1>1. /\ frame \in Nat /\ sentBytes \in Nat /\ lengths \in Seq(Nat)
      /\ frame = Len(lengths) + 1
  BY SizeAssumption DEF TypeInv, TypeOK
<1>2. Chain \in Seq(Bytes) /\ AllSent(Chain, frame, sentBytes) /\ Gapless(Chain, lengths)
  BY ChainParts DEF ChainInv
<1>3. Sends(frame, sentBytes, lengths, frame', sentBytes', lengths')  BY SendsByte
<1>4. QED  BY <1>1, <1>2, <1>3, SentStays

LEMMA FeedChain ==
  ASSUME TypeInv, TypeInv', ChainInv, Feed
  PROVE  ChainInv'
<1>0. frame \in Nat  BY DEF TypeInv, TypeOK
<1>1. ASSUME NEW b, FeedDropped(b)  PROVE ChainInv'
  <2>1. /\ NextByte(b) /\ dropping' = ~b.delimiter
        /\ UNCHANGED <<producer, consumer, pending, buffer>>
    BY <1>1 DEF FeedDropped, consumerVars
  <2>2. Chain' = Chain  BY <2>1 DEF Chain
  <2>3. /\ AllSent(Chain, frame', sentBytes') /\ Gapless(Chain, lengths')
        /\ frame' # frame => EndsAt(Chain, frame', sentBytes')
    BY <2>1, FeedSends
  <2>4. ~dropping' => frame' # frame
    <3>1. b.delimiter => frame' = frame + 1  BY <2>1, NextByteType
    <3>2. ~dropping' => b.delimiter
      <4>1. dropping' = ~b.delimiter  BY <2>1
      <4>2. QED  BY <4>1, Zenon
    <3>3. b.delimiter => frame' # frame  BY <1>0, <3>1
    <3>4. QED  BY <3>2, <3>3
  <2>5. QED  BY <2>1, <2>2, <2>3, <2>4 DEF ChainInv
<1>2. ASSUME NEW b, FeedInserted(b)  PROVE ChainInv'
  <2>1. /\ NextByte(b) /\ ~dropping /\ ~dropping' /\ producer = "idle"
        /\ buffer' = Append(buffer, b) /\ UNCHANGED <<consumer, pending>>
    BY <1>2 DEF FeedInserted, NextByte, consumerVars
  <2>2. /\ b \in Bytes /\ b.frame = frame
        /\ b.delimiter <=> frame' = frame + 1
        /\ ~b.delimiter => b.pos = sentBytes + 1
    <3>1. /\ b \in Bytes /\ b.frame = frame
          /\ b.delimiter => frame' = frame + 1
          /\ ~b.delimiter => b.pos = sentBytes + 1 /\ frame' = frame
      BY <2>1, NextByteType
    <3>2. frame + 1 # frame  BY <1>0
    <3>3. QED  BY <3>1, <3>2
  <2>3. Chain' = Append(Chain, b)  BY <2>1, <2>2, ChainGrows
  <2>4. /\ frame \in Nat /\ sentBytes \in Nat /\ lengths \in Seq(Nat)
        /\ frame = Len(lengths) + 1 /\ Chain \in Seq(Bytes)
    BY SizeAssumption, ChainParts DEF TypeInv, TypeOK
  <2>5. /\ AllSent(Chain, frame, sentBytes) /\ InOrder(Chain) /\ Gapless(Chain, lengths)
        /\ EndsAt(Chain, frame, sentBytes)
    BY <2>1 DEF ChainInv
  <2>6. Sends(frame, sentBytes, lengths, frame', sentBytes', lengths')  BY <2>1, SendsByte
  <2>7. /\ AllSent(Chain', frame', sentBytes') /\ InOrder(Chain') /\ Gapless(Chain', lengths')
        /\ EndsAt(Chain', frame', sentBytes')
    BY <2>2, <2>3, <2>4, <2>5, <2>6, InsertedFollows
  <2>8. QED  BY <2>1, <2>7 DEF ChainInv
<1>3. ASSUME NEW b, FeedRefused(b)  PROVE ChainInv'
  <2>1. NextByte(b) /\ producer' = "overflow" /\ UNCHANGED <<consumer, pending, buffer>>
    BY <1>3 DEF FeedRefused, consumerVars
  <2>2. Chain' = Chain  BY <2>1 DEF Chain
  <2>3. QED  BY <2>1, <2>2, FeedSends DEF ChainInv
<1>4. CASE StoreOverflow
  <2>1. /\ dropping' /\ Chain' = Chain
        /\ UNCHANGED <<consumer, pending, frame, sentBytes, lengths>>
    BY <1>4 DEF StoreOverflow, StartDropping, consumerVars, senderVars, Chain
  <2>2. QED  BY <2>1 DEF ChainInv
<1>5. CASE Callback
  <2>1. /\ producer = "callback" /\ Chain' = Chain
        /\ UNCHANGED <<dropping, consumer, pending, frame, sentBytes, lengths>>
    BY <1>5 DEF Callback, consumerVars, senderVars, Chain
  <2>2. QED  BY <2>1 DEF ChainInv
<1>6. QED  BY <1>1, <1>2, <1>3, <1>4, <1>5 DEF Feed

\* A step of the consumer that leaves what remains of the chain in order.
LEMMA TakenChain ==
  ASSUME TypeInv, TypeInv', ChainInv, NEW n, Rest(Chain', Chain, n),
         UNCHANGED <<senderVars, producerVars>>, PendingSteady'
  PROVE  ChainInv'
<1>1. UNCHANGED <<frame, sentBytes, lengths, dropping, producer>>
  BY DEF senderVars, producerVars
<1>2. Chain \in Seq(Bytes) /\ Chain' \in Seq(Bytes)
  <2>1. pending' \in Seq(Bytes) /\ buffer' \in Seq(Bytes)  BY DEF TypeInv, TypeOK
  <2>2. QED  BY <2>1, ChainParts, ConcatProperties DEF Chain
<1>3. /\ AllSent(Chain', frame, sentBytes) /\ InOrder(Chain') /\ Gapless(Chain', lengths)
      /\ EndsAt(Chain, frame, sentBytes) => EndsAt(Chain', frame, sentBytes)
  BY <1>2, RestKeeps DEF ChainInv
<1>4. QED  BY <1>1, <1>3 DEF ChainInv, PendingSteady

LEMMA ConsumeChain ==
  ASSUME TypeInv, TypeInv', ChainInv, Consume
  PROVE  ChainInv'
<1>1. /\ Len(<< >>) = 0 /\ Len(pending) \in Nat /\ Chain \in Seq(Bytes)
  BY EmptySeq, ChainParts
<1>2. ASSUME UNCHANGED <<senderVars, producerVars, pending, buffer>>,
             consumer' # "dropping" \/ pending = << >>
      PROVE  ChainInv'
  <2>1. UNCHANGED <<frame, sentBytes, lengths, dropping, producer>> /\ Chain' = Chain
    BY <1>2 DEF senderVars, producerVars, Chain
  <2>2. QED  BY <1>2, <2>1 DEF ChainInv
<1>3. ASSUME pending' = << >>  PROVE PendingSteady'
  BY <1>1, <1>3 DEF PendingSteady
<1>4. ASSUME NEW c, TryReadFrame(c)  PROVE ChainInv'
  BY <1>2, <1>4 DEF TryReadFrame
<1>5. CASE ReadDelimiter
  <2>1. /\ pending' = << >> /\ buffer # << >> /\ buffer' = Tail(buffer)
        /\ UNCHANGED <<senderVars, producerVars>>
    BY <1>5 DEF ReadDelimiter, Remove, ClearPending
  <2>2. QED  BY <1>3, <2>1, ChainShrinks, TakenChain
<1>6. CASE ReadData
  <2>1. /\ pending' = Append(pending, Head(buffer)) /\ buffer # << >>
        /\ buffer' = Tail(buffer) /\ UNCHANGED <<senderVars, producerVars>>
        /\ consumer' # "dropping" /\ ~Head(buffer).delimiter
    BY <1>6 DEF ReadData, Remove
  <2>2. PendingSteady'
    <3>1. pending \in Seq(Bytes) /\ Head(buffer) \in Bytes
      BY <1>6, RemoveType DEF ReadData, TypeInv, TypeOK
    <3>2. /\ Len(pending') = Len(pending) + 1 /\ pending'[Len(pending) + 1] = Head(buffer)
          /\ \A i \in 1 .. Len(pending) : pending'[i] = pending[i]
      BY <2>1, <3>1, AppendProperties
    <3>3. \A i \in 1 .. Len(pending') : ~pending'[i].delimiter
      BY <1>1, <2>1, <3>2 DEF ChainInv
    <3>4. QED  BY <2>1, <3>3 DEF PendingSteady
  <2>3. QED  BY <2>1, <2>2, ChainShrinks, TakenChain
<1>7. CASE ReadTooLong
  <2>1. /\ pending' = << >> /\ buffer # << >> /\ buffer' = Tail(buffer)
        /\ UNCHANGED <<senderVars, producerVars>>
    BY <1>7 DEF ReadTooLong, Remove, ClearPending
  <2>2. QED  BY <1>3, <2>1, ChainShrinks, TakenChain
<1>8. CASE ReadEmpty
  BY <1>2, <1>8 DEF ReadEmpty, RemoveNothing
<1>9. CASE ExchangeOverflow
  <2>1. pending' = << >> /\ buffer' = buffer /\ UNCHANGED <<senderVars, producerVars>>
    BY <1>9 DEF ExchangeOverflow, ClearPending
  <2>2. QED  BY <1>3, <2>1, ChainShrinks, TakenChain
<1>10. CASE ExchangeNothing
  BY <1>2, <1>10 DEF ExchangeNothing, Return
<1>11. CASE DropByte
  <2>1. /\ pending = << >> /\ pending' = << >> /\ buffer # << >> /\ buffer' = Tail(buffer)
        /\ UNCHANGED <<senderVars, producerVars>>
    BY <1>11 DEF DropByte, Remove, ChainInv
  <2>2. QED  BY <1>3, <2>1, ChainShrinks, TakenChain
<1>12. CASE DropEmpty
  BY <1>2, <1>12 DEF DropEmpty, RemoveNothing, Return
<1>13. QED
  BY <1>4, <1>5, <1>6, <1>7, <1>8, <1>9, <1>10, <1>11, <1>12 DEF Consume, Step

LEMMA ChainStep == TypeInv /\ ChainInv /\ [Next]_vars => ChainInv'
<1> SUFFICES ASSUME TypeInv, ChainInv, [Next]_vars PROVE ChainInv'  OBVIOUS
<1>1. CASE UNCHANGED vars
  BY <1>1 DEF vars, senderVars, producerVars, consumerVars, Chain, ChainInv
<1>2. TypeInv'  BY TypeStep
<1>3. QED  BY <1>1, <1>2, FeedChain, ConsumeChain DEF Next

LEMMA InitChain == Init => ChainInv
<1> SUFFICES ASSUME Init PROVE ChainInv  OBVIOUS
<1>1. pending = << >> /\ Len(Chain) = 0
  BY ChainParts, InitType, EmptySeq DEF Init
<1>2. QED
  BY <1>1, EmptySeq DEF Init, ChainInv, AllSent, InOrder, Gapless, EndsAt

-----------------------------------------------------------------------------
(* What was delivered.                                                     *)

\* r is over: its frames were sent, and its bytes before those of the chain c.
ResultBehind(r, c, f, k) ==
    /\ r.end < f
    /\ r.status = "OK" =>
         \A m \in 1 .. Len(r.bytes) :
             /\ WasSent(r.bytes[m], f, k)
             /\ \A j \in 1 .. Len(c) : Before(r.bytes[m], c[j])

\* The bytes of r leave out nothing, between them or before the delimiter that ended it.
HoleFree(r, l) ==
    \A k \in 1 .. Len(r.bytes) :
        IF k < Len(r.bytes)
        THEN r.bytes[k + 1].frame = r.bytes[k].frame => r.bytes[k + 1].pos = r.bytes[k].pos + 1
        ELSE r.bytes[k].frame = r.end => r.bytes[k].pos = l[r.bytes[k].frame]

ResultsBehind == \A i \in 1 .. Len(results) : ResultBehind(results[i], Chain, frame, sentBytes)

OutInv == ResultsBehind /\ DeliveredInOrder /\ NoHoleInFrame

LEMMA NoHoleIsHoleFree ==
  NoHoleInFrame <=> \A i \in Delivered : HoleFree(results[i], lengths)
BY DEF NoHoleInFrame, HoleFree

LEMMA ResultParts ==
  ASSUME TypeInv, NEW i \in 1 .. Len(results)
  PROVE  /\ results[i] \in Result /\ results[i].bytes \in Seq(Bytes)
         /\ results[i].end \in Nat /\ Len(results[i].bytes) \in Nat
         /\ \A m \in 1 .. Len(results[i].bytes) : results[i].bytes[m] \in Bytes
<1>1. results \in Seq(Result)  BY DEF TypeInv, TypeOK, Result
<1>2. results[i] \in Result  BY <1>1, ElementOfSeq
<1>3. results[i].bytes \in Seq(Bytes) /\ results[i].end \in Nat  BY <1>2 DEF Result
<1>4. QED  BY <1>2, <1>3, ElementOfSeq

\* The byte that is sent next comes after all that were sent.
LEMMA SentBeforeNext ==
  ASSUME NEW f \in Nat, NEW k \in Nat, NEW l, NEW f2, NEW k2, NEW l2,
         Sends(f, k, l, f2, k2, l2), NEW a \in Bytes, WasSent(a, f, k),
         NEW b \in Bytes, b.frame = f, ~b.delimiter => b.pos = k + 1
  PROVE  WasSent(a, f2, k2) /\ Before(a, b)
<1>1. a.frame \in Nat /\ a.pos \in Nat /\ a.delimiter \in BOOLEAN  BY DEF Bytes
<1>2. WasSent(a, f2, k2)  BY <1>1 DEF WasSent, Sends
<1>3. Before(a, b)  BY <1>1 DEF WasSent, Before
<1>4. QED  BY <1>2, <1>3

LEMMA FeedOut ==
  ASSUME TypeInv, TypeInv', ChainInv, OutInv, Feed
  PROVE  OutInv'
<1>1. UNCHANGED <<pending, results>>
  BY DEF Feed, FeedDropped, FeedInserted, FeedRefused, StoreOverflow, Callback, consumerVars
<1>2. /\ frame \in Nat /\ sentBytes \in Nat /\ frame = Len(lengths) + 1 /\ Len(lengths) \in Nat
  BY SizeAssumption DEF TypeInv, TypeOK
<1>3. DeliveredInOrder'  BY <1>1 DEF OutInv, DeliveredInOrder, Delivered
<1>4. CASE UNCHANGED <<frame, sentBytes, lengths, buffer>>
  <2>1. Chain' = Chain /\ Delivered' = Delivered  BY <1>1, <1>4 DEF Chain, Delivered
  <2>2. ResultsBehind'  BY <1>1, <1>4, <2>1 DEF OutInv, ResultsBehind
  <2>3. NoHoleInFrame'  BY <1>1, <1>4, <2>1 DEF OutInv, NoHoleInFrame
  <2>4. QED  BY <1>3, <2>2, <2>3 DEF OutInv
<1>5. ASSUME NEW b, NextByte(b), buffer' = buffer \/ buffer' = Append(buffer, b)
      PROVE  OutInv'
  <2>1. b \in Bytes /\ b.frame = frame /\ (~b.delimiter => b.pos = sentBytes + 1)
    BY <1>5, NextByteType
  <2>2. /\ Sends(frame, sentBytes, lengths, frame', sentBytes', lengths')
        /\ \A g \in 1 .. frame - 1 : lengths'[g] = lengths[g]
    BY <1>5, FeedSends
  <2>3. frame' \in Nat /\ frame <= frame'  BY <1>2, <2>2 DEF Sends
  <2>4. Chain' = Chain \/ Chain' = Append(Chain, b)
    BY <1>1, <1>5, <2>1, ChainGrows DEF Chain
  <2>5. \A j \in 1 .. Len(Chain') :
             (j \in 1 .. Len(Chain) /\ Chain'[j] = Chain[j]) \/ Chain'[j] = b
    <3>1. Chain \in Seq(Bytes) /\ Len(Chain) \in Nat  BY ChainParts
    <3>2. CASE Chain' = Chain  BY <3>2
    <3>3. CASE Chain' = Append(Chain, b)
      <4>1. /\ Len(Chain') = Len(Chain) + 1 /\ Chain'[Len(Chain) + 1] = b
            /\ \A j \in 1 .. Len(Chain) : Chain'[j] = Chain[j]
        BY <2>1, <3>1, <3>3, AppendProperties
      <4>2. \A j \in 1 .. Len(Chain') : j \in 1 .. Len(Chain) \/ j = Len(Chain) + 1
        BY <3>1, <4>1
      <4>3. QED  BY <4>1, <4>2
    <3>4. QED  BY <2>4, <3>2, <3>3
  <2>6. ASSUME NEW i \in 1 .. Len(results)
        PROVE  ResultBehind(results[i], Chain', frame', sentBytes')
    <3>1. ResultBehind(results[i], Chain, frame, sentBytes)  BY DEF OutInv, ResultsBehind
    <3>2. results[i].end < frame'  BY <1>2, <2>3, <3>1, ResultParts DEF ResultBehind
    <3>3. ASSUME results[i].status = "OK", NEW m \in 1 .. Len(results[i].bytes)
          PROVE  /\ WasSent(results[i].bytes[m], frame', sentBytes')
                 /\ \A j \in 1 .. Len(Chain') : Before(results[i].bytes[m], Chain'[j])
      <4> DEFINE a == results[i].bytes[m]
      <4>1. /\ a \in Bytes /\ WasSent(a, frame, sentBytes)
            /\ \A j \in 1 .. Len(Chain) : Before(a, Chain[j])
        BY <3>1, <3>3, ResultParts DEF ResultBehind
      <4> HIDE DEF a
      <4>2. WasSent(a, frame', sentBytes') /\ Before(a, b)
        BY <1>2, <2>1, <2>2, <4>1, SentBeforeNext
      <4>3. \A j \in 1 .. Len(Chain') : Before(a, Chain'[j])  BY <2>5, <4>1, <4>2
      <4>4. QED  BY <4>2, <4>3 DEF a
    <3>4. QED  BY <3>2, <3>3 DEF ResultBehind
  <2>7. ResultsBehind'  BY <1>1, <2>6 DEF ResultsBehind
  <2>8. ASSUME NEW i \in Delivered  PROVE HoleFree(results[i], lengths')
    <3>1. HoleFree(results[i], lengths)  BY NoHoleIsHoleFree DEF OutInv
    <3>2. i \in 1 .. Len(results) /\ results[i].status = "OK"  BY DEF Delivered
    <3>3. ResultBehind(results[i], Chain, frame, sentBytes)
      BY <3>2 DEF OutInv, ResultsBehind
    <3>4. results[i].end \in Nat /\ results[i].end < frame
      BY <3>2, <3>3, ResultParts DEF ResultBehind
    <3>5. ASSUME NEW k \in 1 .. Len(results[i].bytes),
                 results[i].bytes[k].frame = results[i].end
          PROVE  results[i].bytes[k].frame \in 1 .. frame - 1
      <4>1. results[i].bytes[k].frame \in 1 .. frame
        BY <3>2, <3>3 DEF ResultBehind, WasSent
      <4>2. QED  BY <1>2, <3>4, <3>5, <4>1
    <3>6. QED  BY <2>2, <3>1, <3>5 DEF HoleFree
  <2>9. NoHoleInFrame'
    <3>1. Delivered' = Delivered  BY <1>1 DEF Delivered
    <3>2. \A i \in Delivered : HoleFree(results[i], lengths)'  BY <1>1, <2>8 DEF HoleFree
    <3>3. QED  BY <1>1, <3>1, <3>2 DEF NoHoleInFrame, HoleFree
  <2>10. QED  BY <1>3, <2>7, <2>9 DEF OutInv
<1>6. ASSUME NEW b, FeedDropped(b) \/ FeedInserted(b) \/ FeedRefused(b)  PROVE OutInv'
  BY <1>5, <1>6 DEF FeedDropped, FeedInserted, FeedRefused
<1>7. CASE StoreOverflow \/ Callback
  BY <1>4, <1>7 DEF StoreOverflow, Callback, senderVars
<1>8. QED  BY <1>6, <1>7 DEF Feed

\* What was delivered stays behind what remains of the chain.
LEMMA BehindRest ==
  ASSUME NEW r, NEW f, NEW k, NEW c, NEW s, NEW n, Rest(s, c, n), Len(c) \in Nat,
         ResultBehind(r, c, f, k)
  PROVE  ResultBehind(r, s, f, k)
<1>1. \A i \in 1 .. Len(s) : n + i \in 1 .. Len(c) /\ s[i] = c[n + i]
  BY DEF Rest
<1>2. QED  BY <1>1 DEF ResultBehind

\* A step of the consumer that records nothing.
LEMMA QuietOut ==
  ASSUME TypeInv, TypeInv', OutInv, NEW n, Rest(Chain', Chain, n),
         UNCHANGED <<senderVars, results>>
  PROVE  OutInv'
<1>1. UNCHANGED <<frame, sentBytes, lengths>> /\ Delivered' = Delivered
  BY DEF senderVars, Delivered
<1>2. ASSUME NEW i \in 1 .. Len(results)
      PROVE  ResultBehind(results[i], Chain', frame, sentBytes)
  BY BehindRest, ChainParts DEF OutInv, ResultsBehind
<1>3. ResultsBehind'  BY <1>1, <1>2 DEF ResultsBehind
<1>4. DeliveredInOrder' /\ NoHoleInFrame'
  BY <1>1 DEF OutInv, DeliveredInOrder, NoHoleInFrame
<1>5. QED  BY <1>3, <1>4 DEF OutInv

\* A step that records r, which is behind the chain, hole free if it is delivered, and after
\* what was delivered before.
LEMMA RecordOut ==
  ASSUME TypeInv, TypeInv', OutInv, NEW n, Rest(Chain', Chain, n), UNCHANGED senderVars,
         NEW r \in Result, results' = Append(results, r),
         ResultBehind(r, Chain', frame, sentBytes),
         r.status = "OK" =>
           /\ HoleFree(r, lengths)
           /\ \A l \in 1 .. Len(r.bytes) :
                /\ \A k \in 1 .. Len(r.bytes) : k < l => Earlier(r.bytes[k], r.bytes[l])
                /\ \A a \in Bytes : (\A j \in 1 .. Len(Chain) : Before(a, Chain[j])) =>
                                       Earlier(a, r.bytes[l])
  PROVE  OutInv'
<1>1. UNCHANGED <<frame, sentBytes, lengths>>  BY DEF senderVars
<1>2. results \in Seq(Result)  BY DEF TypeInv, TypeOK, Result
<1>3. /\ Len(results) \in Nat /\ Len(results') = Len(results) + 1
      /\ results'[Len(results) + 1] = r
      /\ \A i \in 1 .. Len(results) : results'[i] = results[i]
  BY <1>2, AppendProperties
<1>4. ASSUME NEW i \in 1 .. Len(results')
      PROVE  i \in 1 .. Len(results) \/ i = Len(results) + 1
  BY <1>3
<1>5. ResultsBehind'
  <2>1. ASSUME NEW i \in 1 .. Len(results)
        PROVE  ResultBehind(results[i], Chain', frame, sentBytes)
    BY BehindRest, ChainParts DEF OutInv, ResultsBehind
  <2>2. \A i \in 1 .. Len(results') : ResultBehind(results'[i], Chain', frame, sentBytes)
    BY <1>3, <1>4, <2>1
  <2>3. QED  BY <1>1, <2>2 DEF ResultsBehind
<1>6. ASSUME NEW i \in Delivered'
      PROVE  \/ i \in Delivered /\ i \in 1 .. Len(results) /\ results'[i] = results[i]
             \/ i = Len(results) + 1 /\ r.status = "OK" /\ results'[i] = r
  BY <1>3, <1>4 DEF Delivered
<1>7. NoHoleInFrame'
  <2>1. \A i \in Delivered : HoleFree(results[i], lengths)  BY NoHoleIsHoleFree DEF OutInv
  <2>2. \A i \in Delivered' : HoleFree(results'[i], lengths)  BY <1>6, <2>1
  <2>3. QED  BY <1>1, <2>2 DEF NoHoleInFrame, HoleFree
<1>8. ASSUME NEW i \in Delivered', NEW j \in Delivered',
             NEW k \in 1 .. Len(results'[i].bytes), NEW l \in 1 .. Len(results'[j].bytes),
             i < j \/ (i = j /\ k < l)
      PROVE  Earlier(results'[i].bytes[k], results'[j].bytes[l])
  <2>1. CASE j \in Delivered /\ j \in 1 .. Len(results) /\ results'[j] = results[j]
    <3>1. i # Len(results) + 1  BY <1>3, <1>8, <2>1
    <3>2. i \in Delivered /\ results'[i] = results[i]  BY <1>6, <3>1
    <3>3. QED  BY <1>8, <2>1, <3>2 DEF OutInv, DeliveredInOrder
  <2>2. CASE j = Len(results) + 1 /\ r.status = "OK" /\ results'[j] = r
    <3>1. CASE i \in Delivered /\ i \in 1 .. Len(results) /\ results'[i] = results[i]
      <4>1. results[i].status = "OK"  BY <3>1 DEF Delivered
      <4>2. ResultBehind(results[i], Chain, frame, sentBytes)
        BY <3>1 DEF OutInv, ResultsBehind
      <4>3. /\ results[i].bytes[k] \in Bytes
            /\ \A m \in 1 .. Len(Chain) : Before(results[i].bytes[k], Chain[m])
        BY <3>1, <4>1, <4>2, ResultParts DEF ResultBehind
      <4>4. QED  BY <2>2, <3>1, <4>3
    <3>2. CASE i = Len(results) + 1
      <4>1. k < l  BY <1>3, <1>8, <2>2, <3>2
      <4>2. QED  BY <2>2, <3>2, <4>1
    <3>3. QED  BY <1>6, <3>1, <3>2
  <2>3. QED  BY <1>6, <2>1, <2>2
<1>9. DeliveredInOrder'  BY <1>8 DEF DeliveredInOrder
<1>10. QED  BY <1>5, <1>7, <1>9 DEF OutInv

\* The pending frame when its delimiter is read: d ends it, and nothing is missing before d.
LEMMA PendingFrame ==
  ASSUME TypeInv, TypeInv', ChainInv, ReadDelimiter,
         NEW d, d = Head(buffer), NEW r \in Result, r.bytes = pending, r.end = d.frame
  PROVE  /\ ResultBehind(r, Chain', frame, sentBytes)
         /\ HoleFree(r, lengths)
         /\ \A l \in 1 .. Len(r.bytes) :
              /\ \A k \in 1 .. Len(r.bytes) : k < l => Earlier(r.bytes[k], r.bytes[l])
              /\ \A a \in Bytes : (\A j \in 1 .. Len(Chain) : Before(a, Chain[j])) =>
                                     Earlier(a, r.bytes[l])
<1>1. /\ buffer # << >> /\ d.delimiter /\ d \in Bytes /\ d = buffer[1]
      /\ pending' = << >> /\ buffer' = Tail(buffer) /\ Len(buffer) \in Nat \ {0}
  <2>1. buffer # << >> /\ d.delimiter /\ d \in Bytes /\ Len(buffer) \in Nat \ {0}
    BY RemoveType DEF ReadDelimiter
  <2>2. d = buffer[1]  BY <2>1, HeadTailProperties DEF TypeInv, TypeOK
  <2>3. QED  BY <2>1, <2>2 DEF ReadDelimiter, Remove, ClearPending
<1> DEFINE n == Len(pending)
<1>2. /\ n \in Nat /\ Len(Chain) = n + Len(buffer) /\ Chain \in Seq(Bytes)
      /\ \A i \in 1 .. n : Chain[i] = pending[i] /\ i \in 1 .. Len(Chain)
      /\ Chain[n + 1] = d /\ n + 1 \in 1 .. Len(Chain)
  BY <1>1, ChainParts
<1>3. Rest(Chain', Chain, n + 1)  BY <1>1, ChainShrinks
<1>4. \A i \in 1 .. n : ~Chain[i].delimiter  BY <1>2 DEF ChainInv
<1>5. /\ \A i \in 1 .. Len(Chain) : WasSent(Chain[i], frame, sentBytes)
      /\ \A i, j \in 1 .. Len(Chain) : i < j => Before(Chain[i], Chain[j])
      /\ \A i, j \in 1 .. Len(Chain) : j = i + 1 => NoGap(Chain[i], Chain[j], lengths)
  BY DEF ChainInv, AllSent, InOrder, Gapless
<1> HIDE DEF n
<1>6. Len(r.bytes) = n /\ \A i \in 1 .. n : r.bytes[i] = Chain[i]
  BY <1>2 DEF n
<1>7. ResultBehind(r, Chain', frame, sentBytes)
  <2>1. r.end < frame
    <3>1. frame \in Nat  BY DEF TypeInv, TypeOK
    <3>2. d.frame \in 1 .. frame /\ d.frame # frame  BY <1>1, <1>2, <1>5 DEF WasSent
    <3>3. QED  BY <3>1, <3>2
  <2>2. \A j \in 1 .. Len(Chain') :
             /\ (n + 1) + j \in 1 .. Len(Chain) /\ Chain'[j] = Chain[(n + 1) + j]
             /\ \A m \in 1 .. n : m < (n + 1) + j
    <3>1. /\ Len(Chain) \in Nat /\ Len(Chain') = Len(Chain) - (n + 1)
          /\ \A j \in 1 .. Len(Chain') : Chain'[j] = Chain[(n + 1) + j]
      BY <1>2, <1>3 DEF Rest
    <3>2. \A j \in 1 .. Len(Chain') : (n + 1) + j \in 1 .. Len(Chain)
      BY <1>2, <3>1
    <3>3. \A j \in 1 .. Len(Chain') : \A m \in 1 .. n : m < (n + 1) + j
      BY <1>2, <3>1
    <3>4. QED  BY <3>1, <3>2, <3>3
  <2>3. \A m \in 1 .. n, j \in 1 .. Len(Chain') : Before(Chain[m], Chain'[j])
    BY <1>2, <1>5, <2>2
  <2>4. QED  BY <1>2, <1>5, <1>6, <2>1, <2>3 DEF ResultBehind
<1>8. HoleFree(r, lengths)
  <2> SUFFICES ASSUME NEW k \in 1 .. n
               PROVE  IF k < n
                      THEN r.bytes[k + 1].frame = r.bytes[k].frame =>
                             r.bytes[k + 1].pos = r.bytes[k].pos + 1
                      ELSE r.bytes[k].frame = r.end =>
                             r.bytes[k].pos = lengths[r.bytes[k].frame]
    BY <1>6 DEF HoleFree
  <2>1. k \in 1 .. Len(Chain) /\ k + 1 \in 1 .. Len(Chain)  BY <1>1, <1>2
  <2>2. NoGap(Chain[k], Chain[k + 1], lengths)  BY <1>5, <2>1
  <2>3. CASE k < n
    <3>1. k + 1 \in 1 .. n  BY <1>2, <2>3
    <3>2. QED  BY <1>4, <1>6, <2>2, <2>3, <3>1 DEF NoGap
  <2>4. CASE ~(k < n)
    <3>1. Chain[k + 1] = d  BY <1>2, <2>4
    <3>2. QED  BY <1>1, <1>6, <2>2, <2>4, <3>1 DEF NoGap
  <2>5. QED  BY <2>3, <2>4
<1>9. ASSUME NEW l \in 1 .. n
      PROVE  /\ \A k \in 1 .. n : k < l => Earlier(r.bytes[k], r.bytes[l])
             /\ \A a \in Bytes : (\A j \in 1 .. Len(Chain) : Before(a, Chain[j])) =>
                                    Earlier(a, r.bytes[l])
  <2>1. \A a : Before(a, Chain[l]) => Earlier(a, Chain[l])
    BY <1>4 DEF Before, Earlier
  <2>2. QED  BY <1>2, <1>5, <1>6, <2>1
<1>10. QED  BY <1>6, <1>7, <1>8, <1>9

LEMMA ConsumeOut ==
  ASSUME TypeInv, TypeInv', ChainInv, OutInv, Consume
  PROVE  OutInv'
<1>1. Len(pending) \in Nat /\ Len(Chain) \in Nat /\ << >> \in Seq(Bytes) /\ frame > 0
  BY ChainParts, EmptySeq DEF TypeInv, TypeOK
<1>2. ASSUME UNCHANGED <<senderVars, results, pending, buffer>>  PROVE OutInv'
  <2>1. Rest(Chain', Chain, 0)  BY <1>1, <1>2 DEF Rest, Chain
  <2>2. QED  BY <1>2, <2>1, QuietOut
<1>3. ASSUME NEW c, TryReadFrame(c)  PROVE OutInv'
  BY <1>2, <1>3 DEF TryReadFrame
<1>4. CASE ReadDelimiter
  <2>1. PICK s \in {"OK", "BufferTooSmall"} : Record(s, Head(buffer).frame)
    BY <1>4 DEF ReadDelimiter
  <2>2. /\ buffer # << >> /\ buffer' = Tail(buffer) /\ pending' = << >>
        /\ consumer # "idle" /\ Head(buffer) \in Bytes /\ UNCHANGED senderVars
    BY <1>4, RemoveType DEF ReadDelimiter, Remove, ClearPending
  <2> DEFINE r == [status |-> s, capacity |-> capacity, bytes |-> pending,
                   end |-> Head(buffer).frame]
  <2>3. r \in Result  BY <2>2 DEF TypeInv, TypeOK, Result, Bytes
  <2>4. results' = Append(results, r)  BY <2>1 DEF Record
  <2>5. r.bytes = pending /\ r.end = Head(buffer).frame  OBVIOUS
  <2> HIDE DEF r
  <2>6. Rest(Chain', Chain, Len(pending) + 1)  BY <2>2, ChainShrinks
  <2>7. /\ ResultBehind(r, Chain', frame, sentBytes)
        /\ HoleFree(r, lengths)
        /\ \A l \in 1 .. Len(r.bytes) :
             /\ \A k \in 1 .. Len(r.bytes) : k < l => Earlier(r.bytes[k], r.bytes[l])
             /\ \A a \in Bytes : (\A j \in 1 .. Len(Chain) : Before(a, Chain[j])) =>
                                    Earlier(a, r.bytes[l])
    BY <1>4, <2>3, <2>5, PendingFrame
  <2>8. QED  BY <2>2, <2>3, <2>4, <2>6, <2>7, RecordOut
<1>5. CASE ReadData
  <2>1. Rest(Chain', Chain, 0)
    BY <1>5, ChainShrinks DEF ReadData, Remove
  <2>2. QED  BY <1>5, <2>1, QuietOut DEF ReadData, Remove
<1>6. CASE ReadTooLong
  <2>1. /\ buffer # << >> /\ buffer' = Tail(buffer) /\ pending' = << >>
        /\ consumer # "idle" /\ Record("BufferTooSmall", 0) /\ UNCHANGED senderVars
    BY <1>6 DEF ReadTooLong, Remove, ClearPending
  <2> DEFINE r == [status |-> "BufferTooSmall", capacity |-> capacity, bytes |-> pending,
                   end |-> 0]
  <2>2. r \in Result  BY <2>1 DEF TypeInv, TypeOK, Result
  <2>3. results' = Append(results, r)  BY <2>1 DEF Record
  <2>4. r.status = "BufferTooSmall" /\ r.end = 0  OBVIOUS
  <2> HIDE DEF r
  <2>5. Rest(Chain', Chain, Len(pending) + 1)  BY <2>1, ChainShrinks
  <2>6. ResultBehind(r, Chain', frame, sentBytes)  BY <1>1, <2>4 DEF ResultBehind
  <2>7. QED  BY <2>1, <2>2, <2>3, <2>4, <2>5, <2>6, RecordOut
<1>7. CASE ReadEmpty  BY <1>2, <1>7 DEF ReadEmpty, RemoveNothing
<1>8. CASE ExchangeOverflow
  <2>1. Rest(Chain', Chain, Len(pending))
    BY <1>8, ChainShrinks DEF ExchangeOverflow, ClearPending
  <2>2. QED  BY <1>8, <2>1, QuietOut DEF ExchangeOverflow
<1>9. CASE ExchangeNothing  BY <1>2, <1>9 DEF ExchangeNothing
<1>10. CASE DropByte
  <2>1. pending = << >> /\ pending' = << >> /\ buffer # << >> /\ buffer' = Tail(buffer)
    BY <1>10 DEF DropByte, Remove, ChainInv
  <2>2. Rest(Chain', Chain, Len(pending) + 1)  BY <2>1, ChainShrinks
  <2>3. QED  BY <1>10, <2>2, QuietOut DEF DropByte, Remove
<1>11. CASE DropEmpty  BY <1>2, <1>11 DEF DropEmpty, RemoveNothing
<1>12. QED
  BY <1>3, <1>4, <1>5, <1>6, <1>7, <1>8, <1>9, <1>10, <1>11 DEF Consume, Step

LEMMA OutStep == TypeInv /\ ChainInv /\ OutInv /\ [Next]_vars => OutInv'
<1> SUFFICES ASSUME TypeInv, ChainInv, OutInv, [Next]_vars PROVE OutInv'  OBVIOUS
<1>1. CASE UNCHANGED vars
  BY <1>1 DEF vars, senderVars, consumerVars, Chain, Delivered, OutInv, ResultsBehind,
              DeliveredInOrder, NoHoleInFrame
<1>2. TypeInv'  BY TypeStep
<1>3. QED  BY <1>1, <1>2, FeedOut, ConsumeOut DEF Next

LEMMA InitOut == Init => OutInv
<1> SUFFICES ASSUME Init PROVE OutInv  OBVIOUS
<1>1. 1 .. Len(results) = {}  BY EmptySeq DEF Init
<1>2. QED
  BY <1>1 DEF OutInv, ResultsBehind, DeliveredInOrder, NoHoleInFrame, Delivered

LEMMA OutInvariance == Spec => [](TypeInv /\ ChainInv /\ OutInv)
<1>1. Init => TypeInv /\ ChainInv /\ OutInv  BY InitType, InitChain, InitOut
<1>2. TypeInv /\ ChainInv /\ OutInv /\ [Next]_vars => (TypeInv /\ ChainInv /\ OutInv)'
  BY TypeStep, ChainStep, OutStep
<1>3. QED  BY <1>1, <1>2, PTL DEF Spec

\* Whatever is dropped on either side, no byte is delivered twice, none before one that was
\* sent earlier, and none with a hole before it in its frame.
THEOREM AsSentOut == Spec => []DeliveredAsSent
<1>1. OutInv => DeliveredAsSent  BY DEF OutInv, DeliveredAsSent
<1>2. QED  BY <1>1, OutInvariance, PTL

-----------------------------------------------------------------------------
(* One queue.                                                              *)

Losing     == dropping \/ producer = "overflow"
Lost       == overflow \/ producer = "overflow"
Discarding == IF consumer = "dropping" THEN failure ELSE "no"

LEMMA QueueInit == Init => Queue!Init
<1> SUFFICES ASSUME Init  PROVE Queue!Init  OBVIOUS
<1>1. Chain = << >>  BY EmptySeq, ConcatEmptySeq DEF Init, Chain
<1>2. QED  BY <1>1 DEF Init, Queue!Init

\* What the parts of the queue are when a byte goes in or an interrupt's second store comes.
LEMMA QueueFeed ==
  ASSUME TypeInv, Feed
  PROVE  [Queue!Next]_(Queue!vars)
<1>1. ASSUME NEW b \in SentBytes, FeedDropped(b) \/ FeedInserted(b) \/ FeedRefused(b)
      PROVE  Queue!WriteByte
  <2>1. /\ NextByte(b) /\ b \in Bytes /\ producer = "idle" /\ frame \in Nat
        /\ UNCHANGED <<consumer, failure, status, results, pending, overflow>>
    BY <1>1, NextByteType
    DEF FeedDropped, FeedInserted, FeedRefused, consumerVars, NextByte, TypeInv, TypeOK
  <2>2. /\ b = [frame |-> frame, pos |-> sentBytes + 1, delimiter |-> FALSE]
             \/ b = [frame |-> frame, pos |-> 0, delimiter |-> TRUE]
        /\ frame' = IF b.delimiter THEN frame + 1 ELSE frame
        /\ sentBytes' = b.pos
    BY <2>1 DEF NextByte, Data, Delimiter
  <2>3. CASE FeedDropped(b)
    <3>1. Chain' = Chain  BY <2>1, <2>3 DEF FeedDropped, Chain
    <3>2. /\ dropping' = ~b.delimiter /\ producer' = "idle" /\ dropping /\ b.delimiter \in BOOLEAN
      BY <2>1, <2>3 DEF FeedDropped, Bytes
    <3>3. (dropping \/ producer = "overflow")' = ~b.delimiter  BY <3>2
    <3>4. Queue!LoseMore(b)  BY <2>1, <3>1, <3>2, <3>3 DEF Queue!LoseMore
    <3>5. QED  BY <2>1, <2>2, <3>4 DEF Queue!WriteByte, Queue!Write
  <2>4. CASE FeedInserted(b)
    <3>1. Chain' = Append(Chain, b)  BY <2>1, <2>4, ChainGrows DEF FeedInserted
    <3>2. producer' # "overflow" /\ dropping' = dropping /\ ~dropping
      BY <2>4 DEF FeedInserted
    <3>3. Queue!Keep(b)  BY <2>1, <3>1, <3>2 DEF Queue!Keep
    <3>4. QED  BY <2>1, <2>2, <3>3 DEF Queue!WriteByte, Queue!Write
  <2>5. CASE FeedRefused(b)
    <3>1. Chain' = Chain  BY <2>1, <2>5 DEF FeedRefused, Chain
    <3>2. Len(Chain) >= BufferSize
      BY <2>5, ChainParts, SizeAssumption DEF FeedRefused
    <3>3. Queue!Lose(b)  BY <2>1, <2>5, <3>1, <3>2 DEF FeedRefused, Queue!Lose
    <3>4. QED  BY <2>1, <2>2, <3>3 DEF Queue!WriteByte, Queue!Write
  <2>6. QED  BY <1>1, <2>3, <2>4, <2>5
<1>2. CASE StoreOverflow
  <2>1. Chain' = Chain /\ Losing' = Losing /\ Lost' = Lost
    BY <1>2 DEF StoreOverflow, StartDropping, consumerVars, Chain, Losing, Lost
  <2>2. QED
    BY <1>2, <2>1 DEF StoreOverflow, senderVars, consumerVars, Queue!vars, Losing, Lost
<1>3. CASE Callback
  <2>1. Chain' = Chain /\ Losing' = Losing /\ Lost' = Lost
    BY <1>3 DEF Callback, consumerVars, Chain, Losing, Lost
  <2>2. QED  BY <1>3, <2>1 DEF Callback, senderVars, consumerVars, Queue!vars, Losing, Lost
<1>4. QED  BY <1>1, <1>2, <1>3 DEF Feed, Queue!Next

\* What is left when n bytes are gone, as the queue says it.
LEMMA RestIsDropped ==
  ASSUME TypeInv, TypeInv', NEW n \in Nat, Rest(Chain', Chain, n)
  PROVE  Queue!Drop(n) /\ (n = 0 => Chain' = Chain)
<1>1. /\ Chain \in Seq(Bytes) /\ Len(Chain) \in Nat /\ Chain' \in Seq(Bytes)
      /\ \A i \in 1 .. Len(Chain) : Chain[i] \in Bytes
  <2>1. pending' \in Seq(Bytes) /\ buffer' \in Seq(Bytes)  BY DEF TypeInv, TypeOK
  <2>2. Chain' \in Seq(Bytes)  BY <2>1, ConcatProperties DEF Chain
  <2>3. QED  BY <2>2, ChainParts, ElementOfSeq, LenProperties
<1> DEFINE c == Chain
           d == Chain'
           t == SubSeq(c, n + 1, Len(c))
<1>2. /\ n \in 0 .. Len(c) /\ Len(d) = Len(c) - n
      /\ \A i \in 1 .. Len(d) : d[i] = c[n + i]
  BY DEF Rest
<1>3. c \in Seq(Bytes) /\ d \in Seq(Bytes) /\ Len(c) \in Nat /\ \A i \in 1 .. Len(c) : c[i] \in Bytes
  BY <1>1
<1> HIDE DEF c, d
<1>4. /\ t \in Seq(Bytes) /\ Len(t) = IF n + 1 <= Len(c) THEN Len(c) - (n + 1) + 1 ELSE 0
      /\ \A i \in 1 .. Len(c) - (n + 1) + 1 : t[i] = c[(n + 1) + i - 1]
  <2>1. n + 1 \in Int /\ Len(c) \in Int /\ \A i \in n + 1 .. Len(c) : c[i] \in Bytes
    BY <1>2, <1>3
  <2>2. QED  BY <2>1, SubSeqProperties
<1>5. Len(t) = Len(d)  BY <1>2, <1>3, <1>4
<1>6. \A i \in 1 .. Len(d) : t[i] = d[i]  BY <1>2, <1>3, <1>4
<1>7. t = d  BY <1>3, <1>4, <1>5, <1>6, SeqEqual
<1>8. ASSUME n = 0  PROVE d = c  BY <1>2, <1>3, <1>8, SeqEqual
<1>9. QED  BY <1>7, <1>8 DEF c, d, Queue!Drop

\* The pending bytes are data and the first of the queue.
LEMMA PendingFirst ==
  ASSUME TypeInv, ChainInv
  PROVE  /\ Queue!IsData(Len(pending)) /\ SubSeq(Chain, 1, Len(pending)) = pending
         /\ Len(pending) \in 0 .. BufferSize
         /\ consumer = "dropping" => pending = << >>
         /\ buffer # << >> => /\ Len(pending) < Len(Chain) /\ Len(buffer) > 0
                             /\ Chain[Len(pending) + 1] = Head(buffer)
                             /\ Head(buffer) \in Bytes
<1>1. /\ pending \in Seq(Bytes) /\ buffer \in Seq(Bytes) /\ Len(pending) <= BufferSize
      /\ BufferSize \in Nat
  BY SizeAssumption DEF TypeInv, TypeOK
<1>2. /\ Chain \in Seq(Bytes) /\ Len(Chain) = Len(pending) + Len(buffer)
      /\ Len(pending) \in Nat /\ Len(buffer) \in Nat
      /\ \A i \in 1 .. Len(pending) : Chain[i] = pending[i] /\ pending[i] \in Bytes
      /\ \A i \in 1 .. Len(buffer) : Chain[Len(pending) + i] = buffer[i]
  BY <1>1, ChainParts, ElementOfSeq
<1>3. Queue!IsData(Len(pending))  BY <1>2 DEF Queue!IsData, ChainInv
<1>4. SubSeq(Chain, 1, Len(pending)) = pending
  <2> DEFINE n == Len(pending)
             t == SubSeq(Chain, 1, n)
  <2>1. n \in Nat /\ n \in Int /\ 1 \in Int  BY <1>2
  <2> HIDE DEF n
  <2>2. /\ t \in Seq(Bytes) /\ Len(t) = IF 1 <= n THEN n - 1 + 1 ELSE 0
        /\ \A i \in 1 .. n - 1 + 1 : t[i] = Chain[1 + i - 1]
    BY <1>2, <2>1, SubSeqProperties DEF n
  <2>3. Len(t) = Len(pending) /\ \A i \in 1 .. Len(pending) : t[i] = pending[i]
    BY <1>2, <2>1, <2>2 DEF n
  <2>4. t = pending  BY <1>1, <2>2, <2>3, SeqEqual
  <2>5. QED  BY <2>4 DEF n
<1>5. ASSUME buffer # << >>
      PROVE  /\ Len(pending) < Len(Chain) /\ Len(buffer) > 0
             /\ Chain[Len(pending) + 1] = Head(buffer) /\ Head(buffer) \in Bytes
  BY <1>1, <1>2, <1>5, HeadTailProperties, EmptySeq
<1>6. QED  BY <1>1, <1>2, <1>3, <1>4, <1>5 DEF ChainInv

LEMMA QueueRead ==
  ASSUME TypeInv, TypeInv', ChainInv, Consume
  PROVE  [Queue!Next]_(Queue!vars)
<1> USE DEF senderVars, producerVars
<1>0. /\ Len(pending) \in 0 .. BufferSize /\ BufferSize \in Nat \ {0} /\ Len(pending) + 1 \in Nat
      /\ \A c : capacity \in Capacities \/ consumer = "idle"
      /\ failure \in {"Overflow", "BufferTooSmall"} /\ Len(pending) \in Nat
  BY PendingFirst, SizeAssumption DEF TypeInv, TypeOK
<1>1. ASSUME NEW c, TryReadFrame(c)  PROVE UNCHANGED Queue!vars
  BY <1>1 DEF TryReadFrame, Queue!vars, Chain
<1>2. CASE ReadDelimiter
  <2>1. /\ consumer = "reading" /\ consumer' = "idle" /\ buffer # << >> /\ Head(buffer).delimiter
        /\ pending' = << >> /\ buffer' = Tail(buffer)
        /\ UNCHANGED <<frame, sentBytes, producer, dropping, overflow, failure>>
        /\ status' = IF Len(pending) > capacity THEN "BufferTooSmall" ELSE "OK"
        /\ Record(status', Head(buffer).frame)
    BY <1>2 DEF ReadDelimiter, Remove, Return, ClearPending, TooSmall
  <2>2. Rest(Chain', Chain, Len(pending) + 1)  BY <2>1, ChainShrinks
  <2>3. Queue!Drop(Len(pending) + 1)  BY <1>0, <2>2, RestIsDropped
  <2>4. Queue!Taken(status', capacity, Len(pending), Chain[Len(pending) + 1].frame)
    BY <2>1, PendingFirst DEF Record, Queue!Taken
  <2>5. Queue!Take(capacity, Len(pending))
    BY <2>1, <2>3, <2>4, PendingFirst DEF Queue!Take
  <2>6. QED  BY <1>0, <2>1, <2>5 DEF Queue!Next, Queue!Read
<1>3. CASE ReadData
  <2>1. /\ consumer = "reading" /\ consumer' = "reading" /\ buffer # << >>
        /\ buffer' = Tail(buffer) /\ pending' = Append(pending, Head(buffer))
        /\ UNCHANGED <<frame, sentBytes, producer, dropping, overflow, failure, status, results>>
    BY <1>3 DEF ReadData, Remove
  <2>2. Chain' = Chain  BY <2>1, ChainShrinks, RestIsDropped
  <2>3. QED  BY <2>1, <2>2 DEF Queue!vars
<1>4. CASE ReadTooLong
  <2>1. /\ consumer = "reading" /\ consumer' = "dropping" /\ buffer # << >>
        /\ ~Head(buffer).delimiter /\ Len(pending) >= BufferSize
        /\ pending' = << >> /\ buffer' = Tail(buffer) /\ failure' = "BufferTooSmall"
        /\ UNCHANGED <<frame, sentBytes, producer, dropping, overflow, status>>
        /\ Record("BufferTooSmall", 0)
    BY <1>4 DEF ReadTooLong, Remove, ClearPending, PendingFull
  <2>2. Len(pending) = BufferSize  BY <1>0, <2>1
  <2>3. Queue!Drop(BufferSize + 1)
    <3>1. Rest(Chain', Chain, Len(pending) + 1)  BY <2>1, ChainShrinks
    <3>2. QED  BY <1>0, <2>2, <3>1, RestIsDropped
  <2>4. Queue!IsData(BufferSize + 1)
    <3>1. \A i \in 1 .. BufferSize : ~Chain[i].delimiter  BY <2>2, PendingFirst DEF Queue!IsData
    <3>2. BufferSize < Len(Chain) /\ ~Chain[BufferSize + 1].delimiter
      BY <2>1, <2>2, PendingFirst
    <3>3. Len(Chain) \in Nat  BY ChainParts
    <3>4. QED  BY <1>0, <3>1, <3>2, <3>3 DEF Queue!IsData
  <2>5. Queue!Taken("BufferTooSmall", capacity, BufferSize, 0)
    BY <2>1, <2>2, PendingFirst DEF Record, Queue!Taken
  <2>6. Queue!Refuse(capacity)
    BY <2>1, <2>3, <2>4, <2>5 DEF Queue!Refuse
  <2>7. QED  BY <1>0, <2>1, <2>6 DEF Queue!Next, Queue!Read
<1>5. CASE ReadEmpty
  BY <1>5 DEF ReadEmpty, RemoveNothing, Queue!vars, Chain
<1>6. CASE ExchangeOverflow
  <2>1. /\ consumer = "exchange" /\ consumer' = "dropping" /\ overflow /\ ~overflow'
        /\ failure' = "Overflow" /\ pending' = << >> /\ buffer' = buffer
        /\ UNCHANGED <<frame, sentBytes, producer, dropping, status, results>>
    BY <1>6 DEF ExchangeOverflow, OverflowToFalse, ClearPending
  <2>2. Rest(Chain', Chain, Len(pending))  BY <2>1, ChainShrinks
  <2>3. Queue!Drop(Len(pending))  BY <1>0, <2>2, RestIsDropped
  <2>4. (overflow \/ producer = "overflow")' \in {FALSE, dropping \/ producer = "overflow"}
    BY <2>1
  <2>5. Queue!Tell(Len(pending))
    BY <2>1, <2>3, <2>4, PendingFirst DEF Queue!Tell
  <2>6. QED  BY <1>0, <2>1, <2>5 DEF Queue!Next, Queue!Read
<1>7. CASE ExchangeNothing
  <2>1. Queue!NoFrame
    BY <1>7 DEF ExchangeNothing, Return, Queue!NoFrame, Chain
  <2>2. QED  BY <1>7, <2>1 DEF ExchangeNothing, Queue!Next, Queue!Read
<1>8. CASE DropByte
  <2>1. /\ consumer = "dropping" /\ buffer # << >> /\ buffer' = Tail(buffer)
        /\ pending = << >> /\ pending' = << >>
        /\ UNCHANGED <<frame, sentBytes, producer, dropping, overflow, failure, results>>
        /\ \/ Head(buffer).delimiter /\ consumer' = "idle" /\ status' = failure
           \/ ~Head(buffer).delimiter /\ UNCHANGED <<consumer, status>>
    BY <1>8, PendingFirst DEF DropByte, Remove, Return
  <2>2. Len(pending) = 0 /\ Chain # << >> /\ Chain[1] = Head(buffer)
    <3>1. Len(pending) = 0  BY <2>1, EmptySeq
    <3>2. Len(Chain) > 0 /\ Chain[1] = Head(buffer)  BY <2>1, <3>1, PendingFirst
    <3>3. QED  BY <3>1, <3>2, EmptySeq
  <2>3. Rest(Chain', Chain, 1)  BY <2>1, <2>2, ChainShrinks
  <2>4. Queue!Drop(1)  BY <2>3, RestIsDropped
  <2>5. Queue!Discard
    BY <1>0, <2>1, <2>2, <2>4 DEF Queue!Discard
  <2>6. QED  BY <2>1, <2>5 DEF Queue!Next, Queue!Read
<1>9. CASE DropEmpty
  <2>1. /\ consumer = "dropping" /\ buffer = << >> /\ pending = << >>
        /\ consumer' = "idle" /\ status' = failure
        /\ UNCHANGED <<frame, sentBytes, producer, dropping, overflow, failure, results,
                       pending, buffer>>
    BY <1>9, PendingFirst DEF DropEmpty, RemoveNothing, Return
  <2>2. Chain = << >> /\ Chain' = Chain  BY <2>1, EmptySeq, ConcatEmptySeq DEF Chain
  <2>3. Queue!DiscardAll  BY <1>0, <2>1, <2>2 DEF Queue!DiscardAll
  <2>4. QED  BY <2>1, <2>3 DEF Queue!Next, Queue!Read
<1>10. QED
  BY <1>1, <1>2, <1>3, <1>4, <1>5, <1>6, <1>7, <1>8, <1>9 DEF Consume, Step

\* The ring, the pending bytes, the flag and the steps on both sides are one queue that loses
\* only the rest of a frame, only when it is full, and throws bytes away only after it has
\* refused a frame or is about to tell a loss.
LEMMA QueueStep == TypeInv /\ ChainInv /\ [Next]_vars => [Queue!Next]_(Queue!vars)
<1> SUFFICES ASSUME TypeInv, ChainInv, [Next]_vars  PROVE [Queue!Next]_(Queue!vars)  OBVIOUS
<1>1. CASE UNCHANGED vars
  BY <1>1 DEF vars, senderVars, producerVars, consumerVars, Queue!vars, Chain
<1>2. TypeInv'  BY TypeStep
<1>3. QED  BY <1>1, <1>2, QueueFeed, QueueRead DEF Next

THEOREM KeepsTheQueue == Spec => ImplementsFrameQueue
<1>1. Init => Queue!Init  BY QueueInit
<1>2. TypeInv /\ ChainInv /\ [Next]_vars => [Queue!Next]_(Queue!vars)  BY QueueStep
<1>3. QED  BY <1>1, <1>2, OutInvariance, PTL DEF Spec, ImplementsFrameQueue, Queue!Spec

-----------------------------------------------------------------------------
(* While nothing is lost.                                                  *)

\* The ring never was full, and no frame was longer than it.
Smooth ==
    /\ ~everFull /\ sentBytes <= BufferSize
    /\ \A f \in DOMAIN lengths : lengths[f] <= BufferSize

\* b is the byte that was sent right after a.
Follows(a, b, l) ==
    IF a.delimiter
    THEN /\ b.frame = a.frame + 1
         /\ IF b.delimiter THEN l[b.frame] = 0 ELSE b.pos = 1
    ELSE /\ b.frame = a.frame
         /\ IF b.delimiter THEN l[a.frame] = a.pos ELSE b.pos = a.pos + 1

\* The i-th byte of c, which the delimiter of frame r went before.
Nth(c, r, i) == IF i = 0 THEN Delimiter(r) ELSE c[i]

\* From the delimiter of frame r on, c is everything that was sent.
Stream(c, r, l) == \A i, j \in 0 .. Len(c) : j = i + 1 => Follows(Nth(c, r, i), Nth(c, r, j), l)

Leads(c, r, f, k) ==
    IF Nth(c, r, Len(c)).delimiter
    THEN f = Nth(c, r, Len(c)).frame + 1 /\ k = 0
    ELSE f = Nth(c, r, Len(c)).frame /\ k = Nth(c, r, Len(c)).pos

\* A frame that was ended is as long as its bytes say at least.
Within(c, f, l) ==
    \A i \in 1 .. Len(c) : c[i].frame < f /\ ~c[i].delimiter => c[i].pos <= l[c[i].frame]

Faithful(r, n, l) ==
    /\ n <= Len(l)
    /\ r.bytes = [k \in 1 .. l[n] |-> Data(n, k)]
    /\ r.status = IF l[n] > r.capacity THEN "BufferTooSmall" ELSE "OK"

\* No flag is up, the chain is everything sent after the frames that became results, and
\* the pending bytes are the start of the next one.
SmoothInv ==
    Smooth =>
        /\ ~dropping /\ producer # "overflow" /\ ~overflow /\ consumer # "dropping"
        /\ Stream(Chain, Len(results), lengths)
        /\ Leads(Chain, Len(results), frame, sentBytes)
        /\ Within(Chain, frame, lengths)
        /\ \A k \in 1 .. Len(pending) : pending[k] = Data(Len(results) + 1, k)
        /\ \A n \in 1 .. Len(results) : Faithful(results[n], n, lengths)

LEMMA FaithfulParts ==
  FaithfulWithoutOverflow <=>
    (Smooth => \A n \in 1 .. Len(results) : Faithful(results[n], n, lengths))
BY DEF FaithfulWithoutOverflow, Smooth, Faithful, Whole

\* The stream goes on with the byte that is sent next.
LEMMA StreamGrows ==
  ASSUME NEW f \in Nat, NEW k \in Nat, NEW l \in Seq(Nat), f = Len(l) + 1,
         NEW f2, NEW k2, NEW l2, Sends(f, k, l, f2, k2, l2),
         NEW c \in Seq(Bytes), NEW r \in Nat, AllSent(c, f, k),
         Stream(c, r, l), Leads(c, r, f, k), Within(c, f, l),
         NEW b \in Bytes, b.frame = f, b.delimiter <=> f2 = f + 1,
         ~b.delimiter => b.pos = k + 1,
         NEW t, t = Append(c, b)
  PROVE  Stream(t, r, l2) /\ Leads(t, r, f2, k2) /\ Within(t, f2, l2)
<1>1. /\ Len(c) \in Nat /\ Len(l) \in Nat /\ Len(t) = Len(c) + 1 /\ t[Len(c) + 1] = b
      /\ \A i \in 1 .. Len(c) : t[i] = c[i] /\ c[i] \in Bytes /\ WasSent(c[i], f, k)
  BY AppendProperties, ElementOfSeq DEF AllSent
<1>2. \A a \in Bytes : a.frame \in Nat /\ a.pos \in Nat /\ a.delimiter \in BOOLEAN
  BY DEF Bytes
<1>3. \A g \in 1 .. f - 1 : l2[g] = l[g]  BY SentStays
<1>4. b.delimiter => l2[f] = k /\ k2 = 0 /\ f2 = f + 1
  BY <1>1, AppendProperties DEF Sends
<1>5. ~b.delimiter => f2 = f /\ k2 = k + 1  BY DEF Sends
<1>6. /\ \A i \in 0 .. Len(c) : Nth(t, r, i) = Nth(c, r, i)
      /\ Nth(t, r, Len(c) + 1) = b
  BY <1>1 DEF Nth
<1>7. Stream(t, r, l2)
  <2> SUFFICES ASSUME NEW i \in 0 .. Len(c), NEW j \in 0 .. Len(c) + 1, j = i + 1
               PROVE  Follows(Nth(t, r, i), Nth(t, r, j), l2)
    <3>1. \A i, j \in 0 .. Len(c) + 1 : j = i + 1 => i \in 0 .. Len(c)  BY <1>1
    <3>2. QED  BY <1>1, <3>1 DEF Stream
  <2>1. CASE i = Len(c)
    <3>1. Nth(t, r, i) = Nth(c, r, Len(c)) /\ Nth(t, r, j) = b  BY <1>1, <1>6, <2>1
    <3>2. Follows(Nth(c, r, Len(c)), b, l2)  BY <1>4 DEF Leads, Follows
    <3>3. QED  BY <3>1, <3>2
  <2>2. CASE i # Len(c)
    <3>1. j \in 1 .. Len(c)  BY <1>1, <2>2
    <3>2. Follows(Nth(c, r, i), c[j], l)  BY <3>1 DEF Stream, Nth
    <3>3. c[j].delimiter => c[j].frame \in 1 .. f - 1
      <4>1. c[j].frame \in 1 .. f /\ (c[j].frame = f => ~c[j].delimiter)
        BY <1>1, <3>1 DEF WasSent
      <4>2. QED  BY <4>1
    <3>4. Follows(Nth(c, r, i), c[j], l2)  BY <1>3, <3>2, <3>3 DEF Follows
    <3>5. QED  BY <1>6, <3>1, <3>4 DEF Nth
  <2>3. QED  BY <2>1, <2>2
<1>8. Leads(t, r, f2, k2)  BY <1>1, <1>4, <1>5, <1>6 DEF Leads
<1>9. Within(t, f2, l2)
  <2> SUFFICES ASSUME NEW i \in 1 .. Len(t), t[i].frame < f2, ~t[i].delimiter
               PROVE  t[i].pos <= l2[t[i].frame]
    BY DEF Within
  <2>1. i \in 1 .. Len(c)
    <3>1. i = Len(c) + 1 => t[i] = b  BY <1>1
    <3>2. QED  BY <1>1, <1>5, <3>1
  <2>2. /\ t[i] = c[i] /\ WasSent(c[i], f, k) /\ c[i].frame \in Nat /\ c[i].pos \in Nat
        /\ c[i].frame \in 1 .. f
    BY <1>1, <1>2, <2>1 DEF WasSent
  <2>3. CASE c[i].frame < f
    <3>1. c[i].frame \in 1 .. f - 1  BY <2>2, <2>3
    <3>2. QED  BY <1>3, <2>1, <2>2, <2>3, <3>1 DEF Within
  <2>4. CASE c[i].frame = f
    <3>1. f2 = f + 1 /\ c[i].pos <= k  BY <2>2, <2>4 DEF WasSent, Sends
    <3>2. QED  BY <1>4, <2>2, <2>4, <3>1
  <2>5. QED  BY <2>2, <2>3, <2>4
<1>10. QED  BY <1>7, <1>8, <1>9

\* What remains is a stream too, when it begins where it did or after the delimiter of r2.
LEMMA StreamRest ==
  ASSUME NEW c \in Seq(Bytes), NEW r \in Nat, NEW l, NEW f, NEW k,
         Stream(c, r, l), Leads(c, r, f, k), Within(c, f, l),
         NEW s \in Seq(Bytes), NEW n, Rest(s, c, n), NEW r2 \in Nat,
         \/ n = 0 /\ r2 = r
         \/ n > 0 /\ c[n].delimiter /\ c[n].frame = r2
  PROVE  Stream(s, r2, l) /\ Leads(s, r2, f, k) /\ Within(s, f, l)
<1>1. /\ Len(c) \in Nat /\ Len(s) \in Nat /\ n \in 0 .. Len(c) /\ Len(s) = Len(c) - n
      /\ \A i \in 1 .. Len(s) : n + i \in 1 .. Len(c) /\ s[i] = c[n + i]
  <2>1. Len(c) \in Nat /\ Len(s) \in Nat /\ n \in 0 .. Len(c) /\ Len(s) = Len(c) - n
    BY DEF Rest
  <2>2. QED  BY <2>1 DEF Rest
<1>2. /\ Delimiter(r2).delimiter /\ Delimiter(r2).frame = r2
  BY DEF Delimiter
<1>3. \A i \in 0 .. Len(s) :
         /\ n + i \in 0 .. Len(c)
         /\ Nth(s, r2, i).delimiter = Nth(c, r, n + i).delimiter
         /\ Nth(s, r2, i).frame = Nth(c, r, n + i).frame
         /\ ~Nth(s, r2, i).delimiter => Nth(s, r2, i).pos = Nth(c, r, n + i).pos
  <2> SUFFICES ASSUME NEW i \in 0 .. Len(s)
               PROVE  /\ n + i \in 0 .. Len(c)
                      /\ Nth(s, r2, i).delimiter = Nth(c, r, n + i).delimiter
                      /\ Nth(s, r2, i).frame = Nth(c, r, n + i).frame
                      /\ ~Nth(s, r2, i).delimiter => Nth(s, r2, i).pos = Nth(c, r, n + i).pos
    OBVIOUS
  <2>1. CASE i > 0
    <3>1. i \in 1 .. Len(s) /\ i # 0 /\ n + i # 0  BY <1>1, <2>1
    <3>2. QED  BY <1>1, <3>1 DEF Nth
  <2>2. CASE i = 0
    <3>1. n + i = n  BY <1>1, <2>2
    <3>2. CASE n = 0 /\ r2 = r  BY <1>1, <2>2, <3>1, <3>2 DEF Nth
    <3>3. CASE n > 0 /\ c[n].delimiter /\ c[n].frame = r2
      <4>1. Nth(s, r2, i) = Delimiter(r2) /\ Nth(c, r, n + i) = c[n]
        BY <2>2, <3>1, <3>3 DEF Nth
      <4>2. c[n] \in Bytes  BY <1>1, <3>3, ElementOfSeq
      <4>3. c[n].delimiter = TRUE /\ Delimiter(r2).delimiter = TRUE
        BY <3>3, <4>2 DEF Bytes, Delimiter
      <4>4. QED  BY <1>1, <1>2, <3>1, <3>3, <4>1, <4>3
    <3>4. QED  BY <3>2, <3>3
  <2>3. QED  BY <1>1, <2>1, <2>2
<1>4. Stream(s, r2, l)
  <2> SUFFICES ASSUME NEW i \in 0 .. Len(s), NEW j \in 0 .. Len(s), j = i + 1
               PROVE  Follows(Nth(s, r2, i), Nth(s, r2, j), l)
    BY DEF Stream
  <2>1. n + j = (n + i) + 1  BY <1>1
  <2>2. Follows(Nth(c, r, n + i), Nth(c, r, n + j), l)  BY <1>3, <2>1 DEF Stream
  <2>3. QED  BY <1>3, <2>2 DEF Follows
<1>5. Leads(s, r2, f, k)
  <2>1. Len(s) \in 0 .. Len(s) /\ n + Len(s) = Len(c)  BY <1>1
  <2>2. QED  BY <1>3, <2>1 DEF Leads
<1>6. Within(s, f, l)  BY <1>1 DEF Within
<1>7. QED  BY <1>4, <1>5, <1>6

LEMMA SmoothBefore ==
  ASSUME TypeInv, Feed, Smooth'
  PROVE  Smooth /\ (everFull' = everFull)
<1>1. /\ sentBytes \in Nat /\ lengths \in Seq(Nat) /\ BufferSize \in Nat
      /\ frame \in Nat
  BY SizeAssumption DEF TypeInv, TypeOK
<1>2. everFull' = everFull
  BY DEF Feed, FeedDropped, FeedInserted, FeedRefused, StoreOverflow, Callback, Smooth
<1>3. CASE UNCHANGED senderVars  BY <1>2, <1>3 DEF senderVars, Smooth
<1>4. ASSUME NEW b, NextByte(b)  PROVE Smooth
  <2>1. CASE sentBytes' = sentBytes + 1 /\ UNCHANGED lengths
    BY <1>1, <1>2, <2>1 DEF Smooth
  <2>2. CASE lengths' = Append(lengths, sentBytes)
    <3>1. /\ Len(lengths) \in Nat /\ Len(lengths') = Len(lengths) + 1
          /\ DOMAIN lengths = 1 .. Len(lengths) /\ DOMAIN lengths' = 1 .. Len(lengths')
          /\ \A i \in 1 .. Len(lengths) : lengths'[i] = lengths[i]
          /\ lengths'[Len(lengths) + 1] = sentBytes
      <4>1. lengths' \in Seq(Nat)  BY <1>1, <2>2, AppendProperties
      <4>2. QED  BY <1>1, <2>2, <4>1, AppendProperties, LenProperties
    <3>2. \A i \in 1 .. Len(lengths) : i \in 1 .. Len(lengths')  BY <3>1
    <3>3. Len(lengths) + 1 \in 1 .. Len(lengths')  BY <3>1
    <3>4. QED  BY <1>2, <3>1, <3>2, <3>3 DEF Smooth
  <2>3. QED  BY <1>4, <2>1, <2>2, NextByteType DEF NextByte
<1>5. QED
  BY <1>2, <1>3, <1>4 DEF Feed, FeedDropped, FeedInserted, FeedRefused, StoreOverflow, Callback

LEMMA FeedSmooth ==
  ASSUME TypeInv, TypeInv', ChainInv, SmoothInv, Feed
  PROVE  SmoothInv'
<1> SUFFICES ASSUME Smooth'
             PROVE  /\ ~dropping' /\ producer' # "overflow" /\ ~overflow'
                    /\ consumer' # "dropping"
                    /\ Stream(Chain', Len(results'), lengths')
                    /\ Leads(Chain', Len(results'), frame', sentBytes')
                    /\ Within(Chain', frame', lengths')
                    /\ \A k \in 1 .. Len(pending') : pending'[k] = Data(Len(results') + 1, k)
                    /\ \A n \in 1 .. Len(results') : Faithful(results'[n], n, lengths')
  BY DEF SmoothInv, Faithful
<1>1. UNCHANGED <<consumer, pending, results>>
  BY DEF Feed, FeedDropped, FeedInserted, FeedRefused, StoreOverflow, Callback, consumerVars
<1>2. Smooth /\ everFull' = everFull  BY SmoothBefore
<1>3. /\ ~dropping /\ producer # "overflow" /\ ~overflow /\ consumer # "dropping"
      /\ Stream(Chain, Len(results), lengths)
      /\ Leads(Chain, Len(results), frame, sentBytes)
      /\ Within(Chain, frame, lengths)
      /\ \A k \in 1 .. Len(pending) : pending[k] = Data(Len(results) + 1, k)
      /\ \A n \in 1 .. Len(results) : Faithful(results[n], n, lengths)
  BY <1>2 DEF SmoothInv
<1>4. /\ frame \in Nat /\ sentBytes \in Nat /\ lengths \in Seq(Nat)
      /\ frame = Len(lengths) + 1 /\ Len(lengths) \in Nat
  BY SizeAssumption DEF TypeInv, TypeOK
<1>5. ASSUME NEW b, FeedInserted(b)
      PROVE  /\ ~dropping' /\ producer' # "overflow" /\ ~overflow'
             /\ Stream(Chain', Len(results'), lengths')
             /\ Leads(Chain', Len(results'), frame', sentBytes')
             /\ Within(Chain', frame', lengths')
             /\ \A n \in 1 .. Len(results') : Faithful(results'[n], n, lengths')
  <2>1. /\ NextByte(b) /\ buffer' = Append(buffer, b) /\ UNCHANGED <<dropping, overflow>>
        /\ producer' # "overflow"
    BY <1>5 DEF FeedInserted
  <2>2. /\ b \in Bytes /\ b.frame = frame
        /\ b.delimiter <=> frame' = frame + 1
        /\ ~b.delimiter => b.pos = sentBytes + 1
    <3>1. /\ b \in Bytes /\ b.frame = frame
          /\ b.delimiter => frame' = frame + 1
          /\ ~b.delimiter => b.pos = sentBytes + 1 /\ frame' = frame
      BY <2>1, NextByteType
    <3>2. frame + 1 # frame  BY <1>4
    <3>3. QED  BY <3>1, <3>2
  <2>3. Chain' = Append(Chain, b)  BY <1>1, <2>1, <2>2, ChainGrows
  <2>4. Sends(frame, sentBytes, lengths, frame', sentBytes', lengths')  BY <2>1, SendsByte
  <2>5. Chain \in Seq(Bytes) /\ AllSent(Chain, frame, sentBytes)
    BY ChainParts DEF ChainInv
  <2>6. Len(results) \in Nat  BY DEF TypeInv, TypeOK
  <2>7. /\ Stream(Chain', Len(results), lengths')
        /\ Leads(Chain', Len(results), frame', sentBytes')
        /\ Within(Chain', frame', lengths')
    BY <1>3, <1>4, <2>2, <2>3, <2>4, <2>5, <2>6, StreamGrows
  <2>8. ASSUME NEW n \in 1 .. Len(results)  PROVE Faithful(results[n], n, lengths')
    <3>1. n \in 1 .. Len(lengths) /\ Faithful(results[n], n, lengths)
      BY <1>3, <1>4, <2>6 DEF Faithful
    <3>2. lengths'[n] = lengths[n]
      <4>1. lengths \in Seq(Nat) /\ sentBytes \in Nat
        BY SizeAssumption DEF TypeInv, TypeOK
      <4>2. \A m \in 1 .. Len(lengths) : Append(lengths, sentBytes)[m] = lengths[m]
        BY <4>1, AppendProperties
      <4>3. lengths' = lengths \/ lengths' = Append(lengths, sentBytes)
        BY <2>4 DEF Sends
      <4>4. QED  BY <3>1, <4>2, <4>3
    <3>3. n <= Len(lengths')
      BY <1>4, <2>4, <3>1, AppendProperties DEF Sends
    <3>4. QED  BY <3>1, <3>2, <3>3 DEF Faithful
  <2>9. QED  BY <1>1, <1>3, <2>1, <2>7, <2>8
<1>6. ASSUME NEW b, FeedDropped(b)  PROVE FALSE
  BY <1>3, <1>6 DEF FeedDropped
<1>7. ASSUME NEW b, FeedRefused(b)  PROVE FALSE
  BY <1>7 DEF FeedRefused, Smooth
<1>8. CASE StoreOverflow  BY <1>3, <1>8 DEF StoreOverflow
<1>9. CASE Callback
  <2>1. Chain' = Chain  BY <1>9 DEF Callback, consumerVars, Chain
  <2>2. QED
    BY <1>3, <1>9, <2>1 DEF Callback, senderVars, consumerVars
<1>10. QED  BY <1>1, <1>3, <1>5, <1>6, <1>7, <1>8, <1>9 DEF Feed

\* The byte at the head of the ring, as the next one of the frame that is pending.
LEMMA HeadFollows ==
  ASSUME TypeInv, ChainInv, SmoothInv, Smooth, buffer # << >>
  PROVE  /\ Head(buffer) \in Bytes /\ Head(buffer) = Chain[Len(pending) + 1]
         /\ Head(buffer).frame = Len(results) + 1
         /\ Head(buffer).delimiter => /\ Len(results) + 1 \in 1 .. Len(lengths)
                                      /\ lengths[Len(results) + 1] = Len(pending)
         /\ ~Head(buffer).delimiter => /\ Head(buffer) = Data(Len(results) + 1, Len(pending) + 1)
                                       /\ Len(pending) + 1 <= BufferSize
<1> SUFFICES ASSUME NEW h, h = Head(buffer), NEW p, p = Len(pending), NEW r, r = Len(results)
             PROVE  /\ h \in Bytes /\ h = Chain[p + 1] /\ h.frame = r + 1
                    /\ h.delimiter => r + 1 \in 1 .. Len(lengths) /\ lengths[r + 1] = p
                    /\ ~h.delimiter => h = Data(r + 1, p + 1) /\ p + 1 <= BufferSize
  OBVIOUS
<1>1. /\ buffer \in Seq(Bytes) /\ pending \in Seq(Bytes) /\ p \in Nat /\ r \in Nat
      /\ lengths \in Seq(Nat) /\ frame = Len(lengths) + 1 /\ Len(lengths) \in Nat
      /\ frame \in Nat /\ sentBytes \in Nat /\ BufferSize \in Nat
  BY SizeAssumption DEF TypeInv, TypeOK
<1>2. /\ h \in Bytes /\ h = buffer[1] /\ 1 \in 1 .. Len(buffer)
  BY <1>1, HeadTailProperties, EmptySeq
<1>3. /\ h = Chain[p + 1] /\ p \in 0 .. Len(Chain) /\ p + 1 \in 1 .. Len(Chain)
      /\ \A i \in 1 .. p : Chain[i] = pending[i]
  <2>1. /\ Chain \in Seq(Bytes) /\ Len(Chain) = p + Len(buffer) /\ Len(buffer) \in Nat
        /\ \A i \in 1 .. p : Chain[i] = pending[i]
        /\ \A i \in 1 .. Len(buffer) : Chain[p + i] = buffer[i]
    BY ChainParts
  <2>2. p + 1 \in 1 .. Len(Chain) /\ p \in 0 .. Len(Chain)  BY <1>1, <1>2, <2>1
  <2>3. Chain[p + 1] = h  BY <1>2, <2>1
  <2>4. QED  BY <2>1, <2>2, <2>3
<1>4. /\ Stream(Chain, r, lengths) /\ Within(Chain, frame, lengths)
      /\ \A k \in 1 .. p : pending[k] = Data(r + 1, k)
  BY DEF SmoothInv
<1>5. WasSent(h, frame, sentBytes)  BY <1>3 DEF ChainInv, AllSent
<1>6. h.frame \in Nat /\ h.pos \in Nat /\ h.delimiter \in BOOLEAN  BY <1>2 DEF Bytes
<1>7. Follows(Nth(Chain, r, p), h, lengths)
  <2>1. p \in 0 .. Len(Chain) /\ p + 1 \in 0 .. Len(Chain) /\ p + 1 # 0  BY <1>1, <1>3
  <2>2. Nth(Chain, r, p + 1) = h  BY <1>3, <2>1 DEF Nth
  <2>3. Follows(Nth(Chain, r, p), Nth(Chain, r, p + 1), lengths)  BY <1>4, <2>1 DEF Stream
  <2>4. QED  BY <2>2, <2>3
<1>8. /\ h.frame = r + 1
      /\ h.delimiter => lengths[r + 1] = p
      /\ ~h.delimiter => h.pos = p + 1
  <2>1. CASE p = 0
    <3>1. Nth(Chain, r, p) = Delimiter(r)  BY <2>1 DEF Nth
    <3>2. Delimiter(r).delimiter /\ Delimiter(r).frame = r  BY DEF Delimiter
    <3>3. /\ h.frame = r + 1 /\ (h.delimiter => lengths[r + 1] = 0)
          /\ (~h.delimiter => h.pos = 1)
      BY <1>7, <3>1, <3>2 DEF Follows
    <3>4. QED  BY <2>1, <3>3
  <2>2. CASE p # 0
    <3>1. p \in 1 .. p  BY <1>1, <2>2
    <3>2. Nth(Chain, r, p) = Data(r + 1, p)  BY <1>3, <1>4, <2>2, <3>1 DEF Nth
    <3>3. /\ ~Data(r + 1, p).delimiter /\ Data(r + 1, p).frame = r + 1
          /\ Data(r + 1, p).pos = p
      BY DEF Data
    <3>4. QED  BY <1>7, <3>2, <3>3 DEF Follows
  <2>3. QED  BY <2>1, <2>2
<1>9. ASSUME h.delimiter  PROVE r + 1 \in 1 .. Len(lengths)
  BY <1>1, <1>5, <1>8, <1>9 DEF WasSent
<1>10. ASSUME ~h.delimiter  PROVE h = Data(r + 1, p + 1) /\ p + 1 <= BufferSize
  <2>1. h = Data(r + 1, p + 1)  BY <1>2, <1>6, <1>8, <1>10 DEF Data, Bytes
  <2>2. CASE h.frame = frame
    <3>1. h.pos <= sentBytes  BY <1>5, <2>2 DEF WasSent
    <3>2. sentBytes <= BufferSize  BY DEF Smooth
    <3>3. QED  BY <1>1, <1>6, <1>8, <1>10, <2>1, <3>1, <3>2
  <2>3. CASE h.frame # frame
    <3>1. h.frame \in 1 .. Len(lengths) /\ h.frame < frame
      BY <1>1, <1>5, <2>3 DEF WasSent
    <3>2. h.pos <= lengths[h.frame]  BY <1>3, <1>4, <1>10, <3>1 DEF Within
    <3>3. lengths[h.frame] <= BufferSize /\ lengths[h.frame] \in Nat
      BY <1>1, <3>1, LenProperties, ElementOfSeq DEF Smooth
    <3>4. QED  BY <1>1, <1>6, <1>8, <1>10, <2>1, <3>2, <3>3
  <2>4. QED  BY <2>2, <2>3
<1>11. QED  BY <1>2, <1>3, <1>8, <1>9, <1>10

LEMMA ConsumeSmooth ==
  ASSUME TypeInv, TypeInv', ChainInv, SmoothInv, Consume
  PROVE  SmoothInv'
<1>1. UNCHANGED <<frame, sentBytes, lengths, producer, dropping, everFull>>
  BY DEF Consume, Step, ReadDelimiter, ReadData, ReadTooLong, ReadEmpty, ExchangeOverflow,
         ExchangeNothing, DropByte, DropEmpty, TryReadFrame, Remove, RemoveNothing,
         senderVars, producerVars
<1> SUFFICES ASSUME Smooth
             PROVE  /\ ~overflow' /\ consumer' # "dropping"
                    /\ Stream(Chain', Len(results'), lengths)
                    /\ Leads(Chain', Len(results'), frame, sentBytes)
                    /\ Within(Chain', frame, lengths)
                    /\ \A k \in 1 .. Len(pending') : pending'[k] = Data(Len(results') + 1, k)
                    /\ \A n \in 1 .. Len(results') : Faithful(results'[n], n, lengths)
  <2>1. Smooth' => Smooth  BY <1>1 DEF Smooth
  <2>2. Smooth => ~dropping /\ producer # "overflow"  BY DEF SmoothInv
  <2>3. QED  BY <1>1, <2>1, <2>2 DEF SmoothInv, Faithful
<1> DEFINE r == Len(results)
           p == Len(pending)
<1>2. /\ ~overflow /\ consumer # "dropping"
      /\ Stream(Chain, r, lengths) /\ Leads(Chain, r, frame, sentBytes)
      /\ Within(Chain, frame, lengths)
      /\ \A k \in 1 .. p : pending[k] = Data(r + 1, k)
      /\ \A n \in 1 .. r : Faithful(results[n], n, lengths)
  BY DEF SmoothInv
<1>3. /\ r \in Nat /\ p \in Nat /\ Chain \in Seq(Bytes) /\ pending \in Seq(Bytes)
      /\ lengths \in Seq(Nat)
  BY ChainParts DEF TypeInv, TypeOK
<1>4. Chain' \in Seq(Bytes)
  <2>1. pending' \in Seq(Bytes) /\ buffer' \in Seq(Bytes)  BY DEF TypeInv, TypeOK
  <2>2. QED  BY <2>1, ConcatProperties DEF Chain
<1>5. ASSUME UNCHANGED <<results, pending, buffer, overflow>>, consumer' # "dropping"
      PROVE  /\ ~overflow' /\ consumer' # "dropping"
             /\ Stream(Chain', Len(results'), lengths)
             /\ Leads(Chain', Len(results'), frame, sentBytes)
             /\ Within(Chain', frame, lengths)
             /\ \A k \in 1 .. Len(pending') : pending'[k] = Data(Len(results') + 1, k)
             /\ \A n \in 1 .. Len(results') : Faithful(results'[n], n, lengths)
  <2>1. Chain' = Chain  BY <1>5 DEF Chain
  <2>2. QED  BY <1>2, <1>5, <2>1
<1>6. CASE ReadDelimiter
  <2> DEFINE h == Head(buffer)
             s == IF TooSmall THEN "BufferTooSmall" ELSE "OK"
             q == [status |-> s, capacity |-> capacity, bytes |-> pending, end |-> h.frame]
  <2>1. /\ buffer # << >> /\ h.delimiter /\ buffer' = Tail(buffer) /\ pending' = << >>
        /\ results' = Append(results, q) /\ consumer' = "idle" /\ overflow' = overflow
    BY <1>6 DEF ReadDelimiter, Remove, ClearPending, Record, Return
  <2>2. /\ h = Chain[p + 1] /\ h.frame = r + 1
        /\ r + 1 \in 1 .. Len(lengths) /\ lengths[r + 1] = p
    BY <2>1, HeadFollows
  <2>3. q.bytes = pending /\ q.status = s /\ q.capacity = capacity  OBVIOUS
  <2>4. results \in Seq(Result) /\ q \in Result
    <3>1. results \in Seq(Result)  BY DEF TypeInv, TypeOK, Result
    <3>2. capacity \in Capacities /\ h \in Bytes
      BY <1>6, RemoveType DEF ReadDelimiter, Remove, TypeInv
    <3>3. s \in {"OK", "BufferTooSmall"} /\ h.frame \in Nat  BY <3>2 DEF Bytes
    <3>4. QED  BY <1>3, <3>1, <3>2, <3>3 DEF Result
  <2> HIDE DEF q, s, h
  <2>5. /\ Len(results') = r + 1 /\ results'[r + 1] = q
        /\ \A n \in 1 .. r : results'[n] = results[n]
    BY <2>1, <2>4, AppendProperties
  <2>6. Rest(Chain', Chain, p + 1)  BY <2>1, ChainShrinks
  <2>7. p + 1 > 0 /\ Chain[p + 1].delimiter /\ Chain[p + 1].frame = r + 1 /\ r + 1 \in Nat
    BY <1>3, <2>1, <2>2
  <2>8. /\ Stream(Chain', r + 1, lengths) /\ Leads(Chain', r + 1, frame, sentBytes)
        /\ Within(Chain', frame, lengths)
    <3> HIDE DEF r, p
    <3>1. PICK n : n = p + 1  OBVIOUS
    <3>2. PICK r2 \in Nat : r2 = r + 1  BY <2>7
    <3>3. Rest(Chain', Chain, n) /\ n > 0 /\ Chain[n].delimiter /\ Chain[n].frame = r2
      BY <2>6, <2>7, <3>1, <3>2
    <3>4. Stream(Chain', r2, lengths) /\ Leads(Chain', r2, frame, sentBytes)
          /\ Within(Chain', frame, lengths)
      BY <1>2, <1>3, <1>4, <3>3, StreamRest
    <3>5. QED  BY <3>2, <3>4
  <2>9. Faithful(q, r + 1, lengths)
    <3>1. pending = [k \in 1 .. lengths[r + 1] |-> Data(r + 1, k)]
      BY <1>2, <1>3, <2>2, LenProperties
    <3>2. s = IF lengths[r + 1] > capacity THEN "BufferTooSmall" ELSE "OK"
      BY <2>2 DEF s, TooSmall
    <3>3. r + 1 <= Len(lengths)  BY <1>3, <2>2
    <3>4. QED  BY <2>3, <3>1, <3>2, <3>3 DEF Faithful
  <2>10. \A n \in 1 .. Len(results') : Faithful(results'[n], n, lengths)
    <3>1. \A n \in 1 .. Len(results') : n \in 1 .. r \/ n = r + 1  BY <1>3, <2>5
    <3>2. QED  BY <1>2, <2>5, <2>9, <3>1
  <2>11. Len(pending') = 0  BY <2>1
  <2>12. QED  BY <1>2, <2>1, <2>5, <2>8, <2>10, <2>11
<1>7. CASE ReadData
  <2>1. /\ buffer # << >> /\ ~Head(buffer).delimiter /\ buffer' = Tail(buffer)
        /\ pending' = Append(pending, Head(buffer))
        /\ UNCHANGED <<consumer, results, overflow>>
    BY <1>7 DEF ReadData, Remove
  <2>2. Rest(Chain', Chain, 0)  BY <2>1, ChainShrinks
  <2>3. /\ Stream(Chain', r, lengths) /\ Leads(Chain', r, frame, sentBytes)
        /\ Within(Chain', frame, lengths)
    BY <1>2, <1>3, <1>4, <2>2, StreamRest
  <2>4. Head(buffer) \in Bytes /\ Head(buffer) = Data(r + 1, p + 1)
    BY <2>1, HeadFollows
  <2>5. /\ Len(pending') = p + 1 /\ pending'[p + 1] = Data(r + 1, p + 1)
        /\ \A k \in 1 .. p : pending'[k] = pending[k]
    BY <1>3, <2>1, <2>4, AppendProperties
  <2>6. \A k \in 1 .. Len(pending') : k \in 1 .. p \/ k = p + 1  BY <1>3, <2>5
  <2>7. QED  BY <1>2, <2>1, <2>3, <2>5, <2>6
<1>8. CASE ReadTooLong
  <2>1. buffer # << >> /\ ~Head(buffer).delimiter /\ p >= BufferSize
    BY <1>8 DEF ReadTooLong, Remove, PendingFull
  <2>2. p + 1 <= BufferSize  BY <2>1, HeadFollows
  <2>3. QED  BY <1>3, <2>1, <2>2, SizeAssumption
<1>9. CASE ReadEmpty  BY <1>5, <1>9 DEF ReadEmpty, RemoveNothing
<1>10. CASE ExchangeOverflow  BY <1>2, <1>10 DEF ExchangeOverflow
<1>11. CASE ExchangeNothing  BY <1>5, <1>11 DEF ExchangeNothing, Return
<1>12. CASE DropByte \/ DropEmpty
  BY <1>2, <1>12 DEF DropByte, DropEmpty, Remove, RemoveNothing
<1>13. ASSUME NEW c, TryReadFrame(c)
       PROVE  UNCHANGED <<results, pending, buffer, overflow>> /\ consumer' # "dropping"
  BY <1>13 DEF TryReadFrame
<1>14. QED
  BY <1>5, <1>6, <1>7, <1>8, <1>9, <1>10, <1>11, <1>12, <1>13 DEF Consume, Step

LEMMA SmoothStep == TypeInv /\ ChainInv /\ SmoothInv /\ [Next]_vars => SmoothInv'
<1> SUFFICES ASSUME TypeInv, ChainInv, SmoothInv, [Next]_vars PROVE SmoothInv'  OBVIOUS
<1>1. CASE UNCHANGED vars
  BY <1>1 DEF vars, senderVars, producerVars, consumerVars, Chain, SmoothInv, Smooth, Faithful
<1>2. TypeInv'  BY TypeStep
<1>3. QED  BY <1>1, <1>2, FeedSmooth, ConsumeSmooth DEF Next

LEMMA InitSmooth == Init => SmoothInv
<1> SUFFICES ASSUME Init PROVE SmoothInv  OBVIOUS
<1>1. /\ pending = << >> /\ Len(Chain) = 0 /\ Len(results) = 0 /\ Len(pending) = 0
      /\ frame = 1 /\ sentBytes = 0 /\ ~dropping /\ producer # "overflow" /\ ~overflow
      /\ consumer # "dropping"
  BY ChainParts, InitType, EmptySeq DEF Init
<1>2. Nth(Chain, 0, 0) = Delimiter(0) /\ Delimiter(0).delimiter /\ Delimiter(0).frame = 0
  BY DEF Nth, Delimiter
<1>3. Stream(Chain, 0, lengths)
  <2>1. \A i, j \in 0 .. 0 : j # i + 1  OBVIOUS
  <2>2. QED  BY <1>1, <2>1 DEF Stream
<1>4. Leads(Chain, 0, frame, sentBytes)  BY <1>1, <1>2 DEF Leads
<1>5. 1 .. 0 = {}  OBVIOUS
<1>6. QED  BY <1>1, <1>3, <1>4, <1>5 DEF SmoothInv, Within

\* While the ring never was full and no frame was longer than it, the n-th frame sent is the
\* n-th result, whole, or refused because the caller's buffer is shorter.
THEOREM FaithfulOut == Spec => []FaithfulWithoutOverflow
<1>1. Init => TypeInv /\ ChainInv /\ SmoothInv  BY InitType, InitChain, InitSmooth
<1>2. TypeInv /\ ChainInv /\ SmoothInv /\ [Next]_vars => (TypeInv /\ ChainInv /\ SmoothInv)'
  BY TypeStep, ChainStep, SmoothStep
<1>3. SmoothInv => FaithfulWithoutOverflow  BY FaithfulParts DEF SmoothInv
<1>4. QED  BY <1>1, <1>2, <1>3, PTL DEF Spec

-----------------------------------------------------------------------------
(* A delimiter ends one call.                                              *)

\* The frames of the delimiters that ended a call ascend, and what remains of the chain
\* belongs to later ones.
EndInv ==
    /\ frame <= MaxFrames + 1
    /\ \A i \in 1 .. Len(results) :
         /\ results[i].status = "OK" => results[i].end # 0
         /\ \A j \in 1 .. Len(Chain) : results[i].end < Chain[j].frame
         /\ \A j \in 1 .. Len(results) :
              i < j /\ results[j].end # 0 => results[i].end < results[j].end

LEMMA FeedEnd ==
  ASSUME TypeInv, TypeInv', ChainInv, OutInv, EndInv, Feed
  PROVE  EndInv'
<1>1. UNCHANGED <<pending, results>>
  BY DEF Feed, FeedDropped, FeedInserted, FeedRefused, StoreOverflow, Callback, consumerVars
<1>2. CASE UNCHANGED <<frame, buffer>>
  <2>1. Chain' = Chain  BY <1>1, <1>2 DEF Chain
  <2>2. QED  BY <1>1, <1>2, <2>1 DEF EndInv
<1>3. ASSUME NEW b, NextByte(b), buffer' = buffer \/ buffer' = Append(buffer, b)
      PROVE  EndInv'
  <2>1. b \in Bytes /\ b.frame = frame  BY <1>3, NextByteType
  <2>2. frame' <= MaxFrames + 1
    BY <1>3, SizeAssumption DEF NextByte, TypeInv, TypeOK
  <2>3. \A j \in 1 .. Len(Chain') :
             (j \in 1 .. Len(Chain) /\ Chain'[j] = Chain[j]) \/ Chain'[j].frame = frame
    <3>1. Chain \in Seq(Bytes) /\ Len(Chain) \in Nat  BY ChainParts
    <3>2. CASE buffer' = buffer
      <4>1. Chain' = Chain  BY <1>1, <3>2 DEF Chain
      <4>2. QED  BY <4>1
    <3>3. CASE buffer' = Append(buffer, b)
      <4>1. Chain' = Append(Chain, b)  BY <1>1, <2>1, <3>3, ChainGrows
      <4>2. /\ Len(Chain') = Len(Chain) + 1 /\ Chain'[Len(Chain) + 1] = b
            /\ \A j \in 1 .. Len(Chain) : Chain'[j] = Chain[j]
        BY <2>1, <3>1, <4>1, AppendProperties
      <4>3. \A j \in 1 .. Len(Chain') : j \in 1 .. Len(Chain) \/ j = Len(Chain) + 1
        BY <3>1, <4>2
      <4>4. QED  BY <2>1, <4>2, <4>3
    <3>4. QED  BY <1>3, <3>2, <3>3
  <2>4. \A i \in 1 .. Len(results) : results[i].end < frame
    BY DEF OutInv, ResultsBehind, ResultBehind
  <2>5. \A i \in 1 .. Len(results), j \in 1 .. Len(Chain') : results[i].end < Chain'[j].frame
    BY <2>3, <2>4 DEF EndInv
  <2>6. QED  BY <1>1, <2>2, <2>5 DEF EndInv
<1>4. ASSUME NEW b, FeedDropped(b) \/ FeedInserted(b) \/ FeedRefused(b)  PROVE EndInv'
  BY <1>3, <1>4 DEF FeedDropped, FeedInserted, FeedRefused
<1>5. CASE StoreOverflow \/ Callback
  BY <1>2, <1>5 DEF StoreOverflow, Callback, senderVars
<1>6. QED  BY <1>4, <1>5 DEF Feed

\* A step of the consumer takes bytes off the chain; a result it records has no end, or that
\* of a delimiter after every earlier one and before what remains.
LEMMA TakenEnd ==
  ASSUME TypeInv, EndInv, NEW n, Rest(Chain', Chain, n), frame' = frame,
         \/ results' = results
         \/ \E r \in Result :
              /\ results' = Append(results, r)
              /\ r.status = "OK" => r.end # 0
              /\ \A j \in 1 .. Len(Chain') : r.end < Chain'[j].frame
              /\ r.end # 0 => \A i \in 1 .. Len(results) : results[i].end < r.end
  PROVE  EndInv'
<1>1. \A j \in 1 .. Len(Chain') : n + j \in 1 .. Len(Chain) /\ Chain'[j] = Chain[n + j]
  BY ChainParts DEF Rest
<1>2. \A i \in 1 .. Len(results), j \in 1 .. Len(Chain') : results[i].end < Chain'[j].frame
  BY <1>1 DEF EndInv
<1>3. CASE results' = results  BY <1>2, <1>3 DEF EndInv
<1>4. ASSUME NEW r \in Result, results' = Append(results, r),
             r.status = "OK" => r.end # 0,
             \A j \in 1 .. Len(Chain') : r.end < Chain'[j].frame,
             r.end # 0 => \A i \in 1 .. Len(results) : results[i].end < r.end
      PROVE  EndInv'
  <2>1. results \in Seq(Result) /\ Len(results) \in Nat  BY DEF TypeInv, TypeOK, Result
  <2>2. /\ Len(results') = Len(results) + 1 /\ results'[Len(results) + 1] = r
        /\ \A i \in 1 .. Len(results) : results'[i] = results[i]
    BY <1>4, <2>1, AppendProperties
  <2>3. \A i \in 1 .. Len(results') : i \in 1 .. Len(results) \/ i = Len(results) + 1
    BY <2>1, <2>2
  <2>4. \A i \in 1 .. Len(results') :
             /\ results'[i].status = "OK" => results'[i].end # 0
             /\ \A j \in 1 .. Len(Chain') : results'[i].end < Chain'[j].frame
    BY <1>2, <1>4, <2>2, <2>3 DEF EndInv
  <2>5. ASSUME NEW i \in 1 .. Len(results'), NEW j \in 1 .. Len(results'), i < j,
               results'[j].end # 0
        PROVE  results'[i].end < results'[j].end
    <3>1. i \in 1 .. Len(results)  BY <2>1, <2>2, <2>5
    <3>2. QED  BY <1>4, <2>2, <2>3, <2>5, <3>1 DEF EndInv
  <2>6. frame' <= MaxFrames + 1  BY DEF EndInv
  <2>7. QED  BY <2>4, <2>5, <2>6 DEF EndInv
<1>5. QED  BY <1>3, <1>4

LEMMA ConsumeEnd ==
  ASSUME TypeInv, TypeInv', ChainInv, EndInv, Consume
  PROVE  EndInv'
<1>1. frame' = frame
  BY DEF Consume, Step, ReadDelimiter, ReadData, ReadTooLong, ReadEmpty, ExchangeOverflow,
         ExchangeNothing, DropByte, DropEmpty, TryReadFrame, Remove, RemoveNothing, senderVars
<1>2. Len(Chain) \in Nat /\ Len(pending) \in Nat  BY ChainParts
<1>3. ASSUME UNCHANGED <<results, pending, buffer>>  PROVE EndInv'
  <2>1. Rest(Chain', Chain, 0)  BY <1>2, <1>3 DEF Rest, Chain
  <2>2. QED  BY <1>1, <1>3, <2>1, TakenEnd
<1>4. CASE ReadDelimiter
  <2>1. PICK s \in {"OK", "BufferTooSmall"} : Record(s, Head(buffer).frame)
    BY <1>4 DEF ReadDelimiter
  <2>2. /\ buffer # << >> /\ buffer' = Tail(buffer) /\ pending' = << >>
        /\ consumer # "idle" /\ Head(buffer) \in Bytes /\ Head(buffer).delimiter
        /\ Len(buffer) \in Nat \ {0}
    BY <1>4, RemoveType DEF ReadDelimiter, Remove, ClearPending
  <2> DEFINE r == [status |-> s, capacity |-> capacity, bytes |-> pending,
                   end |-> Head(buffer).frame]
             n == Len(pending) + 1
  <2>3. r \in Result  BY <2>2 DEF TypeInv, TypeOK, Result, Bytes
  <2>4. results' = Append(results, r)  BY <2>1 DEF Record
  <2>5. r.end = Head(buffer).frame  OBVIOUS
  <2> HIDE DEF r
  <2>6. Head(buffer) = Chain[n] /\ n \in 1 .. Len(Chain)
    <3>1. Head(buffer) = buffer[1]  BY <2>2, HeadTailProperties DEF TypeInv, TypeOK
    <3>2. 1 \in 1 .. Len(buffer)  BY <2>2
    <3>3. QED  BY <1>2, <2>2, <3>1, <3>2, ChainParts
  <2>7. Rest(Chain', Chain, n)  BY <2>2, ChainShrinks
  <2>8. r.end # 0
    <3>1. WasSent(Chain[n], frame, sentBytes)  BY <2>6 DEF ChainInv, AllSent
    <3>2. QED  BY <2>5, <2>6, <3>1 DEF WasSent
  <2>9. \A j \in 1 .. Len(Chain') : r.end < Chain'[j].frame
    <3>1. \A j \in 1 .. Len(Chain') :
               n + j \in 1 .. Len(Chain) /\ n < n + j /\ Chain'[j] = Chain[n + j]
      BY <1>2, <2>6, <2>7 DEF Rest
    <3>2. \A j \in 1 .. Len(Chain') : Before(Chain[n], Chain'[j])
      BY <2>6, <3>1 DEF ChainInv, InOrder
    <3>3. QED  BY <2>2, <2>5, <2>6, <3>2 DEF Before
  <2>10. \A i \in 1 .. Len(results) : results[i].end < r.end
    BY <2>5, <2>6 DEF EndInv
  <2>11. QED  BY <1>1, <2>3, <2>4, <2>7, <2>8, <2>9, <2>10, TakenEnd
<1>5. CASE ReadData
  <2>1. Rest(Chain', Chain, 0) /\ results' = results
    BY <1>5, ChainShrinks DEF ReadData, Remove
  <2>2. QED  BY <1>1, <2>1, TakenEnd
<1>6. CASE ReadTooLong
  <2>1. /\ buffer # << >> /\ buffer' = Tail(buffer) /\ pending' = << >>
        /\ consumer # "idle" /\ Record("BufferTooSmall", 0)
    BY <1>6 DEF ReadTooLong, Remove, ClearPending
  <2> DEFINE r == [status |-> "BufferTooSmall", capacity |-> capacity, bytes |-> pending,
                   end |-> 0]
  <2>2. r \in Result  BY <2>1 DEF TypeInv, TypeOK, Result
  <2>3. results' = Append(results, r)  BY <2>1 DEF Record
  <2>4. r.status # "OK" /\ r.end = 0  OBVIOUS
  <2> HIDE DEF r
  <2>5. Rest(Chain', Chain, Len(pending) + 1)  BY <2>1, ChainShrinks
  <2>6. \A j \in 1 .. Len(Chain') : r.end < Chain'[j].frame
    <3>1. \A j \in 1 .. Len(Chain) : Chain[j].frame \in 1 .. frame
      BY DEF ChainInv, AllSent, WasSent
    <3>2. \A j \in 1 .. Len(Chain') : \E i \in 1 .. Len(Chain) : Chain'[j] = Chain[i]
      BY <1>2, <2>5 DEF Rest
    <3>3. frame \in Nat  BY DEF TypeInv, TypeOK
    <3>4. QED  BY <2>4, <3>1, <3>2, <3>3
  <2>7. QED  BY <1>1, <2>2, <2>3, <2>4, <2>5, <2>6, TakenEnd
<1>7. CASE ReadEmpty  BY <1>3, <1>7 DEF ReadEmpty, RemoveNothing
<1>8. CASE ExchangeOverflow
  <2>1. Rest(Chain', Chain, Len(pending)) /\ results' = results
    BY <1>8, ChainShrinks DEF ExchangeOverflow, ClearPending
  <2>2. QED  BY <1>1, <2>1, TakenEnd
<1>9. CASE ExchangeNothing  BY <1>3, <1>9 DEF ExchangeNothing
<1>10. CASE DropByte
  <2>1. /\ pending = << >> /\ pending' = << >> /\ buffer # << >> /\ buffer' = Tail(buffer)
        /\ results' = results
    BY <1>10 DEF DropByte, Remove, ChainInv
  <2>2. Rest(Chain', Chain, Len(pending) + 1)  BY <2>1, ChainShrinks
  <2>3. QED  BY <1>1, <2>1, <2>2, TakenEnd
<1>11. CASE DropEmpty  BY <1>3, <1>11 DEF DropEmpty, RemoveNothing
<1>12. ASSUME NEW c, TryReadFrame(c)  PROVE EndInv'
  BY <1>3, <1>12 DEF TryReadFrame
<1>13. QED
  BY <1>4, <1>5, <1>6, <1>7, <1>8, <1>9, <1>10, <1>11, <1>12 DEF Consume, Step

LEMMA EndStep == TypeInv /\ ChainInv /\ OutInv /\ EndInv /\ [Next]_vars => EndInv'
<1> SUFFICES ASSUME TypeInv, ChainInv, OutInv, EndInv, [Next]_vars PROVE EndInv'  OBVIOUS
<1>1. CASE UNCHANGED vars
  BY <1>1 DEF vars, senderVars, consumerVars, Chain, EndInv
<1>2. TypeInv'  BY TypeStep
<1>3. QED  BY <1>1, <1>2, FeedEnd, ConsumeEnd DEF Next

LEMMA InitEnd == Init => EndInv
<1> SUFFICES ASSUME Init PROVE EndInv  OBVIOUS
<1>1. 1 .. Len(results) = {} /\ frame <= MaxFrames + 1
  BY EmptySeq, SizeAssumption DEF Init
<1>2. QED  BY <1>1 DEF EndInv

=============================================================================
