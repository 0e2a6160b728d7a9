------------------------ MODULE SerialReceiverProofs ------------------------
(***************************************************************************)
(* Proofs about SerialReceiver, for a buffer of any size, any stream of    *)
(* bytes and any number of sessions.                                       *)
(*                                                                         *)
(* The types hold whatever the operations of earlier sessions do to the    *)
(* shared vector.  What handleRead hands out is right when open waits for  *)
(* their handlers (CleanReopen; the run reopened_read shows that it is not *)
(* without that).  The invariant then ties the one operation of the        *)
(* session to the buffer: up to where it has searched there is no          *)
(* delimiter, and an answer it has found is the first.                     *)
(***************************************************************************)
EXTENDS SerialReceiver, SequenceTheorems, WellFoundedInduction, TLAPS

-----------------------------------------------------------------------------
(* The shape of an operation.                                              *)

\* An operation with no room has its answer; one with room was to fill the vector's end, and
\* ends well just when it has read something.
OpShape(o) ==
    /\ o.room = 0 => o.ec = "ok" /\ o.got = 0 /\ o.at \in 1 .. Full
    /\ o.room > 0 => /\ o.at + o.room = RxBufferMaxSize /\ o.got <= o.room
                     /\ o.ec = "ok" <=> o.got > 0

Ops(g) ==
    {o \in [gen : 1 .. g, at : 0 .. Full, room : 0 .. RxBufferMaxSize, got : 0 .. RxBufferMaxSize,
            ec : {"pending", "ok", "eof", "operation_aborted", "bad_descriptor"}] : OpShape(o)}

TypeInv == TypeOK /\ reads \subseteq Ops(generation)

\* Byte b of the stream r is a delimiter.
Delim(r, b) == b # 0 /\ r[b]

\* What the operation o of the running session knows of the buffer m[1 .. n], when the bytes
\* up to gone were taken and r are those the port has read.
Held(o, n) == IF o.room = 0 THEN n ELSE o.at + o.got
OpInv(o, gone, m, n, r) ==
    /\ gone + Held(o, n) = Len(r)
    /\ n = IF o.room = 0 THEN Held(o, n) ELSE RxBufferMaxSize
    /\ \A i \in 1 .. Held(o, n) : m[i] = gone + i
    /\ o.room = 0 /\ o.at = Full => /\ n = RxBufferMaxSize
                                    /\ \A i \in 1 .. n : ~Delim(r, m[i])
    /\ o.room = 0 /\ o.at # Full => /\ o.at <= n /\ Delim(r, m[o.at])
                                    /\ \A i \in 1 .. o.at - 1 : ~Delim(r, m[i])
    /\ o.room > 0 => \A i \in 1 .. o.at : ~Delim(r, m[i])

\* With CleanReopen there is one operation at most, and in a session it is the session's.
OneRead ==
    /\ \A o, p \in reads : o = p
    /\ Running => \A o \in reads : o.gen = generation
    /\ Running /\ thrown => reads = {}

SessionInv ==
    Running /\ ~thrown => \A o \in reads : OpInv(o, Gone, mem, size, received)

ReadInv == TypeInv /\ OneRead /\ NothingLost /\ FramesDelimited /\ SessionInv

-----------------------------------------------------------------------------
(* The operators of the model.                                             *)

\* Every set of naturals that is not empty has a least element.
LEMMA LeastNumber ==
  ASSUME NEW T, T \subseteq Nat, T # {}
  PROVE  Min(T) \in T /\ \A y \in T : Min(T) <= y
<1> DEFINE R == OpToRel(<, Nat)
<1>1. IsWellFoundedOn(R, Nat)  BY NatLessThanWellFounded
<1> HIDE DEF R
<1>2. PICK x \in T : \A y \in T : ~(<<y, x>> \in R)  BY <1>1, WFMin
<1>3. \A y \in T : y < x => <<y, x>> \in R  BY DEF R, OpToRel
<1>4. \A y \in T : ~(y < x)  BY <1>2, <1>3, Zenon
<1>5. \A y \in T : x <= y  BY <1>4
<1>6. QED  BY <1>5, Zenon DEF Min

LEMMA MaxWithZero ==
  ASSUME NEW n \in Int
  PROVE  Max({0, n}) = IF n > 0 THEN n ELSE 0
<1> DEFINE T == {0, n}
<1>1. \E x \in T : \A y \in T : x >= y
  <2>1. CASE n > 0  BY <2>1
  <2>2. CASE ~(n > 0)  BY <2>2
  <2>3. QED  BY <2>1, <2>2
<1>2. Max(T) \in T /\ \A y \in T : Max(T) >= y
  <2> HIDE DEF T
  <2>1. QED  BY <1>1, Zenon DEF Max
<1>3. QED  BY <1>2

\* A search finds the first delimiter, or none.
LEMMA LookFinds ==
  ASSUME NEW from \in Nat, NEW m, NEW n \in 0 .. RxBufferMaxSize,
         NEW found, found = Look(from, m, n)
  PROVE  \/ /\ found \in from + 1 .. n /\ Delim(received, m[found])
            /\ \A i \in from + 1 .. found - 1 : ~Delim(received, m[i])
         \/ /\ found = Full /\ n = RxBufferMaxSize
            /\ \A i \in from + 1 .. n : ~Delim(received, m[i])
         \/ /\ found = More /\ n < RxBufferMaxSize
            /\ \A i \in from + 1 .. n : ~Delim(received, m[i])
<1> DEFINE T == Delimiters(m, from, n)
<1>1. T \subseteq from + 1 .. n  BY DEF Delimiters
<1>2. \A i \in from + 1 .. n : i \in T <=> Delim(received, m[i])
  BY Zenon DEF Delimiters, Delim
<1> HIDE DEF T
<1>3. CASE T # {}
  <2>1. T \subseteq Nat  BY <1>1
  <2>2. found \in T /\ \A y \in T : found <= y
    <3>1. found = Min(T)  BY <1>3 DEF Look, T
    <3>2. QED  BY <1>3, <2>1, <3>1, LeastNumber
  <2>3. found \in from + 1 .. n  BY <1>1, <2>2
  <2>4. \A i \in from + 1 .. found - 1 : i \in from + 1 .. n /\ ~(i \in T)
    BY <2>2, <2>3
  <2>5. \A i \in from + 1 .. found - 1 : ~Delim(received, m[i])  BY <1>2, <2>4, Zenon
  <2>6. Delim(received, m[found])  BY <1>2, <2>2, <2>3, Zenon
  <2>7. QED  BY <2>3, <2>5, <2>6, Zenon
<1>4. CASE T = {}
  <2>1. \A i \in from + 1 .. n : ~Delim(received, m[i])  BY <1>2, <1>4, Zenon
  <2>2. found = IF n = RxBufferMaxSize THEN Full ELSE More  BY <1>4 DEF Look, T
  <2>3. RxBufferMaxSize \in Nat  BY ReceiverAssumption DEF ReceiverAssumption
  <2>4. CASE n = RxBufferMaxSize  BY <2>1, <2>2, <2>4
  <2>5. CASE n # RxBufferMaxSize
    <3>1. n < RxBufferMaxSize  BY <2>3, <2>5
    <3>2. QED  BY <2>1, <2>2, <2>5, <3>1
  <2>6. QED  BY <2>4, <2>5
<1>5. QED  BY <1>3, <1>4, Zenon

LEMMA LookType ==
  ASSUME NEW from \in Nat, NEW m, NEW n \in 0 .. RxBufferMaxSize
  PROVE  /\ Look(from, m, n) \in 0 .. Full
         /\ Look(from, m, n) \in Positions => Look(from, m, n) \in from + 1 .. n
         /\ Look(from, m, n) = More => n < RxBufferMaxSize
         /\ Look(from, m, n) = Full => n = RxBufferMaxSize
<1>1. PICK found : found = Look(from, m, n)  OBVIOUS
<1>2. RxBufferMaxSize \in Nat \ {0}  BY ReceiverAssumption DEF ReceiverAssumption
<1>3. CASE found \in from + 1 .. n  BY <1>1, <1>2, <1>3 DEF Positions, More, Full
<1>4. CASE found = Full /\ n = RxBufferMaxSize  BY <1>1, <1>2, <1>4 DEF Positions, More, Full
<1>5. CASE found = More /\ n < RxBufferMaxSize  BY <1>1, <1>2, <1>5 DEF Positions, More, Full
<1>6. QED  BY <1>1, <1>3, <1>4, <1>5, LookFinds

-----------------------------------------------------------------------------
(* Type correctness, whether or not open waits for handlers.               *)

Memory == [Positions -> 0 .. Len(received)]
Taken == [kind : {"frame", "full"}, bytes : Seq(0 .. Len(received))]

LEMMA NewOp ==
  ASSUME NEW g \in Nat, NEW o,
         \/ \E at \in Positions \cup {Full} : o = Op(g, at, 0, "ok")
         \/ \E n \in 0 .. RxBufferMaxSize - 1, ec \in {"pending", "bad_descriptor"} :
                o = Op(g, n, RxBufferMaxSize - n, ec),
         NEW h \in Nat, g \in 1 .. h
  PROVE  o \in Ops(h)
<1>1. RxBufferMaxSize \in Nat \ {0}  BY ReceiverAssumption DEF ReceiverAssumption
<1>2. ASSUME NEW at \in Positions \cup {Full}, o = Op(g, at, 0, "ok")  PROVE o \in Ops(h)
  <2>1. at \in 1 .. Full /\ at \in 0 .. Full  BY <1>1 DEF Positions, Full
  <2>2. QED  BY <1>1, <1>2, <2>1 DEF Ops, OpShape, Op
<1>3. ASSUME NEW n \in 0 .. RxBufferMaxSize - 1, NEW ec \in {"pending", "bad_descriptor"},
             o = Op(g, n, RxBufferMaxSize - n, ec)
      PROVE  o \in Ops(h)
  <2>1. n \in 0 .. Full /\ RxBufferMaxSize - n \in 1 .. RxBufferMaxSize
        /\ n + (RxBufferMaxSize - n) = RxBufferMaxSize
    BY <1>1 DEF Full
  <2>2. PICK room \in 1 .. RxBufferMaxSize : room = RxBufferMaxSize - n  BY <2>1
  <2>3. o = [gen |-> g, at |-> n, room |-> room, got |-> 0, ec |-> ec]  BY <1>3, <2>2 DEF Op
  <2>4. n + room = RxBufferMaxSize /\ room \in 0 .. RxBufferMaxSize /\ room > 0
    BY <1>1, <2>1, <2>2
  <2>5. OpShape(o)  BY <1>1, <1>3, <2>3, <2>4 DEF OpShape
  <2>6. QED  BY <1>1, <1>3, <2>1, <2>3, <2>4, <2>5 DEF Ops
<1>4. QED  BY <1>2, <1>3

LEMMA SearchType ==
  ASSUME TypeInv, NEW g \in Nat, g \in 1 .. generation', generation' \in Nat,
         NEW from \in Nat, NEW m \in Memory, NEW n \in 0 .. RxBufferMaxSize,
         NEW others, others \subseteq Ops(generation'), Search(g, from, m, n, others)
  PROVE  reads' \subseteq Ops(generation') /\ mem' \in Memory /\ size' \in 0 .. RxBufferMaxSize
<1>1. RxBufferMaxSize \in Nat \ {0}  BY ReceiverAssumption DEF ReceiverAssumption
<1>2. PICK found : found = Look(from, m, n)  OBVIOUS
<1>3. /\ found \in 0 .. Full
      /\ found = More => n < RxBufferMaxSize
  BY <1>2, LookType
<1>4. CASE found # More
  <2>1. reads' = others \cup {Op(g, found, 0, "ok")} /\ mem' = m /\ size' = n
    BY <1>2, <1>4 DEF Search
  <2>2. found \in Positions \cup {Full}  BY <1>1, <1>3, <1>4 DEF More, Positions, Full
  <2>3. Op(g, found, 0, "ok") \in Ops(generation')  BY <2>2, NewOp
  <2>4. QED  BY <2>1, <2>3
<1>5. CASE found = More
  <2>1. PICK ec \in {"pending", "bad_descriptor"} :
          reads' = others \cup {Op(g, n, RxBufferMaxSize - n, ec)}
    BY <1>2, <1>5 DEF Search
  <2>2. n \in 0 .. RxBufferMaxSize - 1  BY <1>1, <1>3, <1>5
  <2>3. Op(g, n, RxBufferMaxSize - n, ec) \in Ops(generation')  BY <2>2, NewOp
  <2>4. mem' = [i \in Positions |-> IF i <= n THEN m[i] ELSE 0] /\ size' = RxBufferMaxSize
    BY <1>2, <1>5 DEF Search
  <2>5. Len(received) \in Nat  BY LenProperties DEF TypeInv, TypeOK
  <2>6. mem' \in Memory  BY <2>4, <2>5 DEF Memory
  <2>7. QED  BY <1>1, <2>1, <2>3, <2>4, <2>6
<1>6. QED  BY <1>4, <1>5

LEMMA StartReadType ==
  ASSUME TypeInv, generation' \in Nat \ {0},
         NEW m \in Memory, NEW n \in 0 .. RxBufferMaxSize,
         NEW others, others \subseteq Ops(generation'), StartRead(m, n, others)
  PROVE  reads' \subseteq Ops(generation') /\ mem' \in Memory /\ size' \in 0 .. RxBufferMaxSize
<1>1. CASE closing' \/ stopped'
  <2>1. reads' = others /\ mem' = m /\ size' = n  BY <1>1 DEF StartRead
  <2>2. QED  BY <2>1
<1>2. CASE ~(closing' \/ stopped')
  <2>1. Search(generation', 0, m, n, others)  BY <1>2 DEF StartRead
  <2>2. QED  BY <2>1, SearchType
<1>3. QED  BY <1>1, <1>2

\* How much of the vector is left when the end of an operation is cut off.
LEMMA ShrunkType ==
  ASSUME TypeInv, NEW o \in reads
  PROVE  /\ Shrunk(o) \in 0 .. size /\ Shrunk(o) \in 0 .. RxBufferMaxSize
         /\ Shrunk(o) = IF size > o.room - o.got THEN size - (o.room - o.got) ELSE 0
<1>1. /\ size \in 0 .. RxBufferMaxSize /\ RxBufferMaxSize \in Nat
      /\ o.room \in Nat /\ o.got \in Nat /\ o.got <= o.room
  BY ReceiverAssumption DEF TypeInv, TypeOK, Ops, OpShape, ReceiverAssumption
<1>2. PICK n \in Int : n = size - (o.room - o.got)  BY <1>1
<1>3. Max({0, n}) = IF n > 0 THEN n ELSE 0  BY MaxWithZero
<1>4. Shrunk(o) = IF n > 0 THEN n ELSE 0  BY <1>2, <1>3 DEF Shrunk
<1>5. QED  BY <1>1, <1>2, <1>4

LEMMA FateType ==
  ASSUME TypeInv, NEW o \in reads, o.ec = "ok"
  PROVE  /\ Fate(o) \in 0 .. Full
         /\ Fate(o) = More => o.got > 0 /\ Shrunk(o) < RxBufferMaxSize
         /\ o.got > 0 /\ Fate(o) \in Positions => Fate(o) \in o.at + 1 .. Shrunk(o)
<1>1. /\ o.at \in 0 .. Full /\ o.at \in Nat /\ o.room \in Nat /\ o.got \in Nat /\ OpShape(o)
  BY ReceiverAssumption DEF TypeInv, TypeOK, Ops, Full, ReceiverAssumption
<1>2. CASE o.got = 0
  <2>1. o.room = 0 /\ o.at \in 1 .. Full  BY <1>1, <1>2 DEF OpShape
  <2>2. QED  BY <1>1, <1>2, <2>1 DEF Fate, More
<1>3. CASE o.got > 0
  <2>1. Fate(o) = Look(o.at, mem, Shrunk(o))  BY <1>3 DEF Fate
  <2>2. Shrunk(o) \in 0 .. RxBufferMaxSize  BY ShrunkType
  <2>3. QED  BY <1>1, <1>3, <2>1, <2>2, LookType
<1>4. QED  BY <1>1, <1>2, <1>3

LEMMA TakeOutType ==
  ASSUME TypeInv, NEW kind \in {"frame", "full"}, NEW n \in 0 .. RxBufferMaxSize, TakeOut(kind, n)
  PROVE  taken' \in Seq(Taken)
<1>1. /\ mem \in [Positions -> 0 .. Len(received)] /\ RxBufferMaxSize \in Nat
      /\ taken \in Seq(Taken)
  BY ReceiverAssumption DEF TypeInv, TypeOK, Taken, ReceiverAssumption
<1>2. \A i \in 1 .. n : mem[i] \in 0 .. Len(received)  BY <1>1 DEF Positions
<1>3. SubSeq(mem, 1, n) \in Seq(0 .. Len(received))  BY <1>2, SubSeqProperties
<1>4. PICK e \in Taken : e = [kind |-> kind, bytes |-> SubSeq(mem, 1, n)]  BY <1>3 DEF Taken
<1>5. taken' = Append(taken, e)  BY <1>4 DEF TakeOut
<1>6. QED  BY <1>1, <1>5, AppendProperties

LEMMA OpsMonotonic ==
  ASSUME NEW g \in Nat, NEW h \in Nat, g <= h
  PROVE  Ops(g) \subseteq Ops(h)
BY DEF Ops

LEMMA OpsAreRecords ==
  ASSUME NEW g \in Nat, NEW ops, ops \subseteq Ops(g)
  PROVE  ops \subseteq [gen : 1 .. g, at : 0 .. Full, room : 0 .. RxBufferMaxSize,
                       got : 0 .. RxBufferMaxSize,
                       ec : {"pending", "ok", "eof", "operation_aborted", "bad_descriptor"}]
BY DEF Ops

LEMMA ErasedType ==
  ASSUME TypeInv, NEW n \in Nat
  PROVE  Erased(n) \in Memory
<1>1. mem \in [Positions -> 0 .. Len(received)] /\ RxBufferMaxSize \in Nat
      /\ Len(received) \in Nat
  BY LenProperties, ReceiverAssumption DEF TypeInv, TypeOK, ReceiverAssumption
<1>2. \A i \in Positions : i + n <= RxBufferMaxSize => mem[i + n] \in 0 .. Len(received)
  BY <1>1 DEF Positions
<1>3. QED  BY <1>1, <1>2 DEF Erased, Memory

LEMMA CancelledType ==
  ASSUME NEW g \in Nat, NEW ops, ops \subseteq Ops(g)
  PROVE  Cancelled(ops) \subseteq Ops(g)
<1>1. ASSUME NEW o \in ops, o.ec = "pending"
      PROVE  [o EXCEPT !.ec = "operation_aborted"] \in Ops(g)
  BY <1>1 DEF Ops, OpShape
<1>2. QED  BY <1>1 DEF Cancelled

LEMMA StopType ==
  ASSUME TypeInv, NEW others, others \subseteq reads, Stop(others), closing' \in BOOLEAN
  PROVE  TypeInv'
<1>1. /\ generation \in Nat /\ generation' = generation + 1 /\ size' = 0
      /\ reads' = Cancelled(others)
      /\ RxBufferMaxSize \in Nat
  BY ReceiverAssumption DEF TypeInv, TypeOK, Stop, ReceiverAssumption
<1>2. others \subseteq Ops(generation')  BY <1>1, OpsMonotonic DEF TypeInv
<1>3. reads' \subseteq Ops(generation')  BY <1>1, <1>2, CancelledType
<1>4. generation' \in Nat /\ size' \in 0 .. RxBufferMaxSize  BY <1>1
<1>5. QED  BY <1>3, <1>4, OpsAreRecords DEF TypeInv, TypeOK, Stop

LEMMA OpenSucceedsType ==
  ASSUME TypeInv, OpenSucceeds
  PROVE  TypeInv'
<1>1. /\ generation \in Nat /\ generation' = generation + 1
      /\ mem \in Memory /\ received' = received
      /\ RxBufferMaxSize \in Nat /\ Len(received) \in Nat
  BY LenProperties, ReceiverAssumption
     DEF TypeInv, TypeOK, OpenSucceeds, Reopening, Memory, ReceiverAssumption
<1>2. reads \subseteq Ops(generation')  BY <1>1, OpsMonotonic DEF TypeInv
<1>3. reads' \subseteq Ops(generation') /\ mem' \in Memory /\ size' \in 0 .. RxBufferMaxSize
  BY <1>1, <1>2, StartReadType DEF OpenSucceeds
<1>4. taken' \in Seq(Taken)
  <2>1. taken' = << >>  BY DEF OpenSucceeds, Reopening
  <2>2. QED  BY <2>1, EmptySeq
<1>5. generation' \in Nat /\ start' \in 0 .. Len(received')
  BY <1>1 DEF OpenSucceeds, Reopening
<1>6. QED
  BY <1>1, <1>3, <1>4, <1>5, OpsAreRecords
     DEF TypeInv, TypeOK, OpenSucceeds, Reopening, Memory, Taken

LEMMA OpenThrowsType ==
  ASSUME TypeInv, OpenThrows
  PROVE  TypeInv'
<1>1. /\ generation \in Nat /\ generation' = generation + 1
      /\ received' = received /\ reads' = reads
      /\ RxBufferMaxSize \in Nat /\ Len(received) \in Nat
  BY LenProperties, ReceiverAssumption
     DEF TypeInv, TypeOK, OpenThrows, Reopening, ReceiverAssumption
<1>2. reads' \subseteq Ops(generation')  BY <1>1, OpsMonotonic DEF TypeInv
<1>3. taken' \in Seq(Taken)
  <2>1. taken' = << >>  BY DEF OpenThrows, Reopening
  <2>2. QED  BY <2>1, EmptySeq
<1>4. generation' \in Nat /\ start' \in 0 .. Len(received') /\ size' \in 0 .. RxBufferMaxSize
  BY <1>1 DEF OpenThrows, Reopening
<1>5. QED
  BY <1>1, <1>2, <1>3, <1>4, OpsAreRecords DEF TypeInv, TypeOK, OpenThrows, Reopening, Taken

LEMMA HandleReadType ==
  ASSUME TypeInv, HandleRead
  PROVE  TypeInv'
<1>1. /\ generation \in Nat /\ mem \in Memory /\ reads \subseteq Ops(generation)
      /\ RxBufferMaxSize \in Nat /\ Len(received) \in Nat
  BY LenProperties, ReceiverAssumption
     DEF TypeInv, TypeOK, Memory, ReceiverAssumption
<1>2. PICK o \in reads :
        \/ ReadWild(o)
        \/ /\ ~PastTheEnd(o)
           /\ \/ ReadsOn(o) \/ StaleRead(o) \/ ReadFails(o) \/ ReadFull(o)
              \/ ReadFrame(o) \/ FrameHandlerThrows(o)
  BY DEF HandleRead, Finished
<1>3. /\ Shrunk(o) \in 0 .. RxBufferMaxSize /\ Shrunk(o) \in Nat
      /\ o.gen \in 1 .. generation /\ o.at \in 0 .. Full /\ o.at \in Nat
      /\ o.room \in Nat /\ o.got \in Nat /\ o.got <= o.room
      /\ generation \in Nat \ {0}
      /\ o.ec = "ok" => o.got > 0 \/ o.room = 0
  BY <1>1, ShrunkType DEF Ops, OpShape, Full
<1>4. CASE ReadWild(o)
  BY <1>4 DEF ReadWild, TypeInv, TypeOK, flagVars, bufferVars, Ops
<1>5. CASE ReadsOn(o)
  <2>1. Search(o.gen, o.at, mem, Shrunk(o), reads \ {o}) /\ generation' = generation
    BY <1>5 DEF ReadsOn, flagVars
  <2>2. reads' \subseteq Ops(generation') /\ mem' \in Memory /\ size' \in 0 .. RxBufferMaxSize
    BY <1>1, <1>3, <2>1, SearchType
  <2>3. QED  BY <1>5, <2>2 DEF ReadsOn, TypeInv, TypeOK, flagVars, Memory, Ops
<1>6. CASE StaleRead(o)
  BY <1>3, <1>6 DEF StaleRead, TypeInv, TypeOK, flagVars, Ops
<1>7. CASE ReadFails(o)
  <2>1. closing' \in BOOLEAN  BY <1>7 DEF ReadFails, TypeInv, TypeOK
  <2>2. QED  BY <1>7, <2>1, StopType DEF ReadFails
<1>8. CASE ReadFull(o)
  <2>1. generation' = generation /\ StartRead(mem, 0, reads \ {o})
    BY <1>8 DEF ReadFull, RecoverFromError, flagVars
  <2>2. reads' \subseteq Ops(generation') /\ mem' \in Memory /\ size' \in 0 .. RxBufferMaxSize
    BY <1>1, <1>3, <2>1, StartReadType
  <2>3. taken' \in Seq(Taken)  BY <1>3, <1>8, TakeOutType DEF ReadFull
  <2>4. QED  BY <1>8, <2>2, <2>3 DEF ReadFull, TypeInv, TypeOK, flagVars, Memory, Taken, Ops
<1>9. ASSUME IsFrame(o), ~PastTheEnd(o)  PROVE Fate(o) \in 1 .. Shrunk(o)
  <2>1. o.ec = "ok" /\ Fate(o) \in Positions  BY <1>9 DEF IsFrame
  <2>2. CASE o.got > 0
    <3>1. Fate(o) \in o.at + 1 .. Shrunk(o)  BY <2>1, <2>2, FateType
    <3>2. QED  BY <1>3, <3>1
  <2>3. CASE ~(o.got > 0)
    <3>1. o.room = 0 /\ o.got = 0  BY <1>3, <2>1, <2>3
    <3>2. Fate(o) = o.at /\ ~(o.at > Shrunk(o))
      BY <1>9, <3>1 DEF Fate, PastTheEnd
    <3>3. QED  BY <1>3, <2>1, <3>2 DEF Positions
  <2>4. QED  BY <2>2, <2>3
<1>10. CASE ~PastTheEnd(o) /\ ReadFrame(o)
  <2>1. Fate(o) \in 1 .. Shrunk(o)  BY <1>9, <1>10 DEF ReadFrame
  <2>2. /\ generation' = generation
        /\ StartRead(Erased(Fate(o)), Shrunk(o) - Fate(o), reads \ {o})
    BY <1>10 DEF ReadFrame, flagVars
  <2>3. Erased(Fate(o)) \in Memory  BY <2>1, ErasedType
  <2>4. Shrunk(o) - Fate(o) \in 0 .. RxBufferMaxSize
    <3>1. PICK k \in Nat : k = Shrunk(o)  BY <1>3
    <3>2. PICK f \in Nat : f = Fate(o)  BY <2>1
    <3>3. k <= RxBufferMaxSize /\ f <= k  BY <1>3, <2>1, <3>1, <3>2
    <3>4. k - f \in 0 .. RxBufferMaxSize  BY <1>1, <3>3
    <3>5. QED  BY <3>1, <3>2, <3>4
  <2>5. reads' \subseteq Ops(generation') /\ mem' \in Memory /\ size' \in 0 .. RxBufferMaxSize
    BY <1>1, <1>3, <2>2, <2>3, <2>4, StartReadType
  <2>6. taken' \in Seq(Taken)  BY <1>1, <1>3, <1>10, <2>1, TakeOutType DEF ReadFrame
  <2>7. QED  BY <1>10, <2>5, <2>6 DEF ReadFrame, TypeInv, TypeOK, flagVars, Memory, Taken, Ops
<1>11. CASE ~PastTheEnd(o) /\ FrameHandlerThrows(o)
  <2>1. Fate(o) \in 1 .. Shrunk(o)  BY <1>9, <1>11 DEF FrameHandlerThrows
  <2>2. taken' \in Seq(Taken)  BY <1>1, <1>3, <1>11, <2>1, TakeOutType DEF FrameHandlerThrows
  <2>3. QED  BY <1>3, <1>11, <2>2 DEF FrameHandlerThrows, TypeInv, TypeOK, flagVars, Taken, Ops
<1>12. QED  BY <1>2, <1>4, <1>5, <1>6, <1>7, <1>8, <1>10, <1>11

LEMMA StreamType ==
  ASSUME TypeInv, Stream
  PROVE  TypeInv'
<1>1. /\ generation \in Nat /\ mem \in [Positions -> 0 .. Len(received)]
      /\ reads \subseteq Ops(generation) /\ received \in Seq(BOOLEAN)
      /\ RxBufferMaxSize \in Nat /\ Len(received) \in Nat /\ start \in 0 .. Len(received)
      /\ taken \in Seq(Taken)
  BY LenProperties, ReceiverAssumption DEF TypeInv, TypeOK, Taken, ReceiverAssumption
<1>2. PICK o \in reads : o.ec = "pending" /\ (StreamReads(o) \/ StreamFails(o))
  BY DEF Stream, Finished
<1>3. /\ o \in Ops(generation) /\ OpShape(o) /\ o.room > 0 /\ o.got = 0
      /\ o.at \in Nat /\ o.room \in Nat /\ o.at + o.room = RxBufferMaxSize
  BY <1>1, <1>2 DEF Ops, OpShape
<1>4. CASE StreamFails(o)
  <2>1. [o EXCEPT !.ec = "eof"] \in Ops(generation)
    <3>1. PICK p : p = [o EXCEPT !.ec = "eof"]  OBVIOUS
    <3>2. p \in [gen : 1 .. generation, at : 0 .. Full, room : 0 .. RxBufferMaxSize,
                 got : 0 .. RxBufferMaxSize,
                 ec : {"pending", "ok", "eof", "operation_aborted", "bad_descriptor"}]
      BY <1>3, <3>1 DEF Ops
    <3>3. p.at = o.at /\ p.room = o.room /\ p.got = o.got /\ p.ec = "eof"
      BY <1>3, <3>1 DEF Ops
    <3>4. OpShape(p)  BY <1>3, <3>3 DEF OpShape
    <3>5. QED  BY <3>1, <3>2, <3>4 DEF Ops
  <2>2. reads' \subseteq Ops(generation') /\ generation' = generation
    BY <1>1, <1>4, <2>1 DEF StreamFails, flagVars
  <2>3. QED
    BY <1>1, <1>4, <2>2, OpsAreRecords DEF StreamFails, TypeInv, TypeOK, flagVars
<1>5. CASE StreamReads(o)
  <2>1. PICK k, bytes :
          /\ k \in 1 .. o.room /\ bytes \in [1 .. k -> BOOLEAN]
          /\ received' = received \o bytes
          /\ mem' = [i \in Positions |-> IF i \in o.at + 1 .. o.at + k
                                         THEN Len(received) + i - o.at ELSE mem[i]]
          /\ reads' = (reads \ {o}) \cup {[o EXCEPT !.got = k, !.ec = "ok"]}
          /\ UNCHANGED <<flagVars, size, wild, start, taken, thrown>>
    BY <1>5, Zenon DEF StreamReads
  <2>2. k \in Nat /\ k <= o.room /\ k > 0  BY <1>3, <2>1
  <2>3. bytes \in Seq(BOOLEAN)
    <3>1. bytes \in [1 .. k -> BOOLEAN] /\ k \in Nat  BY <2>1, <2>2, Zenon
    <3>2. QED  BY <3>1, SeqDef
  <2>4. Len(bytes) = k  BY <2>1, <2>2, <2>3, LenProperties
  <2>5. received' \in Seq(BOOLEAN) /\ Len(received') = Len(received) + k
    BY <1>1, <2>1, <2>3, <2>4, ConcatProperties
  <2>6. mem' \in [Positions -> 0 .. Len(received')]
    <3>1. PICK n \in Nat : n = Len(received)  BY <1>1
    <3>2. ASSUME NEW i \in Positions, i \in o.at + 1 .. o.at + k
          PROVE  n + i - o.at \in 0 .. n + k
      BY <1>3, <2>2, <3>1, <3>2 DEF Positions
    <3>3. \A i \in Positions : mem[i] \in 0 .. Len(received')  BY <1>1, <2>2, <2>5
    <3>4. \A i \in Positions :
            (IF i \in o.at + 1 .. o.at + k THEN Len(received) + i - o.at ELSE mem[i])
                \in 0 .. Len(received')
      BY <2>5, <3>1, <3>2, <3>3
    <3>5. QED  BY <2>1, <3>4, Zenon
  <2>7. [o EXCEPT !.got = k, !.ec = "ok"] \in Ops(generation)
    <3>1. PICK p : p = [o EXCEPT !.got = k, !.ec = "ok"]  OBVIOUS
    <3>2. k \in 0 .. RxBufferMaxSize  BY <1>1, <1>3, <2>2
    <3>3. p \in [gen : 1 .. generation, at : 0 .. Full, room : 0 .. RxBufferMaxSize,
                 got : 0 .. RxBufferMaxSize,
                 ec : {"pending", "ok", "eof", "operation_aborted", "bad_descriptor"}]
      BY <1>3, <3>1, <3>2 DEF Ops
    <3>4. p.at = o.at /\ p.room = o.room /\ p.got = k /\ p.ec = "ok"
      BY <1>3, <3>1 DEF Ops
    <3>5. OpShape(p)  BY <1>3, <2>2, <3>4 DEF OpShape
    <3>6. QED  BY <3>1, <3>3, <3>5 DEF Ops
  <2>8. reads' \subseteq Ops(generation') /\ generation' = generation
    BY <1>1, <2>1, <2>7 DEF flagVars
  <2>9. start' \in 0 .. Len(received')  BY <1>1, <2>1, <2>2, <2>5
  <2>10. taken' \in Seq([kind : {"frame", "full"}, bytes : Seq(0 .. Len(received'))])
    <3>1. 0 .. Len(received) \subseteq 0 .. Len(received')  BY <1>1, <2>2, <2>5
    <3>2. \A s \in Seq(0 .. Len(received)) : s \in Seq(0 .. Len(received'))
      BY <3>1, SeqMonotonic
    <3>3. Taken \subseteq [kind : {"frame", "full"}, bytes : Seq(0 .. Len(received'))]
      BY <3>2 DEF Taken
    <3>4. QED  BY <1>1, <2>1, <3>3, SeqMonotonic
  <2>11. {closing', stopped', portOpen', wild', thrown'} \subseteq BOOLEAN
         /\ generation' \in Nat /\ size' \in 0 .. RxBufferMaxSize
    BY <2>1 DEF TypeInv, TypeOK, flagVars
  <2>12. QED
    BY <2>5, <2>6, <2>8, <2>9, <2>10, <2>11, OpsAreRecords DEF TypeInv, TypeOK
<1>6. QED  BY <1>2, <1>4, <1>5

LEMMA TypeStep ==
  ASSUME TypeInv, [Next]_vars
  PROVE  TypeInv'
<1>1. CASE OpenSucceeds  BY <1>1, OpenSucceedsType
<1>2. CASE OpenThrows  BY <1>2, OpenThrowsType
<1>3. CASE CloseOnStrand
  <2>1. closing' \in BOOLEAN /\ Stop(reads)  BY <1>3 DEF CloseOnStrand
  <2>2. QED  BY <2>1, StopType
<1>4. CASE WriteFails
  <2>1. closing' \in BOOLEAN /\ Stop(reads)  BY <1>4 DEF WriteFails, TypeInv, TypeOK
  <2>2. QED  BY <2>1, StopType
<1>5. CASE HandleRead  BY <1>5, HandleReadType
<1>6. CASE Stream  BY <1>6, StreamType
<1>7. CASE UNCHANGED vars
  <2>1. /\ UNCHANGED <<closing, stopped, generation, portOpen, mem, size, reads>>
        /\ UNCHANGED <<wild, received, start, taken, thrown>>
    BY <1>7 DEF vars, flagVars, bufferVars
  <2>2. QED  BY <2>1 DEF TypeInv, TypeOK, Ops
<1>8. QED  BY <1>1, <1>2, <1>3, <1>4, <1>5, <1>6, <1>7 DEF Next

LEMMA TypeInit ==
  ASSUME Init
  PROVE  TypeInv
<1>1. RxBufferMaxSize \in Nat  BY ReceiverAssumption DEF ReceiverAssumption
<1>2. received \in Seq(BOOLEAN) /\ Len(received) = 0 /\ taken \in Seq(Taken)
  BY EmptySeq DEF Init
<1>3. mem \in [Positions -> 0 .. Len(received)]  BY <1>2 DEF Init
<1>4. {closing, stopped, portOpen, wild, thrown} \subseteq BOOLEAN  BY Zenon DEF Init
<1>5. generation \in Nat /\ size \in 0 .. RxBufferMaxSize /\ start \in 0 .. Len(received)
  BY <1>1, <1>2 DEF Init
<1>6. reads \subseteq Ops(generation)  BY DEF Init
<1>7. QED  BY <1>2, <1>3, <1>4, <1>5, <1>6, OpsAreRecords DEF TypeInv, TypeOK, Taken

\* TypeOK for every stream, buffer and schedule, operations of earlier sessions included: as
\* long as no search and no erase has gone past its end the vector holds at most its maximum
\* (bufferConfig.rxBufferMaxSize), and in it only zeros and bytes the port has read.
THEOREM TypeCorrect == Spec => []TypeOK
<1>1. Init => TypeInv  BY TypeInit
<1>2. TypeInv /\ [Next]_vars => TypeInv'  BY TypeStep
<1>3. TypeInv => TypeOK  BY DEF TypeInv
<1>4. QED  BY <1>1, <1>2, <1>3, PTL DEF Spec

-----------------------------------------------------------------------------
(* One operation at most.                                                  *)

LEMMA SearchStartsOne ==
  ASSUME NEW g, NEW from, NEW m, NEW n, Search(g, from, m, n, {})
  PROVE  /\ \A o, p \in reads' : o = p
         /\ \A o \in reads' : o.gen = g
<1>1. CASE Look(from, m, n) # More
  <2>1. reads' = {Op(g, Look(from, m, n), 0, "ok")}  BY <1>1 DEF Search
  <2>2. QED  BY <2>1 DEF Op
<1>2. CASE Look(from, m, n) = More
  <2>1. PICK ec : reads' = {Op(g, n, RxBufferMaxSize - n, ec)}  BY <1>2 DEF Search
  <2>2. QED  BY <2>1 DEF Op
<1>3. QED  BY <1>1, <1>2

LEMMA StartReadStartsOne ==
  ASSUME NEW m, NEW n, StartRead(m, n, {})
  PROVE  /\ \A o, p \in reads' : o = p
         /\ \A o \in reads' : o.gen = generation'
<1>1. CASE closing' \/ stopped'  BY <1>1 DEF StartRead
<1>2. CASE ~(closing' \/ stopped')
  <2>1. Search(generation', 0, m, n, {})  BY <1>2 DEF StartRead
  <2>2. QED  BY <2>1, SearchStartsOne
<1>3. QED  BY <1>1, <1>2

\* Stopping cancels the operation; nothing runs after it.
LEMMA StopKeepsOne ==
  ASSUME OneRead, NEW others, others \subseteq reads, Stop(others)
  PROVE  OneRead' /\ ~Running'
<1>1. \A o, p \in others : o = p  BY DEF OneRead
<1>2. reads' = Cancelled(others) /\ stopped'  BY DEF Stop
<1>3. \A o, p \in reads' : o = p  BY <1>1, <1>2 DEF Cancelled
<1>4. ~Running'  BY <1>2 DEF Running
<1>5. QED  BY <1>3, <1>4 DEF OneRead

\* The operation of a running session is not stale, and there is no other.
LEMMA TheRead ==
  ASSUME OneRead, NEW o \in reads
  PROVE  /\ reads \ {o} = {}
         /\ Running => ~thrown /\ o.gen = generation /\ ~Stale(o)
         /\ ~Stale(o) => Running
BY DEF OneRead, Stale

LEMMA OneReadStep ==
  ASSUME CleanReopen, TypeInv, OneRead, [Next]_vars
  PROVE  OneRead'
<1>1. CASE OpenSucceeds
  <2>1. reads = {} /\ thrown' = FALSE /\ StartRead(mem, 0, reads)
    BY <1>1 DEF OpenSucceeds, Reopening
  <2>2. QED  BY <2>1, StartReadStartsOne DEF OneRead
<1>2. CASE OpenThrows
  <2>1. reads' = {}  BY <1>2 DEF OpenThrows, Reopening
  <2>2. QED  BY <2>1 DEF OneRead
<1>3. CASE CloseOnStrand  BY <1>3, StopKeepsOne DEF CloseOnStrand
<1>4. CASE WriteFails  BY <1>4, StopKeepsOne DEF WriteFails
<1>5. CASE HandleRead
  <2>1. PICK o \in reads : \/ ReadWild(o) \/ ReadsOn(o) \/ StaleRead(o) \/ ReadFails(o)
                           \/ ReadFull(o) \/ ReadFrame(o) \/ FrameHandlerThrows(o)
    BY <1>5 DEF HandleRead, Finished
  <2>2. /\ reads \ {o} = {}
        /\ Running => ~thrown /\ o.gen = generation
        /\ ~Stale(o) => Running
    BY TheRead
  <2>3. CASE ReadWild(o)
    BY <2>3 DEF ReadWild, OneRead, Running, flagVars, bufferVars
  <2>4. CASE ReadsOn(o)
    <3>1. Search(o.gen, o.at, mem, Shrunk(o), {})  BY <2>2, <2>4 DEF ReadsOn
    <3>2. (Running' <=> Running) /\ generation' = generation /\ thrown' = thrown
      BY <2>4 DEF ReadsOn, flagVars, Running
    <3>3. QED  BY <2>2, <3>1, <3>2, SearchStartsOne DEF OneRead
  <2>5. CASE StaleRead(o)
    <3>1. reads' = {}  BY <2>2, <2>5 DEF StaleRead
    <3>2. QED  BY <3>1 DEF OneRead
  <2>6. CASE ReadFails(o)  BY <2>6, StopKeepsOne DEF ReadFails
  <2>7. CASE ReadFull(o) \/ ReadFrame(o)
    <3>1. \E m, n : StartRead(m, n, {})
      BY <2>2, <2>7 DEF ReadFull, ReadFrame, RecoverFromError
    <3>2. thrown' = thrown /\ ~Stale(o)  BY <2>7 DEF ReadFull, ReadFrame, IsFrame
    <3>3. QED  BY <2>2, <3>1, <3>2, StartReadStartsOne DEF OneRead
  <2>8. CASE FrameHandlerThrows(o)
    <3>1. reads' = {}  BY <2>2, <2>8 DEF FrameHandlerThrows
    <3>2. QED  BY <3>1 DEF OneRead
  <2>9. QED  BY <2>1, <2>3, <2>4, <2>5, <2>6, <2>7, <2>8
<1>6. CASE Stream
  <2>1. PICK o \in reads : StreamReads(o) \/ StreamFails(o)  BY <1>6 DEF Stream, Finished
  <2>2. reads \ {o} = {} /\ (Running => ~thrown /\ o.gen = generation)  BY TheRead
  <2>3. UNCHANGED <<flagVars, thrown>>  BY <2>1 DEF StreamReads, StreamFails
  <2>4. PICK p : reads' = {p} /\ p.gen = o.gen
    <3>1. CASE StreamFails(o)
      <4>1. reads' = {[o EXCEPT !.ec = "eof"]}  BY <2>2, <3>1 DEF StreamFails
      <4>2. [o EXCEPT !.ec = "eof"].gen = o.gen  BY DEF TypeInv, Ops
      <4>3. QED  BY <4>1, <4>2, Zenon
    <3>2. CASE StreamReads(o)
      <4>1. PICK k : reads' = {[o EXCEPT !.got = k, !.ec = "ok"]}
        BY <2>2, <3>2 DEF StreamReads
      <4>2. [o EXCEPT !.got = k, !.ec = "ok"].gen = o.gen  BY DEF TypeInv, Ops
      <4>3. QED  BY <4>1, <4>2, Zenon
    <3>3. QED  BY <2>1, <3>1, <3>2
  <2>5. QED  BY <2>2, <2>3, <2>4 DEF OneRead, Running, flagVars
<1>7. CASE UNCHANGED vars  BY <1>7 DEF OneRead, Running, vars, flagVars, bufferVars
<1>8. QED  BY <1>1, <1>2, <1>3, <1>4, <1>5, <1>6, <1>7 DEF Next

-----------------------------------------------------------------------------
(* What is handed out.                                                     *)

LEMMA TakenBeforeType ==
  ASSUME TypeInv, NothingLost
  PROVE  /\ Len(taken) \in Nat /\ Len(received) \in Nat
         /\ \A i \in 1 .. Len(taken) + 1 : TakenBefore(i) \in 0 .. Len(received)
         /\ Gone \in 0 .. Len(received)
<1>1. /\ taken \in Seq(Taken) /\ start \in 0 .. Len(received)
      /\ Len(taken) \in Nat /\ Len(received) \in Nat
  BY LenProperties DEF TypeInv, TypeOK, Taken
<1>2. ASSUME NEW i \in 1 .. Len(taken) + 1  PROVE TakenBefore(i) \in 0 .. Len(received)
  <2>1. CASE i = 1  BY <1>1, <2>1 DEF TakenBefore
  <2>2. CASE i # 1
    <3>1. i - 1 \in 1 .. Len(taken)  BY <1>1, <2>2
    <3>2. PICK k \in 1 .. Len(taken) : k = i - 1  BY <3>1
    <3>3. taken[k] \in Taken  BY <1>1, ElementOfSeq
    <3>4. taken[k].bytes \in Seq(0 .. Len(received)) /\ taken[k].bytes # << >>
      BY <3>3 DEF Taken, NothingLost
    <3>5. Len(taken[k].bytes) \in Nat \ {0}  BY <3>4, EmptySeq
    <3>6. taken[k].bytes[Len(taken[k].bytes)] \in 0 .. Len(received)
      BY <3>4, <3>5, ElementOfSeq
    <3>7. QED  BY <2>2, <3>2, <3>6 DEF TakenBefore
  <2>3. QED  BY <2>1, <2>2
<1>3. Gone \in 0 .. Len(received)  BY <1>1, <1>2 DEF Gone
<1>4. QED  BY <1>1, <1>2, <1>3

\* A new operation, over what is left in the buffer.
LEMMA SearchKnows ==
  ASSUME NEW g, NEW m \in Memory, NEW n \in 0 .. RxBufferMaxSize, NEW from \in 0 .. n,
         NEW gone \in Nat, gone + n = Len(received),
         \A i \in 1 .. n : m[i] = gone + i,
         \A i \in 1 .. from : ~Delim(received, m[i]),
         Search(g, from, m, n, {})
  PROVE  \A o \in reads' : OpInv(o, gone, mem', size', received)
<1>1. RxBufferMaxSize \in Nat \ {0}  BY ReceiverAssumption DEF ReceiverAssumption
<1>2. PICK found : found = Look(from, m, n)  OBVIOUS
<1>3. \/ /\ found \in from + 1 .. n /\ Delim(received, m[found])
         /\ \A i \in from + 1 .. found - 1 : ~Delim(received, m[i])
      \/ /\ found = Full /\ n = RxBufferMaxSize
         /\ \A i \in from + 1 .. n : ~Delim(received, m[i])
      \/ /\ found = More /\ n < RxBufferMaxSize
         /\ \A i \in from + 1 .. n : ~Delim(received, m[i])
  <2>1. from \in Nat  OBVIOUS
  <2>2. QED  BY <1>2, <2>1, LookFinds
<1>4. CASE /\ found \in from + 1 .. n /\ Delim(received, m[found])
           /\ \A i \in from + 1 .. found - 1 : ~Delim(received, m[i])
  <2>1. found \in 1 .. n /\ found # Full /\ found # More  BY <1>1, <1>4 DEF Full, More
  <2>2. reads' = {Op(g, found, 0, "ok")} /\ mem' = m /\ size' = n
    BY <1>2, <2>1 DEF Search
  <2>3. \A i \in 1 .. found - 1 : ~Delim(received, m[i])
    <3>1. \A i \in 1 .. found - 1 : i \in 1 .. from \/ i \in from + 1 .. found - 1
      BY <2>1
    <3>2. QED  BY <1>4, <3>1, Zenon
  <2>4. QED  BY <1>4, <2>1, <2>2, <2>3 DEF OpInv, Held, Op
<1>5. CASE /\ found = Full /\ n = RxBufferMaxSize
           /\ \A i \in from + 1 .. n : ~Delim(received, m[i])
  <2>1. found # More  BY <1>1, <1>5 DEF Full, More
  <2>2. reads' = {Op(g, found, 0, "ok")} /\ mem' = m /\ size' = n
    BY <1>2, <2>1 DEF Search
  <2>3. \A i \in 1 .. n : ~Delim(received, m[i])
    <3>1. \A i \in 1 .. n : i \in 1 .. from \/ i \in from + 1 .. n  OBVIOUS
    <3>2. QED  BY <1>5, <3>1, Zenon
  <2>4. QED  BY <1>5, <2>1, <2>2, <2>3 DEF OpInv, Held, Op
<1>6. CASE /\ found = More /\ n < RxBufferMaxSize
           /\ \A i \in from + 1 .. n : ~Delim(received, m[i])
  <2>1. PICK ec : /\ reads' = {Op(g, n, RxBufferMaxSize - n, ec)}
                  /\ mem' = [i \in Positions |-> IF i <= n THEN m[i] ELSE 0]
                  /\ size' = RxBufferMaxSize
    BY <1>2, <1>6 DEF Search
  <2>2. \A i \in 1 .. n : ~Delim(received, m[i])
    <3>1. \A i \in 1 .. n : i \in 1 .. from \/ i \in from + 1 .. n  OBVIOUS
    <3>2. QED  BY <1>6, <3>1, Zenon
  <2>3. \A i \in 1 .. n : mem'[i] = m[i]  BY <1>1, <1>6, <2>1 DEF Positions
  <2>4. \A i \in 1 .. n : ~Delim(received, mem'[i])  BY <2>2, <2>3
  <2>5. PICK room \in Nat : room = RxBufferMaxSize - n  BY <1>1, <1>6
  <2>6. room > 0  BY <1>1, <1>6, <2>5
  <2>7. SUFFICES ASSUME NEW o, o = Op(g, n, room, ec)
                 PROVE  OpInv(o, gone, mem', size', received)
    BY <2>1, <2>5
  <2>8. o.room = room /\ o.at = n /\ o.got = 0 /\ Held(o, size') = n
    BY <2>6, <2>7 DEF Op, Held
  <2>9. o.room # 0 /\ ~(o.room = 0) /\ o.room > 0  BY <2>6, <2>8
  <2>10. \A i \in 1 .. n : mem'[i] = gone + i  BY <2>3
  <2>11. QED  BY <2>1, <2>4, <2>8, <2>9, <2>10, Zenon DEF OpInv
<1>7. QED  BY <1>3, <1>4, <1>5, <1>6, Zenon

\* What the answer of the session's operation says of the buffer.
LEMMA FateKnows ==
  ASSUME TypeInv, NothingLost, NEW o \in reads, o.ec = "ok",
         OpInv(o, Gone, mem, size, received)
  PROVE  /\ Gone + Shrunk(o) = Len(received)
         /\ \A i \in 1 .. Shrunk(o) : mem[i] = Gone + i
         /\ Fate(o) = More => /\ o.at \in 0 .. Shrunk(o)
                              /\ \A i \in 1 .. o.at : ~Delim(received, mem[i])
         /\ Fate(o) = Full => /\ Shrunk(o) = RxBufferMaxSize
                              /\ \A i \in 1 .. RxBufferMaxSize : ~Delim(received, mem[i])
         /\ Fate(o) \in Positions =>
                /\ Fate(o) \in 1 .. Shrunk(o) /\ Delim(received, mem[Fate(o)])
                /\ \A i \in 1 .. Fate(o) - 1 : ~Delim(received, mem[i])
<1>1. /\ RxBufferMaxSize \in Nat \ {0} /\ size \in 0 .. RxBufferMaxSize
      /\ o.at \in 0 .. Full /\ o.at \in Nat /\ o.room \in Nat /\ o.got \in Nat /\ OpShape(o)
      /\ Gone \in Nat /\ Len(received) \in Nat
  <2>1. Gone \in Nat /\ Len(received) \in Nat  BY TakenBeforeType
  <2>2. QED  BY <2>1, ReceiverAssumption DEF TypeInv, TypeOK, Ops, Full, ReceiverAssumption
<1>2. Shrunk(o) = IF size > o.room - o.got THEN size - (o.room - o.got) ELSE 0
  BY ShrunkType
<1>3. CASE o.room = 0
  <2>1. o.got = 0 /\ Shrunk(o) = size /\ Fate(o) = o.at /\ o.at \in 1 .. Full
    BY <1>1, <1>2, <1>3 DEF Fate, OpShape
  <2>2. Gone + size = Len(received) /\ \A i \in 1 .. size : mem[i] = Gone + i
    BY <1>3 DEF OpInv, Held
  <2>3. CASE o.at = Full
    <3>1. size = RxBufferMaxSize /\ \A i \in 1 .. size : ~Delim(received, mem[i])
      BY <1>3, <2>3, Zenon DEF OpInv
    <3>2. Fate(o) # More /\ ~(Fate(o) \in Positions)
      BY <1>1, <2>1, <2>3 DEF Full, More, Positions
    <3>3. QED  BY <2>1, <2>2, <3>1, <3>2
  <2>4. CASE o.at # Full
    <3>1. /\ o.at <= size /\ Delim(received, mem[o.at])
          /\ \A i \in 1 .. o.at - 1 : ~Delim(received, mem[i])
      BY <1>3, <2>4, Zenon DEF OpInv
    <3>2. Fate(o) # More /\ Fate(o) # Full /\ Fate(o) \in 1 .. Shrunk(o)
      BY <1>1, <2>1, <2>4, <3>1 DEF More
    <3>3. QED  BY <2>1, <2>2, <3>1, <3>2
  <2>5. QED  BY <2>3, <2>4
<1>4. CASE o.room > 0
  <2>1. o.got > 0 /\ o.at + o.room = RxBufferMaxSize /\ o.got <= o.room
    BY <1>1, <1>4 DEF OpShape
  <2>2. /\ size = RxBufferMaxSize /\ Gone + (o.at + o.got) = Len(received)
        /\ \A i \in 1 .. o.at + o.got : mem[i] = Gone + i
        /\ \A i \in 1 .. o.at : ~Delim(received, mem[i])
    <3>1. o.room # 0  BY <1>1, <1>4
    <3>2. QED  BY <1>4, <3>1, Zenon DEF OpInv, Held
  <2>3. Shrunk(o) = o.at + o.got /\ Shrunk(o) \in 0 .. RxBufferMaxSize
    BY <1>1, <1>2, <2>1, <2>2
  <2>4. PICK found : found = Look(o.at, mem, Shrunk(o)) /\ found = Fate(o)
    BY <1>1, <2>1 DEF Fate
  <2>5. \/ /\ found \in o.at + 1 .. Shrunk(o) /\ Delim(received, mem[found])
           /\ \A i \in o.at + 1 .. found - 1 : ~Delim(received, mem[i])
        \/ /\ found = Full /\ Shrunk(o) = RxBufferMaxSize
           /\ \A i \in o.at + 1 .. Shrunk(o) : ~Delim(received, mem[i])
        \/ /\ found = More /\ Shrunk(o) < RxBufferMaxSize
           /\ \A i \in o.at + 1 .. Shrunk(o) : ~Delim(received, mem[i])
    BY <1>1, <2>3, <2>4, LookFinds
  <2>6. CASE /\ found \in o.at + 1 .. Shrunk(o) /\ Delim(received, mem[found])
             /\ \A i \in o.at + 1 .. found - 1 : ~Delim(received, mem[i])
    <3>1. found \in 1 .. Shrunk(o) /\ found # Full /\ found # More
      BY <1>1, <2>3, <2>6 DEF Full, More
    <3>2. \A i \in 1 .. found - 1 : i \in 1 .. o.at \/ i \in o.at + 1 .. found - 1
      BY <1>1, <3>1
    <3>3. \A i \in 1 .. found - 1 : ~Delim(received, mem[i])  BY <2>2, <2>6, <3>2, Zenon
    <3>4. QED  BY <2>2, <2>3, <2>4, <2>6, <3>1, <3>3
  <2>7. CASE /\ found = Full /\ Shrunk(o) = RxBufferMaxSize
             /\ \A i \in o.at + 1 .. Shrunk(o) : ~Delim(received, mem[i])
    <3>1. found # More /\ ~(found \in Positions)
      BY <1>1, <2>7 DEF Full, More, Positions
    <3>2. \A i \in 1 .. RxBufferMaxSize : i \in 1 .. o.at \/ i \in o.at + 1 .. Shrunk(o)
      BY <1>1, <2>7
    <3>3. \A i \in 1 .. RxBufferMaxSize : ~Delim(received, mem[i])
      BY <2>2, <2>7, <3>2, Zenon
    <3>4. QED  BY <2>2, <2>3, <2>4, <2>7, <3>1, <3>3
  <2>8. CASE /\ found = More /\ Shrunk(o) < RxBufferMaxSize
             /\ \A i \in o.at + 1 .. Shrunk(o) : ~Delim(received, mem[i])
    <3>1. found # Full /\ ~(found \in Positions)
      BY <1>1, <2>8 DEF Full, More, Positions
    <3>2. o.at \in 0 .. Shrunk(o)  BY <1>1, <2>3
    <3>3. QED  BY <2>2, <2>3, <2>4, <3>1, <3>2
  <2>9. QED  BY <2>5, <2>6, <2>7, <2>8, Zenon
<1>5. QED  BY <1>1, <1>3, <1>4

\* Bytes taken off the front of the buffer follow those taken before.
LEMMA TakeOutKnows ==
  ASSUME TypeInv, NothingLost, FramesDelimited,
         NEW kind \in {"frame", "full"}, NEW n \in 1 .. RxBufferMaxSize,
         TakeOut(kind, n), UNCHANGED <<received, start>>,
         \A i \in 1 .. n : mem[i] = Gone + i,
         kind = "frame" => /\ Delim(received, mem[n])
                           /\ \A i \in 1 .. n - 1 : ~Delim(received, mem[i]),
         kind = "full" => /\ n = RxBufferMaxSize
                          /\ \A i \in 1 .. n : ~Delim(received, mem[i])
  PROVE  NothingLost' /\ FramesDelimited' /\ Gone' = Gone + n
<1>1. /\ mem \in [Positions -> 0 .. Len(received)] /\ RxBufferMaxSize \in Nat \ {0}
      /\ taken \in Seq(Taken) /\ Gone \in Nat /\ Len(taken) \in Nat
      /\ received \in [1 .. Len(received) -> BOOLEAN] /\ Len(received) \in Nat
  BY TakenBeforeType, LenProperties, ReceiverAssumption
     DEF TypeInv, TypeOK, Taken, ReceiverAssumption
<1>2. PICK b : b = SubSeq(mem, 1, n)  OBVIOUS
<1>3. /\ b \in Seq(0 .. Len(received)) /\ Len(b) = n
      /\ \A j \in 1 .. n : b[j] = mem[j]
  <2>1. \A i \in 1 .. n : mem[i] \in 0 .. Len(received)  BY <1>1 DEF Positions
  <2>2. QED  BY <1>2, <2>1, SubSeqProperties
<1>4. b # << >>  BY <1>3, EmptySeq
<1>5. PICK e \in Taken : e = [kind |-> kind, bytes |-> b]  BY <1>3 DEF Taken
<1>6. taken' = Append(taken, e)  BY <1>2, <1>5 DEF TakeOut
<1>7. PICK k \in Nat : k = Len(taken)  BY <1>1
<1>8. /\ Len(taken') = k + 1 /\ taken'[k + 1] = e
      /\ \A i \in 1 .. k : taken'[i] = taken[i]
  BY <1>1, <1>6, <1>7, AppendProperties
<1>9. \A i \in 1 .. k + 1 : TakenBefore(i)' = TakenBefore(i)
  <2>1. ASSUME NEW i \in 1 .. k + 1  PROVE TakenBefore(i)' = TakenBefore(i)
    <3>1. CASE i = 1  BY <3>1 DEF TakenBefore
    <3>2. CASE i # 1
      <4>1. i - 1 \in 1 .. k  BY <1>7, <3>2
      <4>2. taken'[i - 1] = taken[i - 1]  BY <1>8, <4>1
      <4>3. QED  BY <3>2, <4>2 DEF TakenBefore
    <3>3. QED  BY <3>1, <3>2
  <2>2. QED  BY <2>1
<1>10. TakenBefore(k + 1) = Gone  BY <1>7 DEF Gone
<1>11. \A j \in 1 .. n : b[j] = Gone + j  BY <1>3
<1>12. NothingLost'
  <2>1. SUFFICES ASSUME NEW i \in 1 .. Len(taken')
                 PROVE  /\ taken'[i].bytes # << >>
                        /\ \A j \in 1 .. Len(taken'[i].bytes) :
                             taken'[i].bytes[j] = TakenBefore(i)' + j
    BY DEF NothingLost
  <2>2. CASE i \in 1 .. k
    <3>1. taken'[i] = taken[i] /\ TakenBefore(i)' = TakenBefore(i)  BY <1>8, <1>9, <2>2
    <3>2. QED  BY <1>7, <2>2, <3>1 DEF NothingLost
  <2>3. CASE i = k + 1
    <3>1. taken'[i].bytes = b /\ TakenBefore(i)' = Gone
      BY <1>5, <1>8, <1>9, <1>10, <2>3
    <3>2. QED  BY <1>3, <1>4, <1>11, <3>1
  <2>4. QED  BY <1>7, <1>8, <2>2, <2>3
<1>13. \A j \in 1 .. n : b[j] # 0 /\ b[j] \in 1 .. Len(received)
  <2>1. \A j \in 1 .. n : b[j] \in 0 .. Len(received)  BY <1>3, ElementOfSeq
  <2>2. QED  BY <1>1, <1>11, <2>1
<1>14. \A j \in 1 .. n : Delim(received, mem[j]) <=> received[b[j]]
  BY <1>3, <1>13, Zenon DEF Delim
<1>15. FramesDelimited'
  <2>1. SUFFICES ASSUME NEW i \in 1 .. Len(taken')
                 PROVE  IF taken'[i].kind = "frame"
                        THEN \A j \in 1 .. Len(taken'[i].bytes) :
                               /\ taken'[i].bytes[j] # 0
                               /\ received'[taken'[i].bytes[j]] = (j = Len(taken'[i].bytes))
                        ELSE /\ Len(taken'[i].bytes) = RxBufferMaxSize
                             /\ \A j \in 1 .. Len(taken'[i].bytes) :
                                  taken'[i].bytes[j] # 0 /\ ~received'[taken'[i].bytes[j]]
    BY Zenon DEF FramesDelimited
  <2>2. CASE i \in 1 .. k
    <3>1. taken'[i] = taken[i] /\ received' = received /\ i \in 1 .. Len(taken)
      BY <1>7, <1>8, <2>2
    <3>2. IF taken[i].kind = "frame"
          THEN \A j \in 1 .. Len(taken[i].bytes) :
                 /\ taken[i].bytes[j] # 0
                 /\ received[taken[i].bytes[j]] = (j = Len(taken[i].bytes))
          ELSE /\ Len(taken[i].bytes) = RxBufferMaxSize
               /\ \A j \in 1 .. Len(taken[i].bytes) :
                    taken[i].bytes[j] # 0 /\ ~received[taken[i].bytes[j]]
      BY <3>1, Zenon DEF FramesDelimited
    <3>3. PICK t : t = taken[i]  OBVIOUS
    <3>4. taken'[i] = t  BY <3>1, <3>3, Zenon
    <3>5. QED  BY <3>1, <3>2, <3>3, <3>4, Zenon
  <2>3. CASE i = k + 1
    <3>1. taken'[i].bytes = b /\ taken'[i].kind = kind /\ received' = received
      BY <1>5, <1>8, <2>3
    <3>2. CASE kind = "frame"
      <4>1. ASSUME NEW j \in 1 .. n  PROVE received[b[j]] = (j = n)
        <5>1. received[b[j]] \in BOOLEAN  BY <1>1, <1>13
        <5>2. CASE j = n
          <6>1. received[b[j]]  BY <1>14, <3>2, <5>2, Zenon
          <6>2. QED  BY <5>1, <5>2, <6>1, Zenon
        <5>3. CASE j # n
          <6>1. j \in 1 .. n - 1  BY <1>1, <5>3
          <6>2. ~received[b[j]]  BY <1>14, <3>2, <6>1, Zenon
          <6>3. QED  BY <5>1, <5>3, <6>2, Zenon
        <5>4. QED  BY <5>2, <5>3, Zenon
      <4>2. taken'[i].kind = "frame" /\ Len(taken'[i].bytes) = n  BY <1>3, <3>1, <3>2
      <4>3. \A j \in 1 .. n : taken'[i].bytes[j] # 0
                             /\ received'[taken'[i].bytes[j]] = (j = n)
        BY <1>13, <3>1, <4>1, Zenon
      <4>4. QED  BY <4>2, <4>3, Zenon
    <3>3. CASE kind = "full"
      <4>1. \A j \in 1 .. n : ~received[b[j]]  BY <1>14, <3>3, Zenon
      <4>2. n = RxBufferMaxSize /\ kind # "frame"  BY <3>3
      <4>3. QED  BY <1>3, <1>13, <3>1, <4>1, <4>2, Zenon
    <3>4. QED  BY <3>2, <3>3, Zenon
  <2>4. QED  BY <1>7, <1>8, <2>2, <2>3
<1>16. Gone' = Gone + n
  <2>1. Len(taken') + 1 # 1 /\ (Len(taken') + 1) - 1 = k + 1  BY <1>7, <1>8
  <2>2. Gone' = taken'[k + 1].bytes[Len(taken'[k + 1].bytes)]  BY <2>1 DEF Gone, TakenBefore
  <2>3. Gone' = b[n]  BY <1>3, <1>5, <1>8, <2>2
  <2>4. n \in 1 .. n  OBVIOUS
  <2>5. QED  BY <1>11, <2>3, <2>4
<1>17. QED  BY <1>12, <1>15, <1>16

LEMMA StartReadKnows ==
  ASSUME NEW m \in Memory, NEW n \in 0 .. RxBufferMaxSize,
         NEW gone \in Nat, gone + n = Len(received),
         \A i \in 1 .. n : m[i] = gone + i,
         StartRead(m, n, {})
  PROVE  \A o \in reads' : OpInv(o, gone, mem', size', received)
<1>1. CASE closing' \/ stopped'
  <2>1. reads' = {}  BY <1>1 DEF StartRead
  <2>2. QED  BY <2>1
<1>2. CASE ~(closing' \/ stopped')
  <2>1. Search(generation', 0, m, n, {})  BY <1>2 DEF StartRead
  <2>2. 0 \in 0 .. n /\ \A i \in 1 .. 0 : ~Delim(received, m[i])  OBVIOUS
  <2>3. QED  BY <2>1, <2>2, SearchKnows
<1>3. QED  BY <1>1, <1>2

\* What a task does that takes nothing and reads nothing.
LEMMA NothingTaken ==
  ASSUME NothingLost, FramesDelimited, UNCHANGED <<received, start, taken>>
  PROVE  NothingLost' /\ FramesDelimited' /\ Gone' = Gone
<1>1. Gone' = Gone  BY DEF Gone, TakenBefore
<1>2. NothingLost'  BY DEF NothingLost, TakenBefore
<1>3. FramesDelimited'  BY Zenon DEF FramesDelimited
<1>4. QED  BY <1>1, <1>2, <1>3

LEMMA StopKnows ==
  ASSUME NothingLost, FramesDelimited, NEW others, Stop(others)
  PROVE  NothingLost' /\ FramesDelimited' /\ SessionInv'
<1>1. stopped' /\ UNCHANGED <<received, start, taken>>  BY DEF Stop
<1>2. ~Running'  BY <1>1 DEF Running
<1>3. QED  BY <1>1, <1>2, NothingTaken DEF SessionInv

LEMMA OpenKnows ==
  ASSUME CleanReopen, TypeInv, OpenSucceeds \/ OpenThrows
  PROVE  NothingLost' /\ FramesDelimited' /\ SessionInv'
<1>1. /\ taken' = << >> /\ start' = Len(received) /\ received' = received /\ reads = {}
      /\ Len(received) \in Nat
  BY LenProperties DEF OpenSucceeds, OpenThrows, Reopening, TypeInv, TypeOK
<1>2. Len(taken') = 0  BY <1>1
<1>3. NothingLost' /\ FramesDelimited'  BY <1>2 DEF NothingLost, FramesDelimited
<1>4. Gone' = Len(received)  BY <1>1, <1>2 DEF Gone, TakenBefore
<1>5. CASE OpenThrows
  <2>1. ~Running'  BY <1>5 DEF OpenThrows, Running
  <2>2. QED  BY <1>3, <2>1 DEF SessionInv
<1>6. CASE OpenSucceeds
  <2>1. StartRead(mem, 0, {}) /\ mem \in Memory
    BY <1>1, <1>6 DEF OpenSucceeds, TypeInv, TypeOK, Memory
  <2>2. 0 \in 0 .. RxBufferMaxSize  BY ReceiverAssumption DEF ReceiverAssumption
  <2>3. \A o \in reads' : OpInv(o, Len(received), mem', size', received)
    BY <1>1, <2>1, <2>2, StartReadKnows
  <2>4. QED  BY <1>1, <1>3, <1>4, <2>3 DEF SessionInv
<1>7. QED  BY <1>5, <1>6

LEMMA HandleReadKnows ==
  ASSUME ReadInv, HandleRead
  PROVE  NothingLost' /\ FramesDelimited' /\ SessionInv'
<1> USE DEF ReadInv
<1>1. PICK o \in reads : \/ ReadWild(o) \/ ReadsOn(o) \/ StaleRead(o) \/ ReadFails(o)
                         \/ ReadFull(o) \/ ReadFrame(o) \/ FrameHandlerThrows(o)
  BY DEF HandleRead, Finished
<1>2. /\ reads \ {o} = {}
      /\ Running => ~thrown /\ OpInv(o, Gone, mem, size, received)
      /\ ~Stale(o) => Running
  BY TheRead DEF SessionInv
<1>3. /\ mem \in Memory /\ Gone \in Nat /\ Len(received) \in Nat
      /\ Shrunk(o) \in 0 .. RxBufferMaxSize /\ RxBufferMaxSize \in Nat \ {0}
  <2>1. Gone \in Nat /\ Len(received) \in Nat  BY TakenBeforeType
  <2>2. QED
    BY <2>1, ShrunkType, ReceiverAssumption DEF TypeInv, TypeOK, Memory, ReceiverAssumption
<1>4. ASSUME Running, o.ec = "ok"
      PROVE  /\ Gone + Shrunk(o) = Len(received)
             /\ \A i \in 1 .. Shrunk(o) : mem[i] = Gone + i
             /\ Fate(o) = More => /\ o.at \in 0 .. Shrunk(o)
                                  /\ \A i \in 1 .. o.at : ~Delim(received, mem[i])
             /\ Fate(o) = Full => /\ Shrunk(o) = RxBufferMaxSize
                                  /\ \A i \in 1 .. RxBufferMaxSize : ~Delim(received, mem[i])
             /\ Fate(o) \in Positions =>
                    /\ Fate(o) \in 1 .. Shrunk(o) /\ Delim(received, mem[Fate(o)])
                    /\ \A i \in 1 .. Fate(o) - 1 : ~Delim(received, mem[i])
  BY <1>2, <1>4, FateKnows
<1>5. CASE ReadWild(o)
  <2>1. /\ UNCHANGED <<received, start, taken, thrown, reads, mem, size>>
        /\ (Running' <=> Running)
    BY <1>5 DEF ReadWild, Running, flagVars, bufferVars
  <2>2. NothingLost' /\ FramesDelimited' /\ Gone' = Gone  BY <2>1, NothingTaken
  <2>3. QED  BY <2>1, <2>2 DEF SessionInv
<1>6. CASE ReadsOn(o)
  <2>1. /\ UNCHANGED <<received, start, taken, thrown>> /\ (Running' <=> Running)
        /\ Search(o.gen, o.at, mem, Shrunk(o), {})
        /\ o.ec = "ok" /\ Fate(o) = More
    BY <1>2, <1>6 DEF ReadsOn, Running, flagVars
  <2>2. NothingLost' /\ FramesDelimited' /\ Gone' = Gone  BY <2>1, NothingTaken
  <2>3. ASSUME Running  PROVE \A p \in reads' : OpInv(p, Gone, mem', size', received)
    BY <1>3, <1>4, <2>1, <2>3, SearchKnows
  <2>4. QED  BY <2>1, <2>2, <2>3 DEF SessionInv
<1>7. CASE StaleRead(o)
  <2>1. /\ UNCHANGED <<received, start, taken>> /\ reads' = {}
    BY <1>2, <1>7 DEF StaleRead
  <2>2. QED  BY <2>1, NothingTaken DEF SessionInv
<1>8. CASE ReadFails(o)  BY <1>8, StopKnows DEF ReadFails
<1>9. CASE ReadFull(o)
  <2>1. /\ UNCHANGED <<received, start>> /\ Running /\ o.ec = "ok" /\ Fate(o) = Full
        /\ TakeOut("full", Shrunk(o)) /\ StartRead(mem, 0, {})
    BY <1>2, <1>9 DEF ReadFull, RecoverFromError
  <2>2. /\ Shrunk(o) = RxBufferMaxSize /\ Shrunk(o) \in 1 .. RxBufferMaxSize
        /\ Gone + Shrunk(o) = Len(received)
        /\ \A i \in 1 .. Shrunk(o) : mem[i] = Gone + i
        /\ \A i \in 1 .. Shrunk(o) : ~Delim(received, mem[i])
    BY <1>3, <1>4, <2>1
  <2>3. NothingLost' /\ FramesDelimited' /\ Gone' = Gone + Shrunk(o)
    BY <2>1, <2>2, TakeOutKnows
  <2>4. \A p \in reads' : OpInv(p, Len(received), mem', size', received)
    <3>1. 0 \in 0 .. RxBufferMaxSize /\ Len(received) + 0 = Len(received)  BY <1>3
    <3>2. \A i \in 1 .. 0 : mem[i] = Len(received) + i  OBVIOUS
    <3>3. QED  BY <1>3, <2>1, <3>1, <3>2, StartReadKnows
  <2>5. QED  BY <2>1, <2>2, <2>3, <2>4 DEF SessionInv
<1>10. ASSUME IsFrame(o)
       PROVE  /\ Running /\ Fate(o) \in 1 .. Shrunk(o) /\ Fate(o) \in 1 .. RxBufferMaxSize
              /\ Gone + Shrunk(o) = Len(received)
              /\ \A i \in 1 .. Shrunk(o) : mem[i] = Gone + i
              /\ Delim(received, mem[Fate(o)])
              /\ \A i \in 1 .. Fate(o) - 1 : ~Delim(received, mem[i])
  BY <1>2, <1>3, <1>4, <1>10 DEF IsFrame, Positions
<1>11. ASSUME IsFrame(o), TakeOut("frame", Fate(o)), UNCHANGED <<received, start>>
       PROVE  NothingLost' /\ FramesDelimited' /\ Gone' = Gone + Fate(o)
  <2>1. \A i \in 1 .. Fate(o) : mem[i] = Gone + i  BY <1>3, <1>10, <1>11
  <2>2. QED  BY <1>10, <1>11, <2>1, TakeOutKnows
<1>12. CASE ReadFrame(o)
  <2>1. /\ UNCHANGED <<received, start>> /\ IsFrame(o)
        /\ TakeOut("frame", Fate(o))
        /\ StartRead(Erased(Fate(o)), Shrunk(o) - Fate(o), {})
    BY <1>2, <1>12 DEF ReadFrame
  <2>2. NothingLost' /\ FramesDelimited' /\ Gone' = Gone + Fate(o)  BY <1>11, <2>1
  <2>3. PICK f \in Nat, n \in 0 .. RxBufferMaxSize, gone \in Nat :
          f = Fate(o) /\ n = Shrunk(o) - Fate(o) /\ gone = Gone + Fate(o)
    <3>1. PICK f \in Nat : f = Fate(o)  BY <1>10, <2>1
    <3>2. PICK k \in Nat : k = Shrunk(o)  BY <1>3
    <3>3. k <= RxBufferMaxSize /\ f <= k /\ k - f \in 0 .. RxBufferMaxSize
      BY <1>3, <1>10, <2>1, <3>1, <3>2
    <3>4. Gone + f \in Nat  BY <1>3, <3>1
    <3>5. QED  BY <3>1, <3>2, <3>3, <3>4
  <2>4. Erased(f) \in Memory  BY ErasedType
  <2>5. gone + n = Len(received)
    <3>1. PICK k \in Nat : k = Shrunk(o)  BY <1>3
    <3>2. Gone + k = Len(received)  BY <1>10, <2>1, <3>1
    <3>3. n = k - f /\ gone = Gone + f  BY <2>3, <3>1
    <3>4. QED  BY <1>3, <3>2, <3>3
  <2>6. ASSUME NEW i \in 1 .. n  PROVE Erased(f)[i] = gone + i
    <3>1. PICK k \in 0 .. RxBufferMaxSize : k = Shrunk(o)  BY <1>3
    <3>2. n = k - f /\ gone = Gone + f /\ f \in 1 .. k  BY <1>10, <2>1, <2>3, <3>1
    <3>3. i + f \in 1 .. k /\ i + f <= RxBufferMaxSize /\ i \in Positions
      BY <1>3, <3>1, <3>2 DEF Positions
    <3>4. Erased(f)[i] = mem[i + f]  BY <3>3 DEF Erased
    <3>5. mem[i + f] = Gone + (i + f)  BY <1>10, <2>1, <3>1, <3>3
    <3>6. QED  BY <1>3, <3>2, <3>4, <3>5
  <2>7. StartRead(Erased(f), n, {})  BY <2>1, <2>3
  <2>8. \A p \in reads' : OpInv(p, gone, mem', size', received)
    BY <2>4, <2>5, <2>6, <2>7, StartReadKnows
  <2>9. QED  BY <2>1, <2>2, <2>3, <2>8 DEF SessionInv
<1>13. CASE FrameHandlerThrows(o)
  <2>1. /\ UNCHANGED <<received, start>> /\ IsFrame(o) /\ TakeOut("frame", Fate(o))
        /\ reads' = {}
    BY <1>2, <1>13 DEF FrameHandlerThrows
  <2>2. QED  BY <1>11, <2>1 DEF SessionInv
<1>14. QED  BY <1>1, <1>5, <1>6, <1>7, <1>8, <1>9, <1>12, <1>13

LEMMA StreamKnows ==
  ASSUME ReadInv, Stream
  PROVE  NothingLost' /\ FramesDelimited' /\ SessionInv'
<1> USE DEF ReadInv
<1>1. PICK o \in reads : o.ec = "pending" /\ (StreamReads(o) \/ StreamFails(o))
  BY DEF Stream, Finished
<1>2. /\ reads \ {o} = {}
      /\ Running => ~thrown /\ OpInv(o, Gone, mem, size, received)
  BY TheRead DEF SessionInv
<1>3. /\ o \in Ops(generation) /\ o.room > 0 /\ o.room # 0 /\ o.got = 0
      /\ o.at \in Nat /\ o.room \in Nat /\ o.at + o.room = RxBufferMaxSize
      /\ RxBufferMaxSize \in Nat
  BY <1>1, ReceiverAssumption DEF TypeInv, Ops, OpShape, ReceiverAssumption
<1>4. /\ Len(received) \in Nat /\ received \in Seq(BOOLEAN) /\ taken \in Seq(Taken)
      /\ Gone \in Nat /\ Len(taken) \in Nat
      /\ mem \in [Positions -> 0 .. Len(received)]
  <2>1. Gone \in Nat /\ Len(received) \in Nat /\ Len(taken) \in Nat  BY TakenBeforeType
  <2>2. QED  BY <2>1 DEF TypeInv, TypeOK, Taken
<1>5. CASE StreamFails(o)
  <2>1. PICK p : p = [o EXCEPT !.ec = "eof"]  OBVIOUS
  <2>2. p.at = o.at /\ p.room = o.room /\ p.got = o.got  BY <1>3, <2>1 DEF Ops
  <2>3. /\ UNCHANGED <<received, start, taken, thrown, mem, size>> /\ (Running' <=> Running)
        /\ reads' = {p}
    BY <1>2, <1>5, <2>1 DEF StreamFails, Running, flagVars
  <2>4. Held(p, size) = Held(o, size)  BY <2>2 DEF Held
  <2>5. Running => OpInv(p, Gone, mem, size, received)
    BY <1>2, <2>2, <2>4, Zenon DEF OpInv
  <2>6. NothingLost' /\ FramesDelimited' /\ Gone' = Gone  BY <2>3, NothingTaken
  <2>7. QED  BY <2>3, <2>5, <2>6 DEF SessionInv
<1>6. CASE StreamReads(o)
  <2>1. PICK k, bytes :
          /\ k \in 1 .. o.room /\ bytes \in [1 .. k -> BOOLEAN]
          /\ received' = received \o bytes
          /\ mem' = [i \in Positions |-> IF i \in o.at + 1 .. o.at + k
                                         THEN Len(received) + i - o.at ELSE mem[i]]
          /\ reads' = (reads \ {o}) \cup {[o EXCEPT !.got = k, !.ec = "ok"]}
          /\ UNCHANGED <<flagVars, size, wild, start, taken, thrown>>
    BY <1>6, Zenon DEF StreamReads
  <2>2. k \in Nat /\ k <= o.room /\ k > 0  BY <1>3, <2>1
  <2>3. bytes \in Seq(BOOLEAN) /\ Len(bytes) = k
    <3>1. bytes \in [1 .. k -> BOOLEAN] /\ k \in Nat  BY <2>1, <2>2, Zenon
    <3>2. bytes \in Seq(BOOLEAN)  BY <3>1, SeqDef
    <3>3. QED  BY <3>1, <3>2, LenProperties
  <2>4. /\ Len(received') = Len(received) + k
        /\ \A i \in 1 .. Len(received) : received'[i] = received[i]
    <3>1. /\ Len(received \o bytes) = Len(received) + Len(bytes)
          /\ \A i \in 1 .. Len(received) + Len(bytes) :
               (received \o bytes)[i] = IF i <= Len(received) THEN received[i]
                                        ELSE bytes[i - Len(received)]
      BY <1>4, <2>3, ConcatProperties
    <3>2. \A i \in 1 .. Len(received) : i \in 1 .. Len(received) + k /\ i <= Len(received)
      BY <1>4, <2>2
    <3>3. QED  BY <2>1, <2>3, <3>1, <3>2
  <2>5. \A b \in 0 .. Len(received) : Delim(received', b) <=> Delim(received, b)
    <3>1. \A b \in 0 .. Len(received) : b = 0 \/ b \in 1 .. Len(received)  BY <1>4
    <3>2. QED  BY <2>4, <3>1, Zenon DEF Delim
  <2>6. NothingLost' /\ Gone' = Gone
    BY <2>1 DEF NothingLost, Gone, TakenBefore
  <2>7. FramesDelimited'
    <3>1. ASSUME NEW i \in 1 .. Len(taken), NEW j \in 1 .. Len(taken[i].bytes),
                 taken[i].bytes[j] # 0
          PROVE  received'[taken[i].bytes[j]] = received[taken[i].bytes[j]]
      <4>1. taken[i] \in Taken  BY <1>4, ElementOfSeq
      <4>2. taken[i].bytes \in Seq(0 .. Len(received))  BY <4>1 DEF Taken
      <4>3. taken[i].bytes[j] \in 0 .. Len(received)  BY <4>2, ElementOfSeq
      <4>4. taken[i].bytes[j] \in 1 .. Len(received)  BY <1>4, <3>1, <4>3
      <4>5. QED  BY <2>4, <4>4, Zenon
    <3>2. taken' = taken  BY <2>1
    <3>3. SUFFICES ASSUME NEW i \in 1 .. Len(taken)
                   PROVE  IF taken[i].kind = "frame"
                          THEN \A j \in 1 .. Len(taken[i].bytes) :
                                 /\ taken[i].bytes[j] # 0
                                 /\ received'[taken[i].bytes[j]] = (j = Len(taken[i].bytes))
                          ELSE /\ Len(taken[i].bytes) = RxBufferMaxSize
                               /\ \A j \in 1 .. Len(taken[i].bytes) :
                                    taken[i].bytes[j] # 0 /\ ~received'[taken[i].bytes[j]]
      BY <3>2, Zenon DEF FramesDelimited
    <3>4. CASE taken[i].kind = "frame"
      <4>1. \A j \in 1 .. Len(taken[i].bytes) :
              /\ taken[i].bytes[j] # 0
              /\ received[taken[i].bytes[j]] = (j = Len(taken[i].bytes))
        BY <3>4, Zenon DEF ReadInv, FramesDelimited
      <4>2. QED  BY <3>1, <3>4, <4>1, Zenon
    <3>5. CASE taken[i].kind # "frame"
      <4>1. /\ Len(taken[i].bytes) = RxBufferMaxSize
            /\ \A j \in 1 .. Len(taken[i].bytes) :
                 taken[i].bytes[j] # 0 /\ ~received[taken[i].bytes[j]]
        BY <3>5, Zenon DEF ReadInv, FramesDelimited
      <4>2. QED  BY <3>1, <3>5, <4>1, Zenon
    <3>6. QED  BY <3>4, <3>5, Zenon
  <2>8. PICK p : p = [o EXCEPT !.got = k, !.ec = "ok"]  OBVIOUS
  <2>9. p.at = o.at /\ p.room = o.room /\ p.got = k  BY <1>3, <2>8 DEF Ops
  <2>10. reads' = {p} /\ (Running' <=> Running) /\ thrown' = thrown /\ size' = size
    BY <1>2, <2>1, <2>8 DEF Running, flagVars
  <2>11. ASSUME Running  PROVE OpInv(p, Gone, mem', size, received')
    <3>1. /\ Gone + o.at = Len(received) /\ size = RxBufferMaxSize
          /\ \A i \in 1 .. o.at : mem[i] = Gone + i
          /\ \A i \in 1 .. o.at : ~Delim(received, mem[i])
      BY <1>2, <1>3, <2>11 DEF OpInv, Held
    <3>2. Held(p, size) = o.at + k  BY <1>3, <2>9 DEF Held
    <3>3. Gone + (o.at + k) = Len(received')  BY <1>3, <1>4, <2>2, <2>4, <3>1
    <3>4. \A i \in 1 .. o.at : mem'[i] = mem[i]
      <4>1. \A i \in 1 .. o.at : i \in Positions /\ ~(i \in o.at + 1 .. o.at + k)
        BY <1>3 DEF Positions
      <4>2. QED  BY <2>1, <4>1
    <3>5. \A i \in o.at + 1 .. o.at + k : mem'[i] = Gone + i
      <4>1. \A i \in o.at + 1 .. o.at + k : i \in Positions  BY <1>3, <2>2 DEF Positions
      <4>2. PICK n \in Nat : n = Len(received)  BY <1>4
      <4>3. \A i \in o.at + 1 .. o.at + k : mem'[i] = n + i - o.at
        BY <2>1, <4>1, <4>2
      <4>4. \A i \in o.at + 1 .. o.at + k : n + i - o.at = Gone + i
        BY <1>3, <1>4, <2>2, <3>1, <4>2
      <4>5. QED  BY <4>3, <4>4
    <3>6. \A i \in 1 .. o.at + k : mem'[i] = Gone + i
      <4>1. \A i \in 1 .. o.at + k : i \in 1 .. o.at \/ i \in o.at + 1 .. o.at + k
        BY <1>3, <2>2
      <4>2. QED  BY <3>1, <3>4, <3>5, <4>1
    <3>7. \A i \in 1 .. o.at : ~Delim(received', mem'[i])
      <4>1. \A i \in 1 .. o.at : mem[i] \in 0 .. Len(received)  BY <1>3, <1>4 DEF Positions
      <4>2. QED  BY <2>5, <3>1, <3>4, <4>1, Zenon
    <3>8. QED  BY <1>3, <2>9, <3>1, <3>2, <3>3, <3>6, <3>7 DEF OpInv
  <2>12. QED  BY <2>6, <2>7, <2>10, <2>11 DEF SessionInv
<1>7. QED  BY <1>1, <1>5, <1>6

LEMMA ReadStep ==
  ASSUME CleanReopen, ReadInv, [Next]_vars
  PROVE  ReadInv'
<1>1. TypeInv' /\ OneRead'  BY TypeStep, OneReadStep DEF ReadInv
<1>2. CASE OpenSucceeds \/ OpenThrows  BY <1>1, <1>2, OpenKnows DEF ReadInv
<1>3. CASE CloseOnStrand  BY <1>1, <1>3, StopKnows DEF ReadInv, CloseOnStrand
<1>4. CASE WriteFails  BY <1>1, <1>4, StopKnows DEF ReadInv, WriteFails
<1>5. CASE HandleRead  BY <1>1, <1>5, HandleReadKnows DEF ReadInv
<1>6. CASE Stream  BY <1>1, <1>6, StreamKnows DEF ReadInv
<1>7. CASE UNCHANGED vars
  <2>1. /\ UNCHANGED <<received, start, taken, thrown, reads, mem, size>>
        /\ (Running' <=> Running)
    BY <1>7 DEF vars, flagVars, bufferVars, Running
  <2>2. NothingLost' /\ FramesDelimited' /\ Gone' = Gone  BY <2>1, NothingTaken DEF ReadInv
  <2>3. SessionInv'  BY <2>1, <2>2 DEF ReadInv, SessionInv
  <2>4. QED  BY <1>1, <2>2, <2>3 DEF ReadInv
<1>8. QED  BY <1>2, <1>3, <1>4, <1>5, <1>6, <1>7 DEF Next

LEMMA ReadInit ==
  ASSUME Init
  PROVE  ReadInv
<1>1. TypeInv  BY TypeInit
<1>2. Len(taken) = 0 /\ reads = {}  BY DEF Init
<1>3. QED
  BY <1>1, <1>2 DEF ReadInv, OneRead, NothingLost, FramesDelimited, SessionInv

\* In a session an operation that has an answer or bytes lies within the vector.
LEMMA InBoundsStep ==
  ASSUME ReadInv, SessionInBounds, [Next]_vars
  PROVE  SessionInBounds'
<1>1. CASE wild' = wild /\ Next
  BY <1>1 DEF Next, SessionInBounds
<1>2. CASE HandleRead /\ ~wild /\ wild' # wild
  <2>1. PICK o \in reads : ReadWild(o)
    BY <1>2 DEF HandleRead, Finished, ReadsOn, StaleRead, ReadFails, Stop, ReadFull, ReadFrame,
                FrameHandlerThrows
  <2>2. /\ Running' <=> Running
        /\ PastTheEnd(o)
    BY <2>1 DEF ReadWild, Running, flagVars
  <2>3. ASSUME Running  PROVE FALSE
    <3>1. OpInv(o, Gone, mem, size, received)
      BY <2>3, TheRead DEF ReadInv, SessionInv
    <3>2. /\ o.at \in Nat /\ o.room \in Nat /\ o.got \in Nat /\ OpShape(o)
          /\ Shrunk(o) \in Nat /\ RxBufferMaxSize \in Nat
          /\ Shrunk(o) = IF size > o.room - o.got THEN size - (o.room - o.got) ELSE 0
      BY ShrunkType, ReceiverAssumption DEF ReadInv, TypeInv, Ops, Full, ReceiverAssumption
    <3>3. CASE o.got > 0
      <4>1. o.room > 0 /\ o.room # 0 /\ o.at + o.room = RxBufferMaxSize /\ o.got <= o.room
        BY <3>2, <3>3 DEF OpShape
      <4>2. size = RxBufferMaxSize  BY <3>1, <4>1, Zenon DEF OpInv
      <4>3. Shrunk(o) = o.at + o.got  BY <3>2, <3>3, <4>1, <4>2
      <4>4. QED  BY <2>2, <3>2, <3>3, <4>3 DEF PastTheEnd
    <3>4. CASE IsFrame(o) /\ o.room = 0
      <4>1. o.got = 0 /\ Fate(o) = o.at  BY <3>2, <3>4 DEF OpShape, Fate
      <4>2. Fate(o) \in 1 .. Shrunk(o)  BY <3>1, <3>4, FateKnows DEF ReadInv, IsFrame
      <4>3. QED  BY <2>2, <3>2, <4>1, <4>2 DEF PastTheEnd
    <3>5. QED  BY <2>2, <3>3, <3>4 DEF PastTheEnd
  <2>4. QED  BY <2>2, <2>3 DEF SessionInBounds
<1>3. CASE UNCHANGED vars  BY <1>3 DEF vars, flagVars, SessionInBounds, Running
<1>4. Next => ~wild /\ (wild' = wild \/ HandleRead)
  BY DEF Next, OpenSucceeds, OpenThrows, Reopening, CloseOnStrand, WriteFails, Stop,
         Stream, StreamReads, StreamFails
<1>5. QED  BY <1>1, <1>2, <1>3, <1>4

-----------------------------------------------------------------------------
(* Theorems.  Each assumes CleanReopen: open is called only when the       *)
(* handlers of the earlier sessions' reads have run.  The run              *)
(* reopened_read shows that NothingLost fails without it.                  *)

LEMMA ReadInvariant == ASSUME CleanReopen PROVE Spec => []ReadInv
<1>1. Init => ReadInv  BY ReadInit
<1>2. ReadInv /\ [Next]_vars => ReadInv'  BY ReadStep
<1>3. QED  BY <1>1, <1>2, PTL DEF Spec

\* What handleRead hands over in a session is, put together, what the port read in it from the
\* first byte on: across erase, partial reads, several frames in one read and a full buffer.
THEOREM HandedOutInOrder == ASSUME CleanReopen PROVE Spec => []NothingLost
<1>1. ReadInv => NothingLost  BY DEF ReadInv
<1>2. QED  BY <1>1, ReadInvariant, PTL

\* A frame handed to the frame handler ends with the only delimiter in it, and bytes are thrown
\* away by recoverFromError only when they fill the buffer without one.
THEOREM FramesAreWhole == ASSUME CleanReopen PROVE Spec => []FramesDelimited
<1>1. ReadInv => FramesDelimited  BY DEF ReadInv
<1>2. QED  BY <1>1, ReadInvariant, PTL

\* Between two tasks of a session rxBuffer holds what was read and not yet handed over.
THEOREM BufferIsTheRest == ASSUME CleanReopen PROVE Spec => []BufferHoldsTheRest
<1>1. ReadInv => BufferHoldsTheRest
  <2>1. ASSUME ReadInv, Running, ~thrown, NEW o \in reads
        PROVE  /\ Gone + Held(o, size) = Len(received)
               /\ size = IF o.room = 0 THEN Held(o, size) ELSE RxBufferMaxSize
               /\ \A i \in 1 .. Held(o, size) : mem[i] = Gone + i
    BY <2>1, Zenon DEF ReadInv, SessionInv, OpInv
  <2>2. QED  BY <2>1, Zenon DEF BufferHoldsTheRest, Held
<1>2. QED  BY <1>1, ReadInvariant, PTL

\* In a running session no search of async_read_until and no erase of handleRead goes past the
\* end of rxBuffer.
THEOREM NoWildRead == ASSUME CleanReopen PROVE Spec => []SessionInBounds
<1>1. Init => SessionInBounds  BY DEF Init, SessionInBounds
<1>2. ReadInv /\ SessionInBounds /\ [Next]_vars => SessionInBounds'  BY InBoundsStep
<1>3. QED  BY <1>1, <1>2, ReadInvariant, PTL DEF Spec

=============================================================================
