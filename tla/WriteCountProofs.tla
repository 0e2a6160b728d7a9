-------------------------- MODULE WriteCountProofs --------------------------
(***************************************************************************)
(* Proofs about pendingWrites, the counter with which asyncWrite enforces  *)
(* txMaxElementsInQueue.                                                   *)
(*                                                                         *)
(* Callers reserve in it, the strand gives back, and open resets it: what  *)
(* it counts is right as long as no open comes between a check and the end *)
(* of its write (QuietReopen).  Under that condition the strand never has  *)
(* an open and a write in it together, and the count is exact.             *)
(***************************************************************************)
EXTENDS WriteOrderProofs

-----------------------------------------------------------------------------
(* The writes in a queue of tasks.                                         *)

Writes(s) == {i \in 1 .. Len(s) : IsTask("write", s[i])}

Reserved == {p \in Packets : status[p] = "reserved"}

LEMMA WritesFinite ==
  ASSUME NEW s \in Seq(Tasks)
  PROVE  IsFiniteSet(Writes(s)) /\ Cardinality(Writes(s)) \in Nat
<1>1. Len(s) \in Nat  OBVIOUS
<1>2. IsFiniteSet(1 .. Len(s))  BY <1>1, FS_Interval
<1>3. Writes(s) \subseteq 1 .. Len(s)  BY DEF Writes
<1>4. QED  BY <1>2, <1>3, FS_Subset, FS_CardinalityType

\* Queueing a task adds a write exactly if it is one.
LEMMA WritesAppend ==
  ASSUME NEW s \in Seq(Tasks), NEW t \in Tasks
  PROVE  Cardinality(Writes(Append(s, t))) =
           Cardinality(Writes(s)) + (IF t.task = "write" THEN 1 ELSE 0)
<1>1. Len(s) \in Nat /\ Len(Append(s, t)) = Len(s) + 1  OBVIOUS
<1>2. /\ \A i \in 1 .. Len(s) : Append(s, t)[i] = s[i]
      /\ Append(s, t)[Len(s) + 1] = t
  BY AppendProperties
<1>3. CASE t.task = "write"
  <2>1. Writes(Append(s, t)) = Writes(s) \cup {Len(s) + 1}
    BY <1>1, <1>2, <1>3 DEF Writes, IsTask
  <2>2. Len(s) + 1 \notin Writes(s)  BY <1>1 DEF Writes
  <2>3. QED  BY <1>3, <2>1, <2>2, WritesFinite, FS_AddElement
<1>4. CASE t.task # "write"
  <2>1. Writes(Append(s, t)) = Writes(s)  BY <1>1, <1>2, <1>4 DEF Writes, IsTask
  <2>2. QED  BY <1>4, <2>1, WritesFinite
<1>5. QED  BY <1>3, <1>4

\* Running the first task removes a write exactly if it is one.
LEMMA WritesTail ==
  ASSUME NEW s \in Seq(Tasks), s # << >>
  PROVE  Cardinality(Writes(Tail(s))) =
           Cardinality(Writes(s)) - (IF Head(s).task = "write" THEN 1 ELSE 0)
<1> DEFINE Later == Writes(s) \ {1}
           f == [i \in Later |-> i - 1]
<1>1. Len(s) \in Nat \ {0} /\ Tail(s) \in Seq(Tasks) /\ Len(Tail(s)) = Len(s) - 1
  BY HeadTailProperties, EmptySeq
<1>2. Head(s) = s[1] /\ \A i \in 1 .. Len(Tail(s)) : Tail(s)[i] = s[i + 1]
  BY HeadTailProperties
<1>3. IsFiniteSet(Later)  BY WritesFinite, FS_Subset
<1>4. f \in Bijection(Later, Writes(Tail(s)))
  <2>1. f \in [Later -> Writes(Tail(s))]
    <3>1. ASSUME NEW i \in Later  PROVE  i - 1 \in Writes(Tail(s))
      <4>1. i \in 2 .. Len(s) /\ IsTask("write", s[i])  BY <1>1 DEF Writes
      <4>2. i - 1 \in 1 .. Len(Tail(s)) /\ (i - 1) + 1 = i  BY <4>1, <1>1
      <4>3. Tail(s)[i - 1] = s[i]  BY <4>2, <1>2
      <4>4. QED  BY <4>1, <4>2, <4>3 DEF Writes
    <3>2. QED  BY <3>1
  <2>2. \A i, j \in Later : f[i] = f[j] => i = j  BY <1>1 DEF Writes
  <2>3. ASSUME NEW j \in Writes(Tail(s))  PROVE  \E i \in Later : f[i] = j
    <3>1. j \in 1 .. Len(s) - 1 /\ IsTask("write", s[j + 1])  BY <1>1, <1>2 DEF Writes
    <3>2. j + 1 \in Later /\ (j + 1) - 1 = j  BY <3>1, <1>1 DEF Writes
    <3>3. f[j + 1] = j  BY <3>2
    <3>4. QED  BY <3>2, <3>3
  <2>4. QED
    BY <2>1, <2>2, <2>3 DEF Bijection, Injection, Surjection, IsInjective
<1>5. Cardinality(Writes(Tail(s))) = Cardinality(Later)
  BY <1>3, <1>4, FS_Bijection DEF ExistsBijection
<1>6. CASE Head(s).task = "write"
  <2>1. 1 \in Writes(s)  BY <1>1, <1>2, <1>6 DEF Writes, IsTask
  <2>2. Cardinality(Later) = Cardinality(Writes(s)) - 1
    BY <2>1, WritesFinite, FS_RemoveElement
  <2>3. QED  BY <1>5, <1>6, <2>2
<1>7. CASE Head(s).task # "write"
  <2>1. Later = Writes(s)  BY <1>1, <1>2, <1>7 DEF Writes, IsTask
  <2>2. Cardinality(Later) = Cardinality(Writes(s))  BY <2>1, Zenon
  <2>3. QED  BY <1>5, <1>7, <2>2, WritesFinite
<1>8. QED  BY <1>6, <1>7

\* Which kinds of task are in a queue after a task was added or run.
LEMMA KindsAppend ==
  ASSUME NEW s \in Seq(Tasks), NEW t \in Tasks
  PROVE  \A kind : (\E i \in 1 .. Len(Append(s, t)) : IsTask(kind, Append(s, t)[i])) <=>
                     (\E i \in 1 .. Len(s) : IsTask(kind, s[i])) \/ t.task = kind
<1>1. /\ Len(s) \in Nat /\ Len(Append(s, t)) = Len(s) + 1
      /\ \A i \in 1 .. Len(s) : Append(s, t)[i] = s[i]
      /\ Append(s, t)[Len(s) + 1] = t
  BY AppendProperties
<1>2. QED  BY <1>1 DEF IsTask

LEMMA KindsTail ==
  ASSUME NEW s \in Seq(Tasks), s # << >>
  PROVE  \A kind : (\E i \in 1 .. Len(Tail(s)) : IsTask(kind, Tail(s)[i]))
                     => \E i \in 1 .. Len(s) : IsTask(kind, s[i])
<1>1. /\ Len(s) \in Nat \ {0} /\ Len(Tail(s)) = Len(s) - 1
      /\ \A i \in 1 .. Len(Tail(s)) : Tail(s)[i] = s[i + 1]
  BY HeadTailProperties, EmptySeq
<1>2. ASSUME NEW i \in 1 .. Len(Tail(s))
      PROVE  i + 1 \in 1 .. Len(s) /\ s[i + 1] = Tail(s)[i]
  BY <1>1
<1>3. QED  BY <1>2

-----------------------------------------------------------------------------
(* The invariant.                                                          *)

\* No open is in the strand together with a write, or while a caller is in asyncWrite.
QuietInv == Queued("open") => ~Writing

\* While the transport runs the counter is exact, and within the limit.
CountInv ==
    /\ IsFiniteSet(Reserved)
    /\ Running => pendingWrites = Admitted /\ Admitted <= bufferConfig.txMaxElementsInQueue

\* Under way from asyncWrite to the port.
UnderWay(p) == status[p] \in {"checked", "reserved"} \/ Waits(strand, p) \/ InSeq(p, txDeque)

\* What is under way in a running transport was admitted by its session.
SessionInv == Running => \A p \in Packets : UnderWay(p) => session[p] = generation

QueueInv == QuietInv /\ CountInv /\ SessionInv

-----------------------------------------------------------------------------
(* QuietInv.                                                               *)

\* Running a task, or posting one that is no open and no write.
LEMMA QuietKept ==
  ASSUME TypeOK, QuietInv, UNCHANGED status,
         \/ \E kind : Take(kind)
         \/ \E t \in Tasks : t.task \notin {"open", "write"} /\ Post(t)
         \/ strand' = strand
  PROVE  QuietInv'
<1>1. strand \in Seq(Tasks)  BY DEF TypeOK
<1>2. \A kind \in {"open", "write"} : Queued(kind)' => Queued(kind)
  <2>1. CASE strand' = strand  BY <2>1 DEF Queued
  <2>2. ASSUME NEW kind, Take(kind)
        PROVE  \A k : Queued(k)' => Queued(k)
    BY <1>1, <2>2, TakeType, KindsTail DEF Queued
  <2>3. ASSUME NEW t \in Tasks, t.task \notin {"open", "write"}, Post(t)
        PROVE  \A k \in {"open", "write"} : Queued(k)' => Queued(k)
    BY <1>1, <2>3, KindsAppend DEF Queued, Post
  <2>4. QED  BY <2>1, <2>2, <2>3
<1>3. QED  BY <1>2 DEF QuietInv, Writing

LEMMA QuietStep ==
  ASSUME QuietReopen, IInv, QuietInv, [Next]_vars
  PROVE  QuietInv'
<1> USE DEF appVars, coreVars, portVars, noteVars
<1>1. /\ TypeOK /\ strand \in Seq(Tasks)
      /\ status \in [Packets -> {"none", "checked", "reserved"} \cup WriteStatus]
  BY DEF IInv, TypeOK
<1>2. ASSUME NEW c \in Configs, CallOpen(c)  PROVE QuietInv'
  <2>1. PICK t \in Tasks : t.task = "open" /\ Post(t)
    BY <1>2, TaskType DEF CallOpen
  <2>2. ~Writing /\ status' = status  BY <1>2 DEF CallOpen
  <2>3. ~Queued("write")'  BY <1>1, <2>1, <2>2, KindsAppend DEF Writing, Queued, Post
  <2>4. QED  BY <2>2, <2>3 DEF QuietInv, Writing
<1>3. ASSUME NEW p \in Packets, AsyncWriteCheck(p) \/ AsyncWriteReserve(p)  PROVE QuietInv'
  <2>1. strand' = strand /\ ~Queued("open")
    BY <1>3 DEF AsyncWriteCheck, AsyncWriteReserve, QuietInv, Writing
  <2>2. QED  BY <2>1 DEF QuietInv, Queued
<1>4. ASSUME NEW p \in Packets, AsyncWritePost(p)  PROVE QuietInv'
  <2>1. ~Queued("open") /\ Post([task |-> "write", pkt |-> p])
    BY <1>4 DEF AsyncWritePost, QuietInv, Writing
  <2>2. PICK t \in Tasks : t.task = "write" /\ strand' = Append(strand, t)
    BY <2>1, TaskType DEF Post
  <2>3. Queued("open")' <=> Queued("open") \/ t.task = "open"
    BY <1>1, <2>2, KindsAppend, Zenon DEF Queued
  <2>4. QED  BY <2>1, <2>2, <2>3 DEF QuietInv
<1>5. CASE CallClose
  BY <1>1, <1>5, TaskType, QuietKept DEF CallClose
<1>6. ASSUME NEW h \in Handlers, NEW on \in BOOLEAN, CallSetHandler(h, on)  PROVE QuietInv'
  BY <1>1, <1>6, TaskType, QuietKept DEF CallSetHandler
<1>7. CASE RunStrand
  <2>1. \E kind : Take(kind)
    BY <1>7
    DEF RunStrand, OpenIgnored, OpenSucceeds, SerialOpenThrows, SetOptionThrows, Reopening,
        CloseOnStrand, CloseAgain, SetHandler, WriteCancelled, WriteEnqueued, StaleCompletion,
        ReadContinues, ReadFails, WriteCompletes, WriteFails, TakeCompletion
  <2>2. status' = status
    BY <1>7
    DEF RunStrand, OpenIgnored, OpenSucceeds, SerialOpenThrows, SetOptionThrows, Reopening,
        CloseOnStrand, CloseAgain, SetHandler, WriteCancelled, WriteEnqueued, StaleCompletion,
        ReadContinues, ReadFails, WriteCompletes, WriteFails
  <2>3. QED  BY <1>1, <2>1, <2>2, QuietKept
<1>8. CASE CompleteDue \/ CompleteRead
  <2>1. PICK op \in BagToSet(inflight) : StreamCompletes(op)
    BY <1>8 DEF CompleteDue, CompleteRead
  <2>2. PICK ec \in Outcomes(op) : Post([task |-> "done", op |-> op, ec |-> ec])
    BY <2>1 DEF StreamCompletes
  <2>3. op \in Ops /\ ec \in ErrorCodes  BY <1>1 DEF TypeOK, Outcomes, ErrorCodes
  <2>4. status' = status  BY <2>1 DEF StreamCompletes
  <2>5. QED  BY <1>1, <2>2, <2>3, <2>4, TaskType, QuietKept
<1>9. CASE UNCHANGED vars  BY <1>1, <1>9, QuietKept DEF vars
<1>10. QED
  BY <1>2, <1>3, <1>4, <1>5, <1>6, <1>7, <1>8, <1>9 DEF Next, Application

-----------------------------------------------------------------------------
(* CountInv.                                                               *)

\* The counter and the limit are natural numbers.
LEMMA CounterType ==
  ASSUME TypeOK
  PROVE  pendingWrites \in Nat /\ bufferConfig.txMaxElementsInQueue \in Nat
<1>1. pendingWrites \in 0 .. SizeMax /\ bufferConfig \in Configs \cup {DefaultConfig}
  BY DEF TypeOK
<1>2. bufferConfig \in [txMaxElementsInQueue : 0 .. SizeMax, txMaxSizePerElement : 0 .. SizeMax]
  BY <1>1, ConfigAssumption
<1>3. SizeMax \in Nat  BY ConfigAssumption
<1>4. QED  BY <1>1, <1>2, <1>3

\* The three terms of Admitted are natural numbers.
LEMMA AdmittedTerms ==
  ASSUME TypeOK, CountInv
  PROVE  /\ Cardinality(Reserved) \in Nat /\ Cardinality(Writes(strand)) \in Nat
         /\ Len(txDeque) \in Nat /\ pendingWrites \in Nat
         /\ Admitted = Cardinality(Reserved) + Cardinality(Writes(strand)) + Len(txDeque)
<1>1. strand \in Seq(Tasks) /\ txDeque \in Seq(Packets)  BY DEF TypeOK
<1>2. Len(txDeque) \in Nat /\ pendingWrites \in Nat  BY <1>1, CounterType
<1>3. Cardinality(Reserved) \in Nat /\ Cardinality(Writes(strand)) \in Nat
  BY <1>1, WritesFinite, FS_CardinalityType DEF CountInv
<1>4. QED  BY <1>2, <1>3 DEF Admitted, Reserved, Writes

\* A step that moves the terms of Admitted and the counter by the same amount.
LEMMA CountMoves ==
  ASSUME TypeOK, TypeOK', CountInv, Running' => Running, bufferConfig' = bufferConfig,
         NEW a \in Int, NEW b \in Int, NEW c \in Int,
         IsFiniteSet(Reserved'), Cardinality(Reserved') = Cardinality(Reserved) + a,
         Cardinality(Writes(strand')) = Cardinality(Writes(strand)) + b,
         Len(txDeque') = Len(txDeque) + c,
         Running' => pendingWrites' = pendingWrites + a + b + c,
         Running' => a + b + c <= 0 \/ pendingWrites + a + b + c <= bufferConfig.txMaxElementsInQueue
  PROVE  CountInv'
<1>1. bufferConfig.txMaxElementsInQueue \in Nat  BY CounterType
<1>2. Reserved' = {p \in Packets : status'[p] = "reserved"}  BY DEF Reserved
<1>3. Writes(strand)' = Writes(strand')  BY DEF Writes
<1>4. Admitted' = Cardinality(Reserved') + Cardinality(Writes(strand')) + Len(txDeque')
  BY DEF Admitted, Reserved, Writes
<1>5. ASSUME Running'
      PROVE  pendingWrites' = Admitted' /\ Admitted' <= bufferConfig.txMaxElementsInQueue
  <2>1. pendingWrites = Admitted /\ Admitted <= bufferConfig.txMaxElementsInQueue
    BY <1>5 DEF CountInv
  <2>2. PICK x \in Nat, y \in Nat, z \in Nat, w \in Nat :
          /\ x = Cardinality(Reserved) /\ y = Cardinality(Writes(strand))
          /\ z = Len(txDeque) /\ w = pendingWrites
    BY AdmittedTerms
  <2>3. w = x + y + z  BY <2>1, <2>2, AdmittedTerms
  <2>4. Admitted' = (x + a) + (y + b) + (z + c)  BY <1>4, <2>2
  <2>5. pendingWrites' = w + a + b + c  BY <1>5, <2>2
  <2>6. PICK m \in Nat : m = bufferConfig.txMaxElementsInQueue  BY <1>1
  <2>7. w <= m /\ (a + b + c <= 0 \/ w + a + b + c <= m)  BY <1>5, <2>1, <2>2, <2>6
  <2>8. (x + a) + (y + b) + (z + c) = w + a + b + c  BY <2>3
  <2>9. w + a + b + c <= m  BY <2>7
  <2>10. QED  BY <1>5, <2>4, <2>5, <2>6, <2>8, <2>9
<1>6. QED  BY <1>5 DEF CountInv

\* Tasks and calls that leave the admitted writes alone, or stop the transport.
LEMMA CountStays ==
  ASSUME TypeOK, TypeOK', CountInv, Reserved' = Reserved,
         \/ ~Running'
         \/ /\ UNCHANGED <<closing, stopped, bufferConfig, pendingWrites, txDeque>>
            /\ \/ \E kind : kind # "write" /\ Take(kind)
               \/ \E t \in Tasks : t.task # "write" /\ Post(t)
               \/ strand' = strand
  PROVE  CountInv'
<1>1. IsFiniteSet(Reserved')  BY DEF CountInv
<1>2. CASE ~Running'  BY <1>1, <1>2 DEF CountInv
<1>3. CASE Running'
  <2>1. /\ UNCHANGED <<closing, stopped, bufferConfig, pendingWrites, txDeque>>
        /\ \/ \E kind : kind # "write" /\ Take(kind)
           \/ \E t \in Tasks : t.task # "write" /\ Post(t)
           \/ strand' = strand
    BY <1>3
  <2>2. strand \in Seq(Tasks)  BY DEF TypeOK
  <2>3. Cardinality(Writes(strand')) = Cardinality(Writes(strand))
    <3>1. Cardinality(Writes(strand)) \in Nat  BY <2>2, WritesFinite
    <3>2. CASE strand' = strand  BY <3>1, <3>2
    <3>3. ASSUME NEW kind, kind # "write", Take(kind)
          PROVE  Cardinality(Writes(strand')) = Cardinality(Writes(strand))
      <4>1. strand # << >> /\ strand' = Tail(strand) /\ Head(strand).task # "write"
        BY <3>3, TakeType
      <4>2. QED  BY <2>2, <3>1, <4>1, WritesTail
    <3>4. ASSUME NEW t \in Tasks, t.task # "write", Post(t)
          PROVE  Cardinality(Writes(strand')) = Cardinality(Writes(strand))
      BY <2>2, <3>1, <3>4, WritesAppend DEF Post
    <3>5. QED  BY <2>1, <3>1, <3>2, <3>3, <3>4
  <2>4. /\ Cardinality(Reserved) \in Nat /\ Len(txDeque) \in Nat /\ pendingWrites \in Nat
    BY AdmittedTerms
  <2>5. PICK n \in Int : n = 0  OBVIOUS
  <2>6. /\ Cardinality(Reserved') = Cardinality(Reserved) + n
        /\ Cardinality(Writes(strand')) = Cardinality(Writes(strand)) + n
        /\ Len(txDeque') = Len(txDeque) + n
        /\ pendingWrites' = pendingWrites + n + n + n /\ n + n + n <= 0
    BY <2>1, <2>3, <2>4, <2>5, AdmittedTerms
  <2>7. Running  BY <1>3, <2>1 DEF Running
  <2>8. QED  BY <1>1, <2>1, <2>6, <2>7, CountMoves
<1>4. QED  BY <1>2, <1>3

\* Each of the steps that move them does it by one.
LEMMA ReserveCount ==
  ASSUME IInv, IInv', CountInv, NEW p \in Packets, AsyncWriteReserve(p)
  PROVE  CountInv'
<1> USE DEF coreVars
<1>1. /\ TypeOK /\ TypeOK' /\ strand \in Seq(Tasks)
      /\ status \in [Packets -> {"none", "checked", "reserved"} \cup WriteStatus]
  BY DEF IInv, TypeOK
<1>2. /\ UNCHANGED <<strand, closing, stopped, bufferConfig, txDeque>>
      /\ status[p] = "checked" /\ bufferConfig.txMaxElementsInQueue \in Nat
  <2>1. bufferConfig.txMaxElementsInQueue \in Nat  BY <1>1, CounterType
  <2>2. QED  BY <2>1 DEF AsyncWriteReserve
<1>3. CASE UNCHANGED pendingWrites /\ \E s \in {"MessageTooLong", "QueueFull"} :
             status' = [status EXCEPT ![p] = s]
  <2>1. Reserved' = Reserved  BY <1>1, <1>2, <1>3 DEF Reserved
  <2>2. QED  BY <1>1, <1>2, <1>3, <2>1, CountStays
<1>4. CASE ~Full /\ status' = [status EXCEPT ![p] = "reserved"]
             /\ pendingWrites' = pendingWrites + 1
  <2>1. Reserved' = Reserved \cup {p} /\ p \notin Reserved
    BY <1>1, <1>2, <1>4 DEF Reserved
  <2>2. IsFiniteSet(Reserved') /\ Cardinality(Reserved') = Cardinality(Reserved) + 1
    BY <2>1, FS_AddElement DEF CountInv
  <2>3. PICK n \in Int, m \in Int : n = 0 /\ m = 1  OBVIOUS
  <2>4. /\ Cardinality(Reserved') = Cardinality(Reserved) + m
        /\ Cardinality(Writes(strand')) = Cardinality(Writes(strand)) + n
        /\ Len(txDeque') = Len(txDeque) + n
        /\ pendingWrites' = pendingWrites + m + n + n
        /\ pendingWrites + m + n + n <= bufferConfig.txMaxElementsInQueue
    BY <1>1, <1>2, <1>4, <2>2, <2>3, AdmittedTerms DEF Full
  <2>5. Running' => Running  BY <1>2 DEF Running
  <2>6. QED  BY <1>1, <1>2, <2>2, <2>4, <2>5, CountMoves
<1>5. QED  BY <1>3, <1>4 DEF AsyncWriteReserve

LEMMA PostCount ==
  ASSUME IInv, IInv', CountInv, NEW p \in Packets, AsyncWritePost(p)
  PROVE  CountInv'
<1> USE DEF coreVars
<1>1. /\ TypeOK /\ TypeOK' /\ strand \in Seq(Tasks)
      /\ status \in [Packets -> {"none", "checked", "reserved"} \cup WriteStatus]
  BY DEF IInv, TypeOK
<1>2. /\ UNCHANGED <<closing, stopped, bufferConfig, txDeque, pendingWrites>>
      /\ status[p] = "reserved" /\ status' = [status EXCEPT ![p] = "Scheduled"]
  BY DEF AsyncWritePost
<1>3. PICK t \in Tasks : t.task = "write" /\ Post(t)  BY TaskType DEF AsyncWritePost
<1>4. Reserved' = Reserved \ {p} /\ p \in Reserved  BY <1>1, <1>2 DEF Reserved
<1>5. IsFiniteSet(Reserved') /\ Cardinality(Reserved') = Cardinality(Reserved) - 1
  BY <1>4, FS_RemoveElement DEF CountInv
<1>6. Cardinality(Writes(strand')) = Cardinality(Writes(strand)) + 1
  BY <1>1, <1>3, WritesAppend DEF Post
<1>7. PICK n \in Int, m \in Int, k \in Int : n = 0 /\ m = 1 /\ k = -1  OBVIOUS
<1>8. /\ Cardinality(Reserved') = Cardinality(Reserved) + k
      /\ Cardinality(Writes(strand')) = Cardinality(Writes(strand)) + m
      /\ Len(txDeque') = Len(txDeque) + n
      /\ pendingWrites' = pendingWrites + k + m + n /\ k + m + n <= 0
  BY <1>1, <1>2, <1>5, <1>6, <1>7, AdmittedTerms
<1>9. Running' => Running  BY <1>2 DEF Running
<1>10. QED  BY <1>1, <1>2, <1>5, <1>8, <1>9, CountMoves

LEMMA EnqueueCount ==
  ASSUME IInv, IInv', CountInv, WriteEnqueued
  PROVE  CountInv'
<1>1. /\ TypeOK /\ TypeOK' /\ strand \in Seq(Tasks) /\ txDeque \in Seq(Packets)
  BY DEF IInv, TypeOK
<1>2. /\ UNCHANGED <<closing, stopped, bufferConfig, pendingWrites, status>>
      /\ Take("write") /\ txDeque' = Append(txDeque, Head(strand).pkt)
  BY DEF WriteEnqueued, PushBack, appVars
<1>3. /\ strand # << >> /\ strand' = Tail(strand) /\ Head(strand).task = "write"
      /\ Head(strand).pkt \in Packets
  BY <1>1, <1>2, TakeType, TaskParts
<1>4. Reserved' = Reserved /\ IsFiniteSet(Reserved')  BY <1>2 DEF Reserved, CountInv
<1>5. Cardinality(Writes(strand')) = Cardinality(Writes(strand)) - 1
  BY <1>1, <1>3, WritesTail
<1>6. Len(txDeque') = Len(txDeque) + 1  BY <1>1, <1>2, <1>3, AppendProperties
<1>7. PICK n \in Int, m \in Int, k \in Int : n = 0 /\ m = 1 /\ k = -1  OBVIOUS
<1>8. /\ Cardinality(Reserved') = Cardinality(Reserved) + n
      /\ Cardinality(Writes(strand')) = Cardinality(Writes(strand)) + k
      /\ Len(txDeque') = Len(txDeque) + m
      /\ pendingWrites' = pendingWrites + n + k + m /\ n + k + m <= 0
  BY <1>1, <1>2, <1>4, <1>5, <1>6, <1>7, AdmittedTerms
<1>9. Running' => Running  BY <1>2 DEF Running
<1>10. QED  BY <1>1, <1>2, <1>4, <1>8, <1>9, CountMoves

LEMMA CompleteCount ==
  ASSUME IInv, IInv', CountInv, WriteCompletes
  PROVE  CountInv'
<1>1. /\ TypeOK /\ TypeOK' /\ strand \in Seq(Tasks) /\ txDeque \in Seq(Packets)
  BY DEF IInv, TypeOK
<1>2. /\ UNCHANGED <<closing, stopped, bufferConfig, status>> /\ Take("done") /\ Decrement
      /\ TakeCompletion("write") /\ txDeque' = Tail(txDeque)
  BY DEF WriteCompletes, TakeCompletion, appVars
<1>3. Running /\ txDeque # << >>  BY <1>2, CurrentExpected
<1>4. strand # << >> /\ strand' = Tail(strand) /\ Head(strand).task = "done"
  BY <1>1, <1>2, TakeType
<1>5. Reserved' = Reserved /\ IsFiniteSet(Reserved')  BY <1>2 DEF Reserved, CountInv
<1>6. Cardinality(Writes(strand')) = Cardinality(Writes(strand)) - 0
  BY <1>1, <1>4, WritesTail
<1>7. Len(txDeque') = Len(txDeque) - 1 /\ Len(txDeque) >= 1
  BY <1>1, <1>2, <1>3, HeadTailProperties, EmptySeq
<1>8. pendingWrites = Admitted  BY <1>3 DEF CountInv
<1>9. pendingWrites' = pendingWrites - 1
  BY <1>1, <1>2, <1>7, <1>8, AdmittedTerms DEF Decrement
<1>10. PICK n \in Int, k \in Int : n = 0 /\ k = -1  OBVIOUS
<1>11. /\ Cardinality(Reserved') = Cardinality(Reserved) + n
       /\ Cardinality(Writes(strand')) = Cardinality(Writes(strand)) + n
       /\ Len(txDeque') = Len(txDeque) + k
       /\ pendingWrites' = pendingWrites + n + n + k /\ n + n + k <= 0
  BY <1>1, <1>5, <1>6, <1>7, <1>9, <1>10, AdmittedTerms
<1>12. Running' => Running  BY <1>2 DEF Running
<1>13. QED  BY <1>1, <1>2, <1>5, <1>11, <1>12, CountMoves

\* A session starts with nothing admitted: the strand that runs an open has no write in it.
LEMMA OpenCount ==
  ASSUME IInv, QuietInv, OpenSucceeds
  PROVE  /\ \A p \in Packets : ~UnderWay(p)'
         /\ Reserved' = {} /\ Writes(strand') = {} /\ txDeque' = << >> /\ pendingWrites' = 0
<1>1. TypeOK /\ strand \in Seq(Tasks)  BY DEF IInv, TypeOK
<1>2. Take("open") /\ txDeque' = << >> /\ pendingWrites' = 0 /\ status' = status
  BY DEF OpenSucceeds, Reopening, ClearQueue, appVars
<1>3. strand # << >> /\ strand' = Tail(strand) /\ Head(strand).task = "open"
  BY <1>1, <1>2, TakeType
<1>4. Queued("open")
  <2>1. Len(strand) \in Nat \ {0} /\ Head(strand) = strand[1]
    BY <1>1, <1>3, EmptySeq, HeadTailProperties
  <2>2. QED  BY <1>3, <2>1 DEF Queued, IsTask
<1>5. ~Writing  BY <1>4 DEF QuietInv
<1>6. \A i \in 1 .. Len(strand') : ~IsTask("write", strand'[i])
  BY <1>1, <1>3, <1>5, KindsTail DEF Writing, Queued
<1>7. \A p \in Packets : ~UnderWay(p)'
  BY <1>2, <1>5, <1>6, EmptyOrdered DEF Writing, UnderWay, Waits
<1>8. Reserved' = {} /\ Writes(strand') = {}
  BY <1>2, <1>5, <1>6 DEF Writing, Reserved, Writes
<1>9. QED  BY <1>2, <1>7, <1>8

LEMMA CountStep ==
  ASSUME QuietReopen, IInv, QuietInv, CountInv, [Next]_vars
  PROVE  CountInv'
<1> USE DEF appVars, coreVars, portVars, noteVars
<1>1. IInv' /\ TypeOK /\ TypeOK'  BY NextIInv DEF IInv
<1>2. CASE UNCHANGED vars
  BY <1>1, <1>2, CountStays DEF vars, Reserved
<1>3. ASSUME NEW t \in Tasks, t.task # "write", Post(t), status' = status,
             UNCHANGED <<closing, stopped, bufferConfig, pendingWrites, txDeque>>
      PROVE  CountInv'
  <2>1. Reserved' = Reserved  BY <1>3 DEF Reserved
  <2>2. QED  BY <1>1, <1>3, <2>1, CountStays
<1>4. CASE \/ \E c \in Configs : CallOpen(c)
           \/ CallClose
           \/ \E h \in Handlers, on \in BOOLEAN : CallSetHandler(h, on)
  <2>1. \E t \in Tasks : t.task # "write" /\ Post(t)
    BY <1>4, TaskType DEF CallOpen, CallClose, CallSetHandler
  <2>2. status' = status /\ UNCHANGED <<closing, stopped, bufferConfig, pendingWrites, txDeque>>
    BY <1>4 DEF CallOpen, CallClose, CallSetHandler
  <2>3. QED  BY <1>3, <2>1, <2>2
<1>5. ASSUME NEW p \in Packets, AsyncWriteCheck(p)  PROVE CountInv'
  <2>1. Reserved' = Reserved
    <3>1. status \in [Packets -> {"none", "checked", "reserved"} \cup WriteStatus]
      BY <1>1 DEF TypeOK
    <3>2. status[p] = "none" /\ status'[p] # "reserved"
          /\ \A q \in Packets : q # p => status'[q] = status[q]
      BY <1>5, <3>1 DEF AsyncWriteCheck
    <3>3. QED  BY <3>2 DEF Reserved
  <2>2. QED  BY <1>1, <1>5, <2>1, CountStays DEF AsyncWriteCheck
<1>6. ASSUME NEW p \in Packets, AsyncWriteReserve(p) \/ AsyncWritePost(p)  PROVE CountInv'
  BY <1>1, <1>6, ReserveCount, PostCount
<1>7. CASE OpenIgnored \/ CloseAgain \/ SetHandler \/ StaleCompletion \/ ReadContinues
  <2>1. Reserved' = Reserved
    BY <1>7 DEF OpenIgnored, CloseAgain, SetHandler, StaleCompletion, ReadContinues, Reserved
  <2>2. UNCHANGED <<closing, stopped, bufferConfig, pendingWrites, txDeque>>
    BY <1>7 DEF OpenIgnored, CloseAgain, SetHandler, StaleCompletion, ReadContinues
  <2>3. \E kind : kind # "write" /\ Take(kind)
    BY <1>7 DEF OpenIgnored, CloseAgain, SetHandler, StaleCompletion, ReadContinues,
                TakeCompletion
  <2>4. QED  BY <1>1, <2>1, <2>2, <2>3, CountStays
<1>8. CASE SerialOpenThrows \/ SetOptionThrows \/ CloseOnStrand \/ WriteCancelled
             \/ ReadFails \/ WriteFails
  <2>1. Reserved' = Reserved
    BY <1>8 DEF SerialOpenThrows, SetOptionThrows, Reopening, CloseOnStrand, WriteCancelled,
                ReadFails, WriteFails, Reserved
  <2>2. ~Running'
    BY <1>8 DEF SerialOpenThrows, SetOptionThrows, CloseOnStrand, WriteCancelled,
                ReadFails, WriteFails, ReportFatal, StopAfterIoError, Running
  <2>3. QED  BY <1>1, <2>1, <2>2, CountStays
<1>9. CASE OpenSucceeds
  <2>1. Reserved' = {} /\ Writes(strand') = {} /\ txDeque' = << >> /\ pendingWrites' = 0
    BY <1>9, OpenCount
  <2>2. IsFiniteSet(Reserved') /\ Cardinality(Reserved') = 0
        /\ Cardinality(Writes(strand')) = 0 /\ Len(txDeque') = 0
    BY <2>1, FS_EmptySet
  <2>3. Admitted' = 0  BY <2>2 DEF Admitted, Reserved, Writes
  <2>4. bufferConfig'.txMaxElementsInQueue >= 0
    BY <1>1, ConfigAssumption DEF TypeOK
  <2>5. QED  BY <2>1, <2>2, <2>3, <2>4 DEF CountInv
<1>10. CASE WriteEnqueued \/ WriteCompletes
  BY <1>1, <1>10, EnqueueCount, CompleteCount
<1>11. CASE CompleteDue \/ CompleteRead
  <2>1. PICK op \in BagToSet(inflight) : StreamCompletes(op)
    BY <1>11 DEF CompleteDue, CompleteRead
  <2>2. PICK ec \in Outcomes(op) : Post([task |-> "done", op |-> op, ec |-> ec])
    BY <2>1 DEF StreamCompletes
  <2>3. op \in Ops /\ ec \in ErrorCodes  BY <1>1 DEF TypeOK, Outcomes, ErrorCodes
  <2>4. PICK t \in Tasks : t.task # "write" /\ Post(t)  BY <2>2, <2>3, TaskType
  <2>5. status' = status /\ UNCHANGED <<closing, stopped, bufferConfig, pendingWrites, txDeque>>
    BY <2>1 DEF StreamCompletes
  <2>6. QED  BY <1>3, <2>4, <2>5
<1>12. QED
  BY <1>2, <1>4, <1>5, <1>6, <1>7, <1>8, <1>9, <1>10, <1>11
  DEF Next, Application, RunStrand

-----------------------------------------------------------------------------
(* SessionInv.                                                             *)

\* A step by which nothing more comes under way, in a session that goes on.
LEMMA SessionKept ==
  ASSUME SessionInv, UNCHANGED <<closing, stopped, generation, session>>,
         \A p \in Packets : UnderWay(p)' => UnderWay(p)
  PROVE  SessionInv'
BY DEF SessionInv, Running

\* Tasks and calls that bring no write into the strand or into txDeque.
LEMMA FewerUnderWay ==
  ASSUME TypeOK, status' = status, txDeque' = txDeque,
         \/ \E kind : Take(kind)
         \/ \E t \in Tasks : t.task # "write" /\ Post(t)
         \/ strand' = strand
  PROVE  \A p \in Packets : UnderWay(p)' => UnderWay(p)
<1>1. \A p : Waits(strand', p) => Waits(strand, p)  BY StrandShrinks
<1>2. QED  BY <1>1 DEF UnderWay

LEMMA SessionStep ==
  ASSUME QuietReopen, IInv, QuietInv, SessionInv, [Next]_vars
  PROVE  SessionInv'
<1> USE DEF appVars, coreVars, portVars, noteVars
<1>1. /\ TypeOK /\ strand \in Seq(Tasks) /\ txDeque \in Seq(Packets) /\ SessionFlags
      /\ status \in [Packets -> {"none", "checked", "reserved"} \cup WriteStatus]
      /\ session \in [Packets -> Nat]
  BY DEF IInv, TypeOK
<1>2. CASE ~Running'  BY <1>2 DEF SessionInv
<1>3. CASE UNCHANGED vars
  BY <1>1, <1>3, FewerUnderWay, SessionKept DEF vars
<1>4. CASE \/ \E c \in Configs : CallOpen(c)
           \/ CallClose
           \/ \E h \in Handlers, on \in BOOLEAN : CallSetHandler(h, on)
  <2>1. \E t \in Tasks : t.task # "write" /\ Post(t)
    BY <1>4, TaskType DEF CallOpen, CallClose, CallSetHandler
  <2>2. UNCHANGED <<closing, stopped, generation, session, status, txDeque>>
    BY <1>4 DEF CallOpen, CallClose, CallSetHandler
  <2>3. QED  BY <1>1, <2>1, <2>2, FewerUnderWay, SessionKept
<1>5. ASSUME NEW p \in Packets, AsyncWriteCheck(p)  PROVE SessionInv'
  <2>1. /\ session'[p] = generation' /\ UNCHANGED <<closing, stopped, generation, strand, txDeque>>
        /\ \A q \in Packets : q # p => session'[q] = session[q] /\ status'[q] = status[q]
    BY <1>1, <1>5 DEF AsyncWriteCheck
  <2>2. \A q \in Packets : q # p /\ UnderWay(q)' => UnderWay(q)  BY <2>1 DEF UnderWay
  <2>3. QED  BY <2>1, <2>2 DEF SessionInv, Running
<1>6. ASSUME NEW p \in Packets, AsyncWriteReserve(p) \/ AsyncWritePost(p)  PROVE SessionInv'
  <2>1. UnderWay(p)  BY <1>6 DEF AsyncWriteReserve, AsyncWritePost, UnderWay
  <2>2. /\ UNCHANGED <<closing, stopped, generation, session, txDeque>>
        /\ \A q \in Packets : q # p => status'[q] = status[q]
    BY <1>1, <1>6 DEF AsyncWriteReserve, AsyncWritePost
  <2>3. \A q : q # p /\ Waits(strand', q) => Waits(strand, q)
    <3>1. CASE strand' = strand  BY <3>1
    <3>2. CASE AsyncWritePost(p)
      <4>1. PICK t \in Tasks : t.task = "write" /\ t.pkt = p /\ Post(t)
        BY <3>2, TaskType DEF AsyncWritePost
      <4>2. QED  BY <1>1, <4>1, WaitsAppend DEF Post
    <3>3. QED  BY <1>6, <3>1, <3>2 DEF AsyncWriteReserve
  <2>4. \A q \in Packets : UnderWay(q)' => UnderWay(q)  BY <2>1, <2>2, <2>3 DEF UnderWay
  <2>5. QED  BY <2>2, <2>4, SessionKept
<1>7. CASE OpenIgnored \/ CloseAgain \/ SetHandler \/ StaleCompletion \/ ReadContinues
  <2>1. UNCHANGED <<closing, stopped, generation, session, status, txDeque>>
    BY <1>7 DEF OpenIgnored, CloseAgain, SetHandler, StaleCompletion, ReadContinues
  <2>2. \E kind : Take(kind)
    BY <1>7 DEF OpenIgnored, CloseAgain, SetHandler, StaleCompletion, ReadContinues,
                TakeCompletion
  <2>3. QED  BY <1>1, <2>1, <2>2, FewerUnderWay, SessionKept
<1>8. CASE SerialOpenThrows \/ SetOptionThrows \/ CloseOnStrand \/ WriteCancelled
             \/ ReadFails \/ WriteFails
  <2>1. ~Running'
    BY <1>8 DEF SerialOpenThrows, SetOptionThrows, CloseOnStrand, WriteCancelled,
                ReadFails, WriteFails, ReportFatal, StopAfterIoError, Running
  <2>2. QED  BY <1>2, <2>1
<1>9. CASE OpenSucceeds  BY <1>9, OpenCount DEF SessionInv
<1>10. CASE WriteEnqueued
  <2> SUFFICES ASSUME NEW p, p = Head(strand).pkt  PROVE SessionInv'
    OBVIOUS
  <2>1. /\ UNCHANGED <<closing, stopped, generation, session, status>>
        /\ Take("write") /\ txDeque' = Append(txDeque, p)
    BY <1>10 DEF WriteEnqueued, PushBack
  <2>2. /\ strand # << >> /\ strand' = Tail(strand)
        /\ Head(strand).task = "write" /\ p \in Packets
    BY <1>1, <2>1, TakeType, TaskParts
  <2>3. \A q : Waits(strand, q) <=> Waits(strand', q) \/ q = p
    BY <1>1, <2>2, WaitsTail
  <2>4. \A q : InSeq(q, txDeque') <=> InSeq(q, txDeque) \/ q = p
    BY <1>1, <2>1, <2>2, PrecedesAppend
  <2>5. \A q \in Packets : UnderWay(q)' => UnderWay(q)
    BY <2>1, <2>3, <2>4 DEF UnderWay
  <2>6. QED  BY <2>1, <2>5, SessionKept
<1>11. CASE WriteCompletes
  <2>1. /\ UNCHANGED <<closing, stopped, generation, session, status>>
        /\ TakeCompletion("write") /\ Take("done") /\ txDeque' = Tail(txDeque)
    BY <1>11 DEF WriteCompletes, TakeCompletion
  <2>2. txDeque # << >>  BY <2>1, CurrentExpected
  <2>3. \A q : InSeq(q, txDeque') => InSeq(q, txDeque)  BY <1>1, <2>1, <2>2, InSeqTail
  <2>4. \A q : Waits(strand', q) => Waits(strand, q)  BY <1>1, <2>1, StrandShrinks
  <2>5. \A q \in Packets : UnderWay(q)' => UnderWay(q)
    BY <2>1, <2>3, <2>4 DEF UnderWay
  <2>6. QED  BY <2>1, <2>5, SessionKept
<1>12. CASE CompleteDue \/ CompleteRead
  <2>1. PICK op \in BagToSet(inflight) : StreamCompletes(op)
    BY <1>12 DEF CompleteDue, CompleteRead
  <2>2. PICK ec \in Outcomes(op) : Post([task |-> "done", op |-> op, ec |-> ec])
    BY <2>1 DEF StreamCompletes
  <2>3. op \in Ops /\ ec \in ErrorCodes  BY <1>1 DEF TypeOK, Outcomes, ErrorCodes
  <2>4. PICK t \in Tasks : t.task # "write" /\ Post(t)  BY <2>2, <2>3, TaskType
  <2>5. UNCHANGED <<closing, stopped, generation, session, status, txDeque>>
    BY <2>1 DEF StreamCompletes
  <2>6. QED  BY <1>1, <2>4, <2>5, FewerUnderWay, SessionKept
<1>13. QED
  BY <1>3, <1>4, <1>5, <1>6, <1>7, <1>8, <1>9, <1>10, <1>11, <1>12
  DEF Next, Application, RunStrand

-----------------------------------------------------------------------------
(* The theorems.                                                           *)

LEMMA InitQueueInv == Init => QueueInv
<1> SUFFICES ASSUME Init PROVE QueueInv  OBVIOUS
<1>1. /\ strand = << >> /\ stopped /\ Reserved = {}  BY DEF Init, Reserved
<1>2. QuietInv  BY <1>1 DEF QuietInv, Queued
<1>3. CountInv  BY <1>1, FS_EmptySet DEF CountInv, Running
<1>4. SessionInv  BY <1>1 DEF SessionInv, Running
<1>5. QED  BY <1>2, <1>3, <1>4 DEF QueueInv

LEMMA QueueInvariance ==
  ASSUME QuietReopen
  PROVE  Spec => [](IInv /\ QueueInv)
<1>1. Init => IInv /\ QueueInv  BY InitIInv, InitQueueInv
<1>2. IInv /\ QueueInv /\ [Next]_vars => (IInv /\ QueueInv)'
  BY NextIInv, QuietStep, CountStep, SessionStep DEF QueueInv
<1>3. QED  BY <1>1, <1>2, PTL DEF Spec

\* pendingWrites, which callers and strand update without a lock, counts the writes that a
\* running transport admitted and has still to deal with, if no open races with a write.
THEOREM CountIsExact ==
  ASSUME QuietReopen
  PROVE  Spec => []PendingWritesExact
<1>1. QueueInv => PendingWritesExact  BY DEF QueueInv, CountInv, PendingWritesExact
<1>2. QED  BY <1>1, QueueInvariance, PTL

\* The limit of the running session's bufferConfig holds for the writes really queued.
THEOREM LimitHolds ==
  ASSUME QuietReopen
  PROVE  Spec => []QueueWithinLimit
<1>1. QueueInv => QueueWithinLimit  BY DEF QueueInv, CountInv, QueueWithinLimit
<1>2. QED  BY <1>1, QueueInvariance, PTL

\* A packet is sent by the session that admitted it, or by none.
THEOREM SentInItsSession ==
  ASSUME QuietReopen
  PROVE  Spec => []QueuedInItsSession
<1>1. ASSUME IInv, QueueInv
      PROVE  QueuedInItsSession
  <2> SUFFICES ASSUME NEW i \in 1 .. Len(txDeque)
               PROVE  session[txDeque[i]] = generation
    BY DEF QueuedInItsSession
  <2>1. txDeque \in Seq(Packets) /\ SessionFlags  BY <1>1 DEF IInv, TypeOK
  <2>2. txDeque[i] \in Packets /\ InSeq(txDeque[i], txDeque)
    BY <2>1, ElementOfSeq DEF InSeq
  <2>3. Running  BY <2>1 DEF SessionFlags, Running
  <2>4. QED  BY <1>1, <2>2, <2>3 DEF QueueInv, SessionInv, UnderWay
<1>2. QED  BY <1>1, QueueInvariance, PTL

=============================================================================
