----------------------- MODULE SerialTransportProofs -----------------------
(***************************************************************************)
(* Proofs about SerialTransport, for every number of packets, every queue  *)
(* limit and every number of calls.                                        *)
(*                                                                         *)
(* handleWrite takes txDeque.front() without looking whether the deque is  *)
(* empty, so even type correctness rests on the protocol between the deque,*)
(* the operation in flight and the generation.  The inductive invariant    *)
(* counts, for each operation, how often it was started and not yet        *)
(* handled (Outstanding).                                                  *)
(***************************************************************************)
EXTENDS SerialTransport, FiniteSetTheorems, SequenceTheorems, TLAPS

-----------------------------------------------------------------------------
(* Completion handlers in the strand's queue.                              *)

\* The completion handlers of one operation in a queue are finitely many.
LEMMA FinishedFinite ==
  ASSUME NEW s \in Seq(Tasks), NEW op
  PROVE  IsFiniteSet(Finished(s, op)) /\ Cardinality(Finished(s, op)) \in Nat
<1>1. Len(s) \in Nat  OBVIOUS
<1>2. IsFiniteSet(1 .. Len(s))  BY <1>1, FS_Interval
<1>3. Finished(s, op) \subseteq 1 .. Len(s)  BY DEF Finished
<1>4. QED  BY <1>2, <1>3, FS_Subset, FS_CardinalityType

\* Queueing a task adds a completion of op exactly if the task is one.
LEMMA FinishedAppend ==
  ASSUME NEW s \in Seq(Tasks), NEW t \in Tasks, NEW op
  PROVE  Cardinality(Finished(Append(s, t), op)) =
           Cardinality(Finished(s, op)) + (IF t.task = "done" /\ t.op = op THEN 1 ELSE 0)
<1>1. Len(s) \in Nat /\ Len(Append(s, t)) = Len(s) + 1  OBVIOUS
<1>2. /\ \A i \in 1 .. Len(s) : Append(s, t)[i] = s[i]
      /\ Append(s, t)[Len(s) + 1] = t
  BY AppendProperties
<1>3. CASE t.task = "done" /\ t.op = op
  <2>1. Finished(Append(s, t), op) = Finished(s, op) \cup {Len(s) + 1}
    BY <1>1, <1>2, <1>3 DEF Finished, IsTask
  <2>2. Len(s) + 1 \notin Finished(s, op)  BY <1>1 DEF Finished
  <2>3. IsFiniteSet(Finished(s, op))  BY FinishedFinite
  <2>4. Cardinality(Finished(s, op) \cup {Len(s) + 1}) = Cardinality(Finished(s, op)) + 1
    BY <2>2, <2>3, FS_AddElement
  <2>5. QED  BY <1>3, <2>1, <2>4
<1>4. CASE ~(t.task = "done" /\ t.op = op)
  <2>1. Finished(Append(s, t), op) = Finished(s, op)
    BY <1>1, <1>2, <1>4 DEF Finished, IsTask
  <2>2. QED  BY <1>4, <2>1, FinishedFinite
<1>5. QED  BY <1>3, <1>4

\* Running the first task removes a completion of op exactly if the task is one.
LEMMA FinishedTail ==
  ASSUME NEW s \in Seq(Tasks), s # << >>, NEW op
  PROVE  Cardinality(Finished(Tail(s), op)) =
           Cardinality(Finished(s, op))
             - (IF Head(s).task = "done" /\ Head(s).op = op THEN 1 ELSE 0)
<1> DEFINE Later == Finished(s, op) \ {1}
           f == [i \in Later |-> i - 1]
<1>1. Len(s) \in Nat \ {0} /\ Tail(s) \in Seq(Tasks) /\ Len(Tail(s)) = Len(s) - 1
  BY HeadTailProperties, EmptySeq
<1>2. Head(s) = s[1] /\ \A i \in 1 .. Len(Tail(s)) : Tail(s)[i] = s[i + 1]
  BY HeadTailProperties
<1>3. IsFiniteSet(Later)  BY FinishedFinite, FS_Subset
<1>4. f \in Bijection(Later, Finished(Tail(s), op))
  <2>1. f \in [Later -> Finished(Tail(s), op)]
    <3>1. ASSUME NEW i \in Later  PROVE  i - 1 \in Finished(Tail(s), op)
      <4>1. i \in 2 .. Len(s) /\ IsTask("done", s[i]) /\ s[i].op = op
        BY <1>1 DEF Finished
      <4>2. i - 1 \in 1 .. Len(Tail(s)) /\ (i - 1) + 1 = i  BY <4>1, <1>1
      <4>3. Tail(s)[i - 1] = s[i]  BY <4>2, <1>2
      <4>4. QED  BY <4>1, <4>2, <4>3 DEF Finished
    <3>2. QED  BY <3>1
  <2>2. \A i, j \in Later : f[i] = f[j] => i = j  BY <1>1 DEF Finished
  <2>3. ASSUME NEW j \in Finished(Tail(s), op)  PROVE  \E i \in Later : f[i] = j
    <3>1. j \in 1 .. Len(s) - 1 /\ IsTask("done", s[j + 1]) /\ s[j + 1].op = op
      BY <1>1, <1>2 DEF Finished
    <3>2. j + 1 \in Later /\ (j + 1) - 1 = j  BY <3>1, <1>1 DEF Finished
    <3>3. f[j + 1] = j  BY <3>2
    <3>4. QED  BY <3>2, <3>3
  <2>4. QED
    BY <2>1, <2>2, <2>3 DEF Bijection, Injection, Surjection, IsInjective
<1>5. Cardinality(Finished(Tail(s), op)) = Cardinality(Later)
  BY <1>3, <1>4, FS_Bijection DEF ExistsBijection
<1>6. CASE Head(s).task = "done" /\ Head(s).op = op
  <2>1. 1 \in Finished(s, op)  BY <1>1, <1>2, <1>6 DEF Finished, IsTask
  <2>2. Cardinality(Later) = Cardinality(Finished(s, op)) - 1
    BY <2>1, FinishedFinite, FS_RemoveElement
  <2>3. QED  BY <1>5, <1>6, <2>2
<1>7. CASE ~(Head(s).task = "done" /\ Head(s).op = op)
  <2>1. Later = Finished(s, op)  BY <1>1, <1>2, <1>7 DEF Finished, IsTask
  <2>2. Cardinality(Later) = Cardinality(Finished(s, op))  BY <2>1, Zenon
  <2>3. QED  BY <1>5, <1>7, <2>2, FinishedFinite
<1>8. QED  BY <1>6, <1>7

-----------------------------------------------------------------------------
(* The bag of operations in flight.                                        *)

OpBag(B) == IsABag(B) /\ BagToSet(B) \subseteq Ops

\* Starting an operation adds one copy of it and of no other.
LEMMA StartOp ==
  ASSUME NEW B, OpBag(B), NEW o \in Ops
  PROVE  /\ OpBag(B (+) SetToBag({o}))
         /\ \A op : Copies(op, B (+) SetToBag({o})) =
                      Copies(op, B) + (IF op = o THEN 1 ELSE 0)
BY DEF OpBag, IsABag, BagToSet, SetToBag, Copies, BagIn, (+)

\* Ending an operation in flight removes one copy of it and of no other.
LEMMA EndOp ==
  ASSUME NEW B, OpBag(B), NEW o, BagIn(o, B)
  PROVE  /\ OpBag(B (-) SetToBag({o}))
         /\ \A op : Copies(op, B (-) SetToBag({o})) =
                      Copies(op, B) - (IF op = o THEN 1 ELSE 0)
BY DEF OpBag, IsABag, BagToSet, SetToBag, Copies, BagIn, (-)

\* The bag never counts below zero.
LEMMA CopiesNat ==
  ASSUME NEW B, OpBag(B), NEW op
  PROVE  Copies(op, B) \in Nat
BY DEF OpBag, IsABag, BagToSet, Copies, BagIn

-----------------------------------------------------------------------------
(* Types of what the actions take apart.                                   *)

LEMMA TaskParts ==
  ASSUME NEW t \in Tasks
  PROVE  /\ t.task = "open" => t.config \in Configs
         /\ t.task = "set" => t.handler \in Handlers
         /\ t.task = "write" => t.pkt \in Packets
         /\ t.task = "done" => t.op \in Ops /\ t.ec \in ErrorCodes
BY DEF Tasks

\* Every task the transport and the stream post is one of Tasks.
LEMMA TaskType ==
  /\ \A c \in Configs : [task |-> "open", config |-> c] \in Tasks
  /\ [task |-> "close"] \in Tasks
  /\ \A h \in Handlers, on \in BOOLEAN :
       [task |-> "set", handler |-> h, on |-> on] \in Tasks
  /\ \A p \in Packets : [task |-> "write", pkt |-> p] \in Tasks
  /\ \A op \in Ops, ec \in ErrorCodes : [task |-> "done", op |-> op, ec |-> ec] \in Tasks
BY DEF Tasks

LEMMA OpType ==
  ASSUME NEW g \in Nat
  PROVE  ReadOp(g) \in Ops /\ \A p \in Packets : WriteOp(g, p) \in Ops
BY DEF Ops, ReadOp, WriteOp

LEMMA OpParts ==
  ASSUME NEW op \in Ops
  PROVE  /\ op.gen \in Nat /\ op.op \in {"read", "write"}
         /\ op.op = "read" => op = ReadOp(op.gen)
         /\ op.op = "write" => op.pkt \in Packets /\ op = WriteOp(op.gen, op.pkt)
BY DEF Ops, ReadOp, WriteOp

LEMMA OpIs ==
  ASSUME NEW op \in Ops, NEW g, NEW p
  PROVE  /\ op = ReadOp(g) <=> op.op = "read" /\ op.gen = g
         /\ op = WriteOp(g, p) <=> op.op = "write" /\ op.gen = g /\ op.pkt = p
BY DEF Ops, ReadOp, WriteOp

LEMMA TakeType ==
  ASSUME TypeOK, NEW kind, Take(kind)
  PROVE  /\ Head(strand) \in Tasks /\ Head(strand).task = kind
         /\ strand # << >> /\ strand' = Tail(strand) /\ strand' \in Seq(Tasks)
<1>1. strand \in Seq(Tasks) /\ strand # << >>  BY DEF TypeOK, Take
<1>2. Head(strand) \in Tasks /\ Tail(strand) \in Seq(Tasks)
  BY <1>1, HeadTailProperties
<1>3. QED  BY <1>1, <1>2 DEF Take, IsTask

-----------------------------------------------------------------------------
(* The inductive invariant.                                                *)

\* How often an operation of the current generation is outstanding: the read once,
\* the write of the front packet once, and nothing when the transport is not running.
Expected(op) ==
    IF ~Running \/ op.gen # generation THEN 0
    ELSE IF op.op = "read" THEN 1
    ELSE IF txDeque # << >> /\ op.pkt = Head(txDeque) THEN 1 ELSE 0

Ledger == \A op \in Ops : op.gen >= generation => Outstanding(op) = Expected(op)

IInv == TypeOK /\ SessionFlags /\ Ledger

\* A task that is not a completion leaves the completions of op in the queue alone; a
\* completion takes one of its own operation away.
LEMMA TakeFinished ==
  ASSUME TypeOK, NEW kind, Take(kind), NEW op
  PROVE  Cardinality(Finished(strand, op))' =
           Cardinality(Finished(strand, op))
             - (IF kind = "done" /\ Head(strand).op = op THEN 1 ELSE 0)
<1>1. strand \in Seq(Tasks)  BY DEF TypeOK
<1>2. Cardinality(Finished(Tail(strand), op)) =
        Cardinality(Finished(strand, op))
          - (IF Head(strand).task = "done" /\ Head(strand).op = op THEN 1 ELSE 0)
  BY <1>1, TakeType, FinishedTail
<1>3. Finished(strand, op)' = Finished(Tail(strand), op)  BY TakeType DEF Finished
<1>4. Cardinality(Finished(strand, op))' = Cardinality(Finished(Tail(strand), op))
  BY <1>3
<1>5. QED  BY <1>2, <1>4, TakeType

LEMMA PostFinished ==
  ASSUME TypeOK, NEW t \in Tasks, Post(t), NEW op
  PROVE  /\ strand' \in Seq(Tasks)
         /\ Cardinality(Finished(strand, op))' =
              Cardinality(Finished(strand, op)) + (IF t.task = "done" /\ t.op = op THEN 1 ELSE 0)
<1>1. strand \in Seq(Tasks) /\ strand' = Append(strand, t)  BY DEF TypeOK, Post
<1>2. Finished(strand, op)' = Finished(Append(strand, t), op)  BY <1>1 DEF Finished
<1>3. Cardinality(Finished(strand, op))' = Cardinality(Finished(Append(strand, t), op))
  BY <1>2
<1>4. QED  BY <1>1, <1>3, FinishedAppend, AppendProperties

\* Outstanding counts in Nat.
LEMMA OutstandingNat ==
  ASSUME TypeOK, NEW op
  PROVE  /\ Outstanding(op) \in Nat /\ Copies(op, inflight) \in Nat
         /\ Cardinality(Finished(strand, op)) \in Nat
<1>1. strand \in Seq(Tasks) /\ OpBag(inflight)  BY DEF TypeOK, OpBag
<1>2. QED  BY <1>1, CopiesNat, FinishedFinite DEF Outstanding

\* The initial state satisfies the inductive invariant.
LEMMA InitIInv == Init => IInv
<1> SUFFICES ASSUME Init PROVE IInv  OBVIOUS
<1>1. TypeOK
  <2>1. IsABag(inflight) /\ BagToSet(inflight) \subseteq Ops
    BY DEF Init, EmptyBag, SetToBag, IsABag, BagToSet
  <2>2. pendingWrites \in 0 .. SizeMax  BY ConfigAssumption DEF Init
  <2>3. /\ strand \in Seq(Tasks) /\ txDeque \in Seq(Packets)
        /\ posted \in Seq(Packets) /\ wire \in Seq(Packets)
        /\ reported \in Seq(FatalErrors)
    BY EmptySeq DEF Init
  <2>4. notices \in [Packets -> Seq(WriteResult)]  BY EmptySeq DEF Init
  <2>5. QED
    BY <2>1, <2>2, <2>3, <2>4 DEF Init, TypeOK, States
<1>2. SessionFlags  BY DEF Init, SessionFlags, Running
<1>3. Ledger
  <2> SUFFICES ASSUME NEW op \in Ops PROVE Outstanding(op) = Expected(op)
    BY DEF Ledger
  <2>1. Copies(op, inflight) = 0
    BY DEF Init, Copies, BagIn, BagToSet, EmptyBag, SetToBag
  <2>2. Finished(strand, op) = {}  BY DEF Init, Finished
  <2>3. Cardinality(Finished(strand, op)) = 0  BY <2>2, FS_EmptySet
  <2>4. QED  BY <2>1, <2>3 DEF Init, Outstanding, Expected, Running
<1>4. QED  BY <1>1, <1>2, <1>3 DEF IInv

\* A step that starts and handles no operation and leaves the session alone keeps the
\* ledger.
LEMMA LedgerKept ==
  ASSUME Ledger, UNCHANGED <<closing, stopped, generation, inflight>>,
         \/ txDeque' = txDeque
         \/ txDeque # << >> /\ txDeque' # << >> /\ Head(txDeque') = Head(txDeque),
         \A op : Cardinality(Finished(strand, op))' = Cardinality(Finished(strand, op))
  PROVE  Ledger'
<1> SUFFICES ASSUME NEW op \in Ops, op.gen >= generation'
             PROVE  Outstanding(op)' = Expected(op)'
  BY DEF Ledger
<1>1. Outstanding(op) = Expected(op)  BY DEF Ledger
<1>2. Outstanding(op)' = Outstanding(op)  BY DEF Outstanding
<1>3. Expected(op)' = Expected(op)  BY DEF Expected, Running
<1>4. QED  BY <1>1, <1>2, <1>3

-----------------------------------------------------------------------------
(* Steps of the application threads.                                       *)

LEMMA CallStep ==
  ASSUME IInv, NEW t \in Tasks, t.task # "done", NEW c \in Calls, Called(c), Post(t),
         UNCHANGED <<status, session, posted, coreVars, portVars, noteVars,
                     pendingWrites, inflight, wire>>
  PROVE  IInv'
<1>1. TypeOK'
  <2>1. strand' \in Seq(Tasks)  BY PostFinished DEF IInv
  <2>2. calls' \in [Calls -> Nat]  BY DEF IInv, TypeOK, Called
  <2>3. QED
    BY <2>1, <2>2 DEF IInv, TypeOK, coreVars, portVars, noteVars
<1>2. SessionFlags'  BY DEF IInv, SessionFlags, Running, coreVars, portVars
<1>3. Ledger'
  <2>1. \A op : Cardinality(Finished(strand, op))' = Cardinality(Finished(strand, op))
    BY PostFinished, OutstandingNat DEF IInv
  <2>2. QED  BY <2>1, LedgerKept DEF IInv, coreVars
<1>4. QED  BY <1>1, <1>2, <1>3 DEF IInv

LEMMA WriteCallStep ==
  ASSUME IInv, NEW p \in Packets,
         AsyncWriteCheck(p) \/ AsyncWriteReserve(p) \/ AsyncWritePost(p)
  PROVE  IInv'
<1> USE DEF IInv, coreVars, portVars, noteVars, WriteStatus
<1>1. CASE AsyncWriteCheck(p)
  <2>1. TypeOK'  BY <1>1 DEF AsyncWriteCheck, TypeOK
  <2>2. SessionFlags'  BY <1>1 DEF AsyncWriteCheck, SessionFlags, Running
  <2>3. Ledger'  BY <1>1, LedgerKept DEF AsyncWriteCheck
  <2>4. QED  BY <2>1, <2>2, <2>3
<1>2. CASE AsyncWriteReserve(p)
  <2>1. TypeOK'
    <3>1. status' \in [Packets -> {"none", "checked", "reserved"} \cup WriteStatus]
      BY <1>2 DEF AsyncWriteReserve, TypeOK
    <3>2. bufferConfig.txMaxElementsInQueue \in 0 .. SizeMax /\ SizeMax \in Nat
      BY ConfigAssumption DEF TypeOK
    <3>3. pendingWrites' \in 0 .. SizeMax
      BY <1>2, <3>2 DEF AsyncWriteReserve, Full, TypeOK
    <3>4. QED  BY <1>2, <3>1, <3>3 DEF AsyncWriteReserve, TypeOK
  <2>2. SessionFlags'  BY <1>2 DEF AsyncWriteReserve, SessionFlags, Running
  <2>3. Ledger'  BY <1>2, LedgerKept DEF AsyncWriteReserve
  <2>4. QED  BY <2>1, <2>2, <2>3
<1>3. CASE AsyncWritePost(p)
  <2> DEFINE t == [task |-> "write", pkt |-> p]
  <2>1. t \in Tasks /\ t.task # "done"  BY TaskType
  <2>2. strand' \in Seq(Tasks)  BY <1>3, <2>1, PostFinished DEF AsyncWritePost
  <2>3. \A op : Cardinality(Finished(strand, op))' = Cardinality(Finished(strand, op))
    BY <1>3, <2>1, PostFinished, OutstandingNat DEF AsyncWritePost
  <2>4. posted' \in Seq(Packets)
    BY <1>3, AppendProperties DEF AsyncWritePost, TypeOK
  <2>5. TypeOK'  BY <1>3, <2>2, <2>4 DEF AsyncWritePost, TypeOK
  <2>6. SessionFlags'  BY <1>3 DEF AsyncWritePost, SessionFlags, Running
  <2>7. Ledger'  BY <1>3, <2>3, LedgerKept DEF AsyncWritePost
  <2>8. QED  BY <2>5, <2>6, <2>7
<1>4. QED  BY <1>1, <1>2, <1>3

LEMMA ApplicationStep == IInv /\ Application => IInv'
<1> SUFFICES ASSUME IInv, Application PROVE IInv'  OBVIOUS
<1>1. ASSUME NEW c \in Configs, CallOpen(c) PROVE IInv'
  BY <1>1, TaskType, CallStep DEF CallOpen, Calls
<1>2. CASE CallClose  BY <1>2, TaskType, CallStep DEF CallClose, Calls
<1>3. ASSUME NEW h \in Handlers, NEW on \in BOOLEAN, CallSetHandler(h, on) PROVE IInv'
  BY <1>3, TaskType, CallStep DEF CallSetHandler, Calls
<1>4. QED  BY <1>1, <1>2, <1>3, WriteCallStep DEF Application

-----------------------------------------------------------------------------
(* Steps of the strand: what becomes of the ledger.                        *)

\* The completion at the head of the queue is outstanding.
LEMMA HeadOutstanding ==
  ASSUME TypeOK, Take("done")
  PROVE  Head(strand).op \in Ops /\ Outstanding(Head(strand).op) >= 1
<1> SUFFICES ASSUME NEW o, o = Head(strand).op  PROVE o \in Ops /\ Outstanding(o) >= 1
  OBVIOUS
<1>1. o \in Ops  BY TakeType, TaskParts
<1>2. Cardinality(Finished(strand, o))' = Cardinality(Finished(strand, o)) - 1
  BY TakeFinished
<1>3. Finished(strand, o)' = Finished(Tail(strand), o) /\ Tail(strand) \in Seq(Tasks)
  BY TakeType DEF Finished
<1>4. Cardinality(Finished(strand, o))' \in Nat  BY <1>3, FinishedFinite
<1>5. QED  BY <1>1, <1>2, <1>4, OutstandingNat DEF Outstanding

\* A step that ends the session under a new generation leaves nothing outstanding that
\* carries it.
LEMMA LedgerEnded ==
  ASSUME IInv, NEW kind, Take(kind), generation' = generation + 1, ~Running',
         inflight' = inflight
  PROVE  Ledger'
<1> SUFFICES ASSUME NEW op \in Ops, op.gen >= generation'
             PROVE  Outstanding(op)' = Expected(op)'
  BY DEF Ledger
<1>1. TypeOK /\ generation \in Nat /\ op.gen \in Nat
  <2>1. TypeOK  BY DEF IInv
  <2>2. generation \in Nat  BY <2>1 DEF TypeOK
  <2>3. op.gen \in Nat  BY OpParts
  <2>4. QED  BY <2>1, <2>2, <2>3
<1>2. op.gen >= generation /\ op.gen # generation  BY <1>1
<1>3. Outstanding(op) = 0  BY <1>2 DEF IInv, Ledger, Expected
<1>4. Copies(op, inflight) = 0 /\ Cardinality(Finished(strand, op)) = 0
  BY <1>1, <1>3, OutstandingNat DEF Outstanding
<1>5. Finished(strand, op)' = Finished(Tail(strand), op) /\ Tail(strand) \in Seq(Tasks)
  BY <1>1, TakeType DEF Finished
<1>6. Cardinality(Finished(strand, op))' \in Nat  BY <1>5, FinishedFinite
<1>7. Cardinality(Finished(strand, op))' = 0  BY <1>1, <1>4, <1>6, TakeFinished
<1>8. Copies(op, inflight)' = 0  BY <1>4
<1>9. QED  BY <1>7, <1>8 DEF Outstanding, Expected

\* A stale completion is of an operation the ledger does not expect.
LEMMA LedgerStale ==
  ASSUME IInv, Take("done"), Stale(Head(strand).op),
         UNCHANGED <<closing, stopped, generation, txDeque, inflight>>
  PROVE  Ledger'
<1> SUFFICES ASSUME NEW op \in Ops, op.gen >= generation'
             PROVE  Outstanding(op)' = Expected(op)'
  BY DEF Ledger
<1>1. TypeOK /\ Ledger  BY DEF IInv
<1>2. Outstanding(op) = Expected(op)  BY <1>1 DEF Ledger
<1>3. Head(strand).op # op
  BY <1>1, <1>2, HeadOutstanding DEF Stale, Expected, Running
<1>4. Cardinality(Finished(strand, op))' = Cardinality(Finished(strand, op))
  BY <1>1, <1>3, TakeFinished, OutstandingNat
<1>5. Outstanding(op)' = Outstanding(op)  BY <1>4 DEF Outstanding
<1>6. Expected(op)' = Expected(op)  BY DEF Expected, Running
<1>7. QED  BY <1>2, <1>5, <1>6

\* The completion of a current operation is expected: a write's is the front packet's.
LEMMA CurrentExpected ==
  ASSUME IInv, NEW kind \in {"read", "write"}, TakeCompletion(kind)
  PROVE  /\ Running /\ Head(strand).op \in Ops
         /\ kind = "read" => Head(strand).op = ReadOp(generation)
         /\ kind = "write" => /\ txDeque # << >>
                             /\ Head(strand).op = WriteOp(generation, Head(txDeque))
<1>1. TypeOK /\ Ledger /\ generation \in Nat  BY DEF IInv, TypeOK
<1>2. Take("done")  BY DEF TakeCompletion
<1>3. /\ Head(strand).op \in Ops /\ Outstanding(Head(strand).op) >= 1
      /\ Head(strand).op.op = kind /\ Running /\ Head(strand).op.gen = generation
  BY <1>1, <1>2, HeadOutstanding DEF TakeCompletion, Stale, Running
<1>4. Expected(Head(strand).op) >= 1  BY <1>1, <1>3 DEF Ledger
<1>5. ASSUME kind = "read"  PROVE Head(strand).op = ReadOp(generation)
  BY <1>3, <1>5, OpParts
<1>6. ASSUME kind = "write"
      PROVE  txDeque # << >> /\ Head(strand).op = WriteOp(generation, Head(txDeque))
  <2>1. txDeque # << >> /\ Head(strand).op.pkt = Head(txDeque)
    BY <1>3, <1>4, <1>6 DEF Expected
  <2>2. Head(strand).op = WriteOp(Head(strand).op.gen, Head(strand).op.pkt)
    BY <1>3, <1>6, OpParts
  <2>3. QED  BY <1>3, <2>1, <2>2
<1>7. QED  BY <1>3, <1>5, <1>6

-----------------------------------------------------------------------------
(* Steps of the strand.                                                    *)

\* Tasks that find nothing to do, and the handler setters.
LEMMA IdleStep ==
  ASSUME IInv, OpenIgnored \/ CloseAgain \/ StaleCompletion \/ SetHandler
  PROVE  IInv'
<1> USE DEF appVars, coreVars, portVars, noteVars
<1>1. TypeOK /\ SessionFlags /\ Ledger  BY DEF IInv
<1>2. PICK kind \in {"open", "close", "done", "set"} : Take(kind)
  BY DEF OpenIgnored, CloseAgain, StaleCompletion, SetHandler
<1>3. strand' \in Seq(Tasks) /\ Head(strand) \in Tasks  BY <1>1, <1>2, TakeType
<1>4. TypeOK'
  <2>1. CASE SetHandler
    <3>1. Head(strand).handler \in Handlers
      BY <1>1, <2>1, TakeType, TaskParts DEF SetHandler
    <3>2. handlers' \subseteq Handlers  BY <1>1, <2>1, <3>1 DEF SetHandler, TypeOK
    <3>3. QED  BY <1>1, <1>3, <2>1, <3>2 DEF SetHandler, TypeOK
  <2>2. CASE OpenIgnored \/ CloseAgain \/ StaleCompletion
    BY <1>1, <1>3, <2>2 DEF OpenIgnored, CloseAgain, StaleCompletion, TypeOK
  <2>3. QED  BY <2>1, <2>2
<1>5. SessionFlags'
  BY <1>1 DEF SessionFlags, Running, OpenIgnored, CloseAgain, StaleCompletion, SetHandler
<1>6. UNCHANGED <<closing, stopped, generation, txDeque, inflight>>
  BY DEF OpenIgnored, CloseAgain, StaleCompletion, SetHandler
<1>7. Ledger'
  <2>1. CASE StaleCompletion
    BY <1>6, <2>1, LedgerStale DEF StaleCompletion
  <2>2. ASSUME NEW k, k # "done", Take(k)  PROVE Ledger'
    <3>1. \A op : Cardinality(Finished(strand, op))' = Cardinality(Finished(strand, op))
      BY <1>1, <2>2, TakeFinished, OutstandingNat
    <3>2. QED  BY <1>1, <1>6, <3>1, LedgerKept
  <2>3. QED
    BY <2>1, <2>2 DEF OpenIgnored, CloseAgain, SetHandler
<1>8. QED  BY <1>4, <1>5, <1>7 DEF IInv

\* What every open that is not ignored leaves of the right type.
LEMMA ReopeningType ==
  ASSUME TypeOK, Reopening, stopped' \in BOOLEAN, currentState' \in States,
         portOpen' \in BOOLEAN, OpBag(inflight')
  PROVE  TypeOK'
<1> USE DEF appVars
<1>1. strand' \in Seq(Tasks) /\ Head(strand).config \in Configs
  BY TakeType, TaskParts DEF Reopening
<1>2. bufferConfig' \in Configs \cup {DefaultConfig}  BY <1>1 DEF Reopening
<1>3. generation' \in Nat /\ pendingWrites' \in 0 .. SizeMax
  BY ConfigAssumption DEF Reopening, ClearQueue, TypeOK
<1>4. txDeque' \in Seq(Packets) /\ reported' \in Seq(FatalErrors)
  BY EmptySeq DEF Reopening, ClearQueue
<1>5. IsABag(inflight)' /\ BagToSet(inflight)' \subseteq Ops  BY DEF OpBag, BagToSet, IsABag
<1>6. QED  BY <1>1, <1>2, <1>3, <1>4, <1>5 DEF Reopening, TypeOK

LEMMA OpenFailsStep ==
  ASSUME IInv, SerialOpenThrows \/ SetOptionThrows
  PROVE  IInv'
<1>1. TypeOK /\ SessionFlags /\ Reopening /\ Take("open")
  BY DEF IInv, SerialOpenThrows, SetOptionThrows, Reopening
<1>2. /\ inflight' = inflight /\ stopped' = TRUE /\ currentState' = "Faulted"
      /\ portOpen' \in BOOLEAN
  BY <1>1 DEF SerialOpenThrows, SetOptionThrows, TypeOK
<1>3. OpBag(inflight')  BY <1>1, <1>2 DEF OpBag, TypeOK
<1>4. TypeOK'  BY <1>1, <1>2, <1>3, ReopeningType DEF States
<1>5. SessionFlags'
  BY <1>1, <1>2 DEF SessionFlags, Running, Reopening, ClearQueue
<1>6. Ledger'  BY <1>1, <1>2, LedgerEnded DEF Reopening, Running
<1>7. QED  BY <1>4, <1>5, <1>6 DEF IInv

LEMMA OpenSucceedsStep ==
  ASSUME IInv, OpenSucceeds
  PROVE  IInv'
<1>1. TypeOK /\ SessionFlags /\ Ledger /\ Reopening /\ Take("open")
  BY DEF IInv, OpenSucceeds, Reopening
<1>2. /\ stopped' = FALSE /\ closing' = FALSE /\ currentState' = "Open" /\ portOpen' = TRUE
      /\ generation \in Nat /\ generation' = generation + 1 /\ txDeque' = << >>
  BY <1>1 DEF OpenSucceeds, Reopening, ClearQueue, TypeOK
<1>3. inflight' = inflight (+) SetToBag({ReadOp(generation')}) /\ ReadOp(generation') \in Ops
  BY <1>2, OpType DEF OpenSucceeds, StartRead
<1>4. /\ OpBag(inflight')
      /\ \A op : Copies(op, inflight') =
                  Copies(op, inflight) + (IF op = ReadOp(generation') THEN 1 ELSE 0)
  BY <1>1, <1>3, StartOp DEF OpBag, TypeOK
<1>5. TypeOK'  BY <1>1, <1>2, <1>4, ReopeningType DEF States
<1>6. SessionFlags'  BY <1>2 DEF SessionFlags, Running
<1>7. Ledger'
  <2> SUFFICES ASSUME NEW op \in Ops, op.gen >= generation'
               PROVE  Outstanding(op)' = Expected(op)'
    BY DEF Ledger
  <2>1. op.gen \in Nat  BY OpParts
  <2>2. op.gen >= generation /\ op.gen # generation  BY <1>2, <2>1
  <2>3. Outstanding(op) = 0  BY <1>1, <2>2 DEF Ledger, Expected
  <2>4. Copies(op, inflight) = 0 /\ Cardinality(Finished(strand, op)) = 0
    BY <1>1, <2>3, OutstandingNat DEF Outstanding
  <2>5. Cardinality(Finished(strand, op))' = 0  BY <1>1, <2>4, TakeFinished
  <2>6. Outstanding(op)' = IF op = ReadOp(generation') THEN 1 ELSE 0
    BY <1>4, <2>4, <2>5 DEF Outstanding
  <2>7. (op = ReadOp(generation')) = (op.gen = generation' /\ op.op = "read")
    BY OpParts DEF ReadOp
  <2>8. QED  BY <1>2, <2>6, <2>7 DEF Expected, Running
<1>8. QED  BY <1>5, <1>6, <1>7 DEF IInv

LEMMA CloseStep ==
  ASSUME IInv, CloseOnStrand
  PROVE  IInv'
<1> USE DEF appVars, noteVars
<1>1. TypeOK /\ SessionFlags /\ Take("close")  BY DEF IInv, CloseOnStrand
<1>2. strand' \in Seq(Tasks)  BY <1>1, TakeType
<1>3. TypeOK'
  <2>1. txDeque' \in Seq(Packets)  BY EmptySeq DEF CloseOnStrand
  <2>2. /\ closing' \in BOOLEAN /\ stopped' \in BOOLEAN /\ portOpen' \in BOOLEAN
        /\ currentState' \in States
    BY DEF CloseOnStrand, CancelAndClose, States
  <2>3. generation \in Nat  BY <1>1 DEF TypeOK
  <2>4. cancelledGen' \in Nat /\ generation' \in Nat
    BY <2>3 DEF CloseOnStrand, CancelAndClose
  <2>5. UNCHANGED <<appVars, bufferConfig, handlers, noteVars, pendingWrites, inflight, wire>>
    BY DEF CloseOnStrand
  <2>6. QED
    BY <1>1, <1>2, <2>1, <2>2, <2>4, <2>5 DEF TypeOK
<1>4. SessionFlags'  BY DEF CloseOnStrand, CancelAndClose, SessionFlags, Running
<1>5. Ledger'  BY <1>1, LedgerEnded DEF CloseOnStrand, Running
<1>6. QED  BY <1>3, <1>4, <1>5 DEF IInv

LEMMA WriteCancelledStep ==
  ASSUME IInv, WriteCancelled
  PROVE  IInv'
<1> USE DEF appVars, coreVars, portVars
<1>1. TypeOK /\ SessionFlags /\ Ledger /\ Take("write")  BY DEF IInv, WriteCancelled
<1>2. strand' \in Seq(Tasks)  BY <1>1, TakeType
<1>3. TypeOK'
  <2>1. pendingWrites' \in 0 .. SizeMax
    BY <1>1, ConfigAssumption DEF WriteCancelled, Decrement, TypeOK
  <2>2. notices' \in [Packets -> Seq(WriteResult)]
    BY <1>1, AppendProperties DEF WriteCancelled, Notify, TypeOK, WriteResult
  <2>3. QED  BY <1>1, <1>2, <2>1, <2>2 DEF WriteCancelled, TypeOK
<1>4. SessionFlags'  BY <1>1 DEF WriteCancelled, SessionFlags, Running
<1>5. \A op : Cardinality(Finished(strand, op))' = Cardinality(Finished(strand, op))
  BY <1>1, TakeFinished, OutstandingNat
<1>6. Ledger'  BY <1>1, <1>5, LedgerKept DEF WriteCancelled
<1>7. QED  BY <1>3, <1>4, <1>6 DEF IInv

\* A packet joins the deque; if it is alone its write is started.
LEMMA WriteEnqueuedStep ==
  ASSUME IInv, WriteEnqueued
  PROVE  IInv'
<1> USE DEF appVars, portVars, noteVars
<1>1. TypeOK /\ SessionFlags /\ Ledger /\ Take("write") /\ generation \in Nat
  BY DEF IInv, WriteEnqueued, TypeOK
<1>2. strand' \in Seq(Tasks) /\ Head(strand).pkt \in Packets  BY <1>1, TakeType, TaskParts
<1>3. /\ txDeque' = Append(txDeque, Head(strand).pkt) /\ txDeque \in Seq(Packets)
      /\ UNCHANGED <<closing, stopped, generation>> /\ Running
  BY <1>1 DEF WriteEnqueued, PushBack, Running, TypeOK
<1>4. txDeque' \in Seq(Packets) /\ txDeque' # << >>
  BY <1>2, <1>3, AppendProperties
<1>5. Head(txDeque') = IF txDeque = << >> THEN Head(strand).pkt ELSE Head(txDeque)
  BY <1>2, <1>3, HeadTailAppend
<1>6. \A op : Cardinality(Finished(strand, op))' = Cardinality(Finished(strand, op))
  BY <1>1, TakeFinished, OutstandingNat
<1>7. OpBag(inflight') /\ Ledger'
  <2>1. CASE txDeque # << >>
    <3>1. inflight' = inflight  BY <2>1 DEF WriteEnqueued, StartIfIdle
    <3>2. OpBag(inflight')  BY <1>1, <3>1 DEF OpBag, TypeOK
    <3>3. Ledger'  BY <1>1, <1>3, <1>4, <1>5, <1>6, <2>1, <3>1, LedgerKept
    <3>4. QED  BY <3>2, <3>3
  <2>2. CASE txDeque = << >>
    <3> DEFINE o == WriteOp(generation', Head(txDeque'))
    <3>1. o \in Ops  BY <1>1, <1>2, <1>3, <1>5, <2>2, OpType
    <3>2. inflight' = inflight (+) SetToBag({o})
      BY <1>3, <1>4, <2>2 DEF WriteEnqueued, StartIfIdle, DoWrite, Running
    <3>3. /\ OpBag(inflight')
          /\ \A op : Copies(op, inflight') = Copies(op, inflight) + (IF op = o THEN 1 ELSE 0)
      BY <1>1, <3>1, <3>2, StartOp DEF OpBag, TypeOK
    <3>4. ASSUME NEW op \in Ops, op.gen >= generation'
          PROVE  Outstanding(op)' = Expected(op)'
      <4>1. Outstanding(op)' = Outstanding(op) + (IF op = o THEN 1 ELSE 0)
        BY <1>1, <1>6, <3>3, OutstandingNat DEF Outstanding
      <4>2. Outstanding(op) = IF op.gen = generation /\ op.op = "read" THEN 1 ELSE 0
        BY <1>1, <1>3, <2>2, <3>4 DEF Ledger, Expected
      <4>3. op = o <=> /\ op.op = "write" /\ op.gen = generation'
                       /\ op.pkt = Head(txDeque')
        BY OpIs
      <4>4. op.op \in {"read", "write"}  BY OpParts
      <4>5. Expected(op)' = IF op.gen # generation' THEN 0
                            ELSE IF op.op = "read" \/ op.pkt = Head(txDeque') THEN 1 ELSE 0
        BY <1>3, <1>4 DEF Expected, Running
      <4>6. QED  BY <1>3, <4>1, <4>2, <4>3, <4>4, <4>5
    <3>5. QED  BY <3>3, <3>4 DEF Ledger
  <2>3. QED  BY <2>1, <2>2
<1>8. IsABag(inflight)' /\ BagToSet(inflight)' \subseteq Ops
  BY <1>7 DEF OpBag, BagToSet, IsABag
<1>9. TypeOK'
  BY <1>1, <1>2, <1>3, <1>4, <1>8 DEF WriteEnqueued, TypeOK
<1>10. SessionFlags'  BY <1>1, <1>3 DEF WriteEnqueued, SessionFlags, Running
<1>11. QED  BY <1>7, <1>9, <1>10 DEF IInv

-----------------------------------------------------------------------------
(* Completions of the current session.                                     *)

\* The read ended with a frame or a full buffer: the next read takes its place.
LEMMA ReadContinuesStep ==
  ASSUME IInv, ReadContinues
  PROVE  IInv'
<1> USE DEF appVars, coreVars, portVars, noteVars
<1>1. /\ TypeOK /\ SessionFlags /\ Ledger /\ Take("done") /\ generation \in Nat
      /\ TakeCompletion("read")
  BY DEF IInv, ReadContinues, TakeCompletion, TypeOK
<1>2. Running /\ Head(strand).op = ReadOp(generation)  BY <1>1, CurrentExpected
<1>3. strand' \in Seq(Tasks)  BY <1>1, TakeType
<1>4. UNCHANGED <<closing, stopped, generation, txDeque>>  BY DEF ReadContinues
<1>5. inflight' = inflight (+) SetToBag({ReadOp(generation)}) /\ ReadOp(generation) \in Ops
  BY <1>1, <1>2, <1>4, OpType DEF ReadContinues, StartRead, Running
<1>6. /\ OpBag(inflight')
      /\ \A op : Copies(op, inflight') =
                  Copies(op, inflight) + (IF op = ReadOp(generation) THEN 1 ELSE 0)
  BY <1>1, <1>5, StartOp DEF OpBag, TypeOK
<1>7. IsABag(inflight)' /\ BagToSet(inflight)' \subseteq Ops
  BY <1>6 DEF OpBag, BagToSet, IsABag
<1>8. TypeOK'  BY <1>1, <1>3, <1>7 DEF ReadContinues, TypeOK
<1>9. SessionFlags'  BY <1>1 DEF ReadContinues, SessionFlags, Running
<1>10. Ledger'
  <2> SUFFICES ASSUME NEW op \in Ops, op.gen >= generation'
               PROVE  Outstanding(op)' = Expected(op)'
    BY DEF Ledger
  <2>1. Outstanding(op) = Expected(op)  BY <1>1, <1>4 DEF Ledger
  <2>2. Cardinality(Finished(strand, op))' =
          Cardinality(Finished(strand, op)) - (IF ReadOp(generation) = op THEN 1 ELSE 0)
    BY <1>1, <1>2, TakeFinished
  <2>3. Outstanding(op)' = Outstanding(op)
    BY <1>1, <1>6, <2>2, OutstandingNat DEF Outstanding
  <2>4. Expected(op)' = Expected(op)  BY <1>4 DEF Expected, Running
  <2>5. QED  BY <2>1, <2>3, <2>4
<1>11. QED  BY <1>8, <1>9, <1>10 DEF IInv

\* The session ends: what ReportFatal leaves of the right type.
LEMMA ReportFatalType ==
  ASSUME TypeOK, NEW ec, ReportFatal(ec)
  PROVE  /\ stopped' = TRUE /\ currentState' = "Faulted" /\ txDeque' = << >>
         /\ portOpen' = FALSE /\ generation' = generation + 1
         /\ UNCHANGED <<closing, bufferConfig, handlers, inflight>>
         /\ generation' \in Nat /\ cancelledGen' \in Nat
         /\ reported' \in Seq(FatalErrors) /\ crashed' \in BOOLEAN
<1>1. generation \in Nat /\ reported \in Seq(FatalErrors)  BY DEF TypeOK
<1>2. \A e \in DOMAIN clarifyFatalError : clarifyFatalError[e] \in FatalErrors
  BY DEF clarifyFatalError, FatalErrors
<1>3. reported' \in Seq(FatalErrors)
  BY <1>1, <1>2, AppendProperties DEF ReportFatal
<1>4. crashed' \in BOOLEAN  BY DEF ReportFatal
<1>5. QED  BY <1>1, <1>3, <1>4 DEF ReportFatal, StopAfterIoError, CancelAndClose

LEMMA FailureStep ==
  ASSUME IInv, ReadFails \/ WriteFails
  PROVE  IInv'
<1> USE DEF appVars
<1>1. TypeOK /\ SessionFlags /\ Take("done")
  BY DEF IInv, ReadFails, WriteFails, TakeCompletion
<1>2. PICK ec : ReportFatal(ec)  BY DEF ReadFails, WriteFails
<1>3. /\ stopped' = TRUE /\ currentState' = "Faulted" /\ txDeque' = << >>
      /\ portOpen' = FALSE /\ generation' = generation + 1
      /\ UNCHANGED <<closing, bufferConfig, handlers, inflight>>
      /\ generation' \in Nat /\ cancelledGen' \in Nat
      /\ reported' \in Seq(FatalErrors) /\ crashed' \in BOOLEAN
  BY <1>1, <1>2, ReportFatalType
<1>4. ~closing
  <2>1. ~Stale(Head(strand).op)  BY DEF ReadFails, WriteFails, TakeCompletion
  <2>2. QED  BY <2>1 DEF Stale
<1>5. TypeOK'
  <2>1. strand' \in Seq(Tasks) /\ txDeque' \in Seq(Packets)
    BY <1>1, <1>3, TakeType, EmptySeq
  <2>2. pendingWrites' \in 0 .. SizeMax /\ notices' \in [Packets -> Seq(WriteResult)]
    <3>1. CASE ReadFails  BY <1>1, <3>1 DEF ReadFails, TypeOK
    <3>2. CASE WriteFails
      <4>1. pendingWrites' \in 0 .. SizeMax
        BY <1>1, <3>2, ConfigAssumption DEF WriteFails, Decrement, TypeOK
      <4>2. notices' \in [Packets -> Seq(WriteResult)]
        BY <1>1, <3>2, AppendProperties DEF WriteFails, Notify, TypeOK, WriteResult
      <4>3. QED  BY <4>1, <4>2
    <3>3. QED  BY <3>1, <3>2
  <2>3. UNCHANGED <<appVars, wire>>  BY DEF ReadFails, WriteFails
  <2>4. stopped' \in BOOLEAN /\ portOpen' \in BOOLEAN /\ currentState' \in States
    BY <1>3 DEF States
  <2>5. QED  BY <1>1, <1>3, <2>1, <2>2, <2>3, <2>4 DEF TypeOK
<1>6. SessionFlags'  BY <1>3, <1>4 DEF SessionFlags, Running
<1>7. Ledger'  BY <1>1, <1>3, LedgerEnded DEF Running
<1>8. QED  BY <1>5, <1>6, <1>7 DEF IInv

\* The front packet was sent: it leaves the deque and the next one's write is started.
LEMMA WriteCompletesStep ==
  ASSUME IInv, WriteCompletes
  PROVE  IInv'
<1> USE DEF appVars, portVars
<1>1. /\ TypeOK /\ SessionFlags /\ Ledger /\ Take("done") /\ generation \in Nat
      /\ txDeque \in Seq(Packets) /\ TakeCompletion("write")
  BY DEF IInv, WriteCompletes, TakeCompletion, TypeOK
<1>2. Running /\ txDeque # << >> /\ Head(strand).op = WriteOp(generation, Head(txDeque))
  BY <1>1, CurrentExpected
<1>3. /\ strand' \in Seq(Tasks) /\ txDeque' = Tail(txDeque) /\ txDeque' \in Seq(Packets)
      /\ UNCHANGED <<closing, stopped, generation>>
  BY <1>1, <1>2, TakeType, HeadTailProperties DEF WriteCompletes
<1>4. \A op : Cardinality(Finished(strand, op))' =
              Cardinality(Finished(strand, op))
                - (IF WriteOp(generation, Head(txDeque)) = op THEN 1 ELSE 0)
  BY <1>1, <1>2, TakeFinished
<1>5. /\ OpBag(inflight')
      /\ \A op : Copies(op, inflight') =
                  Copies(op, inflight)
                    + (IF txDeque' # << >> /\ op = WriteOp(generation, Head(txDeque'))
                       THEN 1 ELSE 0)
  <2>1. CASE txDeque' = << >>
    <3>1. inflight' = inflight  BY <2>1 DEF WriteCompletes, DoWrite
    <3>2. OpBag(inflight')  BY <1>1, <3>1 DEF OpBag, TypeOK
    <3>3. \A op : Copies(op, inflight) \in Nat  BY <1>1, OutstandingNat
    <3>4. QED  BY <2>1, <3>1, <3>2, <3>3
  <2>2. CASE txDeque' # << >>
    <3> DEFINE o == WriteOp(generation, Head(txDeque'))
    <3>1. o \in Ops  BY <1>1, <1>3, <2>2, OpType, HeadTailProperties
    <3>2. DoWrite /\ ~closing' /\ ~stopped'
      BY <1>2, <1>3 DEF WriteCompletes, Running
    <3>3. inflight' = inflight (+) SetToBag({WriteOp(generation', Head(txDeque'))})
      BY <2>2, <3>2 DEF DoWrite
    <3>4. inflight' = inflight (+) SetToBag({o})  BY <1>3, <3>3
    <3>5. QED  BY <1>1, <2>2, <3>1, <3>4, StartOp DEF OpBag, TypeOK
  <2>3. QED  BY <2>1, <2>2
<1>6. IsABag(inflight)' /\ BagToSet(inflight)' \subseteq Ops
  BY <1>5 DEF OpBag, BagToSet, IsABag
<1>7. TypeOK'
  <2>1. pendingWrites' \in 0 .. SizeMax
    BY <1>1, ConfigAssumption DEF WriteCompletes, Decrement, TypeOK
  <2>2. notices' \in [Packets -> Seq(WriteResult)]
    BY <1>1, AppendProperties DEF WriteCompletes, Notify, TypeOK, WriteResult
  <2>3. QED  BY <1>1, <1>3, <1>6, <2>1, <2>2 DEF WriteCompletes, TypeOK
<1>8. SessionFlags'  BY <1>1, <1>2, <1>3 DEF WriteCompletes, SessionFlags, Running
<1>9. Ledger'
  <2> SUFFICES ASSUME NEW op \in Ops, op.gen >= generation'
               PROVE  Outstanding(op)' = Expected(op)'
    BY DEF Ledger
  <2>1. Outstanding(op) = Expected(op)  BY <1>1, <1>3 DEF Ledger
  <2>2. Outstanding(op)' =
          Outstanding(op)
            - (IF WriteOp(generation, Head(txDeque)) = op THEN 1 ELSE 0)
            + (IF txDeque' # << >> /\ op = WriteOp(generation, Head(txDeque')) THEN 1 ELSE 0)
    BY <1>1, <1>4, <1>5, OutstandingNat DEF Outstanding
  <2>3. /\ op = WriteOp(generation, Head(txDeque)) <=>
             op.op = "write" /\ op.gen = generation /\ op.pkt = Head(txDeque)
        /\ op = WriteOp(generation, Head(txDeque')) <=>
             op.op = "write" /\ op.gen = generation /\ op.pkt = Head(txDeque')
    BY OpIs
  <2>4. op.op \in {"read", "write"}  BY OpParts
  <2>5. Expected(op) = IF op.gen # generation THEN 0
                       ELSE IF op.op = "read" \/ op.pkt = Head(txDeque) THEN 1 ELSE 0
    BY <1>2 DEF Expected
  <2>6. Expected(op)' = IF op.gen # generation THEN 0
                        ELSE IF op.op = "read" THEN 1
                        ELSE IF txDeque' # << >> /\ op.pkt = Head(txDeque') THEN 1 ELSE 0
    BY <1>2, <1>3 DEF Expected, Running
  <2>7. QED  BY <2>1, <2>2, <2>3, <2>4, <2>5, <2>6
<1>10. QED  BY <1>7, <1>8, <1>9 DEF IInv

-----------------------------------------------------------------------------
(* Steps of the stream.                                                    *)

\* An operation that ends goes from the bag to the strand and stays outstanding.
LEMMA StreamStep ==
  ASSUME IInv, NEW op \in BagToSet(inflight), StreamCompletes(op)
  PROVE  IInv'
<1> USE DEF appVars, coreVars, portVars, noteVars
<1>1. TypeOK /\ SessionFlags /\ Ledger /\ OpBag(inflight) /\ op \in Ops
  BY DEF IInv, TypeOK, OpBag
<1>2. PICK ec \in Outcomes(op) :
        /\ Post([task |-> "done", op |-> op, ec |-> ec])
        /\ wire' \in Sent(op, ec)
  BY DEF StreamCompletes
<1> DEFINE t == [task |-> "done", op |-> op, ec |-> ec]
<1>3. ec \in ErrorCodes  BY DEF Outcomes, ErrorCodes
<1>4. t \in Tasks /\ t.task = "done" /\ t.op = op  BY <1>1, <1>3, TaskType
<1>5. strand' \in Seq(Tasks)  BY <1>1, <1>2, <1>4, PostFinished
<1>6. /\ OpBag(inflight')
      /\ \A o : Copies(o, inflight') = Copies(o, inflight) - (IF o = op THEN 1 ELSE 0)
  BY <1>1, EndOp DEF StreamCompletes
<1>7. IsABag(inflight)' /\ BagToSet(inflight)' \subseteq Ops
  BY <1>6 DEF OpBag, BagToSet, IsABag
<1>8. wire' \in Seq(Packets)
  <2>1. op.op \in {"read", "write"} /\ (op.op = "write" => op.pkt \in Packets)
    BY <1>1, OpParts
  <2>2. wire' \in {wire, Append(wire, op.pkt)} /\ (op.op = "read" => wire' = wire)
    BY <1>2 DEF Sent
  <2>3. wire \in Seq(Packets)  BY <1>1 DEF TypeOK
  <2>4. CASE op.op = "read"  BY <2>2, <2>3, <2>4
  <2>5. CASE op.op = "write"  BY <2>1, <2>2, <2>3, <2>5, AppendProperties
  <2>6. QED  BY <2>1, <2>4, <2>5
<1>9. TypeOK'  BY <1>1, <1>5, <1>7, <1>8 DEF StreamCompletes, TypeOK
<1>10. SessionFlags'  BY <1>1 DEF StreamCompletes, SessionFlags, Running
<1>11. Ledger'
  <2> SUFFICES ASSUME NEW o \in Ops, o.gen >= generation'
               PROVE  Outstanding(o)' = Expected(o)'
    BY DEF Ledger
  <2>1. Outstanding(o) = Expected(o)  BY <1>1 DEF Ledger, StreamCompletes
  <2>2. Cardinality(Finished(strand, o))' =
          Cardinality(Finished(strand, o)) + (IF op = o THEN 1 ELSE 0)
    BY <1>1, <1>2, <1>4, PostFinished
  <2>3. Outstanding(o)' = Outstanding(o)
    BY <1>1, <1>6, <2>2, OutstandingNat DEF Outstanding
  <2>4. Expected(o)' = Expected(o)  BY DEF StreamCompletes, Expected, Running
  <2>5. QED  BY <2>1, <2>3, <2>4
<1>12. QED  BY <1>9, <1>10, <1>11 DEF IInv

-----------------------------------------------------------------------------
(* The invariants.                                                         *)

\* A step that changes nothing keeps the invariant.
LEMMA StutterStep == IInv /\ UNCHANGED vars => IInv'
<1> SUFFICES ASSUME IInv, UNCHANGED vars PROVE IInv'  OBVIOUS
<1> USE DEF vars, appVars, coreVars, portVars, noteVars
<1>1. TypeOK'  BY DEF IInv, TypeOK
<1>2. SessionFlags'  BY DEF IInv, SessionFlags, Running
<1>3. \A op : Cardinality(Finished(strand, op))' = Cardinality(Finished(strand, op))
  BY DEF Finished
<1>4. Ledger'  BY <1>3, LedgerKept DEF IInv
<1>5. QED  BY <1>1, <1>2, <1>4 DEF IInv

\* IInv is inductive.
LEMMA NextIInv == IInv /\ [Next]_vars => IInv'
<1> SUFFICES ASSUME IInv, [Next]_vars PROVE IInv'  OBVIOUS
<1>1. CASE Application  BY <1>1, ApplicationStep
<1>2. CASE RunStrand
  BY <1>2, IdleStep, OpenFailsStep, OpenSucceedsStep, CloseStep, WriteCancelledStep,
     WriteEnqueuedStep, ReadContinuesStep, FailureStep, WriteCompletesStep
  DEF RunStrand
<1>3. CASE CompleteDue  BY <1>3, StreamStep DEF CompleteDue
<1>4. CASE CompleteRead  BY <1>4, StreamStep DEF CompleteRead
<1>5. CASE UNCHANGED vars  BY <1>5, StutterStep
<1>6. QED  BY <1>1, <1>2, <1>3, <1>4, <1>5 DEF Next

LEMMA Invariance == Spec => []IInv
<1>1. Init => IInv  BY InitIInv
<1>2. IInv /\ [Next]_vars => IInv'  BY NextIInv
<1>3. QED  BY <1>1, <1>2, PTL DEF Spec

\* Every variable keeps its type: in particular handleWrite never takes the front of an
\* empty deque (SerialTransport.hpp:484-497), and pendingWrites stays a size_t.
THEOREM TypeCorrect == Spec => []TypeOK
<1>1. IInv => TypeOK  BY DEF IInv
<1>2. QED  BY <1>1, Invariance, PTL

\* After every task closing, stopped, currentState_m, the port and the deque agree.
THEOREM SessionFlagsAgree == Spec => []SessionFlags
<1>1. IInv => SessionFlags  BY DEF IInv
<1>2. QED  BY <1>1, Invariance, PTL

\* A running transport has exactly one read of its session outstanding.
THEOREM ExactlyOneRead == Spec => []OneReadPerSession
<1>1. ASSUME IInv PROVE OneReadPerSession
  <2> SUFFICES ASSUME Running PROVE Outstanding(ReadOp(generation)) = 1
    BY DEF OneReadPerSession
  <2> SUFFICES ASSUME NEW g \in Nat, g = generation PROVE Outstanding(ReadOp(g)) = 1
    BY <1>1 DEF IInv, TypeOK
  <2>1. /\ ReadOp(g) \in Ops /\ ReadOp(g).gen = g /\ ReadOp(g).op = "read" /\ g >= generation
    BY OpType DEF ReadOp
  <2>2. Outstanding(ReadOp(g)) = Expected(ReadOp(g))  BY <1>1, <2>1 DEF IInv, Ledger
  <2>3. Expected(ReadOp(g)) = 1  BY <2>1 DEF Expected
  <2>4. QED  BY <2>2, <2>3
<1>2. QED  BY <1>1, Invariance, PTL

\* A running transport has the write of its front packet outstanding and no other.
THEOREM OnlyFrontIsWritten == Spec => []ActiveWriteIsFront
<1>1. ASSUME IInv PROVE ActiveWriteIsFront
  <2> SUFFICES ASSUME Running, NEW p \in Packets, NEW g \in Nat, g = generation
               PROVE  Outstanding(WriteOp(g, p)) =
                        IF txDeque # << >> /\ p = Head(txDeque) THEN 1 ELSE 0
    BY <1>1 DEF ActiveWriteIsFront, IInv, TypeOK
  <2>1. /\ WriteOp(g, p) \in Ops /\ WriteOp(g, p).gen = g /\ WriteOp(g, p).op = "write"
        /\ WriteOp(g, p).pkt = p /\ g >= generation
    BY OpType DEF WriteOp
  <2>2. Outstanding(WriteOp(g, p)) = Expected(WriteOp(g, p))  BY <1>1, <2>1 DEF IInv, Ledger
  <2>3. QED  BY <2>1, <2>2 DEF Expected
<1>2. QED  BY <1>1, Invariance, PTL

\* An operation of a session that is over never carries the generation of a later one, in
\* the bag or in the queue: the ledger expects none.
LEMMA OldOps ==
  ASSUME IInv
  PROVE  OldOpsAreStale
<1> DEFINE Queue == {strand[i].op : i \in {j \in 1 .. Len(strand) : IsTask("done", strand[j])}}
<1> SUFFICES ASSUME NEW op \in BagToSet(inflight) \cup Queue
             PROVE  op.gen <= generation /\ (op.gen = generation => Running)
  BY DEF OldOpsAreStale
<1>1. TypeOK /\ Ledger /\ strand \in Seq(Tasks) /\ generation \in Nat  BY DEF IInv, TypeOK
<1>2. op \in Ops /\ Outstanding(op) >= 1
  <2>1. CASE op \in BagToSet(inflight)
    <3>1. op \in Ops /\ Copies(op, inflight) >= 1
      BY <1>1, <2>1 DEF TypeOK, IsABag, BagToSet, Copies, BagIn
    <3>2. QED  BY <1>1, <3>1, OutstandingNat DEF Outstanding
  <2>2. CASE op \in Queue
    <3>1. PICK i \in 1 .. Len(strand) : IsTask("done", strand[i]) /\ strand[i].op = op
      BY <2>2
    <3>2. op \in Ops  BY <1>1, <3>1, TaskParts, ElementOfSeq DEF IsTask
    <3>3. Finished(strand, op) # {}  BY <3>1 DEF Finished
    <3>4. Cardinality(Finished(strand, op)) # 0
      BY <1>1, <3>3, FinishedFinite, FS_EmptySet
    <3>5. QED  BY <1>1, <3>2, <3>4, OutstandingNat DEF Outstanding
  <2>3. QED  BY <2>1, <2>2
<1>3. op.gen \in Nat  BY <1>2, OpParts
<1>4. op.gen >= generation => Expected(op) >= 1  BY <1>1, <1>2 DEF Ledger
<1>5. Expected(op) >= 1 => op.gen = generation /\ Running  BY DEF Expected
<1>6. QED  BY <1>1, <1>3, <1>4, <1>5

\* Completions of a session that is over never carry the generation of a later one.
THEOREM LateCompletionsAreStale == Spec => []OldOpsAreStale
BY OldOps, Invariance, PTL

-----------------------------------------------------------------------------
(* One fatal error per session.                                            *)

\* While the transport runs nothing was reported yet; a report ends the session.
FatalInv == Len(reported) <= 1 /\ (Running => reported = << >>)

\* open starts with no report; every task that ends in Faulted or Closed adds none, but
\* for the one task of the session that ends it.
LEMMA FatalStep == IInv /\ FatalInv /\ [Next]_vars => FatalInv'
<1> SUFFICES ASSUME IInv, FatalInv, [Next]_vars PROVE FatalInv'  OBVIOUS
<1> USE DEF appVars, coreVars, portVars, noteVars
<1>1. CASE /\ reported' = reported
           /\ closing' = closing \/ closing' = TRUE
           /\ stopped' = stopped \/ stopped' = TRUE
  BY <1>1 DEF FatalInv, Running, IInv, TypeOK
<1>2. CASE Application
  BY <1>1, <1>2 DEF Application, CallOpen, CallClose, CallSetHandler, AsyncWriteCheck,
                    AsyncWriteReserve, AsyncWritePost
<1>3. CASE OpenSucceeds \/ SerialOpenThrows \/ SetOptionThrows
  <2>1. reported' = << >>  BY <1>3 DEF OpenSucceeds, SerialOpenThrows, SetOptionThrows, Reopening
  <2>2. QED  BY <2>1 DEF FatalInv
<1>4. CASE ReadFails \/ WriteFails
  <2>1. PICK ec : ReportFatal(ec)  BY <1>4 DEF ReadFails, WriteFails
  <2>2. Running  BY <1>4 DEF ReadFails, WriteFails, TakeCompletion, Stale, Running
  <2>3. stopped' = TRUE  BY <2>1 DEF ReportFatal, StopAfterIoError
  <2>4. reported = << >>  BY <2>2 DEF FatalInv
  <2>5. reported' = << >> \/ reported' = Append(<< >>, clarifyFatalError[ec])
    BY <2>1, <2>4 DEF ReportFatal
  <2>6. Len(reported') <= 1
    <3>1. \A x : << >> \in Seq({x}) /\ Len(Append(<< >>, x)) = 1  BY AppendProperties
    <3>2. CASE reported' = << >>
      <4>1. Len(<< >>) = 0  OBVIOUS
      <4>2. QED  BY <3>2, <4>1
    <3>3. CASE reported' = Append(<< >>, clarifyFatalError[ec])
      <4>1. Len(Append(<< >>, clarifyFatalError[ec])) = 1  BY <3>1
      <4>2. QED  BY <3>3, <4>1
    <3>4. QED  BY <2>5, <3>2, <3>3
  <2>7. QED  BY <2>3, <2>6 DEF FatalInv, Running
<1>5. CASE OpenIgnored \/ CloseOnStrand \/ CloseAgain \/ SetHandler \/ WriteCancelled
             \/ WriteEnqueued \/ StaleCompletion \/ ReadContinues \/ WriteCompletes
  BY <1>1, <1>5 DEF OpenIgnored, CloseOnStrand, CloseAgain, SetHandler, WriteCancelled,
                    WriteEnqueued, StaleCompletion, ReadContinues, WriteCompletes, Notify
<1>6. CASE CompleteDue \/ CompleteRead
  BY <1>1, <1>6 DEF CompleteDue, CompleteRead, StreamCompletes
<1>7. CASE UNCHANGED vars  BY <1>1, <1>7 DEF vars
<1>8. QED  BY <1>2, <1>3, <1>4, <1>5, <1>6, <1>7 DEF Next, RunStrand

\* The read and the write of one session can both fail; only the first failure reaches
\* the application, the other completion is stale.
THEOREM FatalReportedOnce == Spec => []OneFatalPerSession
<1>1. Init => FatalInv  BY DEF Init, FatalInv, Running
<1>2. FatalInv => OneFatalPerSession  BY DEF FatalInv, OneFatalPerSession
<1>3. QED  BY <1>1, <1>2, FatalStep, Invariance, PTL DEF Spec

=============================================================================
