------------------------- MODULE WriteServiceProofs -------------------------
(***************************************************************************)
(* SerialTransport implements WriteService: every step of the transport    *)
(* is a step that the service allows, or changes nothing that a caller of  *)
(* asyncWrite can see.                                                     *)
(***************************************************************************)
EXTENDS WriteOrderProofs

LEMMA AtIsInSeq ==
  ASSUME NEW s, NEW p
  PROVE  p \in Service!At(s) <=> InSeq(p, s)
BY DEF Service!At, InSeq

LEMMA ServiceInit == Init => Service!Init
BY DEF Init, Service!Init

\* A post is an acceptance: the packet was not posted before.
LEMMA PostAccepts ==
  ASSUME LineInv, NEW p \in Packets, AsyncWritePost(p)
  PROVE  Service!Accept(p)
<1>1. ~InSeq(p, posted)
  BY DEF AsyncWritePost, LineInv, OrderInv, PostedOnce
<1>2. posted' = Append(posted, p) /\ UNCHANGED <<wire, notices, closing>>
  BY DEF AsyncWritePost, coreVars, noteVars
<1>3. QED  BY <1>1, <1>2, AtIsInSeq DEF Service!Accept

\* Nothing that was sent was posted at or after the place of a packet that all of it precedes.
LEMMA NothingSentSince ==
  ASSUME Distinct(posted), posted \in Seq(Packets), NEW p, InSeq(p, posted),
         \A q : InSeq(q, wire) => Precedes(posted, q, p)
  PROVE  Service!InLine(p)
<1>1. PICK i \in 1 .. Len(posted) : posted[i] = p  BY DEF InSeq
<1>2. ASSUME NEW j \in i .. Len(posted), InSeq(posted[j], wire)
      PROVE  FALSE
  <2>1. PICK k \in 1 .. Len(posted), l \in 1 .. Len(posted) :
             k < l /\ posted[k] = posted[j] /\ posted[l] = p
    BY <1>2 DEF Precedes
  <2>2. Len(posted) \in Nat /\ j \in 1 .. Len(posted)  BY <1>1
  <2>3. k = j /\ l = i  BY <1>1, <2>1, <2>2 DEF Distinct
  <2>4. QED  BY <1>1, <2>1, <2>2, <2>3
<1>3. QED  BY <1>1, <1>2, AtIsInSeq DEF Service!InLine

\* The end of an operation is a sending, or nothing the caller can see.
LEMMA CompletionSends ==
  ASSUME IInv, LineInv, NEW op \in BagToSet(inflight), StreamCompletes(op)
  PROVE  UNCHANGED Service!vars \/ \E p \in Packets : Service!Send(p)
<1>1. PICK ec \in Outcomes(op) : wire' \in Sent(op, ec)  BY DEF StreamCompletes
<1>2. wire' = wire \/ (Live(op) /\ wire' = Append(wire, op.pkt))
  BY <1>1, WireGrows DEF LineInv
<1>3. UNCHANGED <<posted, notices, closing>>
  BY DEF StreamCompletes, appVars, coreVars, noteVars
<1>4. CASE wire' = wire  BY <1>3, <1>4 DEF Service!vars
<1>5. CASE wire' # wire
  <2>1. ~closing  BY <1>5, ClosedWire DEF LineInv
  <2>2. Live(op) /\ wire' = Append(wire, op.pkt)  BY <1>2, <1>5
  <2>3. op \in Ops /\ posted \in Seq(Packets)  BY DEF IInv, TypeOK
  <2>4. op.pkt \in Packets  BY <2>2, <2>3, OpParts DEF Live
  <2>5. \A q : InSeq(q, wire) => Precedes(posted, q, op.pkt)
    BY <2>2 DEF LineInv, OrderInv, LiveWrites
  <2>6. InLine(op.pkt)  BY <2>2 DEF InLine, Flies
  <2>7. InSeq(op.pkt, posted) /\ notices[op.pkt] = << >>
    BY <2>4, <2>6 DEF LineInv, UntoldInv
  <2>8. Service!InLine(op.pkt)
    BY <2>3, <2>5, <2>7, NothingSentSince DEF LineInv, OrderInv, PostedOnce
  <2>9. Service!Send(op.pkt)  BY <1>3, <2>1, <2>2, <2>7, <2>8 DEF Service!Send
  <2>10. QED  BY <2>4, <2>9
<1>6. QED  BY <1>4, <1>5

\* The first result of a packet is a report if it is the truth.
LEMMA NoticeReports ==
  ASSUME TypeOK, NEW p \in Packets, NEW r \in WriteResult, Notify(r, p),
         InSeq(p, posted), notices[p] = << >>, r = "Written" <=> InSeq(p, wire),
         closing => r = "Cancelled", UNCHANGED <<posted, wire, closing>>
  PROVE  UNCHANGED Service!vars
           \/ \E s \in {"Written", "Failed", "Cancelled"} : Service!Report(p, s)
<1>1. CASE notices' = notices  BY <1>1 DEF Service!vars
<1>2. CASE notices' = [notices EXCEPT ![p] = <<r>>]
  <2>1. InSeq(p, wire) \in BOOLEAN  BY Zenon DEF InSeq
  <2>2. (p \in Service!At(wire)) = InSeq(p, wire)  BY <2>1, AtIsInSeq, Zenon
  <2>3. (r = "Written") = InSeq(p, wire)  BY <2>1, Zenon
  <2>4. (r = "Written") = (p \in Service!At(wire))  BY <2>2, <2>3
  <2>5. Service!Report(p, r)  BY <1>2, <2>4, AtIsInSeq DEF Service!Report
  <2>6. QED  BY <2>5 DEF WriteResult
<1>3. QED  BY <1>1, <1>2, FirstNotice

\* A task of the strand that settles a packet reports it.
LEMMA TaskReports ==
  ASSUME IInv, LineInv, WriteCancelled \/ WriteCompletes \/ WriteFails
  PROVE  \/ UNCHANGED Service!vars
         \/ \E p \in Packets : \E s \in {"Written", "Failed", "Cancelled"} : Service!Report(p, s)
<1>1. TypeOK  BY DEF IInv
<1>2. CASE WriteCancelled
  <2> SUFFICES ASSUME NEW p, p = Head(strand).pkt
               PROVE  \/ UNCHANGED Service!vars
                      \/ \E q \in Packets :
                           \E s \in {"Written", "Failed", "Cancelled"} : Service!Report(q, s)
    OBVIOUS
  <2>1. /\ Take("write") /\ Notify("Cancelled", p) /\ UNCHANGED <<posted, wire, closing>>
    BY <1>2 DEF WriteCancelled, appVars, coreVars
  <2>2. p \in Packets /\ InLine(p) /\ ~InSeq(p, wire)  BY <2>1, HeadOfLine
  <2>3. InSeq(p, posted) /\ notices[p] = << >>  BY <2>2 DEF LineInv, UntoldInv
  <2>4. QED  BY <1>1, <2>1, <2>2, <2>3, NoticeReports DEF WriteResult
<1>3. CASE WriteCompletes \/ WriteFails
  <2> SUFFICES ASSUME NEW p, p = Head(txDeque)
               PROVE  \/ UNCHANGED Service!vars
                      \/ \E q \in Packets :
                           \E s \in {"Written", "Failed", "Cancelled"} : Service!Report(q, s)
    OBVIOUS
  <2>1. /\ TakeCompletion("write") /\ UNCHANGED <<posted, wire, closing>>
        /\ \/ Head(strand).ec = "ok" /\ Notify("Written", p)
           \/ Head(strand).ec # "ok" /\ Notify("Failed", p)
    BY <1>3 DEF WriteCompletes, WriteFails, ReportFatal, StopAfterIoError, appVars
  <2>2. /\ Running /\ p \in Packets /\ InSeq(p, posted) /\ notices[p] = << >>
        /\ Head(strand).ec = "ok" <=> InSeq(p, wire)
    BY <2>1, EndedFront
  <2>3. ~closing  BY <2>2 DEF Running
  <2>4. CASE Notify("Written", p) /\ InSeq(p, wire)
    BY <1>1, <2>1, <2>2, <2>3, <2>4, NoticeReports DEF WriteResult
  <2>5. CASE Notify("Failed", p) /\ ~InSeq(p, wire)
    BY <1>1, <2>1, <2>2, <2>3, <2>5, NoticeReports DEF WriteResult
  <2>6. QED  BY <2>1, <2>2, <2>4, <2>5
<1>4. QED  BY <1>2, <1>3

\* Every step of the transport is a step of the service or leaves all it shows alone.
LEMMA ServiceStep == IInv /\ LineInv /\ [Next]_vars => [Service!Next]_(Service!vars)
<1> SUFFICES ASSUME IInv, LineInv, [Next]_vars
             PROVE  UNCHANGED Service!vars \/ Service!Next
  OBVIOUS
<1> USE DEF appVars, coreVars, portVars, noteVars
<1>1. CASE UNCHANGED vars  BY <1>1 DEF vars, Service!vars
<1>2. CASE Application
  <2>1. CASE \E p \in Packets : AsyncWritePost(p)
    BY <2>1, PostAccepts DEF Service!Next
  <2>2. CASE ~\E p \in Packets : AsyncWritePost(p)
    BY <1>2, <2>2 DEF Application, CallOpen, CallClose, CallSetHandler, AsyncWriteCheck,
                      AsyncWriteReserve, Service!vars
  <2>3. QED  BY <2>1, <2>2
<1>3. CASE OpenIgnored \/ CloseAgain \/ SetHandler \/ StaleCompletion \/ ReadContinues
             \/ WriteEnqueued
  BY <1>3 DEF OpenIgnored, CloseAgain, SetHandler, StaleCompletion, ReadContinues,
              WriteEnqueued, Service!vars
<1>4. CASE OpenSucceeds \/ SerialOpenThrows \/ SetOptionThrows
  BY <1>4 DEF OpenSucceeds, SerialOpenThrows, SetOptionThrows, Reopening, Service!vars
<1>5. CASE CloseOnStrand
  <2>1. Service!Close  BY <1>5 DEF CloseOnStrand, Service!Close
  <2>2. QED  BY <2>1 DEF Service!Next
<1>6. CASE ReadFails
  BY <1>6 DEF ReadFails, ReportFatal, StopAfterIoError, Service!vars
<1>7. CASE WriteCancelled \/ WriteCompletes \/ WriteFails
  BY <1>7, TaskReports DEF Service!Next
<1>8. CASE CompleteDue \/ CompleteRead
  BY <1>8, CompletionSends DEF CompleteDue, CompleteRead, Service!Next
<1>9. QED
  BY <1>1, <1>2, <1>3, <1>4, <1>5, <1>6, <1>7, <1>8 DEF Next, RunStrand

\* The transport keeps its promise to the callers of asyncWrite: what it does with packets, in
\* any number of sessions, is what WriteService allows.
THEOREM KeepsTheService == Spec => ImplementsWriteService
<1>1. Init => Service!Init  BY ServiceInit
<1>2. IInv /\ LineInv /\ [Next]_vars => [Service!Next]_(Service!vars)  BY ServiceStep
<1>3. QED
  BY <1>1, <1>2, LineInvariance, PTL DEF Spec, ImplementsWriteService, Service!Spec
=============================================================================
