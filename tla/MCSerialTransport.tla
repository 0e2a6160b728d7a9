------------------------- MODULE MCSerialTransport -------------------------
(* Instances of SerialTransport for TLC: two or three packets that fit, one  *)
(* that does not, and one element of each class of error codes.              *)
EXTENDS SerialTransport, TLC

CONSTANTS big, MaxOpens, MaxCloses, MaxSets

MCMaxCalls == [c \in Calls |-> CASE c = "open" -> MaxOpens
                                 [] c = "close" -> MaxCloses
                                 [] c = "set" -> MaxSets]

MCSize == [p \in Packets |-> IF p = big THEN 3 ELSE 2]

\* Room for one packet, or for two.
MCOneSlot  == [txMaxElementsInQueue |-> 1, txMaxSizePerElement |-> 2]
MCTwoSlots == [txMaxElementsInQueue |-> 2, txMaxSizePerElement |-> 2]
MCConfigs  == {MCOneSlot, MCTwoSlots}
MCOneOnly  == {MCOneSlot}
MCTwoOnly  == {MCTwoSlots}
MCDefault  == [txMaxElementsInQueue |-> 10, txMaxSizePerElement |-> 512]

MCSymmetry == Permutations(Packets \ {big})
=============================================================================
