--------------------------- MODULE TwiMasterProofs ---------------------------
(* Facts about the TWI master that the proofs about every device cite.     *)
EXTENDS TwiMaster, TLAPS

\* A message that is no START belongs to the transaction in progress and
\* carries a byte in its direction.
LEMMA OfferedShape ==
  ASSUME NEW m \in Offered
  PROVE  \/ m \in Starts
         \/ /\ link # Free /\ m.dev = link.dev
            /\ \/ m.cond = "STOP" /\ m.data = 0
               \/ m.cond = "WRITE" /\ link.rw = "W" /\ m.data \in DataBytes
               \/ m.cond = "READ" /\ link.rw # "W" /\ m.data = 0
<1>1. CASE m \in Starts
  BY <1>1
<1>2. CASE m \in Transfers
  <2>1. link # Free
    BY <1>2 DEF Transfers
  <2>2. CASE m \in [cond : {"STOP"}, dev : {link.dev}, rw : {link.rw}, data : {0}]
    BY <2>1, <2>2
  <2>3. CASE link.rw = "W" /\ m \in [cond : {"WRITE"}, dev : {link.dev}, rw : {"W"}, data : DataBytes]
    BY <2>1, <2>3
  <2>4. CASE link.rw # "W" /\ m \in [cond : {"READ"}, dev : {link.dev}, rw : {"R"}, data : {0}]
    BY <2>1, <2>4
  <2> QED BY <1>2, <2>1, <2>2, <2>3, <2>4 DEF Transfers
<1> QED BY <1>1, <1>2 DEF Offered
\* A data byte is a byte, whatever kind of message carries it.
LEMMA OfferedCarriesByte ==
  ASSUME NEW m \in Offered
  PROVE  m.data \in Byte
<1>1. 0 \in Byte
  BY DEF Byte
<1>2. CASE m \in Starts
  BY <1>1, <1>2 DEF Starts
<1>3. CASE m \notin Starts
  <2>1. m.data \in DataBytes \/ m.data = 0
    BY <1>3, OfferedShape
  <2> QED BY <1>1, <2>1, DataBytesAssumption
<1> QED BY <1>2, <1>3

\* Every answer a device gives is one.
LEMMA RepliesAreTyped ==
  /\ Ack \in Reply /\ Silent \in Reply
  /\ \A byte \in Byte : Data(byte) \in Reply
<1>1. 0 \in Byte
  BY DEF Byte
<1> QED BY <1>1 DEF Ack, Silent, Data, Reply

\* The master keeps its state in its type.
LEMMA LinkStepTyped ==
  ASSUME LinkType, NEW m \in Offered, Emit(m)
  PROVE  LinkType'
<1>1. CASE m.cond = "START"
  <2>1. m \in Starts
    BY <1>1 DEF Offered, Transfers, Starts
  <2> QED BY <1>1, <2>1 DEF Emit, Starts, LinkType
<1>2. CASE m.cond = "STOP"
  BY <1>2 DEF Emit, LinkType, Free, Direction
<1>3. CASE m.cond \notin {"START", "STOP"}
  BY <1>3 DEF Emit, LinkType
<1> QED BY <1>1, <1>2, <1>3
=============================================================================
