--------------------------- MODULE SharedBufferProofs ---------------------------
(* Theorems about SharedBuffer, for any finite set of connections and any      *)
(* number of writes: num_clients counts the connections that hold the buffer's *)
(* address, and so none of them sees it freed.                                 *)
EXTENDS SharedBuffer, FiniteSetTheorems, TLAPS

CountInv == num_clients = Cardinality(Holders)

\* Who may hold the address of what.
BufferInv ==
    /\ memory = "none" => \A c \in Conns : phase[c] = "requested"
    /\ memory = "freed" => Holders \subseteq late
    /\ \A c \in toClient : phase[c] = "established"
    /\ \A c \in Conns : client[c] = "ready" => phase[c] = "established"
    /\ HarmOnlyToLate

IInv == TypeOK /\ CountInv /\ BufferInv

\* The holders are finitely many.
LEMMA HoldersFinite ==
    /\ IsFiniteSet(Holders) /\ Cardinality(Holders) \in 0 .. Cardinality(Conns)
    /\ Cardinality(Conns) \in Nat
    /\ Cardinality(Holders) = 0 => Holders = {}
<1>1. Holders \in SUBSET Conns
  BY DEF Holders
<1>2. /\ IsFiniteSet(Holders)
      /\ Cardinality(Holders) <= Cardinality(Conns)
  BY <1>1, ConnsAssumption, FS_Subset
<1>3. Cardinality(Holders) \in Nat /\ Cardinality(Conns) \in Nat
  BY <1>2, ConnsAssumption, FS_CardinalityType
<1>4. Cardinality(Holders) = 0 => Holders = {}
  BY <1>2, FS_EmptySet
<1>5. QED
  BY <1>2, <1>3, <1>4

\* The same of the next state's holders.
LEMMA HoldersFiniteNext ==
    /\ Cardinality(Holders') \in 0 .. Cardinality(Conns)
    /\ Cardinality(Holders') = 0 => Holders' = {}
<1>1. Holders' \in SUBSET Conns
  BY DEF Holders
<1>2. /\ IsFiniteSet(Holders')
      /\ Cardinality(Holders') <= Cardinality(Conns)
  BY <1>1, ConnsAssumption, FS_Subset
<1>3. Cardinality(Holders') \in Nat /\ Cardinality(Conns) \in Nat
  BY <1>2, ConnsAssumption, FS_CardinalityType
<1>4. Cardinality(Holders') = 0 => Holders' = {}
  BY <1>2, FS_EmptySet
<1>5. QED
  BY <1>2, <1>3, <1>4

\* Before anyone connects nobody holds anything.
LEMMA InitInv == Init => IInv
<1> SUFFICES ASSUME Init PROVE IInv
  OBVIOUS
<1>1. Holders = {}
  BY DEF Init, Holders
<1>2. num_clients = 0 /\ Cardinality(Holders) = 0
  BY <1>1, FS_EmptySet DEF Init
<1>3. TypeOK
  BY <1>2, HoldersFinite, WritesAssumption DEF Init, TypeOK
<1>4. BufferInv
  BY DEF Init, BufferInv, HarmOnlyToLate
<1>5. QED
  BY <1>2, <1>3, <1>4 DEF IInv, CountInv

\* on_pre_conn counts the connection that takes the address.
LEMMA ConnectRequestInv ==
    ASSUME IInv, NEW c \in Conns, ConnectRequest(c) PROVE IInv'
<1> USE DEF ConnectRequest
<1>1. Holders' = Holders \cup {c} /\ c \notin Holders
  BY DEF IInv, TypeOK, Holders
<1>2. Cardinality(Holders') = Cardinality(Holders) + 1
  BY <1>1, HoldersFinite, FS_AddElement
<1>3. num_clients' = Cardinality(Holders')
  BY <1>2 DEF IInv, CountInv, CountIn
<1>4. TypeOK'
  BY <1>3, HoldersFiniteNext DEF IInv, TypeOK, clientVars, writerVars
<1>5. BufferInv'
  BY <1>1 DEF IInv, TypeOK, BufferInv, HarmOnlyToLate, clientVars
<1>6. QED
  BY <1>3, <1>4, <1>5 DEF IInv, CountInv

\* on_disconnect gives up the address before it may free the buffer.
LEMMA DisconnectedInv ==
    ASSUME IInv, NEW c \in Conns, Disconnected(c) PROVE IInv'
<1> USE DEF Disconnected
<1>1. Holders' = Holders \ {c} /\ c \in Holders
  BY DEF IInv, TypeOK, Holders
<1>2. Cardinality(Holders') = Cardinality(Holders) - 1
  BY <1>1, HoldersFinite, FS_RemoveElement
<1>3. num_clients' = Cardinality(Holders')
  BY <1>2 DEF IInv, CountInv
<1>4. TypeOK'
  BY <1>3, HoldersFiniteNext DEF IInv, TypeOK, clientVars, writerVars
<1>5. LastGone => Holders' = {}
  BY <1>3, HoldersFiniteNext DEF LastGone
<1>6. memory = "freed" => c \in late
  BY <1>1 DEF IInv, BufferInv
<1>7. memory # "none"
  BY DEF IInv, BufferInv
<1>8. BufferInv'
  BY <1>1, <1>5, <1>6, <1>7
     DEF IInv, TypeOK, BufferInv, HarmOnlyToLate, clientVars
<1>9. QED
  BY <1>3, <1>4, <1>8 DEF IInv, CountInv

\* The other steps leave the set of holders as it is.
LEMMA OtherStepsInv ==
    ASSUME IInv,
           \/ Produce
           \/ \E c \in Conns : \/ Established(c) \/ UnknownEvent(c)
                               \/ ClientStep(c) \/ Leave(c)
    PROVE  IInv'
<1> USE DEF clientVars, bufferVars, writerVars
<1>1. ASSUME NEW c \in Conns, Established(c) PROVE IInv'
  <2> USE <1>1 DEF Established
  <2>1. Holders' = Holders /\ c \in Holders /\ UNCHANGED num_clients
    BY DEF IInv, TypeOK, Holders
  <2>2. TypeOK'
    BY DEF IInv, TypeOK
  <2>3. BufferInv'
    BY <2>1 DEF IInv, TypeOK, BufferInv, HarmOnlyToLate
  <2>4. QED
    BY <2>1, <2>2, <2>3 DEF IInv, CountInv
<1>2. ASSUME NEW c \in Conns, UnknownEvent(c) \/ SendFails(c) PROVE IInv'
  BY <1>2 DEF UnknownEvent, SendFails, IInv, TypeOK, CountInv, BufferInv,
              HarmOnlyToLate, Holders
<1>3. ASSUME NEW c \in Conns, Deliver(c) \/ Leave(c) PROVE IInv'
  BY <1>3 DEF Deliver, Leave, IInv, TypeOK, CountInv, BufferInv,
              HarmOnlyToLate, Holders
<1>4. ASSUME NEW c \in Conns, Read(c) PROVE IInv'
  <2>1. contents \in 0 .. Writes
    BY WritesAssumption DEF IInv, TypeOK
  <2>2. TypeOK'
    BY <1>4, <2>1 DEF Read, IInv, TypeOK
  <2>3. CountInv' /\ BufferInv'
    BY <1>4 DEF Read, IInv, CountInv, BufferInv, HarmOnlyToLate, Holders
  <2>4. QED
    BY <2>2, <2>3 DEF IInv
<1>5. ASSUME NEW c \in Conns, ReadRefused(c) PROVE IInv'
  <2> USE <1>5 DEF ReadRefused
  <2>1. Holders' = Holders /\ c \in Holders /\ UNCHANGED num_clients
    BY DEF IInv, TypeOK, BufferInv, Holders
  <2>2. TypeOK'
    BY DEF IInv, TypeOK
  <2>3. BufferInv'
    BY <2>1 DEF IInv, TypeOK, BufferInv, HarmOnlyToLate
  <2>4. QED
    BY <2>1, <2>2, <2>3 DEF IInv, CountInv
<1>6. CASE Produce
  <2> USE <1>6 DEF Produce
  <2>1. TypeOK'
    BY WritesAssumption DEF IInv, TypeOK
  <2>2. CountInv' /\ BufferInv'
    BY ConnsAssumption DEF IInv, CountInv, BufferInv, HarmOnlyToLate, Holders
  <2>3. QED
    BY <2>1, <2>2 DEF IInv
<1>7. QED
  BY <1>1, <1>2, <1>3, <1>4, <1>5, <1>6 DEF ClientStep

\* Every step keeps the inductive invariant.
LEMMA StepInv == IInv /\ [Next]_vars => IInv'
<1> SUFFICES ASSUME IInv, [Next]_vars PROVE IInv'
  OBVIOUS
<1>1. CASE Next
  BY <1>1, ConnectRequestInv, DisconnectedInv, OtherStepsInv DEF Next, CmStep
<1>2. CASE UNCHANGED vars
  BY <1>2 DEF vars, clientVars, bufferVars, writerVars, IInv, TypeOK, CountInv,
              BufferInv, HarmOnlyToLate, Holders
<1>3. QED
  BY <1>1, <1>2

\* The inductive invariant of consumer/server.c's reference count holds in every
\* reachable state.
THEOREM Invariance == Spec => []IInv
  BY InitInv, StepInv, PTL DEF Spec

\* Every variable of SharedBuffer keeps its type.
THEOREM TypeCorrect == Spec => []TypeOK
<1>1. IInv => TypeOK
  BY DEF IInv
<1>2. QED
  BY <1>1, Invariance, PTL

\* No client that connects while the buffer exists ever finds it freed.
THEOREM EarlyClientsUnharmed == Spec => []HarmOnlyToLate
<1>1. IInv => HarmOnlyToLate
  BY DEF IInv, BufferInv
<1>2. QED
  BY <1>1, Invariance, PTL

\* num_clients is the number of connections that hold the buffer's address.
THEOREM CountsHolders == Spec => [](num_clients = Cardinality(Holders))
<1>1. IInv => num_clients = Cardinality(Holders)
  BY DEF IInv, CountInv
<1>2. QED
  BY <1>1, Invariance, PTL
=============================================================================
