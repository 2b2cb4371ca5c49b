------------------------- MODULE EarlierProducerProofs -------------------------
(* Theorems about EarlierProducer, for every ring that holds the records and   *)
(* every length of them.  What happens to the threads and messages is known    *)
(* from ProducerClientProofs as long as client or server goes on; here it is   *)
(* what the bytes of the buffers have to do with it.                           *)
EXTENDS EarlierProducer, ProducerClientProofs, FiniteSetTheorems

\* Something can still happen to the connection.
Alive == Running \/ server = "up"

\* A buffer starts with the C string of a record.
Holds(mem, r) ==
    /\ \A i \in Cells : i < Lengths[r] => mem[i] = r
    /\ mem[Lengths[r]] = 0

\* The buffers' bytes are those of the records they are said to hold.
TextInv ==
    /\ buffer # NULL => Holds(text, buffer)
    /\ srvBuffer # NULL => Holds(srvText, srvBuffer)

\* A write of a record carries the string that is in the buffer now.
FlightInv ==
    \A i \in DOMAIN toServer :
        sizes[i] = IF toServer[i] = 1 THEN Size(buffer) ELSE 0

\* What is printed is what the broker of ProducerClient logs.
PrintInv ==
    /\ Len(log) \in 0 .. MaxRecords /\ Len(printed) = Len(log)
    /\ \A i \in 1 .. Len(log) : printed[i] = Text(i)

\* A client that is gone has left nothing to the server but the end of the
\* connection or, if it gave up, its request; unless a wakeup was spurious.
GoneInv ==
    ~Running /\ server = "up" /\ spurious = 0 =>
        /\ toClient = <<>> /\ srvCq = <<>>
        /\ conn \in {"connecting", "accepted"} => crashed = "cm_error"

ByteInv ==
    /\ Alive => IInv
    /\ BytesTypeOK /\ TextInv /\ FlightInv /\ PrintInv /\ GoneInv
    /\ ServerSurvives

-----------------------------------------------------------------------------
(* Strings and their lengths. *)

\* Every set of natural numbers that has a member has a least one.
LEMMA LeastLength ==
  ASSUME NEW S \in SUBSET Nat, S # {}
  PROVE  \E n \in S : \A m \in S : n <= m
<1> DEFINE T == {1 .. n : n \in S}
           R == StrictSubsetOrdering(Nat)
<1>1. T \subseteq FiniteSubsetsOf(Nat) /\ T # {}
  <2>1. \A n \in S : IsFiniteSet(1 .. n) /\ 1 .. n \in SUBSET Nat
    BY FS_Interval
  <2> QED
    BY <2>1 DEF FiniteSubsetsOf
<1>2. PICK X \in T : \A Y \in T : ~ (<<Y, X>> \in R)
  <2>1. IsWellFoundedOn(R, FiniteSubsetsOf(Nat))
    BY FS_StrictSubsetOrderingWellFounded
  <2> HIDE DEF T, R
  <2> QED
    BY <1>1, <2>1, WFMin
<1>3. PICK n \in S : X = 1 .. n
  OBVIOUS
<1>4. ASSUME NEW m \in S, m < n PROVE FALSE
  <2>1. 1 .. m \in T /\ 1 .. m \in SUBSET Nat /\ X \in SUBSET Nat
    BY <1>3
  <2>2. 1 .. m \subseteq X /\ 1 .. m # X
    BY <1>3, <1>4
  <2>3. <<1 .. m, X>> \in R
    BY <2>1, <2>2 DEF StrictSubsetOrdering
  <2> QED
    BY <1>2, <2>1, <2>3
<1> QED
  BY <1>4

\* Among the lengths of the first n records there is a greatest.
LEMMA GreatestLength ==
  \E k \in {Lengths[r] : r \in Records} \cup {0} :
     \A l \in {Lengths[r] : r \in Records} \cup {0} : k >= l
<1> DEFINE L(n) == {Lengths[r] : r \in 1 .. n} \cup {0}
           Bad == {n \in 0 .. MaxRecords :
                      ~ \E k \in L(n) : \A l \in L(n) : k >= l}
<1>1. \A n \in 0 .. MaxRecords : L(n) \subseteq Nat
  BY LengthsAssumption, BoundsAssumption DEF Records
<1>2. Bad = {}
  <2> SUFFICES ASSUME Bad # {} PROVE FALSE
    OBVIOUS
  <2>1. PICK n \in Bad : \A m \in Bad : n <= m
    <3>1. Bad \in SUBSET Nat
      BY BoundsAssumption
    <3> HIDE DEF Bad
    <3> QED
      BY <3>1, LeastLength
  <2>2. n # 0
    <3>1. L(0) = {0}
      OBVIOUS
    <3> HIDE DEF L
    <3> QED
      BY <3>1
  <2>3. n - 1 \in 0 .. MaxRecords /\ n \in 1 .. MaxRecords
    BY <2>2, BoundsAssumption
  <2>4. PICK k \in L(n - 1) : \A l \in L(n - 1) : k >= l
    BY <2>1, <2>3
  <2>5. L(n) = L(n - 1) \cup {Lengths[n]}
    BY <2>3, BoundsAssumption
  <2>6. k \in Nat /\ Lengths[n] \in Nat /\ L(n - 1) \subseteq Nat
    BY <1>1, <2>3, <2>4, LengthsAssumption DEF Records
  <2> HIDE DEF L
  <2>7. \E j \in L(n) : \A l \in L(n) : j >= l
    <3>1. CASE Lengths[n] >= k
      BY <2>4, <2>5, <2>6, <3>1
    <3>2. CASE Lengths[n] < k
      BY <2>4, <2>5, <2>6, <3>2
    <3> QED
      BY <2>6, <3>1, <3>2
  <2> QED
    BY <2>1, <2>7
<1>3. MaxRecords \in 0 .. MaxRecords
  BY BoundsAssumption
<1> HIDE DEF L
<1>4. \E k \in L(MaxRecords) : \A l \in L(MaxRecords) : k >= l
  BY <1>2, <1>3
<1> QED
  BY <1>4 DEF L, Records

\* A buffer is long enough for every record.
LEMMA LongestIs ==
  /\ Longest \in Nat
  /\ \A r \in Records : Lengths[r] \in Cells /\ Lengths[r] > 0
<1> DEFINE L == {Lengths[r] : r \in Records} \cup {0}
<1>1. L \subseteq Nat /\ \A r \in Records : Lengths[r] \in L /\ Lengths[r] > 0
  BY LengthsAssumption
<1>2. Longest \in L /\ \A l \in L : Longest >= l
  <2>1. \E k \in L : \A l \in L : k >= l
    BY GreatestLength
  <2> HIDE DEF L
  <2>2. Max(L) \in L /\ \A l \in L : Max(L) >= l
    BY <2>1 DEF Max
  <2> QED
    BY <2>2 DEF Longest, L
<1> HIDE DEF L
<1>3. Longest \in Nat
  BY <1>1, <1>2
<1>4. ASSUME NEW r \in Records PROVE Lengths[r] \in Cells
  <2>1. Lengths[r] \in Nat /\ Longest >= Lengths[r]
    BY <1>1, <1>2
  <2> QED
    BY <1>3, <2>1 DEF Cells
<1> QED
  BY <1>1, <1>3, <1>4

\* strcpy leaves its string at the start of the buffer.
LEMMA StrCpyHolds ==
  ASSUME NEW mem \in [Cells -> Bytes], NEW r \in Records
  PROVE  StrCpy(mem, r) \in [Cells -> Bytes] /\ Holds(StrCpy(mem, r), r)
<1> DEFINE n == Lengths[r]
           c == StrCpy(mem, r)
<1>1. n \in Cells /\ n \in Nat /\ Cells \subseteq Nat
  BY LongestIs DEF Cells
<1>2. c = [i \in Cells |-> IF i < n THEN r ELSE IF i = n THEN 0 ELSE mem[i]]
  BY DEF StrCpy
<1> HIDE DEF n, c
<1>3. \A i \in Cells : c[i] \in Bytes
  BY <1>2 DEF Bytes
<1>4. c \in [Cells -> Bytes]
  BY <1>2, <1>3
<1>5. (\A i \in Cells : i < n => c[i] = r) /\ c[n] = 0
  BY <1>1, <1>2
<1> QED
  BY <1>4, <1>5 DEF Holds, n, c

\* What printf takes from a buffer is the string that was copied there.
LEMMA CStringOf ==
  ASSUME NEW mem \in [Cells -> Bytes], NEW r \in Records, Holds(mem, r)
  PROVE  CString(mem) = Text(r)
<1> DEFINE Z == {i \in Cells : mem[i] = 0} \cup {Longest + 1}
<1>1. Lengths[r] \in Z /\ Z \subseteq Nat /\ Longest \in Nat
  BY LongestIs DEF Holds, Cells
<1>2. \A i \in Z : Lengths[r] <= i
  BY LongestIs DEF Holds, Cells, Records
<1>3. Min(Z) = Lengths[r]
  <2> HIDE DEF Z
  <2>1. Min(Z) \in Z /\ \A i \in Z : Min(Z) <= i
    BY <1>1, <1>2 DEF Min
  <2>2. Min(Z) <= Lengths[r] /\ Lengths[r] <= Min(Z)
    BY <1>1, <1>2, <2>1
  <2>3. Min(Z) \in Nat /\ Lengths[r] \in Nat
    BY <1>1, <2>1
  <2>4. \A a, b \in Nat : a <= b /\ b <= a => a = b
    OBVIOUS
  <2> QED
    BY <2>2, <2>3, <2>4, Zenon
<1>4. CString(mem) = [i \in 1 .. Lengths[r] |-> mem[i - 1]]
  BY <1>3 DEF CString
<1>5. \A i \in 1 .. Lengths[r] : mem[i - 1] = r
  <2> TAKE i \in 1 .. Lengths[r]
  <2>1. i - 1 \in Cells /\ i - 1 < Lengths[r]
    BY LongestIs DEF Cells
  <2> QED
    BY <2>1 DEF Holds
<1> QED
  BY <1>4, <1>5 DEF Text

\* No two records have the same string.
LEMMA RecordOfText == ASSUME NEW r \in Records PROVE RecordOf(Text(r)) = r
<1>1. ASSUME NEW q \in Records, Text(q) = Text(r) PROVE q = r
  <2>1. /\ Lengths[q] \in Nat \ {0} /\ Lengths[r] \in Nat \ {0}
    BY LengthsAssumption
  <2>2. 1 \in DOMAIN Text(q) /\ 1 \in DOMAIN Text(r)
    BY <2>1 DEF Text
  <2>3. Text(q)[1] = q /\ Text(r)[1] = r
    BY <2>2 DEF Text
  <2> QED
    BY <1>1, <2>3
<1>2. {q \in Records : Text(q) = Text(r)} = {r}
  BY <1>1
<1> QED
  BY <1>2 DEF RecordOf

-----------------------------------------------------------------------------
(* The threads and messages. *)

ServerGoes == SrvDisconnected \/ SrvUnknownEvent \/ SrvSendFails

\* All but the exit of the client and the end of the server are steps of
\* ProducerClient.
LEMMA StepIsNext == ASSUME BytesNext PROVE Next \/ Exits \/ ServerGoes
  BY DEF BytesNext, ClientStep, ServerStep, Produces, Inserts, Terminates,
     WakesSpuriously, Connects, Completes, Looks, Sends, Accepts, Greets,
     Prints, Confirms, Arrives, Lands, ServerGoes, Next, AppStep, CmStep,
     PollerStep, BrokerStep

\* Without the client only the server goes on, be it with the client's request.
LEMMA WithoutClient ==
  ASSUME BytesNext, ~Running
  PROVE  Accepts \/ Prints \/ Confirms \/ ServerGoes
  BY DEF BytesNext, ClientStep, ServerStep, Running, Produces, Inserts,
     Terminates, WakesSpuriously, Exits, Connects, Completes, Looks, Sends,
     Greets, ServerGoes, Arrives, Lands, ProduceRecord, Terminate,
     SpuriousWakeup, CmError, InsertAtEnd, SignalRecord, TerminateSignal,
     TerminateWait, TerminateReturn, AddrResolved, RouteResolved, Disconnected,
     OnReady, OnDone, Wait, LookAtHead, LookAgain, RdmaSend, PostReceive,
     RcDisconnect, SignalDone, Established, DeliverToClient, DeliverToServer

\* Nothing happens when both sides are gone.
LEMMA StepAlive == ASSUME BytesNext PROVE Alive
  BY WithoutClient DEF Alive, Accepts, Prints, Confirms, ServerGoes, SrvDisconnected,
     SrvUnknownEvent, SrvSendFails, ServerEnds

\* Wakeups are counted, and a server that has gone does not come back.
LEMMA Forward ==
  ASSUME BytesNext
  PROVE  /\ spurious' = spurious \/ spurious' = spurious + 1
         /\ server' = server \/ server = "up"
         /\ server' = server \/ ServerGoes
  BY DEF BytesNext, ClientStep, ServerStep, ServerGoes, Produces, Inserts,
     Terminates, WakesSpuriously, Exits, Connects, Completes, Looks, Sends,
     Accepts, Greets, Prints, Confirms, SrvDisconnected, SrvUnknownEvent,
     SrvSendFails, ServerEnds, Arrives, Lands, ProduceRecord, Terminate,
     SpuriousWakeup, CmError, InsertAtEnd, SignalRecord, TerminateSignal,
     TerminateWait, TerminateReturn, AddrResolved, RouteResolved, Disconnected,
     OnReady, OnDone, Wait, LookAtHead, LookAgain, RdmaSend, PostReceive,
     RcDisconnect, SignalDone, ConnectRequest, Established, SrvRecord, SrvDone,
     DeliverToClient, DeliverToServer, byteVars

LEMMA ExitsStep == ASSUME IInv, Exits PROVE IInv'
<1> USE DEF Exits, IInv, appVars, ringVars, sendVars, recvVars, netVars,
      srvVars, connVars
<1>1. (StateOK /\ RingInv /\ AppInv)'
  BY DEF StateOK, RingInv, AppInv, Taken, Running
<1>2. (ConnectingInv /\ EstablishedInv /\ LostInv /\ DisconnectedInv)'
  BY DEF ConnectingInv, EstablishedInv, DisconnectedInv, LostInv, Quiet,
     ClientHolds, RecordTravels, ReadyTravels, EndTravels, Finished
<1>3. (CursorInv /\ WokenInv /\ InOrderDelivery /\ crashed # "flush")'
  BY DEF CursorInv, WokenInv, InOrderDelivery
<1> QED
  BY <1>1, <1>2, <1>3

\* The server leaves a client that still runs only after the connection, and
\* takes nothing away from it then.
LEMMA ServerGoesStep ==
  ASSUME IInv, ServerGoes, Alive'
  PROVE  UNCHANGED vars
<1>1. server' # "up" /\ UNCHANGED crashed
  BY DEF ServerGoes, SrvDisconnected, SrvUnknownEvent, SrvSendFails, ServerEnds
<1>2. Running
  BY <1>1 DEF Alive, Running
<1>3. conn \in {"disconnecting", "closed"}
  BY <1>2 DEF ServerGoes, SrvDisconnected, SrvUnknownEvent, SrvSendFails
<1>4. toClient = <<>> /\ srvPosted = 0 /\ srvCq = <<>>
  BY <1>3 DEF IInv, DisconnectedInv, Quiet
<1> QED
  BY <1>4 DEF ServerGoes, SrvDisconnected, SrvUnknownEvent, SrvSendFails,
     ServerEnds, vars, connVars, netVars, srvVars

LEMMA ThreadsStep == ASSUME ByteInv, BytesNext, Alive' PROVE IInv'
<1>1. IInv
  BY StepAlive DEF ByteInv
<1>2. CASE Next
  BY <1>1, <1>2, StepInv
<1>3. CASE Exits
  BY <1>1, <1>3, ExitsStep
<1>4. CASE ServerGoes
  BY <1>1, <1>4, ServerGoesStep, StepInv
<1> QED
  BY <1>2, <1>3, <1>4, StepIsNext

\* The cursor stays in the ring, since the ring holds all the records.
LEMMA CursorInRing == ASSUME IInv PROVE Wild \notin SlotValues
<1>1. index < BACKLOG
  BY LengthsAssumption, BacklogAssumption, BoundsAssumption
     DEF IInv, StateOK, RingInv, Taken
<1>2. index \in Slots
  BY <1>1, BacklogAssumption DEF IInv, StateOK, Slots
<1>3. records[index] \in {NULL} \cup Records
  BY <1>2 DEF IInv, StateOK
<1>4. Wild \notin {NULL} \cup Records
  BY DEF Wild, NULL, Records
<1> QED
  BY <1>1, <1>3, <1>4 DEF SlotValues

\* How the client's process may end, and when.
LEMMA EndOfClient ==
  ASSUME ByteInv, BytesNext
  PROVE  \/ UNCHANGED crashed
         \/ crashed' = "nullderef" /\ LookAgain
         \/ crashed' = "cm_error" /\ CmError
         \/ crashed' = "exited" /\ Exits
<1>1. IInv
  BY StepAlive DEF ByteInv
<1>2. CASE LookAtHead \/ LookAgain
  BY <1>1, <1>2, CursorInRing DEF LookAtHead, LookAgain, Serialize, SendDone,
     Dereference
<1>3. CASE RcDisconnect
  <2>1. posted = 0
    BY <1>1, <1>3 DEF RcDisconnect, IInv, StateOK, ConnectingInv, Working,
       EstablishedInv, LostInv, DisconnectedInv, ClientHolds, RecordTravels,
       ReadyTravels, EndTravels
  <2> QED
    BY <1>3, <2>1 DEF RcDisconnect, Running
<1> QED
  BY <1>2, <1>3
     DEF BytesNext, ClientStep, ServerStep, Produces, Inserts, Terminates,
     WakesSpuriously, Exits, Connects, Completes, Looks, Sends, Accepts, Greets,
     Prints, Confirms, SrvDisconnected, SrvUnknownEvent, SrvSendFails,
     ServerEnds, Arrives, Lands, ProduceRecord, Terminate, SpuriousWakeup,
     CmError, InsertAtEnd, SignalRecord, TerminateSignal, TerminateWait,
     TerminateReturn, AddrResolved, RouteResolved, Disconnected, OnReady,
     OnDone, Wait, RdmaSend, PostReceive, SignalDone, ConnectRequest,
     Established, SrvRecord, SrvDone, DeliverToClient, DeliverToServer

\* Nothing is on its way to a client at its end.
LEMMA GoneStep == ASSUME ByteInv, BytesNext PROVE GoneInv'
<1> SUFFICES ASSUME ~Running', server' = "up", spurious' = 0
             PROVE  /\ (toClient = <<>> /\ srvCq = <<>>)'
                    /\ (conn \in {"connecting", "accepted"} =>
                            crashed = "cm_error")'
  BY DEF GoneInv
<1>1. IInv
  BY StepAlive DEF ByteInv
<1>2. server = "up" /\ spurious = 0
  BY <1>1, Forward DEF IInv, StateOK
<1>3. CASE ~Running
  <2>1. /\ toClient = <<>> /\ srvCq = <<>>
        /\ conn \in {"connecting", "accepted"} => crashed = "cm_error"
    BY <1>2, <1>3 DEF ByteInv, GoneInv
  <2>2. CASE Accepts
    BY <2>1, <2>2 DEF Accepts, ConnectRequest
  <2>3. CASE Prints \/ Confirms \/ ServerGoes
    BY <1>2, <2>1, <2>3
       DEF Prints, SrvRecord, Confirms, SrvDone, ServerGoes, SrvDisconnected,
       SrvUnknownEvent, SrvSendFails, ServerEnds
  <2> QED
    BY <1>3, <2>2, <2>3, WithoutClient
<1>4. CASE Running
  <2>1. CASE LookAgain
    BY <1>1, <2>1, WorkingHolds DEF LookAgain, Working, Quiet, srvVars
  <2>2. CASE CmError
    <3>1. toClient = <<>> /\ srvCq = <<>>
      BY <1>1, <2>2 DEF CmError, IInv, ConnectingInv, Quiet
    <3> QED
      BY <2>2, <3>1 DEF CmError, connVars, netVars, srvVars
  <2>3. CASE Exits
    <3>1. conn \in {"disconnecting", "closed"}
      BY <1>1, <1>2, <2>3 DEF Exits, IInv, WokenInv
    <3> QED
      BY <1>1, <2>3, <3>1 DEF Exits, IInv, DisconnectedInv, Quiet, connVars,
         netVars, srvVars
  <2> QED
    BY <1>4, <2>1, <2>2, <2>3, EndOfClient DEF Running
<1> QED
  BY <1>3, <1>4

\* The server ends over a client only after a spurious wakeup, or over the request
\* of one that gave up.
LEMMA SurvivesStep == ASSUME ByteInv, BytesNext PROVE ServerSurvives'
<1>1. IInv
  BY StepAlive DEF ByteInv
<1>2. spurious \in Nat /\ (spurious' = spurious \/ spurious' = spurious + 1)
  BY <1>1, Forward DEF IInv, StateOK
<1>3. CASE SrvSendFails
  <2>1. ~(spurious = 0)
    BY <1>3 DEF SrvSendFails, ServerEnds, ByteInv, GoneInv
  <2> QED
    BY <1>2, <1>3, <2>1 DEF ServerSurvives, SrvSendFails, ServerEnds
<1>5. CASE SrvUnknownEvent
  <2>1. spurious = 0 => crashed = "cm_error"
    BY <1>5 DEF SrvUnknownEvent, ServerEnds, ByteInv, GoneInv
  <2> QED
    BY <1>2, <1>5, <2>1 DEF ServerSurvives, SrvUnknownEvent, ServerEnds
<1>4. CASE UNCHANGED server
  <2>1. server # "up" => crashed # "cm_error"
    BY StepAlive DEF Alive, Running
  <2>2. server \in {"bad_completion", "unknown_event"} => spurious > 0
    BY <2>1 DEF ByteInv, ServerSurvives
  <2> QED
    BY <1>2, <1>4, <2>2 DEF ServerSurvives
<1>6. CASE SrvDisconnected
  BY <1>6 DEF ServerSurvives, SrvDisconnected, ServerEnds
<1> QED
  BY <1>3, <1>4, <1>5, <1>6, Forward DEF ServerGoes

-----------------------------------------------------------------------------
(* The bytes. *)

\* What is said of them but for the ways processes end.
BytesPart ==
    /\ text \in [Cells -> Bytes] /\ srvText \in [Cells -> Bytes]
    /\ sizes \in Seq(0 .. Longest + 1) /\ Len(sizes) = Len(toServer)
    /\ printed \in Seq(UNION {[1 .. n -> Bytes] : n \in 0 .. Longest + 1})
    /\ TextInv /\ FlightInv /\ PrintInv

LEMMA BytesKept ==
  ASSUME BytesPart,
         UNCHANGED <<text, sizes, srvText, printed>>,
         UNCHANGED <<buffer, srvBuffer, toServer, log>>
  PROVE  BytesPart'
  BY DEF BytesPart, TextInv, FlightInv, PrintInv

\* A buffer is written only when no write from it is in flight.
LEMMA LooksStep == ASSUME ByteInv, BytesPart, Looks PROVE BytesPart'
<1>1. IInv
  BY DEF ByteInv, Alive, Looks, LookAtHead, Wait, LookAgain
<1>2. CASE Wait
  BY <1>2, BytesKept DEF Looks, Wait, connVars, sendVars, netVars, srvVars
<1>3. CASE LookAtHead \/ LookAgain
  <2>1. /\ toServer = <<>> /\ sizes = <<>>
        /\ UNCHANGED <<srvText, printed, srvBuffer, log>>
        /\ poller \in {"lock", "woken"}
    BY <1>1, <1>3, WorkingHolds
       DEF LookAtHead, LookAgain, Working, Quiet, BytesPart, Looks, srvVars
  <2>2. PICK h \in SlotValues :
           \/ Serialize(h)
           \/ SendDone
           \/ UNCHANGED <<buffer, toServer>> /\ poller' \notin {"send", "post"}
    BY <1>3, <2>1 DEF LookAtHead, LookAgain, Dereference
  <2>3. CASE Serialize(h)
    <3>1. h \in Records
      <4>1. h \notin {NULL, Wild}
        BY <2>3 DEF Serialize, NULL, Wild
      <4>2. index < BACKLOG /\ h = records[index]
        BY <4>1 DEF SlotValues
      <4> QED
        BY <1>1, <4>1, <4>2, BacklogAssumption DEF IInv, StateOK, Slots
    <3>2. /\ text' = StrCpy(text, h) /\ buffer' = h
          /\ UNCHANGED <<sizes, toServer>>
      BY <2>3 DEF Looks, Serialize
    <3>3. text' \in [Cells -> Bytes] /\ Holds(text', h)
      BY <3>1, <3>2, StrCpyHolds DEF BytesPart
    <3>4. TextInv'
      BY <2>1, <3>2, <3>3 DEF BytesPart, TextInv, Holds
    <3>5. FlightInv'
      BY <2>1, <3>2 DEF FlightInv
    <3> QED
      BY <2>1, <3>2, <3>3, <3>4, <3>5 DEF BytesPart, PrintInv
  <2>4. CASE SendDone
    <3>1. /\ toServer' = <<0>> /\ sizes' = <<0>>
          /\ UNCHANGED <<text, buffer>>
      BY <2>1, <2>4, OneElementQueue DEF Looks, SendDone
    <3>2. sizes' \in Seq(0 .. Longest + 1) /\ Len(sizes') = Len(toServer')
      BY <3>1, LongestIs
    <3>3. FlightInv'
      BY <3>1 DEF FlightInv
    <3>4. (TextInv /\ PrintInv)'
      BY <2>1, <3>1 DEF BytesPart, TextInv, Holds, PrintInv
    <3> QED
      BY <2>1, <3>1, <3>2, <3>3, <3>4 DEF BytesPart
  <2>5. CASE UNCHANGED <<buffer, toServer>> /\ poller' \notin {"send", "post"}
    BY <2>1, <2>5, BytesKept DEF Looks
  <2> QED
    BY <2>2, <2>3, <2>4, <2>5
<1> QED
  BY <1>2, <1>3 DEF Looks

\* The write of a record is as long as its string with the terminator.
LEMMA SendsStep == ASSUME ByteInv, BytesPart, Sends PROVE BytesPart'
<1>1. IInv
  BY DEF ByteInv, Alive, Sends, RdmaSend
<1>2. toServer = <<>> /\ sizes = <<>>
  BY <1>1, WorkingHolds DEF Sends, RdmaSend, Working, Quiet, BytesPart
<1>3. /\ toServer' = <<1>> /\ sizes' = <<Size(buffer)>>
      /\ UNCHANGED <<text, buffer, srvText, srvBuffer, printed, log>>
  BY <1>2, OneElementQueue DEF Sends, RdmaSend, srvVars
<1>4. buffer \in Records
  <2>1. buffer = index + 1
    BY <1>1 DEF IInv, CursorInv, Sends, RdmaSend
  <2> QED
    BY <1>1, <2>1 DEF IInv, StateOK, NULL
<1>5. sizes' \in Seq(0 .. Longest + 1)
  BY <1>3, <1>4, LongestIs DEF Size, Cells
<1>6. FlightInv'
  BY <1>3 DEF FlightInv
<1>7. (TextInv /\ PrintInv)'
  BY <1>3 DEF BytesPart, TextInv, Holds, PrintInv
<1> QED
  BY <1>3, <1>5, <1>6, <1>7 DEF BytesPart

\* A write that is carried out brings the whole string, and the end of the stream
\* leaves the server's buffer alone.
LEMMA LandsStep == ASSUME ByteInv, BytesPart, Lands PROVE BytesPart'
<1>1. IInv /\ DeliverToServer
  BY DEF ByteInv, Alive, Lands
<1>2. toServer = <<0>> \/ (toServer = <<1>> /\ buffer \in Records)
  <2>1. toServer = <<0>> \/ (toServer = <<1>> /\ buffer = index /\ index > 0)
    BY <1>1 DEF DeliverToServer, IInv, StateOK, EstablishedInv, ClientHolds,
       RecordTravels, ReadyTravels, EndTravels
  <2> QED
    BY <1>1, <2>1 DEF IInv, StateOK, NULL
<1>3. sizes = <<IF toServer = <<1>> THEN Size(buffer) ELSE 0>>
  <2>1. Len(toServer) = 1 /\ 1 \in DOMAIN toServer
    BY <1>2
  <2>2. sizes[1] = IF toServer[1] = 1 THEN Size(buffer) ELSE 0
    BY <2>1 DEF BytesPart, FlightInv
  <2>3. toServer[1] = 1 <=> toServer = <<1>>
    BY <1>2
  <2>4. Len(sizes) = 1 /\ sizes = <<sizes[1]>>
    BY <2>1 DEF BytesPart
  <2> QED
    BY <2>2, <2>3, <2>4
<1>4. /\ toServer' = <<>> /\ sizes' = <<>>
      /\ UNCHANGED <<text, buffer, printed, log>>
  BY <1>1, <1>2, <1>3, OneElementQueue DEF Lands, DeliverToServer, sendVars
<1>5. CASE toServer = <<0>>
  <2>1. Head(sizes) = 0 /\ srvBuffer' = srvBuffer
    BY <1>1, <1>3, <1>5, OneElementQueue DEF DeliverToServer
  <2>2. srvText' = srvText
    BY <2>1 DEF Lands, BytesPart, Cells
  <2> QED
    BY <1>4, <2>1, <2>2 DEF BytesPart, TextInv, Holds, FlightInv, PrintInv
<1>6. CASE toServer = <<1>> /\ buffer \in Records
  <2>1. Head(sizes) = Lengths[buffer] + 1 /\ srvBuffer' = buffer
    BY <1>1, <1>3, <1>6, OneElementQueue DEF DeliverToServer, Size
  <2>2. srvText' = [i \in Cells |-> IF i < Lengths[buffer] + 1 THEN text[i]
                                                               ELSE srvText[i]]
    BY <2>1 DEF Lands
  <2>3. srvText' \in [Cells -> Bytes]
    BY <2>2 DEF BytesPart
  <2>4. Holds(text, buffer)
    BY <1>6 DEF BytesPart, TextInv, Records, NULL
  <2>5. Holds(srvText', buffer)
    BY <1>6, <2>2, <2>4, LongestIs DEF Holds, Cells
  <2> QED
    BY <1>4, <2>1, <2>3, <2>4, <2>5
       DEF BytesPart, TextInv, Holds, FlightInv, PrintInv
<1> QED
  BY <1>2, <1>5, <1>6

\* The record that the server finds is the next one.
LEMMA NextRecord ==
  ASSUME IInv, SrvRecord
  PROVE  /\ srvBuffer = Len(log) + 1 /\ srvBuffer \in Records
         /\ Len(log) < produced
<1>1. srvBuffer = index /\ Len(log) + 1 = index
  BY OneElementQueue DEF SrvRecord, IInv, StateOK, ConnectingInv,
     EstablishedInv, DisconnectedInv, LostInv, Quiet, ClientHolds,
     RecordTravels, ReadyTravels, EndTravels
<1>2. index <= produced /\ Len(log) \in Nat
  BY DEF IInv, StateOK, RingInv, Taken
<1> QED
  BY <1>1, <1>2 DEF IInv, StateOK, NULL

LEMMA PrintsStep == ASSUME ByteInv, BytesPart, Prints PROVE BytesPart'
<1>1. IInv /\ SrvRecord
  BY DEF ByteInv, Alive, Prints
<1>2. /\ srvBuffer = Len(log) + 1 /\ srvBuffer \in Records
      /\ log \in Seq(Records)
  BY <1>1, NextRecord DEF IInv, StateOK
<1>3. /\ log' = Append(log, srvBuffer) 
      /\ printed' = Append(printed, Text(srvBuffer))
      /\ UNCHANGED <<text, sizes, srvText, buffer, srvBuffer, toServer>>
  <2>1. CString(srvText) = Text(srvBuffer)
    BY <1>2, CStringOf DEF BytesPart, TextInv, Records, NULL
  <2> QED
    BY <1>1, <2>1 DEF Prints, SrvRecord, sendVars
<1>4. /\ Len(log') = Len(log) + 1 /\ Len(printed') = Len(printed) + 1
      /\ Len(log) \in Nat /\ Len(log') \in 0 .. MaxRecords
      /\ \A i \in 1 .. Len(log) : printed'[i] = printed[i]
      /\ printed'[Len(log) + 1] = Text(Len(log) + 1)
  BY <1>2, <1>3 DEF BytesPart, PrintInv, Records
<1>5. PrintInv'
  <2>1. Len(printed') = Len(log')
    BY <1>4 DEF BytesPart, PrintInv
  <2>2. ASSUME NEW i \in 1 .. Len(log') PROVE printed'[i] = Text(i)
    <3>1. i \in 1 .. Len(log) \/ i = Len(log) + 1
      BY <1>4
    <3> QED
      BY <1>4, <3>1 DEF BytesPart, PrintInv
  <2> QED
    BY <1>4, <2>1, <2>2 DEF PrintInv
<1>6. Text(srvBuffer) \in UNION {[1 .. n -> Bytes] : n \in 0 .. Longest + 1}
  <2>1. Lengths[srvBuffer] \in 0 .. Longest + 1
    BY <1>2, LongestIs DEF Cells
  <2>2. Text(srvBuffer) \in [1 .. Lengths[srvBuffer] -> Bytes]
    BY <1>2 DEF Text, Bytes
  <2> QED
    BY <2>1, <2>2
<1>7. printed' \in Seq(UNION {[1 .. n -> Bytes] : n \in 0 .. Longest + 1})
  BY <1>3, <1>6 DEF BytesPart
<1>8. (TextInv /\ FlightInv)'
  BY <1>3 DEF BytesPart, TextInv, Holds, FlightInv
<1> QED
  BY <1>3, <1>5, <1>7, <1>8 DEF BytesPart

-----------------------------------------------------------------------------
(* The invariant. *)

LEMMA BytesStep == ASSUME ByteInv, BytesPart, BytesNext PROVE BytesPart'
<1>1. CASE Looks \/ Sends \/ Lands \/ Prints
  BY <1>1, LooksStep, SendsStep, LandsStep, PrintsStep
<1>2. CASE ServerGoes
  BY <1>2, BytesKept
     DEF ServerGoes, SrvDisconnected, SrvUnknownEvent, SrvSendFails, ServerEnds,
     sendVars
<1>3. CASE \/ Produces \/ Inserts \/ Terminates \/ WakesSpuriously \/ Exits
           \/ Connects \/ Completes \/ Arrives \/ Accepts \/ Greets \/ Confirms
  BY <1>3, BytesKept
     DEF Produces, Inserts, Terminates, WakesSpuriously, Exits, Connects,
     Completes, Arrives, Accepts, Greets, Confirms, ProduceRecord, Terminate,
     SpuriousWakeup, CmError, InsertAtEnd, SignalRecord, TerminateSignal,
     TerminateWait, TerminateReturn, AddrResolved, RouteResolved, Disconnected,
     OnReady, OnDone, PostReceive, RcDisconnect, SignalDone, ConnectRequest,
     Established, SrvDone, DeliverToClient, byteVars, connVars, sendVars,
     recvVars, netVars, srvVars
<1> QED
  BY <1>1, <1>2, <1>3 DEF BytesNext, ClientStep, ServerStep, ServerGoes

LEMMA ByteInit == BytesInit => ByteInv
<1> SUFFICES ASSUME BytesInit PROVE ByteInv
  OBVIOUS
<1>1. IInv
  BY InitInv DEF BytesInit
<1>2. /\ toServer = <<>> /\ log = <<>> /\ sizes = <<>> /\ printed = <<>>
      /\ buffer = NULL /\ srvBuffer = NULL /\ server = "up" /\ crashed = "no"
  BY DEF BytesInit, Init
<1>3. text \in [Cells -> Bytes] /\ srvText \in [Cells -> Bytes]
  BY DEF BytesInit, Bytes
<1>4. sizes \in Seq(0 .. Longest + 1) /\ Len(sizes) = Len(toServer)
      /\ printed \in Seq(UNION {[1 .. n -> Bytes] : n \in 0 .. Longest + 1})
  BY <1>2
<1>5. TextInv /\ FlightInv
  BY <1>2 DEF TextInv, FlightInv
<1>6. PrintInv
  BY <1>2, BoundsAssumption DEF PrintInv
<1>7. GoneInv /\ ServerSurvives
  BY <1>2 DEF GoneInv, ServerSurvives, Running
<1> QED
  BY <1>1, <1>2, <1>3, <1>4, <1>5, <1>6, <1>7 DEF ByteInv, BytesTypeOK

LEMMA ByteStep == ByteInv /\ [BytesNext]_allVars => ByteInv'
<1> SUFFICES ASSUME ByteInv, [BytesNext]_allVars PROVE ByteInv'
  OBVIOUS
<1>1. BytesPart
  BY DEF ByteInv, BytesTypeOK, BytesPart
<1>2. CASE BytesNext
  <2>1. Alive' => IInv'
    BY <1>2, ThreadsStep
  <2>2. BytesPart'
    BY <1>1, <1>2, BytesStep
  <2>3. GoneInv' /\ ServerSurvives'
    BY <1>2, GoneStep, SurvivesStep
  <2>4. crashed' \in {"no", "nullderef", "cm_error", "exited"}
    BY <1>2, EndOfClient DEF ByteInv, BytesTypeOK
  <2>5. server' \in {"up", "disconnected", "unknown_event", "bad_completion"}
    BY <1>2, Forward DEF ByteInv, BytesTypeOK, ServerGoes, SrvDisconnected,
       SrvUnknownEvent, SrvSendFails, ServerEnds
  <2> QED
    BY <2>1, <2>2, <2>3, <2>4, <2>5 DEF ByteInv, BytesTypeOK, BytesPart
<1>3. CASE UNCHANGED allVars
  <2>1. IInv => IInv'
    BY <1>3, StepInv DEF allVars
  <2>2. UNCHANGED <<appVars, spurious, connVars, crashed, byteVars>>
    BY <1>3 DEF allVars, vars
  <2>3. BytesPart'
    BY <1>1, <2>2, BytesKept DEF byteVars, connVars, sendVars, netVars, srvVars
  <2> QED
    BY <2>1, <2>2, <2>3 DEF ByteInv, BytesTypeOK, BytesPart, Alive, Running,
       GoneInv, ServerSurvives, byteVars, connVars, netVars, srvVars
<1> QED
  BY <1>2, <1>3

\* The inductive invariant holds throughout.
THEOREM BytesInvariance == BytesSpec => []ByteInv
  BY ByteInit, ByteStep, PTL DEF BytesSpec

\* Type correctness of the earlier producer: in particular its client dies in no
\* other way than by a NULL record or an error of the connection manager.
THEOREM BytesTypeCorrect == BytesSpec => []BytesTypeOK
<1>1. ByteInv => BytesTypeOK
  BY DEF ByteInv
<1> QED
  BY <1>1, BytesInvariance, PTL

\* The end of the client's process takes the server with it only after a
\* spurious wakeup, or when the client gives up on a connection that the server
\* has accepted or still accepts.
THEOREM ServerSurvivesClient == BytesSpec => []ServerSurvives
<1>1. ByteInv => ServerSurvives
  BY DEF ByteInv
<1> QED
  BY <1>1, BytesInvariance, PTL

-----------------------------------------------------------------------------
(* What is printed is a topic log. *)

Offered == [p \in {"client"} |-> produced]
Printed == [i \in DOMAIN printed |-> <<"client", RecordOf(printed[i])>>]
Confirmed == IF crashed = "exited" /\ spurious = 0 THEN {"client"} ELSE {}

\* Each string printed is taken for the record it is of.
PrintedInOrder ==
    /\ Len(log) \in Nat
    /\ Printed = [i \in 1 .. Len(log) |-> <<"client", i>>]

LEMMA PrintedIs == ByteInv => PrintedInOrder
<1> SUFFICES ASSUME ByteInv PROVE PrintedInOrder
  OBVIOUS
<1>1. Len(log) \in Nat /\ DOMAIN printed = 1 .. Len(log)
  BY DEF ByteInv, BytesTypeOK, PrintInv
<1>2. ASSUME NEW i \in 1 .. Len(log) PROVE RecordOf(printed[i]) = i
  <2>1. i \in Records /\ printed[i] = Text(i)
    BY <1>1, BoundsAssumption DEF ByteInv, PrintInv, Records
  <2> QED
    BY <2>1, RecordOfText
<1> QED
  BY <1>1, <1>2 DEF Printed, PrintedInOrder

\* The topic's count is that of the lines.
LEMMA PrintedCount ==
  ASSUME ByteInv
  PROVE  Topic!InTopic("client") = Len(log)
<1>1. /\ Len(log) \in Nat
      /\ Printed = [i \in 1 .. Len(log) |-> <<"client", i>>]
  BY PrintedIs DEF PrintedInOrder
<1>2. {i \in DOMAIN Printed : Printed[i][1] = "client"} = 1 .. Len(log)
  BY <1>1
<1>3. Cardinality(1 .. Len(log)) = Len(log)
  <2>1. 1 \in Int /\ Len(log) \in Int
    BY <1>1
  <2>2. Cardinality(1 .. Len(log)) =
           IF 1 > Len(log) THEN 0 ELSE Len(log) - 1 + 1
    BY <2>1, FS_Interval
  <2> QED
    BY <1>1, <2>2
<1>4. Topic!InTopic("client") =
         Cardinality({i \in DOMAIN Printed : Printed[i][1] = "client"})
  BY DEF Topic!InTopic, Printed, Cardinality, Topic!Cardinality
<1> QED
  BY <1>2, <1>3, <1>4

LEMMA PrintedInit == BytesInit => Topic!Init
  BY DEF BytesInit, Init, Topic!Init

\* A step of the earlier producer is a step of the topic or none.
LEMMA PrintedStep ==
  ASSUME ByteInv, ByteInv', [BytesNext]_allVars
  PROVE  [Topic!Next]_<<Offered, Printed, Confirmed>>
<1>1. CASE BytesNext /\ Inserts
  <2>1. produced' = produced + 1 /\ UNCHANGED <<crashed, spurious, printed>>
    BY <1>1 DEF Inserts, InsertAtEnd, byteVars
  <2>2. Confirmed = {}
    BY <1>1 DEF Inserts, InsertAtEnd, Running, Confirmed
  <2>3. Offered' = [Offered EXCEPT !["client"] = @ + 1]
    BY <2>1 DEF Offered
  <2>4. UNCHANGED <<Printed, Confirmed>>
    BY <2>1 DEF Printed, Confirmed
  <2>5. Topic!Offer("client")
    BY <2>2, <2>3, <2>4 DEF Topic!Offer, Offered, Printed, Confirmed
  <2> QED
    BY <2>5 DEF Topic!Next
<1>2. CASE Prints
  <2>1. /\ UNCHANGED <<produced, crashed, spurious>>
        /\ log' = Append(log, srvBuffer) /\ Len(log) < produced
    BY <1>2, NextRecord DEF Prints, SrvRecord, ByteInv, Alive, appVars
  <2>2. /\ Len(log') \in Nat /\ Len(log) \in Nat
        /\ Printed = [i \in 1 .. Len(log) |-> <<"client", i>>]
        /\ Printed' = [i \in 1 .. Len(log') |-> <<"client", i>>]
    <3>1. PrintedInOrder /\ PrintedInOrder'
      BY PrintedIs, PTL
    <3> QED
      BY <3>1 DEF PrintedInOrder
  <2>3. Len(log') = Len(log) + 1
    BY <1>2, <2>1 DEF ByteInv, Alive, Prints, IInv, StateOK
  <2>4. Printed' = Append(Printed, <<"client", Len(log) + 1>>)
    BY <2>2, <2>3
  <2>5. Topic!Store("client")
    BY <2>1, <2>4, PrintedCount
       DEF Topic!Store, Offered, Printed, Confirmed
  <2> QED
    BY <2>5 DEF Topic!Next
<1>3. CASE Exits
  <2>1. UNCHANGED <<produced, printed, spurious>> /\ crashed' = "exited"
    BY <1>3 DEF Exits, appVars, byteVars
  <2>2. Running /\ IInv /\ app = "returned"
    BY <1>3 DEF Exits, ByteInv, Alive
  <2>3. CASE spurious = 0
    <3>1. Len(log) = produced
      <4>1. produced <= BACKLOG
        BY <2>2, LengthsAssumption, BacklogAssumption, BoundsAssumption
           DEF IInv, StateOK
      <4> QED
        BY <2>2, <2>3, <4>1 DEF IInv, StateOK, WokenInv, DisconnectedInv,
           Finished
    <3>2. Confirmed = {} /\ Confirmed' = {"client"}
      BY <2>1, <2>2, <2>3 DEF Confirmed, Running
    <3>3. UNCHANGED <<Offered, Printed>>
      BY <2>1 DEF Offered, Printed
    <3>4. Topic!Confirm("client")
      BY <3>1, <3>2, <3>3, PrintedCount
         DEF Topic!Confirm, Offered, Printed, Confirmed
    <3> QED
      BY <3>4 DEF Topic!Next
  <2>4. CASE spurious # 0
    BY <2>1, <2>2, <2>4 DEF Offered, Printed, Confirmed, Running
  <2> QED
    BY <2>3, <2>4
<1>4. CASE BytesNext /\ ~(Inserts \/ Prints \/ Exits)
  <2>1. UNCHANGED <<produced, printed>>
    BY <1>4 DEF BytesNext, ClientStep, ServerStep, Produces, Terminates,
       WakesSpuriously, Connects, Completes, Looks, Sends, Accepts, Greets,
       Confirms, SrvDisconnected, SrvUnknownEvent, SrvSendFails, ServerEnds,
       Arrives, Lands, ProduceRecord, Terminate, SpuriousWakeup, CmError,
       SignalRecord, TerminateSignal, TerminateWait, TerminateReturn,
       AddrResolved, RouteResolved, Disconnected, OnReady, OnDone, Wait,
       LookAtHead, LookAgain, RdmaSend, PostReceive, RcDisconnect, SignalDone,
       ConnectRequest, Established, SrvDone, DeliverToClient, DeliverToServer,
       byteVars, appVars
  <2>2. UNCHANGED Confirmed
    <3>1. ~Running => UNCHANGED <<crashed, spurious>>
      BY <1>4, WithoutClient DEF Accepts, ConnectRequest, Confirms, SrvDone,
         ServerGoes, SrvDisconnected, SrvUnknownEvent, SrvSendFails, ServerEnds,
         appVars
    <3>2. Running => crashed' # "exited"
      BY <1>4, EndOfClient DEF Running
    <3> QED
      BY <3>1, <3>2 DEF Confirmed, Running
  <2> QED
    BY <2>1, <2>2 DEF Offered, Printed
<1>5. CASE UNCHANGED allVars
  BY <1>5 DEF allVars, vars, appVars, byteVars, Offered, Printed, Confirmed
<1> QED
  BY <1>1, <1>2, <1>3, <1>4, <1>5

\* The server prints every record as it was produced, once and in order, whatever
\* lengths they have; and when main has returned all of them, unless a wakeup was
\* spurious.
THEOREM EarlierProducerImplementsTopic == BytesSpec => ImplementsTopic
<1>1. [Topic!Next]_<<Offered, Printed, Confirmed>> =>
      [Topic!Next]_<<[p \in {"client"} |-> produced],
         [i \in DOMAIN printed |-> <<"client", RecordOf(printed[i])>>],
         IF crashed = "exited" /\ spurious = 0 THEN {"client"} ELSE {}>>
  BY DEF Offered, Printed, Confirmed
<1> QED
  BY PrintedInit, PrintedStep, <1>1, BytesInvariance, PTL
     DEF BytesSpec, ImplementsTopic, Topic!Spec
=============================================================================
