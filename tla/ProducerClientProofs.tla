------------------------- MODULE ProducerClientProofs -------------------------
(* Theorems about ProducerClient, for every ring size and every bound.  The    *)
(* inductive invariant says where the single READY/DONE token of a connection  *)
(* is and what each place of it implies for the ring, the buffers and the log. *)
EXTENDS ProducerClient, TLAPS

Working == {"lock", "checked", "waiting", "woken", "send"}
Terminating == {"termsignal", "termlock", "termwaiting", "termwoken",
                "returned"}

\* No message, write or completion is anywhere between the two ends.
Quiet == /\ toServer = <<>> /\ toClient = <<>> /\ srvCq = <<>> /\ cq = 0

\* The stream has been ended, and rightly so.
Finished == /\ shouldDisconnect
            /\ Len(log) = index
            /\ produced <= BACKLOG => index = produced

\* The application's flag and its program counter agree, and a record about to
\* be inserted is within the bound.
AppInv == /\ shouldDisconnect <=> app \in Terminating
          /\ app = "insert" => produced < MaxRecords

\* From the cursor on, the ring holds the records not yet taken.  (Below it, a
\* slot may hold a record of the second lap, which is never looked at.)
RingInv ==
    /\ Taken <= produced /\ Taken <= BACKLOG
    /\ \A s \in Slots : s >= Taken =>
          records[s] = IF s < produced THEN s + 1 ELSE NULL
    /\ Running /\ produced <= BACKLOG => head = produced - 1

\* Before the connection is established nothing has been sent.
ConnectingInv ==
    conn \in {"resolving", "routing", "connecting", "accepted"} =>
        /\ Quiet /\ poller = "idle" /\ index = 0 /\ log = <<>> /\ msg = "none"
        /\ posted = IF conn = "resolving" THEN 0 ELSE 1
        /\ srvPosted = IF conn = "accepted" THEN 1 ELSE 0

\* The client holds the token: it has been told READY, or DONE.
ClientHolds ==
    /\ toServer = <<>> /\ toClient = <<>> /\ srvCq = <<>>
    /\ Len(log) = index
    /\ \/ poller \in Working /\ msg = "READY" /\ cq = 0 /\ srvPosted = 1
       \/ poller = "idle" /\ msg = "READY" /\ cq = 1 /\ srvPosted = 1
       \/ poller = "idle" /\ msg = "DONE" /\ cq = 1 /\ srvPosted = 0 /\ Finished
       \/ poller = "disconnect" /\ msg = "DONE" /\ cq = 0 /\ srvPosted = 0
          /\ Finished

\* A record is on its way to the log.
RecordTravels ==
    /\ poller \in {"idle", "post"} /\ cq = 0 /\ toClient = <<>>
    /\ Len(log) + 1 = index /\ msg = "READY"
    /\ \/ toServer = <<1>> /\ srvCq = <<>> /\ srvPosted = 1 /\ buffer = index
       \/ toServer = <<>> /\ srvCq = <<1>> /\ srvPosted = 0 /\ srvBuffer = index

\* READY is on its way to the client.
ReadyTravels ==
    /\ poller \in {"idle", "post"} /\ cq = 0 /\ toClient = <<"READY">>
    /\ toServer = <<>> /\ srvCq = <<>> /\ srvPosted = 1
    /\ Len(log) = index /\ msg # "DONE"

\* The end of the stream, or the answer DONE, is on its way.
EndTravels ==
    /\ poller \in {"idle", "post"} /\ cq = 0 /\ Finished /\ msg = "READY"
    /\ \/ /\ toServer = <<0>> /\ srvCq = <<>> /\ toClient = <<>>
          /\ srvPosted = 1
       \/ /\ toServer = <<>> /\ srvCq = <<0>> /\ toClient = <<>>
          /\ srvPosted = 0
       \/ /\ toServer = <<>> /\ srvCq = <<>> /\ toClient = <<"DONE">>
          /\ srvPosted = 0

EstablishedInv ==
    conn = "established" =>
        /\ posted = IF poller = "idle" /\ cq = 0 THEN 1 ELSE 0
        /\ ClientHolds \/ RecordTravels \/ ReadyTravels \/ EndTravels

\* The broker has gone: what the poller had been told by then, and what it does
\* with it, is all that still happens.
LostInv ==
    conn \in {"lost", "orphaned"} =>
        /\ toClient = <<>> /\ srvCq = <<>> /\ srvPosted = 0
        /\ posted = IF conn = "lost" /\ poller = "idle" /\ cq = 0 THEN 1 ELSE 0
        /\ conn = "orphaned" => cq = 0
        /\ \/ /\ toServer = <<>> /\ msg = "READY" /\ Len(log) = index
              /\ \/ poller \in Working /\ cq = 0
                 \/ poller = "idle" /\ cq \in {0, 1}
           \/ /\ toServer = <<>> /\ msg = "DONE" /\ Finished
              /\ \/ poller = "idle" /\ cq \in {0, 1}
                 \/ poller = "disconnect" /\ cq = 0
           \/ /\ poller \in {"idle", "post"} /\ cq = 0 /\ msg # "DONE"
              /\ toServer \in {<<>>, <<1>>} \/ (toServer = <<0>> /\ Finished)

\* After rc_disconnect nothing is left to do on the connection.
DisconnectedInv ==
    conn \in {"disconnecting", "closed"} =>
        /\ Quiet /\ posted = 0 /\ srvPosted = 0 /\ msg = "DONE"
        /\ poller \in {"idle", "signaldone"} /\ Finished

\* What was serialized last is the record at the cursor.
CursorInv == poller = "send" => buffer = index + 1

\* Only the signal after DONE, or a spurious wakeup, wakes the application.
WokenInv ==
    app \in {"termwoken", "returned"} /\ spurious = 0 =>
        conn \in {"disconnecting", "closed"}

IInv ==
    /\ StateOK /\ AppInv /\ RingInv /\ ConnectingInv /\ EstablishedInv
    /\ LostInv /\ DisconnectedInv /\ CursorInv /\ WokenInv
    /\ InOrderDelivery /\ crashed # "flush"

-----------------------------------------------------------------------------
(* Facts about the operators. *)

\* The remainder by the ring size is a slot.
LEMMA ModSlot == \A a \in Int : a % BACKLOG \in Slots
  BY BacklogAssumption DEF Slots

\* Within the first lap the remainder changes nothing.
LEMMA ModSmall == \A a \in Slots : a % BACKLOG = a
  BY BacklogAssumption DEF Slots

\* Queues of one element, all that the handshake ever needs.
LEMMA OneElementQueue ==
  \A x : /\ Append(<<>>, x) = <<x>> /\ Head(<<x>>) = x /\ Tail(<<x>>) = <<>>
         /\ <<x>> # <<>>
  OBVIOUS

\* A queue of one element has that element's type.
LEMMA OneElementType ==
  /\ \A x \in {0, 1} : <<x>> \in Seq({0, 1})
  /\ \A x \in {"READY", "DONE"} : <<x>> \in Seq({"READY", "DONE"})
  /\ <<>> \in Seq({0, 1}) /\ <<>> \in Seq({"READY", "DONE"})
  OBVIOUS

LEMMA NextHeadSlot == IInv => NextHead \in Slots
<1> SUFFICES ASSUME IInv PROVE NextHead \in Slots
  OBVIOUS
<1>1. head + 1 \in Int
  BY BacklogAssumption DEF IInv, StateOK, Slots
<1> QED
  BY <1>1, ModSlot DEF NextHead

-----------------------------------------------------------------------------
(* The steps that move records or the token, one lemma each. *)

LEMMA InsertAtEndStep == ASSUME IInv, InsertAtEnd PROVE IInv'
<1>1. NextHead \in Slots
  BY NextHeadSlot
<1>2. produced < BACKLOG => NextHead = produced
  <2> SUFFICES ASSUME produced < BACKLOG PROVE NextHead = produced
    OBVIOUS
  <2>1. head + 1 = produced /\ produced \in Slots
    BY BacklogAssumption DEF InsertAtEnd, IInv, StateOK, RingInv, Slots
  <2> QED
    BY <2>1, ModSmall DEF NextHead
<1>3. produced >= BACKLOG => NextHead < Taken
  BY <1>1, BacklogAssumption
     DEF InsertAtEnd, SlotFree, IInv, StateOK, RingInv, Slots, NULL, Taken
<1>4. produced < MaxRecords
  BY DEF InsertAtEnd, IInv, AppInv
<1> HIDE DEF NextHead
<1> USE BacklogAssumption, BoundsAssumption DEF InsertAtEnd, SlotFree, IInv,
      StateOK, RingInv, Slots, Records, NULL, Running, Taken
<1>5. StateOK'
  BY <1>1, <1>4 DEF ringVars, sendVars, recvVars, netVars, srvVars, connVars
<1>6. RingInv'
  BY <1>1, <1>2, <1>3 DEF connVars, sendVars
<1>7. ~shouldDisconnect
  BY DEF AppInv, Terminating
<1>8. (AppInv /\ ConnectingInv /\ EstablishedInv /\ LostInv /\ DisconnectedInv)'
  BY <1>7 DEF AppInv, Terminating, ConnectingInv, EstablishedInv, Quiet,
     DisconnectedInv, LostInv, ClientHolds, RecordTravels, ReadyTravels,
     EndTravels, Finished, sendVars, recvVars, netVars, srvVars, connVars
<1>9. (CursorInv /\ WokenInv /\ InOrderDelivery /\ crashed # "flush")'
  BY DEF CursorInv, WokenInv, InOrderDelivery, connVars, sendVars, netVars,
     srvVars
<1> QED
  BY <1>5, <1>6, <1>8, <1>9

LEMMA InsertOverflowsStep == ASSUME IInv, InsertOverflows PROVE IInv'
<1> USE DEF InsertOverflows, IInv, appVars, sendVars, recvVars, netVars,
      srvVars, connVars
<1>1. NextHead \in Slots
  BY NextHeadSlot
<1>2. (StateOK /\ RingInv)'
  BY <1>1, BacklogAssumption DEF StateOK, RingInv, Running, Taken
<1>3. (AppInv /\ ConnectingInv /\ EstablishedInv /\ LostInv /\ DisconnectedInv)'
  BY DEF AppInv, ConnectingInv, EstablishedInv, Quiet, DisconnectedInv, LostInv,
     ClientHolds, RecordTravels, ReadyTravels, EndTravels, Finished
<1>4. (CursorInv /\ WokenInv /\ InOrderDelivery /\ crashed # "flush")'
  BY DEF CursorInv, WokenInv, InOrderDelivery
<1> QED
  BY <1>2, <1>3, <1>4

\* While the poller works on a record it holds the token.
LEMMA WorkingHolds ==
  ASSUME IInv, poller \in Working
  PROVE  /\ conn \in {"established", "lost", "orphaned"}
         /\ Quiet /\ msg = "READY" /\ Len(log) = index /\ posted = 0
         /\ srvPosted = IF conn = "established" THEN 1 ELSE 0
<1>1. conn \in {"established", "lost", "orphaned"}
  BY DEF IInv, StateOK, Working, ConnectingInv, DisconnectedInv, LostInv
<1>2. CASE conn = "established"
  <2>1. ClientHolds
    BY <1>2 DEF IInv, Working, EstablishedInv, RecordTravels, ReadyTravels,
       EndTravels
  <2> QED
    BY <1>2, <2>1 DEF IInv, Working, EstablishedInv, ClientHolds, Quiet
<1>3. CASE conn \in {"lost", "orphaned"}
  BY <1>3 DEF IInv, Working, LostInv, Quiet
<1> QED
  BY <1>1, <1>2, <1>3

\* What send_producer_record leaves alone before it sends.
LookUnchanged == UNCHANGED <<appVars, spurious, head, index, recvVars, conn,
                             toClient, srvVars>>
Looking == poller \in {"lock", "woken"} /\ Running

LEMMA SerializeStep ==
  ASSUME IInv, Looking, LookUnchanged, NEW h \in SlotValues, Serialize(h)
  PROVE  IInv'
<1> USE BacklogAssumption DEF Looking, LookUnchanged, Serialize, appVars,
      recvVars, srvVars
<1>1. /\ conn \in {"established", "lost", "orphaned"}
      /\ Quiet /\ msg = "READY" /\ Len(log) = index /\ posted = 0
      /\ srvPosted = IF conn = "established" THEN 1 ELSE 0
  BY WorkingHolds DEF Working
<1>2. index \in Slots /\ h = records[index]
  BY DEF IInv, StateOK, SlotValues, Slots, NULL, Wild
<1>3. index < produced /\ h = index + 1 /\ h \in Records
  BY <1>2 DEF IInv, StateOK, RingInv, Taken, Slots, NULL, Records
<1>4. StateOK'
  BY <1>2, <1>3 DEF IInv, StateOK, Slots, NULL
<1>5. RingInv'
  BY <1>2, <1>3 DEF IInv, StateOK, RingInv, Taken, Running, Slots
<1>6. (EstablishedInv /\ LostInv)'
  BY <1>1 DEF EstablishedInv, LostInv, ClientHolds, Quiet, Working
<1>7. (AppInv /\ ConnectingInv /\ DisconnectedInv /\ CursorInv /\ WokenInv)'
  BY <1>1, <1>3 DEF IInv, AppInv, ConnectingInv, DisconnectedInv, LostInv,
     CursorInv, WokenInv
<1>8. (InOrderDelivery /\ crashed # "flush")'
  BY DEF IInv, InOrderDelivery
<1> QED
  BY <1>4, <1>5, <1>6, <1>7, <1>8 DEF IInv

LEMMA SendDoneStep ==
  ASSUME IInv, Looking, LookUnchanged, NULL \in SlotValues, SendDone
  PROVE  IInv'
<1> USE BacklogAssumption DEF Looking, LookUnchanged, SendDone, appVars,
      recvVars, srvVars
<1>1. /\ conn \in {"established", "lost", "orphaned"}
      /\ Quiet /\ msg = "READY" /\ Len(log) = index /\ posted = 0
      /\ srvPosted = IF conn = "established" THEN 1 ELSE 0
  BY WorkingHolds DEF Working
<1>2. index >= BACKLOG \/ index >= produced
  BY DEF IInv, StateOK, RingInv, Taken, SlotValues, Slots, NULL
<1>3. Finished'
  BY <1>1, <1>2 DEF IInv, StateOK, Finished, RingInv, Taken
<1>4. toServer' = <<0>>
  BY <1>1, OneElementQueue DEF Quiet
<1>5. StateOK'
  BY <1>4, OneElementType DEF IInv, StateOK
<1>6. RingInv'
  BY DEF IInv, RingInv, Taken, Running
<1>7. (EstablishedInv /\ LostInv)'
  BY <1>1, <1>3, <1>4 DEF EstablishedInv, LostInv, EndTravels, Quiet
<1>8. (AppInv /\ ConnectingInv /\ DisconnectedInv /\ CursorInv /\ WokenInv)'
  BY <1>1 DEF IInv, AppInv, ConnectingInv, DisconnectedInv, LostInv, CursorInv,
     WokenInv
<1>9. (InOrderDelivery /\ crashed # "flush")'
  BY DEF IInv, InOrderDelivery
<1> QED
  BY <1>5, <1>6, <1>7, <1>8, <1>9 DEF IInv

LEMMA DereferenceStep ==
  ASSUME IInv, Looking, LookUnchanged, NEW how \in {"wild", "nullderef"},
         Dereference(how)
  PROVE  IInv'
<1> USE DEF IInv, Looking, LookUnchanged, Dereference, appVars, recvVars,
      srvVars
<1>1. (StateOK /\ RingInv /\ AppInv)'
  BY DEF StateOK, RingInv, AppInv, Taken, Running
<1>2. (ConnectingInv /\ EstablishedInv /\ LostInv /\ DisconnectedInv)'
  BY DEF ConnectingInv, EstablishedInv, DisconnectedInv, LostInv, Quiet,
     ClientHolds, RecordTravels, ReadyTravels, EndTravels, Finished
<1>3. (CursorInv /\ WokenInv /\ InOrderDelivery /\ crashed # "flush")'
  BY DEF CursorInv, WokenInv, InOrderDelivery
<1> QED
  BY <1>1, <1>2, <1>3

LEMMA LookAtHeadStep == ASSUME IInv, LookAtHead PROVE IInv'
<1> USE DEF LookAtHead
<1>1. Looking /\ LookUnchanged
  BY DEF Looking, LookUnchanged
<1>2. PICK h \in SlotValues :
         \/ Serialize(h)
         \/ h = Wild /\ Dereference("wild")
         \/ h = NULL /\ SendDone
         \/ /\ h = NULL /\ ~shouldDisconnect
            /\ mutex' = "poller"
            /\ poller' = "checked"
            /\ UNCHANGED <<records, buffer, toServer, crashed>>
  OBVIOUS
<1>3. CASE Serialize(h)
  BY <1>1, <1>3, SerializeStep
<1>4. CASE Dereference("wild")
  BY <1>1, <1>4, DereferenceStep
<1>5. CASE h = NULL /\ SendDone
  BY <1>1, <1>5, SendDoneStep
<1>6. CASE /\ mutex' = "poller" /\ poller' = "checked"
           /\ UNCHANGED <<records, buffer, toServer, crashed>>
  <2> USE <1>6 DEF appVars, recvVars, srvVars
  <2>1. /\ conn \in {"established", "lost", "orphaned"}
        /\ Quiet /\ msg = "READY" /\ Len(log) = index /\ posted = 0
        /\ srvPosted = IF conn = "established" THEN 1 ELSE 0
    BY WorkingHolds DEF Working
  <2>2. (StateOK /\ RingInv /\ AppInv)'
    BY DEF IInv, StateOK, RingInv, AppInv, Taken, Running
  <2>3. (ConnectingInv /\ EstablishedInv /\ LostInv /\ DisconnectedInv)'
    BY <2>1 DEF ConnectingInv, EstablishedInv, DisconnectedInv, LostInv,
       ClientHolds, Quiet, Working
  <2>4. (CursorInv /\ WokenInv /\ InOrderDelivery /\ crashed # "flush")'
    BY DEF IInv, CursorInv, WokenInv, InOrderDelivery
  <2> QED
    BY <2>2, <2>3, <2>4 DEF IInv
<1> QED
  BY <1>2, <1>3, <1>4, <1>5, <1>6

LEMMA LookAgainStep == ASSUME IInv, LookAgain PROVE IInv'
<1>1. Looking /\ LookUnchanged
  BY DEF LookAgain, Looking, LookUnchanged
<1>2. PICK h \in SlotValues :
         \/ Serialize(h)
         \/ h = Wild /\ Dereference("wild")
         \/ h = NULL /\ SendDone
         \/ h = NULL /\ ~shouldDisconnect /\ Dereference("nullderef")
  BY DEF LookAgain
<1>3. CASE Serialize(h)
  BY <1>1, <1>3, SerializeStep
<1>4. CASE Dereference("wild") \/ Dereference("nullderef")
  BY <1>1, <1>4, DereferenceStep
<1>5. CASE h = NULL /\ SendDone
  BY <1>1, <1>5, SendDoneStep
<1> QED
  BY <1>2, <1>3, <1>4, <1>5

LEMMA RdmaSendStep == ASSUME IInv, RdmaSend PROVE IInv'
<1> USE DEF RdmaSend, appVars, ringVars, recvVars, srvVars
<1>1. /\ conn \in {"established", "lost", "orphaned"}
      /\ Quiet /\ msg = "READY" /\ Len(log) = index /\ posted = 0
      /\ srvPosted = IF conn = "established" THEN 1 ELSE 0
  BY WorkingHolds DEF Working
<1>2. toServer' = <<1>>
  BY <1>1, OneElementQueue DEF Quiet
<1>3. StateOK'
  BY <1>2, OneElementType, BacklogAssumption DEF IInv, StateOK, RingInv, Taken
<1>4. RingInv'
  BY DEF IInv, StateOK, RingInv, Taken, Running
<1>5. (EstablishedInv /\ LostInv)'
  BY <1>1, <1>2 DEF IInv, StateOK, CursorInv, EstablishedInv, LostInv,
     RecordTravels, Quiet
<1>6. (AppInv /\ ConnectingInv /\ DisconnectedInv /\ CursorInv /\ WokenInv)'
  BY <1>1 DEF IInv, AppInv, ConnectingInv, DisconnectedInv, LostInv, CursorInv,
     WokenInv
<1>7. (InOrderDelivery /\ crashed # "flush")'
  BY DEF IInv, InOrderDelivery
<1> QED
  BY <1>3, <1>4, <1>5, <1>6, <1>7 DEF IInv

\* A broker's completion of a record finds the record in its buffer.
LEMMA SrvRecordStep == ASSUME IInv, SrvRecord PROVE IInv'
<1> USE DEF SrvRecord, appVars, ringVars, sendVars, recvVars
<1>1. /\ conn = "established" /\ toServer = <<>> /\ srvCq = <<1>>
      /\ toClient = <<>> /\ srvPosted = 0 /\ srvBuffer = index
      /\ Len(log) + 1 = index /\ cq = 0 /\ msg = "READY"
      /\ poller \in {"idle", "post"}
      /\ posted = IF poller = "idle" THEN 1 ELSE 0
  BY OneElementQueue DEF IInv, StateOK, ConnectingInv, EstablishedInv,
     DisconnectedInv, LostInv, Quiet, ClientHolds, RecordTravels, ReadyTravels,
     EndTravels
<1>2. toClient' = <<"READY">> /\ srvCq' = <<>> /\ srvPosted' = 1
  BY <1>1, OneElementQueue
<1>3. index \in Records
  BY <1>1 DEF IInv, StateOK, RingInv, Taken, Records, NULL
<1>4. Len(log') = index /\ log' \in Seq(Records) /\ InOrderDelivery'
  BY <1>1, <1>3 DEF IInv, StateOK, InOrderDelivery
<1>5. StateOK'
  BY <1>2, <1>4, OneElementType DEF IInv, StateOK
<1>6. (RingInv /\ AppInv /\ CursorInv /\ WokenInv /\ crashed # "flush")'
  BY DEF IInv, RingInv, AppInv, CursorInv, WokenInv, Taken, Running
<1>7. (EstablishedInv /\ LostInv)'
  BY <1>1, <1>2, <1>4 DEF EstablishedInv, LostInv, ReadyTravels
<1>8. (ConnectingInv /\ DisconnectedInv)'
  BY <1>1 DEF ConnectingInv, DisconnectedInv, LostInv
<1> QED
  BY <1>4, <1>5, <1>6, <1>7, <1>8 DEF IInv

LEMMA SrvDoneStep == ASSUME IInv, SrvDone PROVE IInv'
<1> USE DEF SrvDone, appVars, ringVars, sendVars, recvVars
<1>1. /\ conn = "established" /\ toServer = <<>> /\ srvCq = <<0>>
      /\ toClient = <<>> /\ srvPosted = 0 /\ Finished /\ cq = 0
      /\ msg = "READY" /\ poller \in {"idle", "post"}
      /\ posted = IF poller = "idle" THEN 1 ELSE 0
  BY OneElementQueue DEF IInv, StateOK, ConnectingInv, EstablishedInv,
     DisconnectedInv, LostInv, Quiet, ClientHolds, RecordTravels, ReadyTravels,
     EndTravels
<1>2. toClient' = <<"DONE">> /\ srvCq' = <<>>
  BY <1>1, OneElementQueue
<1>3. StateOK'
  BY <1>2, OneElementType DEF IInv, StateOK
<1>4. (RingInv /\ AppInv /\ CursorInv /\ WokenInv /\ crashed # "flush")'
  BY DEF IInv, RingInv, AppInv, CursorInv, WokenInv, Taken, Running
<1>5. (EstablishedInv /\ LostInv)'
  BY <1>1, <1>2 DEF EstablishedInv, LostInv, EndTravels, Finished
<1>6. (ConnectingInv /\ DisconnectedInv /\ InOrderDelivery)'
  BY <1>1 DEF IInv, ConnectingInv, DisconnectedInv, LostInv, InOrderDelivery
<1> QED
  BY <1>3, <1>4, <1>5, <1>6 DEF IInv

\* A posted receive means the poller is idle with nothing to poll.
LEMMA DeliverToClientStep == ASSUME IInv, DeliverToClient PROVE IInv'
<1> USE DEF DeliverToClient, appVars, ringVars, sendVars, srvVars
<1>1. /\ toServer = <<>> /\ srvCq = <<>> /\ cq = 0 /\ poller = "idle"
      /\ posted = 1 /\ Len(log) = index
      /\ \/ toClient = <<"READY">> /\ srvPosted = 1
         \/ toClient = <<"DONE">> /\ srvPosted = 0 /\ Finished
  BY DEF IInv, StateOK, EstablishedInv, ClientHolds, RecordTravels,
     ReadyTravels, EndTravels, Finished
<1>2. /\ toClient' = <<>> /\ cq' = 1 /\ posted' = 0
      /\ \/ msg' = "READY" /\ srvPosted = 1
         \/ msg' = "DONE" /\ srvPosted = 0 /\ Finished
  <2>1. cq' = 1 /\ posted' = 0
    BY <1>1
  <2>2. toClient' = <<>> /\ toClient = <<msg'>>
    BY <1>1, OneElementQueue, Zenon
  <2> QED
    BY <1>1, <2>1, <2>2
<1>3. StateOK'
  BY <1>2, OneElementType DEF IInv, StateOK
<1>4. (RingInv /\ AppInv /\ CursorInv /\ WokenInv /\ crashed # "flush")'
  BY DEF IInv, RingInv, AppInv, CursorInv, WokenInv, Taken, Running
<1>5. (EstablishedInv /\ LostInv)'
  BY <1>1, <1>2 DEF EstablishedInv, LostInv, ClientHolds, Finished
<1>6. (ConnectingInv /\ DisconnectedInv /\ InOrderDelivery)'
  BY DEF IInv, ConnectingInv, DisconnectedInv, LostInv, InOrderDelivery
<1> QED
  BY <1>3, <1>4, <1>5, <1>6 DEF IInv

LEMMA DeliverToServerStep == ASSUME IInv, DeliverToServer PROVE IInv'
<1> USE DEF DeliverToServer, appVars, ringVars, sendVars, recvVars
<1>1. /\ toClient = <<>> /\ srvCq = <<>> /\ cq = 0 /\ srvPosted = 1
      /\ poller \in {"idle", "post"} /\ msg = "READY"
      /\ posted = IF poller = "idle" THEN 1 ELSE 0
      /\ \/ toServer = <<1>> /\ buffer = index /\ Len(log) + 1 = index
         \/ toServer = <<0>> /\ Finished
  BY DEF IInv, StateOK, EstablishedInv, ClientHolds, RecordTravels,
     ReadyTravels, EndTravels, Finished
<1>2. /\ toServer' = <<>> /\ srvPosted' = 0
      /\ \/ srvCq' = <<1>> /\ srvBuffer' = index /\ Len(log) + 1 = index
         \/ srvCq' = <<0>> /\ Finished
  <2>1. CASE toServer = <<1>> /\ buffer = index /\ Len(log) + 1 = index
    BY <1>1, <2>1, OneElementQueue
  <2>2. CASE toServer = <<0>> /\ Finished
    BY <1>1, <2>2, OneElementQueue
  <2> QED
    BY <1>1, <2>1, <2>2
<1>3. StateOK'
  BY <1>1, <1>2, OneElementType DEF IInv, StateOK
<1>4. (RingInv /\ AppInv /\ CursorInv /\ WokenInv /\ crashed # "flush")'
  BY DEF IInv, RingInv, AppInv, CursorInv, WokenInv, Taken, Running
<1>5. (EstablishedInv /\ LostInv)'
  BY <1>1, <1>2 DEF EstablishedInv, LostInv, RecordTravels, EndTravels, Finished
<1>6. (ConnectingInv /\ DisconnectedInv /\ InOrderDelivery)'
  BY DEF IInv, ConnectingInv, DisconnectedInv, LostInv, InOrderDelivery
<1> QED
  BY <1>3, <1>4, <1>5, <1>6 DEF IInv

-----------------------------------------------------------------------------
(* The invariant. *)

LEMMA InitInv == Init => IInv
<1> SUFFICES ASSUME Init PROVE IInv
  OBVIOUS
<1> USE DEF Init
<1>1. StateOK
  <2>1. records \in [Slots -> {NULL} \cup Records]
    OBVIOUS
  <2>2. log \in Seq(Records)
    OBVIOUS
  <2>3. toServer \in Seq({0, 1}) /\ toClient \in Seq({"READY", "DONE"})
        /\ srvCq \in Seq({0, 1})
    BY OneElementType
  <2>4. /\ produced \in 0 .. MaxRecords /\ spurious \in 0 .. MaxSpurious
        /\ index \in 0 .. BACKLOG /\ posted \in Nat /\ cq \in Nat
        /\ srvPosted \in Nat
    BY BacklogAssumption, BoundsAssumption
  <2> QED
    BY <2>1, <2>2, <2>3, <2>4, Zenon DEF StateOK
<1>2. AppInv /\ CursorInv /\ WokenInv /\ crashed # "flush"
  BY DEF AppInv, Terminating, CursorInv, WokenInv
<1>3. RingInv
  BY BacklogAssumption DEF RingInv, Taken, Slots, NULL
<1>4. /\ ConnectingInv /\ EstablishedInv /\ LostInv /\ DisconnectedInv
      /\ InOrderDelivery
  BY DEF ConnectingInv, EstablishedInv, DisconnectedInv, LostInv,
     InOrderDelivery, Quiet
<1> QED
  BY <1>1, <1>2, <1>3, <1>4 DEF IInv

LEMMA StepInv == IInv /\ [Next]_vars => IInv'
<1> SUFFICES ASSUME IInv, [Next]_vars PROVE IInv'
  OBVIOUS
<1>lemmas. CASE \/ InsertAtEnd \/ InsertOverflows \/ LookAtHead \/ LookAgain
               \/ RdmaSend \/ SrvRecord \/ SrvDone \/ DeliverToClient
               \/ DeliverToServer
  BY <1>lemmas, InsertAtEndStep, InsertOverflowsStep, LookAtHeadStep,
     LookAgainStep, RdmaSendStep, SrvRecordStep, SrvDoneStep,
     DeliverToClientStep, DeliverToServerStep
<1> USE BacklogAssumption, BoundsAssumption DEF IInv, StateOK, AppInv,
      Terminating, Working, Quiet, Finished, RingInv, Taken, ConnectingInv,
      ClientHolds, RecordTravels, ReadyTravels, EndTravels, EstablishedInv,
      DisconnectedInv, LostInv, CursorInv, WokenInv, InOrderDelivery, Slots,
      Records, NULL, Running, appVars, ringVars, sendVars, recvVars, netVars,
      srvVars, connVars
<1>1. CASE ProduceRecord
  BY <1>1, SMTT(30) DEF ProduceRecord
<1>2. CASE Terminate
  BY <1>2, SMTT(30) DEF Terminate
<1>3. CASE SpuriousWakeup
  BY <1>3, SMTT(30) DEF SpuriousWakeup
<1>4. CASE CmError
  BY <1>4, SMTT(30) DEF CmError
<1>5. CASE SignalRecord
  BY <1>5, SMTT(30) DEF SignalRecord, SignalPoller
<1>6. CASE TerminateSignal
  BY <1>6, SMTT(30) DEF TerminateSignal, SignalPoller
<1>7. CASE TerminateWait
  BY <1>7, SMTT(30) DEF TerminateWait
<1>8. CASE TerminateReturn
  BY <1>8, SMTT(30) DEF TerminateReturn
<1>9. CASE AddrResolved
  BY <1>9, SMTT(30) DEF AddrResolved
<1>10. CASE RouteResolved
  BY <1>10, SMTT(30) DEF RouteResolved
<1>11. CASE Disconnected
  BY <1>11, SMTT(30) DEF Disconnected
<1>12. CASE OnReady
  BY <1>12, SMTT(30) DEF OnReady
<1>13. CASE OnDone
  BY <1>13, SMTT(30) DEF OnDone
<1>14. CASE Wait
  BY <1>14, SMTT(30) DEF Wait
<1>15. CASE PostReceive
  BY <1>15, SMTT(30) DEF PostReceive, HasContext
<1>16. CASE RcDisconnect
  BY <1>16, SMTT(30) DEF RcDisconnect
<1>17. CASE SignalDone
  BY <1>17, SMTT(30) DEF SignalDone
<1>18. CASE ConnectRequest
  BY <1>18, SMTT(30) DEF ConnectRequest
<1>19. CASE Established
  BY <1>19, SMTT(30) DEF Established
<1>20. CASE BrokerExit
  BY <1>20, SMTT(30) DEF BrokerExit
<1>21. CASE WriteFails
  BY <1>21, SMTT(30) DEF WriteFails
<1>22. CASE ConnectionLost
  BY <1>22, SMTT(30) DEF ConnectionLost
<1>23. CASE StaleContext
  BY <1>23, SMTT(30) DEF StaleContext
<1>24. CASE UNCHANGED vars
  BY <1>24, SMTT(30) DEF vars
<1> QED
  BY <1>lemmas, <1>1, <1>2, <1>3, <1>4, <1>5, <1>6, <1>7, <1>8, <1>9, <1>10,
     <1>11, <1>12, <1>13, <1>14, <1>15, <1>16, <1>17, <1>18, <1>19, <1>20,
     <1>21, <1>22, <1>23, <1>24
     DEF Next, AppStep, CmStep, PollerStep, BrokerStep

\* The inductive invariant holds throughout.
THEOREM Invariance == Spec => []IInv
  BY InitInv, StepInv, PTL DEF Spec

\* Type correctness of the producer connection: in particular ctx->index never
\* exceeds BACKLOG and head always names a slot.
THEOREM TypeCorrect == Spec => []TypeOK
<1> DEFINE CrashedOK == crashed \in {"no"} \cup Deaths
<1>1. IInv => StateOK
  BY DEF IInv
<1>2. Init => CrashedOK
  BY DEF Init
<1>3. IInv /\ CrashedOK /\ [Next]_vars => CrashedOK'
  <2> SUFFICES ASSUME IInv, CrashedOK, [Next]_vars, crashed' # crashed
               PROVE  CrashedOK'
    OBVIOUS
  <2>1. CASE LookAtHead \/ LookAgain
    BY <2>1 DEF LookAtHead, LookAgain, Serialize, SendDone, Dereference, Deaths
  <2> QED
    BY <2>1 DEF Next, AppStep, CmStep, PollerStep, BrokerStep, ProduceRecord,
       Terminate, SpuriousWakeup, CmError, InsertAtEnd, InsertOverflows,
       SignalRecord, TerminateSignal, TerminateWait, TerminateReturn,
       AddrResolved, RouteResolved, Disconnected, OnReady, OnDone, Wait,
       RdmaSend, PostReceive, RcDisconnect, SignalDone, ConnectRequest,
       BrokerExit, WriteFails, ConnectionLost, StaleContext, Established,
       SrvRecord, SrvDone, DeliverToClient, DeliverToServer, vars, Deaths
<1> HIDE DEF CrashedOK
<1>4. Spec => []CrashedOK
  BY Invariance, <1>2, <1>3, PTL DEF Spec
<1>5. StateOK /\ CrashedOK => TypeOK
  BY DEF CrashedOK, TypeOK
<1> QED
  BY <1>1, <1>4, <1>5, Invariance, PTL

\* The broker's log is the records in the order they were produced, none twice
\* and none left out.
THEOREM Order == Spec => []InOrderDelivery
<1>1. IInv => InOrderDelivery
  BY DEF IInv
<1> QED
  BY <1>1, Invariance, PTL

\* An ended stream is a complete one, for records that fit the ring once.
THEOREM Completeness == Spec => []DoneMeansAllDelivered
<1>1. IInv => DoneMeansAllDelivered
  <2> SUFFICES ASSUME IInv, Ended PROVE Finished
    BY DEF Finished, DoneMeansAllDelivered, IInv, StateOK
  <2>1. \A x : Range(<<x>>) = {x}
    BY DEF Range
  <2>2. Range(<<>>) = {}
    BY DEF Range
  <2> QED
    BY <2>1, <2>2 DEF Ended, IInv, StateOK, ConnectingInv, EstablishedInv,
       DisconnectedInv, LostInv, Quiet, ClientHolds, RecordTravels,
       ReadyTravels, EndTravels, Working
<1> QED
  BY <1>1, Invariance, PTL

\* No receive and no message is outstanding when the connection is closed, so
\* poll_cq never sees a flushed completion.
THEOREM CleanDisconnect == Spec => []NoFlushAtDisconnect
<1>1. IInv => NoFlushAtDisconnect
  BY DEF IInv, DisconnectedInv, LostInv, Quiet, NoFlushAtDisconnect
<1> QED
  BY <1>1, Invariance, PTL

\* terminate, unless woken spuriously, returns only when every record that fits
\* the ring is in the broker's log.
THEOREM TerminationIsComplete == Spec => []TerminateMeansDelivered
<1>1. IInv => TerminateMeansDelivered
  BY DEF IInv, StateOK, WokenInv, DisconnectedInv, LostInv, Finished,
     TerminateMeansDelivered
<1> QED
  BY <1>1, Invariance, PTL

\* The registered buffers are never rewritten under a reader.
THEOREM BuffersAreStable == Spec => BuffersStable
<1>1. IInv /\ [Next]_vars =>
        [/\ buffer' # buffer => toServer = <<>>
         /\ srvBuffer' # srvBuffer => srvCq = <<>>]_vars
  <2> SUFFICES ASSUME IInv, Next
               PROVE  /\ buffer' # buffer => toServer = <<>>
                      /\ srvBuffer' # srvBuffer => srvCq = <<>>
    OBVIOUS
  <2>1. CASE LookAtHead \/ LookAgain
    <3>1. toServer = <<>>
      BY <2>1, WorkingHolds DEF LookAtHead, LookAgain, Working, Quiet
    <3> QED
      BY <2>1, <3>1 DEF LookAtHead, LookAgain, srvVars
  <2>2. CASE DeliverToServer
    <3>1. srvCq = <<>>
      BY <2>2 DEF DeliverToServer, IInv, EstablishedInv, ClientHolds,
         RecordTravels, ReadyTravels, EndTravels
    <3> QED
      BY <2>2, <3>1 DEF DeliverToServer, sendVars
  <2>3. CASE ~(LookAtHead \/ LookAgain \/ DeliverToServer)
    BY <2>3 DEF Next, AppStep, CmStep, PollerStep, BrokerStep, ProduceRecord,
       Terminate, SpuriousWakeup, CmError, InsertAtEnd, InsertOverflows,
       SignalRecord, TerminateSignal, TerminateWait, TerminateReturn,
       AddrResolved, RouteResolved, Disconnected, OnReady, OnDone, Wait,
       RdmaSend, PostReceive, RcDisconnect, SignalDone, ConnectRequest,
       BrokerExit, WriteFails, ConnectionLost, StaleContext, Established,
       SrvRecord, SrvDone, DeliverToClient, connVars, sendVars, srvVars
  <2> QED
    BY <2>1, <2>2, <2>3
<1> QED
  BY <1>1, Invariance, PTL DEF Spec, BuffersStable

-----------------------------------------------------------------------------
(* The ring beyond its first lap. *)

\* Below the cursor, the ring holds the records of its second lap, as many as
\* have been inserted, and head is at the last of them; so the slot an insertion
\* finds taken is the cursor's, and the ring is full.
LapInv ==
    /\ produced - Taken <= BACKLOG
    /\ \A s \in Slots : s < Taken =>
          records[s] = IF s < produced - BACKLOG THEN s + BACKLOG + 1 ELSE NULL
    /\ Running /\ produced > BACKLOG => head = produced - BACKLOG - 1
    /\ OverflowOnlyWhenFull

\* What every step but an insertion and a serialization leaves as it is.
LapUnchanged ==
    /\ UNCHANGED <<produced, records>> /\ Taken' = Taken
    /\ ~Running => crashed' = crashed
    /\ crashed' # "assert" \/ crashed = "assert"
    /\ UNCHANGED head

LEMMA LapKept == ASSUME LapInv, LapUnchanged PROVE LapInv'
  BY DEF LapInv, LapUnchanged, OverflowOnlyWhenFull, Running

\* The slot that insertAtEnd takes, in the first lap and after it.
LEMMA NextHeadIs ==
  ASSUME IInv, LapInv, Running
  PROVE  /\ produced < BACKLOG => NextHead = produced
         /\ produced >= BACKLOG =>
               NextHead = IF produced = 2 * BACKLOG THEN 0
                          ELSE produced - BACKLOG
<1>1. CASE produced < BACKLOG
  <2>1. head + 1 = produced /\ produced \in Slots
    BY <1>1, BacklogAssumption DEF IInv, StateOK, RingInv, Slots
  <2>2. NextHead = head + 1
    BY <2>1, ModSmall DEF NextHead
  <2> QED
    BY <1>1, <2>1, <2>2, BacklogAssumption DEF IInv, StateOK
<1>2. CASE produced = BACKLOG \/ produced = 2 * BACKLOG
  <2>1. head + 1 = BACKLOG
    BY <1>2, BacklogAssumption DEF IInv, StateOK, RingInv, LapInv
  <2>2. BACKLOG % BACKLOG = 0
    BY BacklogAssumption
  <2>3. NextHead = 0
    BY <2>1, <2>2 DEF NextHead
  <2> QED
    BY <1>2, <2>3, BacklogAssumption
<1>3. CASE produced > BACKLOG /\ produced # 2 * BACKLOG
  <2>1. head + 1 = produced - BACKLOG /\ produced - BACKLOG \in Slots
    BY <1>3, BacklogAssumption DEF IInv, StateOK, RingInv, LapInv, Slots
  <2>2. NextHead = head + 1
    BY <2>1, ModSmall DEF NextHead
  <2> QED
    BY <1>3, <2>1, <2>2, BacklogAssumption DEF IInv, StateOK
<1> QED
  BY <1>1, <1>2, <1>3, BacklogAssumption DEF IInv, StateOK

LEMMA LapInsert == ASSUME IInv, LapInv, InsertAtEnd PROVE LapInv'
<1>1. /\ produced < BACKLOG => NextHead = produced
      /\ produced >= BACKLOG =>
            NextHead = IF produced = 2 * BACKLOG THEN 0 ELSE produced - BACKLOG
  BY NextHeadIs DEF InsertAtEnd
<1>2. /\ Taken' = Taken /\ Taken \in 0 .. BACKLOG /\ Running'
      /\ produced \in Nat /\ BACKLOG \in Nat \ {0}
      /\ produced' = produced + 1
  BY BacklogAssumption DEF Taken, IInv, StateOK, RingInv, connVars, sendVars,
     Running, InsertAtEnd
<1> DEFINE n == NextHead
<1>3. /\ records[n] = NULL
      /\ records' = [records EXCEPT ![n] = produced + 1]
      /\ head' = n
  BY DEF InsertAtEnd, SlotFree
<1> HIDE DEF n
<1>4. produced >= BACKLOG => n = produced - BACKLOG /\ n < Taken
  BY <1>1, <1>2, <1>3, BacklogAssumption
     DEF IInv, StateOK, RingInv, LapInv, Slots, NULL, n
<1>5. n \in Slots /\ (produced < BACKLOG => n = produced)
  BY <1>1, <1>2, <1>4 DEF n, Slots
<1>6. produced' - Taken' <= BACKLOG
  BY <1>2, <1>4, BacklogAssumption DEF IInv, StateOK, RingInv
<1>7. ASSUME NEW s \in Slots, s < Taken
      PROVE  records'[s] = IF s < produced' - BACKLOG THEN s + BACKLOG + 1
                           ELSE NULL
  <2>1. records[s] = IF s < produced - BACKLOG THEN s + BACKLOG + 1 ELSE NULL
    BY <1>7 DEF LapInv
  <2>2. records'[s] = IF s = n THEN produced + 1 ELSE records[s]
    BY <1>3, <1>5 DEF IInv, StateOK
  <2>3. CASE produced < BACKLOG
    <3>1. Taken <= produced
      BY <2>3 DEF IInv, StateOK, RingInv
    <3>2. s # n
      BY <1>5, <1>7, <1>2, <2>3, <3>1 DEF Slots
    <3> QED
      BY <2>1, <2>2, <2>3, <3>2, <1>2 DEF Slots
  <2>4. CASE produced >= BACKLOG
    <3>1. /\ s \in Int /\ n \in Int /\ BACKLOG \in Int /\ produced \in Int
          /\ produced' = produced + 1 /\ n = produced - BACKLOG
      BY <1>2, <1>4, <1>5, <2>4 DEF Slots
    <3>2. (s < produced' - BACKLOG) = (s < produced - BACKLOG \/ s = n)
      BY <3>1
    <3>3. s = n => produced + 1 = s + BACKLOG + 1
      BY <3>1
    <3>4. CASE s = n
      BY <2>2, <3>2, <3>3, <3>4
    <3>5. CASE s # n
      BY <2>1, <2>2, <3>2, <3>5
    <3> QED
      BY <3>4, <3>5
  <2> QED
    BY <2>3, <2>4, <1>2
<1>8. produced' > BACKLOG => head' = produced' - BACKLOG - 1
  BY <1>2, <1>3, <1>4, BacklogAssumption DEF IInv, StateOK
<1>9. OverflowOnlyWhenFull'
  BY <1>2 DEF OverflowOnlyWhenFull, Running
<1> QED
  BY <1>2, <1>6, <1>7, <1>8, <1>9 DEF LapInv

LEMMA LapOverflow == ASSUME IInv, LapInv, InsertOverflows PROVE LapInv'
<1> USE BacklogAssumption DEF InsertOverflows
<1>1. /\ produced < BACKLOG => NextHead = produced
      /\ produced >= BACKLOG =>
            NextHead = IF produced = 2 * BACKLOG THEN 0 ELSE produced - BACKLOG
  BY NextHeadIs
<1>2. /\ Taken' = Taken /\ Taken \in 0 .. BACKLOG
      /\ UNCHANGED <<produced, records>> /\ crashed' = "assert"
  BY DEF Taken, IInv, StateOK, RingInv, connVars, sendVars, appVars
<1>3. produced - Taken = BACKLOG
  BY <1>1, <1>2 DEF IInv, StateOK, RingInv, LapInv, SlotFree, Slots, NULL
<1> QED
  BY <1>2, <1>3 DEF LapInv, OverflowOnlyWhenFull, Running

LEMMA LapSerialize ==
  ASSUME IInv, LapInv, Looking, LookUnchanged, NEW h \in SlotValues,
         Serialize(h)
  PROVE  LapInv'
<1> USE BacklogAssumption DEF Looking, LookUnchanged, Serialize, appVars
<1>1. index \in Slots /\ Taken = index /\ Taken' = index + 1
  BY DEF IInv, StateOK, SlotValues, Slots, NULL, Wild, Taken
<1>2. h = records[index] /\ index < produced
  BY <1>1 DEF IInv, StateOK, RingInv, SlotValues, Slots, NULL
<1> QED
  BY <1>1, <1>2 DEF LapInv, OverflowOnlyWhenFull, IInv, StateOK, Running, Slots,
     NULL

LEMMA LapInit == Init => LapInv
  BY BacklogAssumption
     DEF Init, LapInv, Taken, Slots, OverflowOnlyWhenFull, Running

LEMMA LapStep == IInv /\ LapInv /\ [Next]_vars => LapInv'
<1> SUFFICES ASSUME IInv, LapInv, [Next]_vars PROVE LapInv'
  OBVIOUS
<1>1. CASE InsertAtEnd \/ InsertOverflows
  BY <1>1, LapInsert, LapOverflow
<1>2. CASE LookAtHead \/ LookAgain
  <2>1. Looking /\ LookUnchanged
    BY <1>2 DEF LookAtHead, LookAgain, Looking, LookUnchanged
  <2>2. PICK h \in SlotValues :
           \/ Serialize(h)
           \/ UNCHANGED records /\ poller' # "send" /\ crashed' # "assert"
    BY <1>2 DEF LookAtHead, LookAgain, Dereference, SendDone, Looking, Running
  <2>3. CASE UNCHANGED records /\ poller' # "send" /\ crashed' # "assert"
    BY <2>1, <2>3, LapKept DEF LapUnchanged, Looking, LookUnchanged, Taken,
       appVars
  <2> QED
    BY <2>1, <2>2, <2>3, LapSerialize
<1>3. CASE RdmaSend
  BY <1>3, LapKept DEF RdmaSend, LapUnchanged, Taken, appVars, ringVars, Running
<1>4. CASE ~(\/ InsertAtEnd \/ InsertOverflows \/ LookAtHead \/ LookAgain
            \/ RdmaSend)
  <2>1. LapUnchanged
    BY <1>4 DEF LapUnchanged, Taken, Running, Next, AppStep, CmStep, PollerStep,
       BrokerStep, ProduceRecord, Terminate, SpuriousWakeup, CmError,
       SignalRecord, SignalPoller, TerminateSignal, TerminateWait,
       TerminateReturn, AddrResolved, RouteResolved, Disconnected, OnReady,
       OnDone, Wait, PostReceive, RcDisconnect, SignalDone, ConnectRequest,
       BrokerExit, WriteFails, ConnectionLost, StaleContext, Established,
       SrvRecord, SrvDone, DeliverToClient, DeliverToServer, vars, appVars,
       ringVars, connVars, sendVars
  <2> QED
    BY <2>1, LapKept
<1> QED
  BY <1>1, <1>2, <1>3, <1>4

\* insertAtEnd's assertion fails only on a full ring, whatever its size: never
\* because head, unlike the cursor, has wrapped.
THEOREM OverflowIsFullness == Spec => []OverflowOnlyWhenFull
<1>1. Spec => []LapInv
  BY Invariance, LapInit, LapStep, PTL DEF Spec
<1>2. LapInv => OverflowOnlyWhenFull
  BY DEF LapInv
<1> QED
  BY <1>1, <1>2, PTL

=============================================================================
