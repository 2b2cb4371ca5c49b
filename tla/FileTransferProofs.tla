--------------------------- MODULE FileTransferProofs ---------------------------
(* Proofs about the file transfer of sample/ for any set of clients, names and *)
(* descriptors: its types, what can end the server, and that the files of the  *)
(* server are the copies that FileCopy promises.                               *)
EXTENDS FileTransfer, TLAPS

-----------------------------------------------------------------------------
(* The inductive invariant. *)

\* What the server has of the file of client c.
CopyOf(c) == IF owner[name[c]] = c THEN files[name[c]] ELSE <<>>

\* A message is on its way to the client, or the client is about to act on it.
ToClientInv(c) ==
    /\ toServer[c] = <<>> /\ cq[c] = <<>> /\ client[c] # "left"
    /\ \/ toClient[c] = <<"MR">> /\ ~named[c] /\ position[c] = 0 /\ posted[c] = 1
       \/ toClient[c] = <<"READY">> /\ named[c] /\ posted[c] = 1
       \/ toClient[c] = <<"DONE">> /\ named[c] /\ position[c] = Chunks[c]

\* A write of the client is on its way, or its completion is.
ToServerInv(c) ==
    /\ toClient[c] = <<>> /\ client[c] # "left"
    /\ \E m \in {0, 1} :
          /\ \/ toServer[c] = <<m>> /\ cq[c] = <<>> /\ posted[c] = 1
             \/ toServer[c] = <<>> /\ cq[c] = <<m>> /\ posted[c] = 0
          /\ m = 0 => named[c] /\ position[c] = Chunks[c]
          /\ m = 1 /\ ~named[c] => position[c] = 0
          /\ m = 1 /\ named[c] =>
                /\ position[c] > 0
                /\ IF cq[c] = <<>> THEN outBuffer[c] = <<c, position[c]>>
                                  ELSE inBuffer[c] = <<c, position[c]>>

Silent(c) == toClient[c] = <<>> /\ toServer[c] = <<>> /\ cq[c] = <<>>

TokenInv(c) ==
    /\ phase[c] \in {"requested", "accepted"} =>
          /\ Silent(c) /\ ~named[c] /\ position[c] = 0 /\ client[c] # "left"
          /\ posted[c] = IF phase[c] = "requested" THEN 0 ELSE 1
    /\ phase[c] = "established" =>
          \/ ToClientInv(c) \/ ToServerInv(c)
          \/ Silent(c) /\ client[c] = "left"
    /\ phase[c] = "gone" => Silent(c)

\* A chunk that has been read and is not in the file yet.
InFlight(c) == named[c] /\ (toServer[c] = <<1>> \/ cq[c] = <<1>>)

\* As long as no descriptor has been closed under a transfer, its descriptor leads
\* to its file, which has the chunks that have arrived.
FileInv(c) ==
    phase[c] = "established" /\ robbed = {} =>
        /\ Len(CopyOf(c)) = IF InFlight(c) THEN position[c] - 1 ELSE position[c]
        /\ named[c] => open[fd[c]] = name[c]

ConnInv(c) == TokenInv(c) /\ FileInv(c)

\* A file that was not there before belongs to the transfer that has named it.
OwnerInv ==
    /\ \A c \in Clients : named[c] => owner[name[c]] = c
    /\ \A n \in Names :
          IF owner[n] \in Clients THEN name[owner[n]] = n /\ named[owner[n]]
          ELSE files[n] = <<>>

\* An open descriptor is a transfer's.
OpenInv ==
    \A f \in Fds : open[f] # "free" =>
        owner[open[f]] \in Clients /\ Holders(f) # {}

IInv ==
    /\ TypeOK /\ OwnerInv /\ OpenInv /\ DeathHasCause
    /\ Running => \A c \in Clients : ConnInv(c)

-----------------------------------------------------------------------------
(* Types. *)

\* Queues of one element, all that the token ever needs.
LEMMA OneElementQueue ==
  \A x : /\ Append(<<>>, x) = <<x>> /\ Head(<<x>>) = x /\ Tail(<<x>>) = <<>>
         /\ <<x>> # <<>>
  OBVIOUS

LEMMA TypeInit == Init => TypeOK
<1> SUFFICES ASSUME Init PROVE TypeOK
  OBVIOUS
<1>1. fd \in [Clients -> Fds]
  BY TransferAssumption DEF Init
<1>2. owner \in [Names -> Clients \cup {"absent", "old"}]
  BY DEF Init
<1>3. name \in [Clients -> Names]
  BY TransferAssumption DEF Init
<1> QED
  BY <1>1, <1>2, <1>3, TransferAssumption DEF Init, TypeOK, Blocks

\* The client's and the network's steps.
LEMMA TypeClientStep ==
  ASSUME TypeOK, NEW c \in Clients, ClientStep(c) \/ FailStep(c)
  PROVE  TypeOK'
<1>1. CASE OnMr(c)
  <2>1. Tail(toClient[c]) \in Seq({"MR", "READY", "DONE"})
    BY <1>1 DEF OnMr, Receives, TypeOK
  <2>2. Append(toServer[c], 1) \in Seq({0, 1})
    BY DEF TypeOK
  <2>3. outBuffer' \in [Clients -> Blocks]
    BY <1>1 DEF OnMr, TypeOK, Blocks
  <2> QED
    BY <1>1, <2>1, <2>2, <2>3 DEF OnMr, Receives, TypeOK, ctxVars, diskVars
<1>2. CASE OnReady(c)
  <2>1. Tail(toClient[c]) \in Seq({"MR", "READY", "DONE"})
    BY <1>2 DEF OnReady, Receives, TypeOK
  <2>2. /\ Append(toServer[c], 1) \in Seq({0, 1})
        /\ Append(toServer[c], 0) \in Seq({0, 1})
    BY DEF TypeOK
  <2>3. CASE AtEof(c)
    BY <1>2, <2>1, <2>2, <2>3 DEF OnReady, Receives, TypeOK, ctxVars, diskVars
  <2>4. CASE ~AtEof(c)
    <3>1. position[c] + 1 \in 0 .. Chunks[c] /\ Chunks[c] \in Nat
      BY <2>4, TransferAssumption DEF AtEof, TypeOK
    <3>2. position' = [position EXCEPT ![c] = position[c] + 1]
      BY <1>2, <2>4 DEF OnReady
    <3>3. /\ position' \in [Clients -> Nat]
          /\ \A d \in Clients : position'[d] <= Chunks[d]
      BY <3>1, <3>2 DEF TypeOK
    <3>4. <<c, position[c] + 1>> \in Blocks
      BY <3>1 DEF Blocks
    <3>5. outBuffer' \in [Clients -> Blocks]
      BY <1>2, <2>4, <3>4 DEF OnReady, TypeOK
    <3> QED
      BY <1>2, <2>1, <2>2, <2>4, <3>3, <3>5 DEF OnReady, Receives, TypeOK,
         ctxVars, diskVars
  <2> QED
    BY <2>3, <2>4
<1>3. CASE OnDone(c)
  <2>1. Tail(toClient[c]) \in Seq({"MR", "READY", "DONE"})
    BY <1>3 DEF OnDone, Receives, TypeOK
  <2> QED
    BY <1>3, <2>1 DEF OnDone, Receives, TypeOK, ctxVars, diskVars
<1>4. CASE Lands(c)
  <2>1. /\ Head(toServer[c]) \in {0, 1} /\ Tail(toServer[c]) \in Seq({0, 1})
        /\ posted[c] - 1 \in Nat
    BY <1>4 DEF Lands, TypeOK
  <2>2. Append(cq[c], Head(toServer[c])) \in Seq({0, 1})
    BY <2>1 DEF TypeOK
  <2>3. inBuffer' \in [Clients -> Blocks]
    BY <1>4 DEF Lands, TypeOK
  <2> QED
    BY <1>4, <2>1, <2>2, <2>3 DEF Lands, TypeOK, clientVars, diskVars
<1>5. CASE FailStep(c)
  BY <1>5 DEF FailStep, Crash, SendFails, TypeOK, clientVars, ctxVars, diskVars
<1> QED
  BY <1>1, <1>2, <1>3, <1>4, <1>5 DEF ClientStep

\* The server's steps.
LEMMA TypeServerStep ==
  ASSUME TypeOK, NEW c \in Clients, CmStep(c) \/ PollerStep(c)
  PROVE  TypeOK'
<1>1. CASE ConnectRequest(c)
  BY <1>1 DEF ConnectRequest, TypeOK, clientVars, diskVars
<1>2. CASE Established(c)
  <2>1. Append(toClient[c], "MR") \in Seq({"MR", "READY", "DONE"})
    BY DEF TypeOK
  <2> QED
    BY <1>2, <2>1 DEF Established, TypeOK, clientVars, ctxVars, diskVars
<1>3. CASE UnknownEvent(c)
  BY <1>3 DEF UnknownEvent, TypeOK, clientVars, ctxVars, diskVars
<1>4. CASE Disconnected(c)
  <2>1. Holders(fd[c]) \subseteq Clients
    BY DEF Holders
  <2>2. open' \in [Fds -> Names \cup {"free"}]
    BY <1>4 DEF Disconnected, Close, TypeOK
  <2>3. /\ posted' \in [Clients -> Nat] /\ cq' \in [Clients -> Seq({0, 1})]
        /\ toServer' \in [Clients -> Seq({0, 1})]
        /\ toClient' \in [Clients -> Seq({"MR", "READY", "DONE"})]
    BY <1>4 DEF Disconnected, TypeOK
  <2> QED
    BY <1>4, <2>1, <2>2, <2>3 DEF Disconnected, TypeOK, clientVars
<1>5. ASSUME NEW why \in {"open_failed", "write_failed", "disk_full"},
             NEW sizes, Takes(c, sizes), Dies(why)
      PROVE  TypeOK'
  <2>1. Tail(cq[c]) \in Seq({0, 1})
    BY <1>5 DEF Takes, TypeOK
  <2> QED
    BY <1>5, <2>1 DEF Takes, Dies, TypeOK, clientVars, ctxVars, diskVars
<1>6. CASE OnName(c)
  <2>1. PICK f \in Fds : /\ fd' = [fd EXCEPT ![c] = f]
                         /\ open' = [open EXCEPT ![f] = name[c]]
    BY <1>6 DEF OnName, FreeFds
  <2>2. Tail(cq[c]) \in Seq({0, 1})
    BY <1>6 DEF OnName, Takes, TypeOK
  <2>3. Append(toClient[c], "READY") \in Seq({"MR", "READY", "DONE"})
    BY DEF TypeOK
  <2>4. fd' \in [Clients -> Fds] /\ open' \in [Fds -> Names \cup {"free"}]
    BY <2>1 DEF TypeOK
  <2>5. owner' \in [Names -> Clients \cup {"absent", "old"}]
    BY <1>6 DEF OnName, TypeOK
  <2>6. cq' \in [Clients -> Seq({0, 1})]
    BY <1>6, <2>2 DEF OnName, Takes, TypeOK
  <2>7. toClient' \in [Clients -> Seq({"MR", "READY", "DONE"})]
    BY <1>6, <2>3 DEF OnName, Answers, TypeOK
  <2>8. posted' \in [Clients -> Nat] /\ named' \in [Clients -> BOOLEAN]
    BY <1>6 DEF OnName, PostReceive, TypeOK
  <2>9. UNCHANGED <<clientVars, phase, inBuffer, toServer, files, robbed, dead>>
    BY <1>6 DEF OnName
  <2> QED
    BY <2>4, <2>5, <2>6, <2>7, <2>8, <2>9 DEF TypeOK, clientVars
<1>7. CASE OnChunk(c)
  <2>1. Tail(cq[c]) \in Seq({0, 1})
    BY <1>7 DEF OnChunk, Takes, TypeOK
  <2>2. Append(toClient[c], "READY") \in Seq({"MR", "READY", "DONE"})
    BY DEF TypeOK
  <2>3. open[fd[c]] \in Names
    BY <1>7 DEF OnChunk, FreeFds, TypeOK
  <2>4. Append(files[open[fd[c]]], inBuffer[c]) \in Seq(Blocks)
    BY <2>3 DEF TypeOK
  <2>5. files' \in [Names -> Seq(Blocks)]
    BY <1>7, <2>4 DEF OnChunk, TypeOK
  <2>6. cq' \in [Clients -> Seq({0, 1})]
    BY <1>7, <2>1 DEF OnChunk, Takes, TypeOK
  <2>7. toClient' \in [Clients -> Seq({"MR", "READY", "DONE"})]
    BY <1>7, <2>2 DEF OnChunk, Answers, TypeOK
  <2>8. posted' \in [Clients -> Nat]
    BY <1>7 DEF OnChunk, PostReceive, TypeOK
  <2>9. UNCHANGED <<clientVars, phase, named, fd, inBuffer, toServer, open,
                    owner, robbed, dead>>
    BY <1>7 DEF OnChunk
  <2> QED
    BY <2>5, <2>6, <2>7, <2>8, <2>9 DEF TypeOK, clientVars
<1>8. CASE OnEnd(c)
  <2>1. Tail(cq[c]) \in Seq({0, 1})
    BY <1>8 DEF OnEnd, Takes, TypeOK
  <2>2. Append(toClient[c], "DONE") \in Seq({"MR", "READY", "DONE"})
    BY DEF TypeOK
  <2>3. cq' \in [Clients -> Seq({0, 1})]
    BY <1>8, <2>1 DEF OnEnd, Takes, TypeOK
  <2>4. toClient' \in [Clients -> Seq({"MR", "READY", "DONE"})]
    BY <1>8, <2>2 DEF OnEnd, Answers, TypeOK
  <2> QED
    BY <1>8, <2>3, <2>4 DEF OnEnd, TypeOK, clientVars, ctxVars, diskVars
<1> QED
  BY <1>1, <1>2, <1>3, <1>4, <1>5, <1>6, <1>7, <1>8
     DEF CmStep, PollerStep, OpenDies, WriteDies, ShortWriteDies

LEMMA TypeStep == ASSUME TypeOK, [Next]_vars PROVE TypeOK'
<1>1. CASE UNCHANGED vars
  BY <1>1 DEF vars, clientVars, ctxVars, diskVars, TypeOK
<1> QED
  BY <1>1, TypeClientStep, TypeServerStep DEF Next

-----------------------------------------------------------------------------
(* The steps. *)

\* A step that has nothing to do with the connection of client c, nor with its
\* file.
Same(c) ==
    /\ name'[c] = name[c] /\ client'[c] = client[c] /\ position'[c] = position[c]
    /\ outBuffer'[c] = outBuffer[c] /\ phase'[c] = phase[c]
    /\ named'[c] = named[c] /\ fd'[c] = fd[c] /\ inBuffer'[c] = inBuffer[c]
    /\ posted'[c] = posted[c] /\ toClient'[c] = toClient[c]
    /\ toServer'[c] = toServer[c] /\ cq'[c] = cq[c]
    /\ CopyOf(c)' = CopyOf(c)

SameDescriptor(c) ==
    phase[c] = "established" /\ named[c] /\ robbed' = {} =>
        open'[fd[c]] = open[fd[c]]

LEMMA SameConn ==
  ASSUME NEW c, Same(c), SameDescriptor(c), robbed \subseteq robbed', ConnInv(c)
  PROVE  ConnInv(c)'
<1>1. TokenInv(c)'
  BY DEF Same, ConnInv, TokenInv, ToClientInv, ToServerInv, Silent
<1>2. InFlight(c)' = InFlight(c)
  BY DEF Same, InFlight
<1>3. FileInv(c)'
  BY <1>2 DEF Same, SameDescriptor, ConnInv, FileInv
<1> QED
  BY <1>1, <1>3 DEF ConnInv

\* What the steps have to establish besides the types.
Kept ==
    /\ OwnerInv' /\ OpenInv' /\ DeathHasCause'
    /\ Running' => \A c \in Clients : ConnInv(c)'

\* A step of one connection that leaves the descriptors and files as they are,
\* and the connection's own descriptor if it has one.
LEMMA NoDiskStep ==
  ASSUME IInv, Running, NEW c \in Clients,
         UNCHANGED <<name, named, diskVars, robbed, dead>>,
         named[c] => fd'[c] = fd[c],
         phase[c] = "established" => phase'[c] = "established",
         \A d \in Clients \ {c} :
            /\ client'[d] = client[d] /\ position'[d] = position[d]
            /\ outBuffer'[d] = outBuffer[d] /\ phase'[d] = phase[d]
            /\ fd'[d] = fd[d] /\ inBuffer'[d] = inBuffer[d]
            /\ posted'[d] = posted[d] /\ toClient'[d] = toClient[d]
            /\ toServer'[d] = toServer[d] /\ cq'[d] = cq[d],
         TokenInv(c)',
         FileInv(c)'
  PROVE  Kept
<1>1. \A d : CopyOf(d)' = CopyOf(d)
  BY DEF CopyOf, diskVars
<1>2. \A d \in Clients \ {c} : Same(d) /\ SameDescriptor(d)
  BY <1>1 DEF Same, SameDescriptor, diskVars
<1>3. \A d \in Clients : ConnInv(d)'
  BY <1>2, SameConn DEF IInv, ConnInv
<1>4. OwnerInv'
  BY DEF IInv, OwnerInv, diskVars
<1>5. OpenInv'
  <2>1. \A f : Holders(f) \subseteq Holders(f)'
    BY DEF Holders
  <2> QED
    BY <2>1 DEF IInv, OpenInv, diskVars
<1>6. DeathHasCause'
  BY DEF Running, DeathHasCause
<1> QED
  BY <1>3, <1>4, <1>5, <1>6 DEF Kept

LEMMA MrStep == ASSUME IInv, NEW c \in Clients, OnMr(c) PROVE Kept
<1>1. TypeOK /\ TokenInv(c) /\ FileInv(c) /\ Running
  BY DEF IInv, ConnInv, OnMr, Receives
<1>2. /\ toServer[c] = <<>> /\ cq[c] = <<>> /\ client[c] # "left"
      /\ toClient[c] = <<"MR">> /\ ~named[c] /\ position[c] = 0 /\ posted[c] = 1
  BY <1>1, OneElementQueue DEF OnMr, Receives, TokenInv, ToClientInv,
     ToServerInv, Silent
<1>3. toClient'[c] = <<>> /\ toServer'[c] = <<1>>
  BY <1>1, <1>2, OneElementQueue DEF OnMr, Receives, TypeOK
<1>4. TokenInv(c)'
  BY <1>1, <1>2, <1>3 DEF OnMr, Receives, TokenInv, ToServerInv, ctxVars
<1>5. FileInv(c)'
  BY <1>1, <1>2 DEF OnMr, FileInv, InFlight, CopyOf, ctxVars, diskVars
<1> QED
  BY <1>1, <1>4, <1>5, NoDiskStep DEF OnMr, Receives, TypeOK, ctxVars

LEMMA ReadyStep == ASSUME IInv, NEW c \in Clients, OnReady(c) PROVE Kept
<1>1. TypeOK /\ TokenInv(c) /\ FileInv(c) /\ Running
  BY DEF IInv, ConnInv, OnReady, Receives
<1>2. /\ toServer[c] = <<>> /\ cq[c] = <<>> /\ client[c] # "left"
      /\ toClient[c] = <<"READY">> /\ named[c] /\ posted[c] = 1
      /\ position[c] \in Nat
  BY <1>1, OneElementQueue DEF OnReady, Receives, TokenInv, ToClientInv,
     ToServerInv, Silent, TypeOK
<1>3. CASE AtEof(c)
  <2>1. toClient'[c] = <<>> /\ toServer'[c] = <<0>> /\ <<0>> # <<1>>
    BY <1>1, <1>2, <1>3, OneElementQueue DEF OnReady, Receives, TypeOK
  <2>2. TokenInv(c)'
    BY <1>1, <1>2, <1>3, <2>1 DEF OnReady, AtEof, Receives, TokenInv,
       ToServerInv, ctxVars
  <2>3. FileInv(c)'
    BY <1>1, <1>2, <1>3, <2>1 DEF OnReady, FileInv, InFlight, CopyOf, ctxVars,
       diskVars
  <2> QED
    BY <1>1, <1>3, <2>2, <2>3, NoDiskStep DEF OnReady, Receives, TypeOK, ctxVars
<1>4. CASE ~AtEof(c)
  <2>1. toClient'[c] = <<>> /\ toServer'[c] = <<1>>
    BY <1>1, <1>2, <1>4, OneElementQueue DEF OnReady, Receives, TypeOK
  <2>2. position'[c] = position[c] + 1 /\ outBuffer'[c] = <<c, position[c] + 1>>
    BY <1>1, <1>4 DEF OnReady, TypeOK
  <2>3. TokenInv(c)'
    BY <1>1, <1>2, <2>1, <2>2 DEF OnReady, Receives, TokenInv, ToServerInv,
       ctxVars
  <2>4. FileInv(c)'
    BY <1>1, <1>2, <2>1, <2>2, OneElementQueue DEF OnReady, FileInv, InFlight,
       CopyOf, ctxVars, diskVars
  <2> QED
    BY <1>1, <1>4, <2>3, <2>4, NoDiskStep DEF OnReady, Receives, TypeOK, ctxVars
<1> QED
  BY <1>3, <1>4

LEMMA DoneStep ==
  ASSUME IInv, NEW c \in Clients, OnDone(c)
  PROVE  /\ Kept
         /\ client[c] # "left" /\ phase[c] = "established" /\ ~InFlight(c)
         /\ position[c] = Chunks[c]
<1>1. TypeOK /\ TokenInv(c) /\ FileInv(c) /\ Running
  BY DEF IInv, ConnInv, OnDone, Receives
<1>2. /\ toServer[c] = <<>> /\ cq[c] = <<>> /\ client[c] # "left"
      /\ toClient[c] = <<"DONE">> /\ named[c] /\ position[c] = Chunks[c]
  BY <1>1, OneElementQueue DEF OnDone, Receives, TokenInv, ToClientInv,
     ToServerInv, Silent
<1>3. toClient'[c] = <<>> /\ client'[c] = "left"
  BY <1>1, <1>2, OneElementQueue DEF OnDone, Receives, TypeOK
<1>4. TokenInv(c)'
  BY <1>1, <1>2, <1>3 DEF OnDone, Receives, TokenInv, Silent, ctxVars
<1>5. FileInv(c)'
  BY <1>1, <1>2 DEF OnDone, FileInv, InFlight, CopyOf, ctxVars, diskVars
<1>6. ~InFlight(c)
  BY <1>2, OneElementQueue DEF InFlight
<1> QED
  BY <1>1, <1>2, <1>4, <1>5, <1>6, NoDiskStep DEF OnDone, Receives, TypeOK,
     ctxVars

LEMMA CrashStep == ASSUME IInv, NEW c \in Clients, Crash(c) PROVE Kept
<1>1. TypeOK /\ TokenInv(c) /\ FileInv(c) /\ Running
  BY DEF IInv, ConnInv, Crash
<1>2. client[c] = "up" /\ client'[c] = "dead"
  BY <1>1 DEF Crash, TypeOK
<1>3. TokenInv(c)'
  BY <1>1, <1>2 DEF Crash, TokenInv, ToClientInv, ToServerInv, Silent, ctxVars
<1>4. FileInv(c)'
  BY <1>1 DEF Crash, FileInv, InFlight, CopyOf, ctxVars, diskVars
<1> QED
  BY <1>1, <1>3, <1>4, NoDiskStep DEF Crash, TypeOK, ctxVars

LEMMA LandsStep == ASSUME IInv, NEW c \in Clients, Lands(c) PROVE Kept
<1>1. TypeOK /\ TokenInv(c) /\ FileInv(c) /\ Running
  BY DEF IInv, ConnInv, Lands
<1>2. PICK m \in {0, 1} :
        /\ toServer[c] = <<m>> /\ cq[c] = <<>> /\ posted[c] = 1
        /\ m = 0 => named[c] /\ position[c] = Chunks[c]
        /\ m = 1 /\ ~named[c] => position[c] = 0
        /\ m = 1 /\ named[c] => /\ position[c] > 0
                                /\ outBuffer[c] = <<c, position[c]>>
        /\ toClient[c] = <<>> /\ client[c] # "left"
  BY <1>1 DEF Lands, TokenInv, ToClientInv, ToServerInv, Silent
<1>3. /\ toServer'[c] = <<>> /\ cq'[c] = <<m>> /\ posted'[c] = 0
      /\ inBuffer'[c] = IF m = 0 THEN inBuffer[c] ELSE outBuffer[c]
  BY <1>1, <1>2, OneElementQueue DEF Lands, TypeOK
<1>4. TokenInv(c)'
  BY <1>1, <1>2, <1>3, OneElementQueue DEF Lands, TokenInv, ToServerInv,
     clientVars
<1>5. InFlight(c)' = InFlight(c)
  BY <1>2, <1>3 DEF InFlight, Lands
<1>6. FileInv(c)'
  BY <1>1, <1>5 DEF Lands, FileInv, CopyOf, clientVars, diskVars
<1> QED
  BY <1>1, <1>4, <1>6, NoDiskStep DEF Lands, TypeOK, clientVars

LEMMA ConnectStep == ASSUME IInv, NEW c \in Clients, ConnectRequest(c) PROVE Kept
<1>1. TypeOK /\ TokenInv(c) /\ FileInv(c) /\ Running
  BY DEF IInv, ConnInv, ConnectRequest
<1>2. phase'[c] = "accepted" /\ posted'[c] = 1 /\ ~named[c]
  BY <1>1 DEF ConnectRequest, TypeOK, TokenInv
<1>3. TokenInv(c)'
  BY <1>1, <1>2 DEF ConnectRequest, TokenInv, Silent, clientVars
<1>4. FileInv(c)'
  BY <1>2 DEF FileInv
<1> QED
  BY <1>1, <1>2, <1>3, <1>4, NoDiskStep DEF ConnectRequest, TypeOK, clientVars

LEMMA EstablishedStep == ASSUME IInv, NEW c \in Clients, Established(c) PROVE Kept
<1>1. TypeOK /\ TokenInv(c) /\ Running /\ OwnerInv
  BY DEF IInv, ConnInv, Established
<1>2. /\ phase'[c] = "established" /\ toClient'[c] = <<"MR">> /\ ~named[c]
      /\ position[c] = 0 /\ toServer[c] = <<>> /\ cq[c] = <<>>
      /\ client[c] # "left" /\ posted[c] = 1
  BY <1>1, OneElementQueue DEF Established, TypeOK, TokenInv, Silent
<1>3. TokenInv(c)'
  BY <1>1, <1>2 DEF Established, TokenInv, ToClientInv, clientVars, ctxVars
<1>4. CopyOf(c) = <<>>
  BY <1>1, <1>2 DEF OwnerInv, CopyOf, TypeOK
<1>5. FileInv(c)'
  BY <1>1, <1>2, <1>4 DEF Established, FileInv, InFlight, CopyOf, clientVars,
     ctxVars, diskVars
<1> QED
  BY <1>1, <1>3, <1>5, NoDiskStep DEF Established, TypeOK, clientVars, ctxVars

LEMMA EndStep == ASSUME IInv, NEW c \in Clients, OnEnd(c) PROVE Kept
<1>1. TypeOK /\ TokenInv(c) /\ FileInv(c) /\ Running
  BY DEF IInv, ConnInv, OnEnd, Takes
<1>2. /\ toServer[c] = <<>> /\ cq[c] = <<0>> /\ named[c]
      /\ position[c] = Chunks[c] /\ toClient[c] = <<>> /\ client[c] # "left"
  BY <1>1, OneElementQueue DEF OnEnd, Takes, TokenInv, ToClientInv, ToServerInv,
     Silent
<1>3. cq'[c] = <<>> /\ toClient'[c] = <<"DONE">>
  BY <1>1, <1>2, OneElementQueue DEF OnEnd, Takes, Answers, TypeOK
<1>4. TokenInv(c)'
  BY <1>1, <1>2, <1>3 DEF OnEnd, Takes, TokenInv, ToClientInv, clientVars,
     ctxVars
<1>5. ~InFlight(c) /\ ~InFlight(c)'
  BY <1>2, <1>3, OneElementQueue DEF InFlight, OnEnd
<1>6. FileInv(c)'
  BY <1>1, <1>5 DEF OnEnd, FileInv, CopyOf, clientVars, ctxVars, diskVars
<1> QED
  BY <1>1, <1>4, <1>6, NoDiskStep DEF OnEnd, Takes, Answers, TypeOK, clientVars,
     ctxVars

\* A step that leaves the descriptors of the transfers open keeps OpenInv.
LEMMA NameStep ==
  ASSUME IInv, NEW c \in Clients, OnName(c)
  PROVE  Kept /\ \A d \in Clients : CopyOf(d)' = CopyOf(d)
<1>1. TypeOK /\ TokenInv(c) /\ FileInv(c) /\ Running /\ OwnerInv /\ OpenInv
  BY DEF IInv, ConnInv, OnName, Takes
<1>2. /\ toServer[c] = <<>> /\ cq[c] = <<1>> /\ ~named[c] /\ posted[c] = 0
      /\ position[c] = 0 /\ toClient[c] = <<>> /\ client[c] # "left"
      /\ phase[c] = "established"
  BY <1>1, OneElementQueue DEF OnName, Takes, TokenInv, ToClientInv,
     ToServerInv, Silent
<1>3. PICK f \in Fds : /\ open[f] = "free"
                       /\ fd' = [fd EXCEPT ![c] = f]
                       /\ open' = [open EXCEPT ![f] = name[c]]
  BY DEF OnName, FreeFds
<1>4. PICK n \in Names : n = name[c] /\ owner[n] = "absent" /\ n # "free"
  BY <1>1, TransferAssumption DEF OnName, OpenFails, TypeOK
<1>5. /\ owner' = [owner EXCEPT ![n] = c] /\ named' = [named EXCEPT ![c] = TRUE]
      /\ UNCHANGED <<clientVars, phase, inBuffer, toServer, files, robbed, dead>>
  BY <1>4 DEF OnName
<1>6. /\ cq'[c] = <<>> /\ toClient'[c] = <<"READY">> /\ posted'[c] = 1
      /\ named'[c] /\ fd'[c] = f /\ open'[f] = n
  BY <1>1, <1>2, <1>3, <1>4, OneElementQueue
     DEF OnName, Takes, Answers, PostReceive, TypeOK
<1>7. owner[n] \notin Clients /\ files[n] = <<>>
  BY <1>1, <1>4, TransferAssumption DEF OwnerInv
<1>8. ASSUME NEW d \in Clients
      PROVE  CopyOf(d)' = CopyOf(d) /\ (name[d] = n => ~named[d])
  <2>1. name[d] \in Names
    BY <1>1 DEF TypeOK
  <2>2. CASE name[d] = n
    BY <1>1, <1>5, <1>7, <2>1, <2>2 DEF CopyOf, TypeOK, clientVars, OwnerInv
  <2>3. CASE name[d] # n
    BY <1>1, <1>5, <2>1, <2>3 DEF CopyOf, TypeOK, clientVars
  <2> QED
    BY <2>2, <2>3
<1>9. ConnInv(c)'
  <2>1. TokenInv(c)'
    BY <1>2, <1>5, <1>6 DEF TokenInv, ToClientInv, clientVars
  <2>2. CopyOf(c) = <<>>
    BY <1>1, <1>4, <1>7 DEF CopyOf
  <2>3. ~InFlight(c)'
    BY <1>2, <1>5, <1>6, OneElementQueue DEF InFlight
  <2>4. FileInv(c)'
    BY <1>2, <1>3, <1>4, <1>5, <1>6, <1>8, <2>2, <2>3 DEF FileInv, clientVars
  <2> QED
    BY <2>1, <2>4 DEF ConnInv
<1>10. ASSUME NEW d \in Clients \ {c} PROVE ConnInv(d)'
  <2>1. Same(d)
    BY <1>1, <1>3, <1>5, <1>8 DEF OnName, Takes, Answers, PostReceive, Same,
       TypeOK, clientVars
  <2>2. SameDescriptor(d)
    <3>1. CASE fd[d] = f /\ phase[d] = "established" /\ named[d] /\ robbed = {}
      <4>1. open[f] = name[d] /\ name[d] \in Names
        BY <1>1, <3>1 DEF IInv, ConnInv, FileInv, TypeOK
      <4> QED
        BY <1>3, <4>1, TransferAssumption
    <3>2. CASE fd[d] # f
      BY <1>1, <1>3, <3>2 DEF SameDescriptor, TypeOK
    <3> QED
      BY <1>5, <3>1, <3>2 DEF SameDescriptor
  <2>3. ConnInv(d)
    BY <1>1 DEF IInv
  <2> QED
    BY <1>5, <2>1, <2>2, <2>3, SameConn
<1>11. OwnerInv'
  <2>1. ASSUME NEW d \in Clients, named'[d] PROVE owner'[name'[d]] = d
    BY <1>1, <1>4, <1>5, <1>8, <2>1 DEF OwnerInv, TypeOK, clientVars
  <2>2. ASSUME NEW m \in Names
        PROVE  IF owner'[m] \in Clients
               THEN name'[owner'[m]] = m /\ named'[owner'[m]]
               ELSE files'[m] = <<>>
    BY <1>1, <1>4, <1>5, <1>7 DEF OwnerInv, TypeOK, clientVars
  <2> QED
    BY <2>1, <2>2 DEF OwnerInv
<1>12. OpenInv'
  <2> SUFFICES ASSUME NEW g \in Fds, open'[g] # "free"
               PROVE  owner'[open'[g]] \in Clients /\ Holders(g)' # {}
    BY DEF OpenInv
  <2>1. CASE g = f
    <3>1. c \in Holders(f)'
      BY <1>2, <1>5, <1>6 DEF Holders
    <3>2. owner'[n] = c
      BY <1>1, <1>5 DEF TypeOK
    <3> QED
      BY <1>6, <2>1, <3>1, <3>2
  <2>2. CASE g # f
    <3>1. open'[g] = open[g] /\ open[g] \in Names /\ owner[open[g]] \in Clients
      BY <1>1, <1>3, <2>2 DEF OpenInv, TypeOK
    <3>2. owner'[open[g]] \in Clients
      BY <1>1, <1>5, <3>1 DEF TypeOK
    <3>3. PICK d \in Clients : /\ phase[d] = "established" /\ named[d]
                               /\ fd[d] = g
      BY <1>1, <3>1 DEF OpenInv, Holders
    <3>4. d \in Holders(g)'
      BY <1>1, <1>2, <1>3, <1>5, <3>3 DEF Holders, TypeOK
    <3> QED
      BY <3>1, <3>2, <3>4
  <2> QED
    BY <2>1, <2>2
<1>13. DeathHasCause'
  BY <1>1, <1>5 DEF Running, DeathHasCause
<1> QED
  BY <1>8, <1>9, <1>10, <1>11, <1>12, <1>13 DEF Kept

\* The chunk that arrives is the next one of its file.
LEMMA ChunkStep ==
  ASSUME IInv, NEW c \in Clients, OnChunk(c)
  PROVE  /\ Kept
         /\ robbed = {} =>
               /\ client[c] # "left" /\ Len(CopyOf(c)) < Chunks[c]
               /\ inBuffer[c] = <<c, Len(CopyOf(c)) + 1>>
               /\ CopyOf(c)' = Append(CopyOf(c), inBuffer[c])
               /\ \A d \in Clients \ {c} : CopyOf(d)' = CopyOf(d)
<1>1. TypeOK /\ TokenInv(c) /\ FileInv(c) /\ Running /\ OwnerInv /\ OpenInv
  BY DEF IInv, ConnInv, OnChunk, Takes
<1>2. /\ toServer[c] = <<>> /\ cq[c] = <<1>> /\ named[c] /\ posted[c] = 0
      /\ position[c] > 0 /\ toClient[c] = <<>> /\ client[c] # "left"
      /\ phase[c] = "established" /\ inBuffer[c] = <<c, position[c]>>
      /\ position[c] \in Nat /\ position[c] <= Chunks[c] /\ Chunks[c] \in Nat
  BY <1>1, OneElementQueue, TransferAssumption DEF OnChunk, Takes, TokenInv,
     ToClientInv, ToServerInv, Silent, TypeOK
<1>3. PICK n \in Names : n = open[fd[c]] /\ owner[n] \in Clients
  BY <1>1 DEF OnChunk, FreeFds, TypeOK, OpenInv
<1>4. /\ files' = [files EXCEPT ![n] = Append(@, inBuffer[c])]
      /\ UNCHANGED <<clientVars, phase, named, fd, inBuffer, toServer, open,
                     owner, robbed, dead>>
  BY <1>3 DEF OnChunk
<1>5. /\ cq'[c] = <<>> /\ toClient'[c] = <<"READY">> /\ posted'[c] = 1
  BY <1>1, <1>2, OneElementQueue DEF OnChunk, Takes, Answers, PostReceive, TypeOK
<1>6. TokenInv(c)'
  BY <1>2, <1>4, <1>5 DEF TokenInv, ToClientInv, clientVars
<1>7. InFlight(c) /\ ~InFlight(c)'
  BY <1>2, <1>4, <1>5, OneElementQueue DEF InFlight
<1>8. ASSUME robbed = {}
      PROVE  /\ n = name[c] /\ owner[n] = c
             /\ Len(CopyOf(c)) = position[c] - 1
             /\ CopyOf(c)' = Append(CopyOf(c), inBuffer[c])
             /\ Len(CopyOf(c)') = position[c]
             /\ \A d \in Clients \ {c} : CopyOf(d)' = CopyOf(d)
  <2>1. n = name[c] /\ owner[n] = c /\ Len(CopyOf(c)) = position[c] - 1
    BY <1>1, <1>2, <1>3, <1>7, <1>8 DEF FileInv, OwnerInv
  <2>2. CopyOf(c) = files[n] /\ CopyOf(c)' = files'[n] /\ files[n] \in Seq(Blocks)
    BY <1>1, <1>4, <2>1 DEF CopyOf, TypeOK, clientVars
  <2>3. files'[n] = Append(files[n], inBuffer[c]) /\ inBuffer[c] \in Blocks
    BY <1>1, <1>4 DEF TypeOK
  <2>4. Len(files'[n]) = Len(files[n]) + 1 /\ Len(files[n]) \in Nat
    BY <2>2, <2>3
  <2>5. \A d \in Clients \ {c} : CopyOf(d)' = CopyOf(d)
    BY <1>1, <1>4, <2>1 DEF CopyOf, TypeOK, clientVars
  <2> QED
    BY <1>2, <2>1, <2>2, <2>3, <2>4, <2>5
<1>9. ConnInv(c)'
  BY <1>1, <1>2, <1>4, <1>6, <1>7, <1>8 DEF ConnInv, FileInv, clientVars
<1>10. ASSUME NEW d \in Clients \ {c} PROVE ConnInv(d)'
  <2>1. ConnInv(d)
    BY <1>1 DEF IInv
  <2>2. TokenInv(d)' = TokenInv(d) /\ InFlight(d)' = InFlight(d)
    BY <1>1, <1>4 DEF OnChunk, Takes, Answers, PostReceive, TypeOK, TokenInv,
       ToClientInv, ToServerInv, Silent, InFlight, clientVars
  <2>3. FileInv(d)'
    BY <1>4, <1>8, <2>1, <2>2 DEF ConnInv, FileInv, clientVars
  <2> QED
    BY <2>1, <2>2, <2>3 DEF ConnInv
<1>11. OwnerInv' /\ OpenInv'
  <2>1. \A m \in Names : m # n => files'[m] = files[m]
    BY <1>1, <1>4 DEF TypeOK
  <2> QED
    BY <1>1, <1>3, <1>4, <2>1 DEF OwnerInv, OpenInv, Holders, clientVars
<1>12. DeathHasCause'
  BY <1>1, <1>4 DEF Running, DeathHasCause
<1>13. robbed = {} => /\ Len(CopyOf(c)) < Chunks[c]
                      /\ inBuffer[c] = <<c, Len(CopyOf(c)) + 1>>
  BY <1>2, <1>8
<1> QED
  BY <1>2, <1>8, <1>9, <1>10, <1>11, <1>12, <1>13 DEF Kept

\* A disconnection that closes no other transfer's descriptor leaves the files'
\* descriptors as they are; one that does is recorded.
LEMMA DisconnectStep ==
  ASSUME IInv, NEW c \in Clients, Disconnected(c)
  PROVE  Kept
<1>1. TypeOK /\ Running /\ OwnerInv /\ OpenInv /\ fd[c] \in Fds
  BY DEF IInv, Disconnected, TypeOK
<1>2. /\ phase'[c] = "gone" /\ toClient'[c] = <<>> /\ toServer'[c] = <<>>
      /\ cq'[c] = <<>>
  BY <1>1 DEF Disconnected, TypeOK
<1>3. UNCHANGED <<clientVars, named, fd, inBuffer, files, owner, dead>>
  BY DEF Disconnected
<1>4. ConnInv(c)'
  BY <1>2 DEF ConnInv, TokenInv, FileInv, Silent
<1>5. ASSUME NEW d \in Clients \ {c} PROVE ConnInv(d)'
  <2>1. Same(d)
    BY <1>1 DEF Disconnected, Same, CopyOf, TypeOK, clientVars
  <2>2. SameDescriptor(d)
    <3> SUFFICES ASSUME phase[d] = "established", named[d], robbed' = {}
                 PROVE  open'[fd[d]] = open[fd[d]]
      BY DEF SameDescriptor
    <3>1. d \notin Holders(fd[c])
      BY DEF Disconnected
    <3>2. fd[d] # fd[c]
      BY <3>1 DEF Holders
    <3> QED
      BY <1>1, <3>2 DEF Disconnected, Close, TypeOK
  <2>3. robbed \subseteq robbed' /\ ConnInv(d)
    BY <1>1 DEF IInv, Disconnected
  <2> QED
    BY <2>1, <2>2, <2>3, SameConn
<1>6. OwnerInv'
  BY <1>1, <1>3 DEF OwnerInv, clientVars
<1>7. OpenInv'
  <2> SUFFICES ASSUME NEW g \in Fds, open'[g] # "free"
               PROVE  owner'[open'[g]] \in Clients /\ Holders(g)' # {}
    BY DEF OpenInv
  <2>1. g # fd[c] /\ open'[g] = open[g]
    BY <1>1 DEF Disconnected, Close, TypeOK
  <2>2. PICK d \in Clients : phase[d] = "established" /\ named[d] /\ fd[d] = g
    BY <1>1, <2>1 DEF OpenInv, Holders
  <2>3. d \in Holders(g)'
    BY <1>1, <1>3, <2>1, <2>2 DEF Disconnected, Holders, TypeOK
  <2> QED
    BY <1>1, <1>3, <2>1, <2>3 DEF OpenInv
<1>8. DeathHasCause'
  BY <1>1, <1>3 DEF Running, DeathHasCause
<1> QED
  BY <1>4, <1>5, <1>6, <1>7, <1>8 DEF Kept

\* Why the server exits.
LEMMA DeathStep ==
  ASSUME IInv, NEW c \in Clients,
         \/ SendFails(c) \/ UnknownEvent(c) \/ OpenDies(c) \/ WriteDies(c)
         \/ ShortWriteDies(c)
  PROVE  Kept
<1>1. /\ TypeOK /\ TokenInv(c) /\ FileInv(c) /\ Running /\ OwnerInv /\ OpenInv
  BY DEF IInv, ConnInv, SendFails, UnknownEvent, OpenDies, WriteDies,
     ShortWriteDies, Takes
<1>2. ~Running' /\ UNCHANGED <<clientVars, phase, named, fd, diskVars, robbed>>
  BY DEF SendFails, UnknownEvent, OpenDies, WriteDies, ShortWriteDies, Dies,
     Running, ctxVars
<1>3. OwnerInv' /\ OpenInv'
  BY <1>1, <1>2 DEF OwnerInv, OpenInv, Holders, clientVars, diskVars
<1>4. DeathHasCause'
  <2>1. CASE SendFails(c)
    BY <1>2, <2>1 DEF SendFails, DeathHasCause, clientVars
  <2>2. CASE UnknownEvent(c) \/ ShortWriteDies(c)
    BY <2>2 DEF UnknownEvent, ShortWriteDies, Dies, DeathHasCause
  <2>3. CASE OpenDies(c)
    <3>1. name[c] \in Names /\ ~named[c]
      BY <1>1, <2>3 DEF OpenDies, TypeOK
    <3>2. CASE owner[name[c]] \in Clients
      <4>1. PICK d \in Clients : d = owner[name[c]]
        BY <3>2
      <4>2. name[d] = name[c] /\ c # d
        BY <1>1, <3>1, <4>1 DEF OwnerInv
      <4> QED
        BY <1>2, <2>3, <4>2 DEF OpenDies, Dies, DeathHasCause, clientVars
    <3>3. CASE owner[name[c]] = "old"
      BY <1>2, <2>3, <3>1, <3>3 DEF OpenDies, Dies, DeathHasCause, diskVars
    <3>4. CASE FreeFds = {}
      <4>1. \A f \in Fds : Holders(f)' # {}
        BY <1>1, <1>2, <3>4 DEF FreeFds, OpenInv, Holders
      <4> QED
        BY <2>3, <4>1 DEF OpenDies, Dies, DeathHasCause
    <3> QED
      BY <1>1, <2>3, <3>1, <3>2, <3>3, <3>4 DEF OpenDies, OpenFails, TypeOK
  <2>4. CASE WriteDies(c)
    <3>1. phase[c] = "established" /\ named[c] /\ open[fd[c]] = "free"
      BY <2>4 DEF WriteDies, Takes, FreeFds
    <3>2. name[c] # "free"
      BY <1>1, TransferAssumption DEF TypeOK
    <3>3. robbed # {}
      BY <1>1, <3>1, <3>2 DEF FileInv
    <3> QED
      BY <1>2, <2>4, <3>3 DEF WriteDies, Dies, DeathHasCause
  <2> QED
    BY <2>1, <2>2, <2>3, <2>4
<1> QED
  BY <1>2, <1>3, <1>4 DEF Kept

-----------------------------------------------------------------------------
(* The theorems. *)

LEMMA InvInit == Init => IInv
<1> SUFFICES ASSUME Init PROVE IInv
  OBVIOUS
<1>1. OwnerInv
  BY TransferAssumption DEF Init, OwnerInv
<1>2. OpenInv
  BY DEF Init, OpenInv
<1>3. DeathHasCause
  BY DEF Init, DeathHasCause
<1>4. \A c \in Clients : ConnInv(c)
  BY DEF Init, ConnInv, TokenInv, FileInv, Silent
<1> QED
  BY <1>1, <1>2, <1>3, <1>4, TypeInit DEF IInv

LEMMA StepKept == ASSUME IInv, [Next]_vars PROVE Kept
<1>1. CASE UNCHANGED vars
  <2>1. /\ UNCHANGED <<name, client, position, outBuffer, phase, named, fd,
                      inBuffer, posted, toClient, toServer, cq>>
        /\ UNCHANGED <<open, files, owner, robbed, dead>>
    BY <1>1 DEF vars, clientVars, ctxVars, diskVars
  <2>2. \A c \in Clients : ConnInv(c)' = ConnInv(c)
    BY <2>1 DEF ConnInv, TokenInv, ToClientInv, ToServerInv, Silent, FileInv,
       InFlight, CopyOf
  <2>3. OwnerInv' = OwnerInv /\ OpenInv' = OpenInv
    BY <2>1 DEF OwnerInv, OpenInv, Holders
  <2>4. DeathHasCause' = DeathHasCause /\ Running' = Running
    BY <2>1 DEF DeathHasCause, Running, Holders
  <2> QED
    BY <2>2, <2>3, <2>4 DEF IInv, Kept
<1> QED
  BY <1>1, MrStep, ReadyStep, DoneStep, CrashStep, LandsStep, ConnectStep,
     EstablishedStep, DisconnectStep, NameStep, ChunkStep, EndStep, DeathStep
     DEF Next, ClientStep, FailStep, CmStep, PollerStep

\* The inductive invariant holds throughout.
THEOREM Invariance == Spec => []IInv
<1>1. IInv /\ [Next]_vars => IInv'
  <2> SUFFICES ASSUME IInv, [Next]_vars PROVE IInv'
    OBVIOUS
  <2>1. TypeOK' /\ Kept
    BY TypeStep, StepKept DEF IInv
  <2> QED
    BY <2>1 DEF IInv, Kept
<1> QED
  BY InvInit, <1>1, PTL DEF Spec

\* Type correctness of the file transfer: in particular no client reads past the
\* end of its file, and what is open is a file.
THEOREM TypeCorrect == Spec => []TypeOK
<1>1. IInv => TypeOK
  BY DEF IInv
<1> QED
  BY <1>1, Invariance, PTL

\* A client ends the server only by a name in use, by more open files than
\* descriptors, by dying, by filling the disk, or by the close of a descriptor
\* that is not its own.
THEOREM DeathsExplained == Spec => []DeathHasCause
<1>1. IInv => DeathHasCause
  BY DEF IInv
<1> QED
  BY <1>1, Invariance, PTL

LEMMA CopyInit == Init => Copies!Init
<1> SUFFICES ASSUME Init PROVE Copies!Init
  OBVIOUS
<1>1. \A c \in Clients : owner[name[c]] # c
  BY TransferAssumption DEF Init
<1>2. \A c \in Clients : client[c] # "left"
  BY DEF Init
<1> QED
  BY <1>1, <1>2 DEF Init, Copies!Init

\* Each step is a step of FileCopy or none.
LEMMA CopyStep ==
  ASSUME IInv, [Next]_vars
  PROVE  [Copies!Next]_<<[c \in Clients |-> CopyOf(c)],
                         {c \in Clients : client[c] = "left"}, robbed # {}>>
<1> DEFINE copy == [c \in Clients |-> CopyOf(c)]
           done == {c \in Clients : client[c] = "left"}
           broken == robbed # {}
<1>1. robbed \subseteq robbed' /\ TypeOK
  BY DEF Next, ClientStep, FailStep, CmStep, PollerStep, OnMr, OnReady, OnDone,
     Lands, Crash, SendFails, ConnectRequest, Established, UnknownEvent,
     Disconnected, OnName, OpenDies, OnChunk, WriteDies, ShortWriteDies, OnEnd,
     Dies, vars, IInv
<1>2. CASE robbed # {}
  BY <1>1, <1>2 DEF Copies!Next, Copies!NoPromise
<1>3. CASE robbed = {}
  <2>1. ASSUME NEW c \in Clients, OnDone(c) PROVE Copies!Finish(c)
    <3>1. /\ client[c] # "left" /\ phase[c] = "established" /\ ~InFlight(c)
          /\ position[c] = Chunks[c] /\ FileInv(c)
      BY <2>1, DoneStep DEF IInv, ConnInv, OnDone, Receives
    <3>2. Len(CopyOf(c)) = Chunks[c]
      BY <1>3, <3>1 DEF FileInv
    <3>3. UNCHANGED <<copy, broken>> /\ done' = done \cup {c} /\ c \notin done
      BY <1>1, <2>1, <3>1 DEF OnDone, TypeOK, CopyOf, diskVars
    <3> QED
      BY <1>3, <3>2, <3>3 DEF Copies!Finish, CopyOf
  <2>2. ASSUME NEW c \in Clients, OnChunk(c) PROVE Copies!Extend(c)
    <3>1. /\ client[c] # "left" /\ Len(CopyOf(c)) < Chunks[c]
          /\ inBuffer[c] = <<c, Len(CopyOf(c)) + 1>>
          /\ CopyOf(c)' = Append(CopyOf(c), inBuffer[c])
          /\ \A d \in Clients \ {c} : CopyOf(d)' = CopyOf(d)
      BY <1>3, <2>2, ChunkStep
    <3>2. UNCHANGED <<done, broken>> /\ c \notin done
      BY <2>2, <3>1 DEF OnChunk, clientVars
    <3>3. copy' = [copy EXCEPT ![c] = Append(@, <<c, Len(@) + 1>>)]
      <4> HIDE DEF CopyOf
      <4>1. copy'[c] = Append(copy[c], <<c, Len(copy[c]) + 1>>)
        BY <3>1
      <4>2. \A d \in Clients \ {c} : copy'[d] = copy[d]
        BY <3>1
      <4> QED
        BY <4>1, <4>2
    <3> QED
      BY <1>3, <3>1, <3>2, <3>3 DEF Copies!Extend, CopyOf
  <2>3. ASSUME NEW c \in Clients, OnName(c)
        PROVE  UNCHANGED <<copy, done, broken>>
    <3>1. \A d \in Clients : CopyOf(d)' = CopyOf(d)
      BY <2>3, NameStep
    <3>2. UNCHANGED <<client, robbed>>
      BY <2>3 DEF OnName, clientVars
    <3> QED
      BY <3>1, <3>2
  <2>4. ASSUME NEW c \in Clients, Disconnected(c)
        PROVE  Copies!Break \/ UNCHANGED <<copy, done, broken>>
    <3>1. UNCHANGED <<copy, done>>
      BY <2>4 DEF Disconnected, clientVars, CopyOf
    <3> QED
      BY <1>3, <3>1 DEF Copies!Break, CopyOf
  <2>5. CASE UNCHANGED <<name, client, files, owner, robbed>>
    BY <2>5 DEF CopyOf
  <2>6. ASSUME NEW c \in Clients, Crash(c)
        PROVE  UNCHANGED <<copy, done, broken>>
    BY <1>1, <2>6 DEF Crash, TypeOK, CopyOf, diskVars
  <2>7. \/ \E c \in Clients : \/ OnDone(c) \/ OnChunk(c) \/ OnName(c)
                              \/ Disconnected(c) \/ Crash(c)
        \/ UNCHANGED <<name, client, files, owner, robbed>>
    BY DEF Next, ClientStep, FailStep, CmStep, PollerStep, OnMr, OnReady, Lands,
       SendFails, ConnectRequest, Established, UnknownEvent, OpenDies,
       WriteDies, ShortWriteDies, OnEnd, Dies, vars, clientVars, diskVars
  <2> QED
    BY <2>1, <2>2, <2>3, <2>4, <2>5, <2>6, <2>7 DEF Copies!Next
<1> QED
  BY <1>2, <1>3

\* The server's files are the copies that FileCopy promises.
THEOREM TransferImplementsCopy == Spec => CopiesAreFaithful
<1>1. IInv /\ [Next]_vars =>
        [Copies!Next]_<<[c \in Clients |-> CopyOf(c)],
                        {c \in Clients : client[c] = "left"}, robbed # {}>>
  BY CopyStep
<1> QED
  BY CopyInit, <1>1, Invariance, PTL
     DEF Spec, CopiesAreFaithful, Copies!Spec, CopyOf

=============================================================================
