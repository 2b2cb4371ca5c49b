---------------------------- MODULE EarlierProducer ----------------------------
(* The earlier producer (producer/): client.c over the library, whose code is  *)
(* that of ProducerClient with a ring of 1000, and a server that prints what   *)
(* it receives.  To the threads and messages of ProducerClient this module     *)
(* adds the bytes: what strcpy leaves in a buffer, how much of it a write      *)
(* carries and what printf takes from it; and what becomes of the server when  *)
(* the client's process ends.                                                  *)
EXTENDS ProducerClient, FiniteSetsExt

CONSTANT Lengths     \* of each record, strlen of "key/value"

ASSUME LengthsAssumption ==
    Lengths \in [Records -> Nat \ {0}] /\ MaxRecords < BACKLOG

VARIABLES
    text,       \* the bytes of the client's ctx->buffer
    sizes,      \* of each write in flight: its length
    srvText,    \* the bytes of the server's ctx->buffer
    printed,    \* the strings the server has printed
    server      \* the server, or how it has done with the connection

byteVars == <<text, sizes, srvText, printed, server>>
allVars == <<vars, byteVars>>

Junk == -1           \* a byte of memory that nobody has written
Longest == Max({Lengths[r] : r \in Records} \cup {0})
Cells == 0 .. Longest

\* A byte is the number of the record it is of, or 0, the terminator.
Text(r) == [i \in 1 .. Lengths[r] |-> r]

\* The string that starts a buffer; without a terminator it takes all of it.
CString(mem) ==
    LET n == Min({i \in Cells : mem[i] = 0} \cup {Longest + 1})
    IN  [i \in 1 .. n |-> mem[i - 1]]

\* strcpy overwrites the start of a buffer, terminator included.
StrCpy(mem, r) ==
    [i \in Cells |-> IF i < Lengths[r] THEN r
                     ELSE IF i = Lengths[r] THEN 0 ELSE mem[i]]

\* posix_memalign does not clear what it allocates, fresh pages are clear.
BytesInit ==
    /\ Init
    /\ \E byte \in {0, Junk} :
          text = [i \in Cells |-> byte] /\ srvText = [i \in Cells |-> byte]
    /\ sizes = <<>> /\ printed = <<>> /\ server = "up"
-----------------------------------------------------------------------------
(* The client's process.  main produces its records, terminates and returns.   *)

Produces == (ProduceRecord \/ SignalRecord) /\ UNCHANGED byteVars

Inserts == InsertAtEnd /\ UNCHANGED byteVars

Terminates ==
    /\ \/ produced = MaxRecords /\ Terminate
       \/ TerminateSignal \/ TerminateWait \/ TerminateReturn
    /\ UNCHANGED byteVars

WakesSpuriously == SpuriousWakeup /\ UNCHANGED byteVars

\* return 0 of main: the other threads end, whatever they are at.
Exits ==
    /\ Running /\ app = "returned"
    /\ crashed' = "exited"
    /\ UNCHANGED <<appVars, spurious, ringVars, poller, connVars, byteVars>>

Connects ==
    /\ AddrResolved \/ RouteResolved \/ CmError \/ Disconnected
    /\ UNCHANGED byteVars

Completes ==
    /\ OnReady \/ OnDone \/ PostReceive \/ RcDisconnect \/ SignalDone
    /\ UNCHANGED byteVars

\* send_producer_record: a record is copied to the registered buffer, or the end
\* of the stream is written, with no bytes.
Looks ==
    /\ LookAtHead \/ Wait \/ LookAgain
    /\ text' = IF poller' = "send" THEN StrCpy(text, buffer') ELSE text
    /\ sizes' = IF poller' = "post" THEN Append(sizes, 0) ELSE sizes
    /\ UNCHANGED <<srvText, printed, server>>

\* Mutants: the terminator is not counted, or counted twice.
SizeWithout(r) == Lengths[r]
SizeTwice(r) == Lengths[r] + 2

Size(r) == Lengths[r] + 1

Sends ==
    /\ RdmaSend
    /\ sizes' = Append(sizes, Size(buffer))
    /\ UNCHANGED <<text, srvText, printed, server>>
-----------------------------------------------------------------------------
(* The network and the server. *)

Arrives == server = "up" /\ DeliverToClient /\ UNCHANGED byteVars

\* A write replaces as many bytes as it is long, and no more.
Lands ==
    /\ server = "up" /\ DeliverToServer
    /\ srvText' = [i \in Cells |-> IF i < Head(sizes) THEN text[i]
                                                      ELSE srvText[i]]
    /\ sizes' = Tail(sizes)
    /\ UNCHANGED <<text, printed, server>>

Accepts == server = "up" /\ ConnectRequest /\ UNCHANGED byteVars
Greets == server = "up" /\ Established /\ UNCHANGED byteVars

Prints ==
    /\ server = "up" /\ SrvRecord
    /\ printed' = Append(printed, CString(srvText))
    /\ UNCHANGED <<text, sizes, srvText, server>>

Confirms == server = "up" /\ SrvDone /\ UNCHANGED byteVars

\* What the server had sent or received on the connection goes with it.
ServerEnds(how) ==
    /\ server = "up"
    /\ server' = how
    /\ toClient' = <<>> /\ srvPosted' = 0 /\ srvCq' = <<>>
    /\ UNCHANGED <<appVars, spurious, ringVars, poller, sendVars, recvVars,
                   conn, toServer, srvBuffer, log, crashed, text, sizes,
                   srvText, printed>>

\* DISCONNECTED: destroy the queue pair, free the context, go on.
SrvDisconnected ==
    /\ \/ conn \in {"disconnecting", "closed"}
       \/ conn = "established" /\ ~Running
    /\ ServerEnds("disconnected")

\* The client is gone before the connection is established, be it before or after
\* its request was taken up: rc_die.
SrvUnknownEvent ==
    conn = "accepted" /\ ~Running /\ ServerEnds("unknown_event")

\* A SEND to a client that is gone fails: rc_die.
SrvSendFails ==
    toClient # <<>> /\ ~Running /\ ServerEnds("bad_completion")
-----------------------------------------------------------------------------
ClientStep == Produces \/ Inserts \/ Terminates \/ WakesSpuriously \/ Exits
              \/ Connects \/ Completes \/ Looks \/ Sends
ServerStep == Accepts \/ Greets \/ Prints \/ Confirms \/ SrvDisconnected
              \/ SrvUnknownEvent \/ SrvSendFails

BytesNext == ClientStep \/ ServerStep \/ Arrives \/ Lands

BytesSpec == BytesInit /\ [][BytesNext]_allVars
-----------------------------------------------------------------------------
(* Properties. *)

Bytes == {Junk, 0} \cup Records

BytesTypeOK ==
    /\ text \in [Cells -> Bytes] /\ srvText \in [Cells -> Bytes]
    /\ sizes \in Seq(0 .. Longest + 1) /\ Len(sizes) = Len(toServer)
    /\ printed \in Seq(UNION {[1 .. n -> Bytes] : n \in 0 .. Longest + 1})
    /\ server \in {"up", "disconnected", "unknown_event", "bad_completion"}
    /\ crashed \in {"no", "nullderef", "cm_error", "exited"}

\* The record a printed string is of, 0 if it is none.
RecordOf(string) ==
    LET rs == {r \in Records : Text(r) = string}
    IN  IF rs = {} THEN 0 ELSE CHOOSE r \in rs : TRUE

\* What the server prints is a topic of this one producer: each record as it was
\* produced, with nothing left over from a longer one before it, once and in
\* order, and when main has returned (not by a spurious wakeup) all of them.
Topic == INSTANCE TopicLog WITH
    Producers <- {"client"},
    offered <- [p \in {"client"} |-> produced],
    topic <- [i \in DOMAIN printed |-> <<"client", RecordOf(printed[i])>>],
    done <- IF crashed = "exited" /\ spurious = 0 THEN {"client"} ELSE {}
ImplementsTopic == Topic!Spec

\* A client whose connection was established does not take the server with it when
\* it crashes, or returns from main after terminate: nothing is in flight to it
\* then.  Only a spurious wakeup of terminate lets it go too early.  Before that a
\* client that gives up does end the server, if its request is taken up.
ServerSurvives ==
    /\ server = "bad_completion" => spurious > 0
    /\ server = "unknown_event" => spurious > 0 \/ crashed = "cm_error"
=============================================================================
