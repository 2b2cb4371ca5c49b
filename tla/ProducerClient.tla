---------------------------- MODULE ProducerClient ----------------------------
(* The producer library (integration/rdma_producer_client.c over common.c) and *)
(* the broker's side of its one connection (integration/server.c).             *)
(*                                                                             *)
(* Four threads meet here: the application, which calls produceRecord and      *)
(* terminate; the client's connection-manager (CM) thread; the client's        *)
(* completion poller, which runs on_completion and send_producer_record; and   *)
(* the broker.  A record is the number of the produceRecord call that made it. *)
EXTENDS Integers, Sequences, Functions

CONSTANTS
    BACKLOG,       \* PRODUCER_RECORD_BACKLOG, the slots of producer_records
    MaxRecords,    \* bound: calls of produceRecord
    MaxSpurious    \* bound: spurious wakeups of the two condition variables

ASSUME BacklogAssumption == BACKLOG \in Nat \ {0}
ASSUME BoundsAssumption == MaxRecords \in Nat /\ MaxSpurious \in Nat

VARIABLES
    app,              \* program counter of the application thread
    produced,         \* records stored by insertAtEnd so far
    shouldDisconnect, \* set by terminate without the mutex
    spurious,         \* spurious wakeups so far
    mutex,            \* holder of producer_mutex: "free" or "poller"
    records,          \* producer_records
    head,             \* head, -1 at first
    poller,           \* program counter of the completion poller
    index,            \* ctx->index
    buffer,           \* ctx->buffer, registered memory the NIC sends from
    msg,              \* ctx->msg, registered memory the NIC receives into
    posted,           \* receives posted by the client and not consumed
    cq,               \* RECV completions the client has not polled yet
    conn,             \* phase of the connection
    toServer,         \* RDMA writes with immediate in flight: 0 ends the stream
    toClient,         \* messages in flight to the client
    srvPosted,        \* receives posted by the broker on this connection
    srvBuffer,        \* the broker's ctx->buffer, target of the writes
    srvCq,            \* immediates of the broker's unpolled RECV completions
    log,              \* the records appended to consumer_buffer
    crashed           \* "no", or how the client process died

appVars  == <<app, produced, shouldDisconnect>>
ringVars == <<mutex, records, head>>
sendVars == <<index, buffer>>
recvVars == <<msg, posted, cq>>
netVars  == <<conn, toServer, toClient>>
srvVars  == <<srvPosted, srvBuffer, srvCq, log>>
connVars == <<sendVars, recvVars, netVars, srvVars>>
vars == <<appVars, spurious, ringVars, poller, connVars, crashed>>

NULL == 0
Wild == -1       \* a word outside producer_records, taken for a pointer
Slots == 0 .. BACKLOG - 1
Records == 1 .. MaxRecords

Init ==
    /\ app = "idle" /\ produced = 0 /\ shouldDisconnect = FALSE
    /\ spurious = 0
    /\ mutex = "free" /\ records = [s \in Slots |-> NULL] /\ head = -1
    /\ poller = "idle" /\ index = 0 /\ buffer = NULL
    /\ msg = "none" /\ posted = 0 /\ cq = 0
    /\ conn = "resolving" /\ toServer = <<>> /\ toClient = <<>>
    /\ srvPosted = 0 /\ srvBuffer = NULL /\ srvCq = <<>> /\ log = <<>>
    /\ crashed = "no"

Running == crashed = "no"

\* Mutant: the signal is left out.
SignalDropped == UNCHANGED poller

\* pthread_cond_signal(&producer_cond_variable): only a waiter notices.
SignalPoller == poller' = IF poller = "waiting" THEN "woken" ELSE poller

-----------------------------------------------------------------------------
(* The application thread. *)

ProduceRecord ==
    /\ Running /\ app = "idle" /\ produced < MaxRecords
    /\ app' = "insert"
    /\ UNCHANGED <<produced, shouldDisconnect, spurious, ringVars, poller,
                   connVars, crashed>>

NextHead == (head + 1) % BACKLOG

\* Mutant: a full ring is overwritten.
AlwaysFree == TRUE

\* What insertAtEnd asserts: "that we are not over-flowing".
SlotFree == records[NextHead] = NULL

\* The critical section of insertAtEnd, from lock to unlock.
InsertAtEnd ==
    /\ Running /\ app = "insert" /\ mutex = "free" /\ SlotFree
    /\ head' = NextHead
    /\ records' = [records EXCEPT ![NextHead] = produced + 1]
    /\ produced' = produced + 1
    /\ app' = "signal"
    /\ UNCHANGED <<shouldDisconnect, spurious, mutex, poller, connVars,
                   crashed>>

\* The assertion of insertAtEnd fails: the process aborts.
InsertOverflows ==
    /\ Running /\ app = "insert" /\ mutex = "free" /\ ~SlotFree
    /\ head' = NextHead
    /\ crashed' = "assert"
    /\ UNCHANGED <<appVars, spurious, mutex, records, poller, connVars>>

\* produceRecord signals after insertAtEnd has released the mutex.
SignalRecord ==
    /\ Running /\ app = "signal"
    /\ app' = "idle"
    /\ SignalPoller
    /\ UNCHANGED <<produced, shouldDisconnect, spurious, ringVars, connVars,
                   crashed>>

Terminate ==
    /\ Running /\ app = "idle"
    /\ shouldDisconnect' = TRUE
    /\ app' = "termsignal"
    /\ UNCHANGED <<produced, spurious, ringVars, poller, connVars, crashed>>

TerminateSignal ==
    /\ Running /\ app = "termsignal"
    /\ app' = "termlock"
    /\ SignalPoller
    /\ UNCHANGED <<produced, shouldDisconnect, spurious, ringVars, connVars,
                   crashed>>

\* Mutant: terminate does not wait.
TerminateNoWait ==
    /\ Running /\ app = "termlock"
    /\ app' = "termwoken"
    /\ UNCHANGED <<produced, shouldDisconnect, spurious, ringVars, poller,
                   connVars, crashed>>

\* No one else takes terminate_mutex, so locking it never blocks.
TerminateWait ==
    /\ Running /\ app = "termlock"
    /\ app' = "termwaiting"
    /\ UNCHANGED <<produced, shouldDisconnect, spurious, ringVars, poller,
                   connVars, crashed>>

TerminateReturn ==
    /\ Running /\ app = "termwoken"
    /\ app' = "returned"
    /\ UNCHANGED <<produced, shouldDisconnect, spurious, ringVars, poller,
                   connVars, crashed>>

\* pthread_cond_wait may return without a signal, and no loop rechecks.
SpuriousWakeup ==
    /\ Running /\ spurious < MaxSpurious
    /\ spurious' = spurious + 1
    /\ \/ /\ app = "termwaiting"
          /\ app' = "termwoken"
          /\ UNCHANGED poller
       \/ /\ poller = "waiting"
          /\ poller' = "woken"
          /\ UNCHANGED app
    /\ UNCHANGED <<produced, shouldDisconnect, ringVars, connVars, crashed>>
-----------------------------------------------------------------------------
(* Connection managers of the two ends. *)

\* build_connection, on_pre_conn (which posts the first receive), resolve_route.
AddrResolved ==
    /\ Running /\ conn = "resolving"
    /\ conn' = "routing"
    /\ posted' = posted + 1
    /\ UNCHANGED <<appVars, spurious, ringVars, poller, sendVars, msg, cq,
                   toServer, toClient, srvVars, crashed>>

RouteResolved ==
    /\ Running /\ conn = "routing"
    /\ conn' = "connecting"
    /\ UNCHANGED <<appVars, spurious, ringVars, poller, sendVars, recvVars,
                   toServer, toClient, srvVars, crashed>>

\* The broker's on_pre_conn posts a receive before rdma_accept.  It takes a request
\* up whatever became of the client that made it.
ConnectRequest ==
    /\ conn = "connecting"
    /\ conn' = "accepted"
    /\ srvPosted' = srvPosted + 1
    /\ UNCHANGED <<appVars, spurious, ringVars, poller, sendVars, recvVars,
                   toServer, toClient, srvBuffer, srvCq, log, crashed>>

\* The broker's on_connection sends the address of its buffer.
Established ==
    /\ Running /\ conn = "accepted"
    /\ conn' = "established"
    /\ toClient' = Append(toClient, "READY")
    /\ UNCHANGED <<appVars, spurious, ringVars, poller, sendVars, recvVars,
                   toServer, srvVars, crashed>>

\* An event event_loop has no case for (ADDR_ERROR, REJECTED, or UNREACHABLE, which
\* leaves a request behind that the broker has taken up or will): rc_die.
CmError ==
    /\ Running /\ conn \in {"resolving", "routing", "connecting", "accepted"}
    /\ crashed' = "cm_error"
    /\ UNCHANGED <<appVars, spurious, ringVars, poller, connVars>>

\* RDMA_CM_EVENT_DISCONNECTED: destroy the queue pair, leave event_loop.
Disconnected ==
    /\ Running /\ conn = "disconnecting"
    /\ conn' = "closed"
    /\ UNCHANGED <<appVars, spurious, ringVars, poller, sendVars, recvVars,
                   toServer, toClient, srvVars, crashed>>
-----------------------------------------------------------------------------
(* The broker's process may end (^C, or rc_die over another client): what it   *)
(* had sent and not delivered is lost.                                         *)

BrokerExit ==
    /\ Running /\ conn = "established"
    /\ conn' = "lost"
    /\ toClient' = <<>> /\ srvPosted' = 0 /\ srvCq' = <<>>
    /\ UNCHANGED <<appVars, spurious, ringVars, poller, sendVars, recvVars,
                   toServer, srvBuffer, log, crashed>>

\* A write to it runs out of retries, on which poll_cq ends the process.
WriteFails ==
    /\ Running /\ conn = "lost" /\ toServer # <<>>
    /\ crashed' = "write_failed"
    /\ UNCHANGED <<appVars, spurious, ringVars, poller, connVars>>

\* DISCONNECTED: destroy the queue pair and what it has pending, leave
\* event_loop and run_client_loop, whose local variable is the connection's
\* context.  The application is told nothing.
ConnectionLost ==
    /\ Running /\ conn = "lost"
    /\ conn' = "orphaned"
    /\ toServer' = <<>> /\ posted' = 0 /\ cq' = 0
    /\ UNCHANGED <<appVars, spurious, ringVars, poller, sendVars, msg, toClient,
                   srvVars, crashed>>

\* The poller goes on with that context and the destroyed connection.  What
\* this leads to is not followed.
StaleContext ==
    /\ Running /\ conn = "orphaned"
    /\ poller \in {"lock", "woken", "send", "post", "disconnect"}
    /\ crashed' = "stale_context"
    /\ UNCHANGED <<appVars, spurious, ringVars, poller, connVars>>

HasContext == conn # "orphaned"
-----------------------------------------------------------------------------
(* The reliable connection: in order, and it retries until a receive is posted *)
(* (rnr_retry_count = 7).  A write is read from the sender's memory here, when *)
(* it is carried out, and not when it is posted.                               *)

DeliverToClient ==
    /\ Running /\ conn = "established" /\ toClient # <<>> /\ posted > 0
    /\ msg' = Head(toClient)
    /\ toClient' = Tail(toClient)
    /\ posted' = posted - 1
    /\ cq' = cq + 1
    /\ UNCHANGED <<appVars, spurious, ringVars, poller, sendVars, conn,
                   toServer, srvVars, crashed>>

DeliverToServer ==
    /\ Running /\ conn = "established" /\ toServer # <<>> /\ srvPosted > 0
    /\ srvBuffer' = IF Head(toServer) > 0 THEN buffer ELSE srvBuffer
    /\ srvCq' = Append(srvCq, Head(toServer))
    /\ toServer' = Tail(toServer)
    /\ srvPosted' = srvPosted - 1
    /\ UNCHANGED <<appVars, spurious, ringVars, poller, sendVars, recvVars,
                   conn, toClient, log, crashed>>
-----------------------------------------------------------------------------
(* The client's completion poller. *)

OnReady ==
    /\ Running /\ poller = "idle" /\ cq > 0 /\ msg = "READY"
    /\ cq' = cq - 1
    /\ poller' = "lock"
    /\ UNCHANGED <<appVars, spurious, ringVars, sendVars, msg, posted, netVars,
                   srvVars, crashed>>

\* Mutant: a receive is posted after DONE too.
OnDonePosts ==
    /\ Running /\ poller = "idle" /\ cq > 0 /\ msg = "DONE"
    /\ cq' = cq - 1
    /\ posted' = posted + 1
    /\ poller' = "disconnect"
    /\ UNCHANGED <<appVars, spurious, ringVars, sendVars, msg, netVars,
                   srvVars, crashed>>

OnDone ==
    /\ Running /\ poller = "idle" /\ cq > 0 /\ msg = "DONE"
    /\ cq' = cq - 1
    /\ poller' = "disconnect"
    /\ UNCHANGED <<appVars, spurious, ringVars, sendVars, msg, posted, netVars,
                   srvVars, crashed>>

\* Mutant: the slot after the cursor is looked at.
SlotValuesNext ==
    IF index + 1 < BACKLOG THEN {records[index + 1]} ELSE {NULL, Wild}

\* What producer_records[ctx->index] may yield: index is never wrapped, and a
\* read past the array finds whatever word the linker put there.
SlotValues == IF index < BACKLOG THEN {records[index]} ELSE {NULL, Wild}

\* Mutant: the word found is not looked at before it is used.
SerializeAny(h) ==
    /\ buffer' = h
    /\ records' = [records EXCEPT ![index] = NULL]
    /\ mutex' = "free"
    /\ poller' = "send"
    /\ UNCHANGED <<toServer, crashed>>

\* Mutant: the slot is not freed.
SerializeKeep(h) ==
    /\ h > 0
    /\ buffer' = h
    /\ mutex' = "free"
    /\ poller' = "send"
    /\ UNCHANGED <<records, toServer, crashed>>

\* h is dereferenced, copied into the registered buffer, and its slot freed.
Serialize(h) ==
    /\ h > 0
    /\ buffer' = h
    /\ records' = [records EXCEPT ![index] = NULL]
    /\ mutex' = "free"
    /\ poller' = "send"
    /\ UNCHANGED <<toServer, crashed>>

\* Mutant: no receive is posted after the end of the stream.
SendDoneNoReceive ==
    /\ shouldDisconnect
    /\ toServer' = Append(toServer, 0)
    /\ mutex' = "poller"
    /\ poller' = "idle"
    /\ UNCHANGED <<records, buffer, crashed>>

\* rdma_send(id, 0) and a return that skips pthread_mutex_unlock.
SendDone ==
    /\ shouldDisconnect
    /\ toServer' = Append(toServer, 0)
    /\ mutex' = "poller"
    /\ poller' = "post"
    /\ UNCHANGED <<records, buffer, crashed>>

Dereference(how) ==
    /\ crashed' = how
    /\ mutex' = "poller"
    /\ UNCHANGED <<records, buffer, toServer, poller>>

\* send_producer_record up to pthread_cond_wait.
LookAtHead ==
    /\ Running /\ poller = "lock" /\ mutex = "free" /\ HasContext
    /\ \E h \in SlotValues :
          \/ Serialize(h)
          \/ h = Wild /\ Dereference("wild")
          \/ h = NULL /\ SendDone
          \/ /\ h = NULL /\ ~shouldDisconnect
             /\ mutex' = "poller"
             /\ poller' = "checked"
             /\ UNCHANGED <<records, buffer, toServer, crashed>>
    /\ UNCHANGED <<appVars, spurious, head, index, recvVars, conn, toClient,
                   srvVars>>

Wait ==
    /\ Running /\ poller = "checked"
    /\ mutex' = "free"
    /\ poller' = "waiting"
    /\ UNCHANGED <<appVars, spurious, records, head, connVars, crashed>>

\* The return of pthread_cond_wait, which holds the mutex again: the slot is
\* read once more, and a NULL is dereferenced unless shouldDisconnect is set.
LookAgain ==
    /\ Running /\ poller = "woken" /\ mutex = "free" /\ HasContext
    /\ \E h \in SlotValues :
          \/ Serialize(h)
          \/ h = Wild /\ Dereference("wild")
          \/ h = NULL /\ SendDone
          \/ h = NULL /\ ~shouldDisconnect /\ Dereference("nullderef")
    /\ UNCHANGED <<appVars, spurious, head, index, recvVars, conn, toClient,
                   srvVars>>

\* Mutant: the next record is sent without waiting for READY.
RdmaSendPipelined ==
    /\ Running /\ poller = "send" /\ HasContext
    /\ toServer' = Append(toServer, 1)
    /\ index' = index + 1
    /\ poller' = "lock"
    /\ UNCHANGED <<appVars, spurious, ringVars, buffer, recvVars, conn,
                   toClient, srvVars, crashed>>

RdmaSend ==
    /\ Running /\ poller = "send" /\ HasContext
    /\ toServer' = Append(toServer, 1)
    /\ index' = index + 1
    /\ poller' = "post"
    /\ UNCHANGED <<appVars, spurious, ringVars, buffer, recvVars, conn,
                   toClient, srvVars, crashed>>

\* on_completion posts the next receive only after it has sent.
PostReceive ==
    /\ Running /\ poller = "post" /\ HasContext
    /\ posted' = posted + 1
    /\ poller' = "idle"
    /\ UNCHANGED <<appVars, spurious, ringVars, sendVars, msg, cq, netVars,
                   srvVars, crashed>>

\* rc_disconnect flushes posted receives; poll_cq answers a flush with rc_die.
RcDisconnect ==
    /\ Running /\ poller = "disconnect" /\ HasContext
    /\ conn' = "disconnecting"
    /\ poller' = "signaldone"
    /\ crashed' = IF posted > 0 THEN "flush" ELSE "no"
    /\ UNCHANGED <<appVars, spurious, ringVars, sendVars, recvVars, toServer,
                   toClient, srvVars>>

SignalDone ==
    /\ Running /\ poller = "signaldone"
    /\ poller' = "idle"
    /\ app' = IF app = "termwaiting" THEN "termwoken" ELSE app
    /\ UNCHANGED <<produced, shouldDisconnect, spurious, ringVars, connVars,
                   crashed>>
-----------------------------------------------------------------------------
(* The broker's on_completion for this connection. *)

\* A record: append it to consumer_buffer, post a receive, then send READY.
SrvRecord ==
    /\ srvCq # <<>> /\ Head(srvCq) > 0
    /\ log' = Append(log, srvBuffer)
    /\ srvPosted' = srvPosted + 1
    /\ toClient' = Append(toClient, "READY")
    /\ srvCq' = Tail(srvCq)
    /\ UNCHANGED <<appVars, spurious, ringVars, poller, sendVars, recvVars,
                   conn, toServer, srvBuffer, crashed>>

\* An immediate of 0: send DONE and post no receive.
SrvDone ==
    /\ srvCq # <<>> /\ Head(srvCq) = 0
    /\ toClient' = Append(toClient, "DONE")
    /\ srvCq' = Tail(srvCq)
    /\ UNCHANGED <<appVars, spurious, ringVars, poller, sendVars, recvVars,
                   conn, toServer, srvPosted, srvBuffer, log, crashed>>
-----------------------------------------------------------------------------
AppStep == InsertAtEnd \/ InsertOverflows \/ SignalRecord
           \/ TerminateSignal \/ TerminateWait \/ TerminateReturn
CmStep == AddrResolved \/ RouteResolved \/ Disconnected \/ ConnectionLost
PollerStep == OnReady \/ OnDone \/ LookAtHead \/ Wait \/ LookAgain \/ RdmaSend
              \/ PostReceive \/ RcDisconnect \/ SignalDone \/ StaleContext
BrokerStep == ConnectRequest \/ Established \/ SrvRecord \/ SrvDone

Next ==
    \/ ProduceRecord \/ Terminate \/ SpuriousWakeup \/ CmError
    \/ AppStep \/ CmStep \/ PollerStep \/ BrokerStep
    \/ DeliverToClient \/ DeliverToServer \/ BrokerExit \/ WriteFails

(* Every thread that can run is scheduled, and the network delivers.  Nothing  *)
(* obliges the application to make a call, a connection or the broker to fail, *)
(* or a condition variable to wake spuriously.                                 *)
Fairness ==
    /\ WF_vars(AppStep) /\ WF_vars(CmStep)
    /\ WF_vars(PollerStep) /\ WF_vars(BrokerStep)
    /\ WF_vars(DeliverToClient) /\ WF_vars(DeliverToServer)

Spec == Init /\ [][Next]_vars
FairSpec == Spec /\ Fairness
-----------------------------------------------------------------------------
(* Properties. *)

\* Of every variable but crashed, of which EarlierProducer has a value more.
StateOK ==
    /\ app \in {"idle", "insert", "signal", "termsignal", "termlock",
                "termwaiting", "termwoken", "returned"}
    /\ produced \in 0 .. MaxRecords
    /\ shouldDisconnect \in BOOLEAN
    /\ spurious \in 0 .. MaxSpurious
    /\ mutex \in {"free", "poller"}
    /\ records \in [Slots -> {NULL} \cup Records]
    /\ head \in {-1} \cup Slots
    /\ poller \in {"idle", "lock", "checked", "waiting", "woken", "send",
                   "post", "disconnect", "signaldone"}
    /\ index \in 0 .. BACKLOG
    /\ buffer \in {NULL} \cup Records
    /\ msg \in {"none", "READY", "DONE"}
    /\ posted \in Nat /\ cq \in Nat
    /\ conn \in {"resolving", "routing", "connecting", "accepted",
                 "established", "disconnecting", "closed", "lost",
                 "orphaned"}
    /\ toServer \in Seq({0, 1}) /\ toClient \in Seq({"READY", "DONE"})
    /\ srvPosted \in Nat
    /\ srvBuffer \in {NULL} \cup Records
    /\ srvCq \in Seq({0, 1})
    /\ log \in Seq(Records)

\* The ways the client process may die.
Deaths == {"assert", "nullderef", "wild", "cm_error", "flush", "write_failed",
           "stale_context"}

TypeOK ==
    /\ StateOK
    /\ crashed \in {"no"} \cup Deaths

\* The broker receives the records in the order of the produceRecord calls, each
\* once and none left out, whatever the threads' interleaving (the ring of
\* insertAtEnd, the cursor of send_producer_record and the shared buffers).
InOrderDelivery == \A i \in DOMAIN log : log[i] = i

\* A stream end (an immediate of 0, then DONE) on its way or received.
Ended == 0 \in Range(toServer) \cup Range(srvCq)
         \/ "DONE" \in Range(toClient) \cup {msg}

\* The stream is ended only when the broker has every record, provided the
\* records fit the ring once: a record inserted just before shouldDisconnect is
\* set is never skipped by send_producer_record.
DoneMeansAllDelivered ==
    Ended /\ produced <= BACKLOG => Len(log) = produced

\* Registered memory is not rewritten under a reader: the client's buffer while a
\* write from it is in flight, the broker's while a record in it is unread.  Only
\* the READY handshake protects them.
BuffersStable ==
    [][/\ buffer' # buffer => toServer = <<>>
       /\ srvBuffer' # srvBuffer => srvCq = <<>>]_vars

\* At rc_disconnect nothing is outstanding on either end, so no completion is
\* flushed with an error, which poll_cq would answer by ending the process.
NoFlushAtDisconnect ==
    /\ crashed # "flush"
    /\ conn \in {"disconnecting", "closed"} =>
          /\ posted = 0 /\ cq = 0 /\ srvPosted = 0
          /\ toServer = <<>> /\ toClient = <<>> /\ srvCq = <<>>

\* Records the poller has taken out of the ring.
Taken == IF poller = "send" THEN index + 1 ELSE index

\* The overflow assertion of insertAtEnd fires only when as many records as the
\* ring has slots are waiting to be sent.
OverflowOnlyWhenFull == crashed = "assert" => produced - Taken = BACKLOG

\* Unless a wakeup was spurious, terminate returns only once the broker has every
\* record that fits the ring ("Wait for all producer records to be sent").
TerminateMeansDelivered ==
    app = "returned" /\ spurious = 0 /\ produced <= BACKLOG =>
        Len(log) = produced

Called(r) == produced >= r \/ (app = "insert" /\ produced = r - 1)
BrokerGone == conn \in {"lost", "orphaned"}

\* Every record that fits the ring reaches the broker, from the call of
\* produceRecord on, unless one of the two processes dies: no interleaving of
\* insert and signal with the poller's check and wait loses a wakeup for a
\* record, and the mutex that send_producer_record leaves locked at the end of
\* the stream is not needed any more.
DeliveredEventually ==
    \A r \in 1 .. BACKLOG : Called(r) ~> Len(log) >= r \/ ~Running \/ BrokerGone

\* The two waits that a signal sent too early leaves without a wakeup, and the
\* one that nobody ends when the broker has gone.
LostDisconnectSignal == app = "termwaiting" /\ poller = "waiting"
LostDoneSignal == /\ app = "termwaiting" /\ poller = "idle"
                  /\ conn \in {"disconnecting", "closed"}
LostBroker == app = "termwaiting" /\ conn = "orphaned"

\* terminate returns, or the process dies, or it hangs in one of those waits and
\* nowhere else.
TerminateReturnsOrHangs ==
    shouldDisconnect ~> \/ app = "returned"
                        \/ ~Running
                        \/ LostDisconnectSignal \/ LostDoneSignal \/ LostBroker
-----------------------------------------------------------------------------
(* What comments of the source say, and the code does not do. *)

\* "Wait till we have a node added to the linked list" (line 126): when the wait
\* is over there is a node, or the poller is to disconnect.
WaitsForNode == crashed # "nullderef"

\* "Signal RDMA thread to remove it from waiting" (line 219): once terminate has
\* signalled, the poller does not sit in the wait it was to be removed from.
SignalRemovesFromWaiting == ~LostDisconnectSignal

\* "Now look at head of ProducerMessage linked list" (line 115): the element
\* looked at is an element of the list.
LooksAtHeadOfList == poller = "lock" => index < BACKLOG

=============================================================================
