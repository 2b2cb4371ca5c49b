--------------------------------- MODULE Broker ---------------------------------
(* The broker (integration/server.c over common.c) with all its clients at     *)
(* once.  Two of its threads act on the connections: the CM thread in          *)
(* event_loop, and the poller in poll_cq, which all connections share with one *)
(* completion queue.  A client is what the broker sees of ProducerClient or    *)
(* ConsumerClient; it may crash at any moment.                                 *)
EXTENDS Integers, Sequences, FiniteSets

CONSTANTS
    Producers, Consumers,   \* the clients, by role
    Cqe,                    \* entries of the completion queue, 10 in the code
    Quota,                  \* bound: records of each producer
    MaxCrashes              \* bound: clients that crash

ASSUME ClientsAssumption ==
    /\ IsFiniteSet(Producers) /\ IsFiniteSet(Consumers)
    /\ Producers \cap Consumers = {}
ASSUME BoundsAssumption ==
    Cqe \in Nat \ {0} /\ Quota \in [Producers -> Nat] /\ MaxCrashes \in Nat

Clients == Producers \cup Consumers

VARIABLES
    client,      \* of each client: "up", "left" or "crashed"
    has,         \* of each client: the message it has to act on
    sent,        \* of each producer: records written
    phase,       \* of each connection, as the broker's CM thread has it
    ctx,         \* of each connection: its conn_context
    posted,      \* of each connection: receives posted
    buffer,      \* of each connection: ctx->buffer
    toClient,    \* of each connection: SENDs in flight
    toServer,    \* of each connection: writes in flight, 0 ends the stream
    cq,          \* completions not polled
    hand,        \* the completion poll_cq has taken and not handled: 0 or 1
    log,         \* consumer_buffer: <<producer, record>> pairs
    uaf,         \* completions handled on a destroyed connection
    dead         \* "no", or why the broker exited

clientVars == <<client, has, sent>>
memVars == <<posted, buffer, toClient, toServer>>
vars == <<clientVars, phase, ctx, memVars, cq, hand, log, uaf, dead>>

Running == dead = "no"

\* All clients have asked for a connection; event_loop takes them up in any order,
\* be it after others have left.
Init ==
    /\ client = [c \in Clients |-> "up"]
    /\ has = [c \in Clients |-> "none"]
    /\ sent = [c \in Clients |-> 0]
    /\ phase = [c \in Clients |-> "requested"]
    /\ ctx = [c \in Clients |-> "none"]
    /\ posted = [c \in Clients |-> 0]
    /\ buffer = [c \in Clients |-> 0]
    /\ toClient = [c \in Clients |-> <<>>]
    /\ toServer = [c \in Clients |-> <<>>]
    /\ cq = <<>> /\ hand = <<>>
    /\ log = <<>> /\ uaf = {} /\ dead = "no"

Completion(c, kind, imm) == [conn |-> c, kind |-> kind, imm |-> imm]
HasQp(c) == phase[c] \in {"accepted", "established"}
-----------------------------------------------------------------------------
(* The clients and the network between them and the broker. *)

\* A producer answers READY with its next record, or ends its stream.
Write(p) ==
    /\ Running /\ client[p] = "up" /\ has[p] = "READY"
    /\ has' = [has EXCEPT ![p] = "none"]
    /\ \/ /\ sent[p] < Quota[p]
          /\ sent' = [sent EXCEPT ![p] = @ + 1]
          /\ toServer' = [toServer EXCEPT ![p] = Append(@, sent[p] + 1)]
       \/ /\ toServer' = [toServer EXCEPT ![p] = Append(@, 0)]
          /\ UNCHANGED sent
    /\ UNCHANGED <<client, phase, ctx, posted, buffer, toClient, cq, hand, log,
                   uaf, dead>>

\* Mutant: a producer does not wait for the answer to what it has written.
AnyAnswer(c) == IF c \in Producers THEN "none" ELSE "READY"

\* A producer disconnects on DONE, a consumer when it has enough.
LastMessage(c) == IF c \in Producers THEN "DONE" ELSE "READY"

Leave(c) ==
    /\ Running /\ client[c] = "up"
    /\ has[c] = LastMessage(c)
    /\ client' = [client EXCEPT ![c] = "left"]
    /\ UNCHANGED <<has, sent, phase, ctx, memVars, cq, hand, log, uaf, dead>>

Crash(c) ==
    /\ Running /\ client[c] = "up"
    /\ Cardinality({d \in Clients : client[d] = "crashed"}) < MaxCrashes
    /\ client' = [client EXCEPT ![c] = "crashed"]
    /\ UNCHANGED <<has, sent, phase, ctx, memVars, cq, hand, log, uaf, dead>>

\* A SEND arrives; its acknowledgement, and so the broker's completion, is
\* taken to precede any answer of the client.
Deliver(c) ==
    /\ Running /\ HasQp(c) /\ client[c] = "up" /\ toClient[c] # <<>>
    /\ has' = [has EXCEPT ![c] = Head(toClient[c])]
    /\ toClient' = [toClient EXCEPT ![c] = Tail(@)]
    /\ cq' = Append(cq, Completion(c, "SEND", 0))
    /\ UNCHANGED <<client, sent, phase, ctx, posted, buffer, toServer, hand,
                   log, uaf, dead>>

\* A SEND to a crashed client runs out of retries.
SendFails(c) ==
    /\ Running /\ HasQp(c) /\ client[c] = "crashed" /\ toClient[c] # <<>>
    /\ toClient' = [toClient EXCEPT ![c] = <<>>]
    /\ cq' = Append(cq, Completion(c, "ERROR", 0))
    /\ UNCHANGED <<clientVars, phase, ctx, posted, buffer, toServer, hand, log,
                   uaf, dead>>

\* A write with immediate lands in ctx->buffer and consumes a receive.
WriteLands(c) ==
    /\ Running /\ HasQp(c) /\ toServer[c] # <<>> /\ posted[c] > 0
    /\ LET imm == Head(toServer[c]) IN
          /\ buffer' = [buffer EXCEPT ![c] = IF imm > 0 THEN imm ELSE @]
          /\ cq' = Append(cq, Completion(c, "RECV", imm))
    /\ toServer' = [toServer EXCEPT ![c] = Tail(@)]
    /\ posted' = [posted EXCEPT ![c] = @ - 1]
    /\ UNCHANGED <<clientVars, phase, ctx, toClient, hand, log, uaf, dead>>
-----------------------------------------------------------------------------
(* The CM thread: event_loop and the callbacks it makes. *)

\* on_pre_conn allocates the context and posts a receive before rdma_accept.
ConnectRequest(c) ==
    /\ Running /\ phase[c] = "requested"
    /\ phase' = [phase EXCEPT ![c] = "accepted"]
    /\ ctx' = [ctx EXCEPT ![c] = "live"]
    /\ posted' = [posted EXCEPT ![c] = @ + 1]
    /\ UNCHANGED <<clientVars, buffer, toClient, toServer, cq, hand, log, uaf,
                   dead>>

\* Mutant: the address is announced twice.
GreetingTwice == <<"READY", "READY">>

\* on_connection sends the address of the buffer.
Greeting == <<"READY">>

Established(c) ==
    /\ Running /\ phase[c] = "accepted"
    /\ phase' = [phase EXCEPT ![c] = "established"]
    /\ toClient' = [toClient EXCEPT ![c] = @ \o Greeting]
    /\ UNCHANGED <<clientVars, ctx, posted, buffer, toServer, cq, hand, log,
                   uaf, dead>>

\* The client is gone before the connection is established: the event that says
\* so (CONNECT_ERROR, UNREACHABLE) has no case in event_loop.
UnknownEvent(c) ==
    /\ Running /\ phase[c] = "accepted" /\ client[c] = "crashed"
    /\ dead' = "unknown_event"
    /\ UNCHANGED <<clientVars, phase, ctx, memVars, cq, hand, log, uaf>>

\* The entries of s that are not of connection c, in their order.
Others(s, c) ==
    LET others[n \in 0 .. Len(s)] ==
            IF n = 0 THEN <<>>
            ELSE IF s[n].conn = c THEN others[n - 1]
            ELSE Append(others[n - 1], s[n])
    IN  others[Len(s)]

\* DISCONNECTED: rdma_destroy_qp takes the connection's completions out of cq.
DestroyQp(c) ==
    /\ Running /\ phase[c] = "established" /\ client[c] \in {"left", "crashed"}
    /\ phase' = [phase EXCEPT ![c] = "noqp"]
    /\ cq' = Others(cq, c)
    /\ posted' = [posted EXCEPT ![c] = 0]
    /\ toClient' = [toClient EXCEPT ![c] = <<>>]
    /\ toServer' = [toServer EXCEPT ![c] = <<>>]
    /\ UNCHANGED <<clientVars, ctx, buffer, hand, log, uaf, dead>>

\* on_disconnect frees the context, then rdma_destroy_id the connection.
OnDisconnect(c) ==
    /\ Running /\ phase[c] = "noqp"
    /\ phase' = [phase EXCEPT ![c] = "gone"]
    /\ ctx' = [ctx EXCEPT ![c] = "freed"]
    /\ UNCHANGED <<clientVars, memVars, cq, hand, log, uaf, dead>>
-----------------------------------------------------------------------------
(* The poller. *)

PollCq ==
    /\ Running /\ hand = <<>> /\ cq # <<>>
    /\ cq' = Tail(cq)
    /\ IF Head(cq).kind = "ERROR"
       THEN dead' = "bad_completion" /\ UNCHANGED hand
       ELSE hand' = <<Head(cq)>> /\ UNCHANGED dead
    /\ UNCHANGED <<clientVars, phase, ctx, memVars, log, uaf>>

\* on_completion reads id->context and ctx->role before it looks at the opcode,
\* and for a receive it uses the queue pair too.
Touches(e) == IF e.kind = "SEND" THEN ctx[e.conn] = "live" ELSE HasQp(e.conn)

\* Mutant: the size of the write is not looked at.
AnySize(e) == e.kind = "RECV"

\* Mutant: no receive is posted.
NoReceive(c) == UNCHANGED posted

\* Mutant: all connections share one buffer.
SharedBuffer(e) == buffer[CHOOSE p \in Producers : TRUE]

\* A write of size 0 is the end of the stream.
IsRecord(e) == e.kind = "RECV" /\ e.imm > 0
IsEnd(e) == e.kind = "RECV" /\ e.imm = 0

PostReceive(c) == posted' = [posted EXCEPT ![c] = @ + 1]

\* What is appended to consumer_buffer.
Stored(e) == buffer[e.conn]

\* A record: append it to consumer_buffer, post a receive, then send READY.
OnRecord ==
    /\ Running /\ hand # <<>>
    /\ LET e == hand[1] IN
          /\ IsRecord(e) /\ Touches(e)
          /\ log' = Append(log, <<e.conn, Stored(e)>>)
          /\ PostReceive(e.conn)
          /\ toClient' = [toClient EXCEPT ![e.conn] = Append(@, "READY")]
    /\ hand' = <<>>
    /\ UNCHANGED <<clientVars, phase, ctx, buffer, toServer, cq, uaf, dead>>

\* The end of a stream: send DONE and post nothing.
OnEnd ==
    /\ Running /\ hand # <<>>
    /\ LET e == hand[1] IN
          /\ IsEnd(e) /\ Touches(e)
          /\ toClient' = [toClient EXCEPT ![e.conn] = Append(@, "DONE")]
    /\ hand' = <<>>
    /\ UNCHANGED <<clientVars, phase, ctx, posted, buffer, toServer, cq, log,
                   uaf, dead>>

OnSendCompleted ==
    /\ Running /\ hand # <<>> /\ hand[1].kind = "SEND" /\ Touches(hand[1])
    /\ hand' = <<>>
    /\ UNCHANGED <<clientVars, phase, ctx, memVars, cq, log, uaf, dead>>

\* The CM thread has destroyed the connection in the meantime.  What the freed
\* memory makes on_completion do is not modelled.
UseAfterFree ==
    /\ Running /\ hand # <<>> /\ ~Touches(hand[1])
    /\ uaf' = uaf \cup {<<hand[1].conn, hand[1].kind>>}
    /\ hand' = <<>>
    /\ UNCHANGED <<clientVars, phase, ctx, memVars, cq, log, dead>>
-----------------------------------------------------------------------------
ClientStep(c) == Leave(c) \/ Crash(c) \/ Deliver(c) \/ SendFails(c)
                 \/ WriteLands(c)
CmStep(c) == ConnectRequest(c) \/ Established(c) \/ UnknownEvent(c)
             \/ DestroyQp(c) \/ OnDisconnect(c)
PollerStep == PollCq \/ OnRecord \/ OnEnd \/ OnSendCompleted \/ UseAfterFree

Next == \/ \E c \in Clients : ClientStep(c) \/ CmStep(c)
        \/ \E p \in Producers : Write(p)
        \/ PollerStep

(* The broker's threads are scheduled, the network delivers, and a producer    *)
(* disconnects when it is told DONE.  Told READY it may take for ever: for want  *)
(* of a record, or in a wait that nobody ends.  Consumers stay as they like.    *)
Fairness ==
    /\ WF_vars(PollerStep)
    /\ \A c \in Clients : WF_vars(CmStep(c)) /\ WF_vars(Deliver(c))
                          /\ WF_vars(WriteLands(c))
    /\ \A p \in Producers : WF_vars(Leave(p))

Spec == Init /\ [][Next]_vars
FairSpec == Spec /\ Fairness
-----------------------------------------------------------------------------
(* Properties. *)

Completions == [conn : Clients, kind : {"SEND", "RECV", "ERROR"},
                imm : Nat]

TypeOK ==
    /\ client \in [Clients -> {"up", "left", "crashed"}]
    /\ has \in [Clients -> {"none", "READY", "DONE"}]
    /\ sent \in [Clients -> Nat]
    /\ phase \in [Clients -> {"requested", "accepted", "established", "noqp",
                              "gone"}]
    /\ ctx \in [Clients -> {"none", "live", "freed"}]
    /\ posted \in [Clients -> Nat]
    /\ buffer \in [Clients -> Nat]
    /\ toClient \in [Clients -> Seq({"READY", "DONE"})]
    /\ toServer \in [Clients -> Seq(Nat)]
    /\ cq \in Seq(Completions) /\ hand \in Seq(Completions)
    /\ log \in Seq(Producers \X (Nat \ {0}))
    /\ uaf \subseteq Clients \X {"SEND", "RECV", "ERROR"}
    /\ dead \in {"no", "unknown_event", "bad_completion"}

\* The completion queue is large enough for two entries of every producer and
\* one of every consumer, however long the poller is kept from it.
CqNeverOverflows ==
    Cqe >= 2 * Cardinality(Producers) + Cardinality(Consumers) =>
        Len(cq) <= Cqe

\* consumer_buffer is a topic log: however the producers' completions interleave
\* and whoever crashes, it gets the records of each in the order they were sent,
\* once, and a producer is told DONE only when all of its own are there.
Topic == INSTANCE TopicLog WITH
    offered <- [p \in Producers |-> sent[p]],
    topic <- log,
    done <- {p \in Producers : has[p] = "DONE"}
ImplementsTopic == Topic!Spec

\* ctx->msg is sent in place: it is not rewritten while a SEND of it is in
\* flight.
OneMessageInFlight ==
    [][\A c \in Clients : Len(toClient'[c]) > Len(toClient[c]) =>
            toClient[c] = <<>>]_vars

\* The CM thread can free a connection under the poller, but without a client's
\* crash only under the completion of a SEND, where no record is at stake.
FreedOnlyUnderSend ==
    \A u \in uaf : u[2] = "RECV" => client[u[1]] = "crashed"

\* The broker ends only over a client that crashed while it was owed a message: the
\* greeting, or the answer to a write.  One that leaves, that crashes with a message
\* in hand, or whose disconnect the CM thread has seen, does not take the broker of
\* the others with it.
EndsOnlyOverOwed ==
    Running \/ \E c \in Clients :
        client[c] = "crashed" /\ has[c] = "none" /\ HasQp(c)

\* A producer is never left waiting: its request for a connection and each record
\* it writes are answered by READY, and once it has written the end of its stream
\* its connection is destroyed.  Other clients cannot prevent it, unless the broker
\* ends (EndsOnlyOverOwed) or the producer itself crashes.
Served ==
    \A p \in Producers :
        has[p] = "none" ~> \/ has[p] = "READY" \/ phase[p] = "gone"
                           \/ client[p] = "crashed" \/ ~Running

=============================================================================
