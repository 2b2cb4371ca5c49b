------------------------------ MODULE SharedBuffer ------------------------------
(* The earlier server (consumer/server.c over consumer/common.c): one buffer   *)
(* for all connections, made for the first and freed with the last, which a    *)
(* thread of the server's own fills and the clients read one-sidedly.  A use   *)
(* of the buffer or of its region after they were freed is recorded and has no *)
(* further effect.                                                             *)
EXTENDS Integers, FiniteSets

CONSTANTS
    Conns,     \* the connections that are asked for, each once
    Writes     \* sprintf calls of produce_data, 5 in the code

ASSUME ConnsAssumption == IsFiniteSet(Conns) /\ "produce_data" \notin Conns
ASSUME WritesAssumption == Writes \in Nat

VARIABLES
    client,       \* of each connection: its client is "up", "ready" or "left"
    phase,        \* of each connection, as the CM thread has it
    toClient,     \* connections with a READY in flight
    num_clients,  \* num_clients
    memory,       \* buffer and its region: "none" as long as buffer is NULL
    produced,     \* sprintf calls produce_data has made
    contents,     \* of these, the calls that wrote to memory that was allocated
    seen,         \* of each client: the contents it has read
    late,         \* history: connections taken up when memory was freed
    harmed,       \* history: who has used freed memory, or was refused a read
    dead          \* "no", or why the server exited

clientVars == <<client, seen>>
bufferVars == <<num_clients, memory, late>>
writerVars == <<produced, contents>>
vars == <<clientVars, phase, toClient, bufferVars, writerVars, harmed, dead>>

Running == dead = "no"

\* The clients have asked for their connections; event_loop takes them up in any
\* order, be it after others have left.
Init ==
    /\ client = [c \in Conns |-> "up"]
    /\ phase = [c \in Conns |-> "requested"]
    /\ toClient = {}
    /\ num_clients = 0 /\ memory = "none"
    /\ produced = 0 /\ contents = 0
    /\ seen = [c \in Conns |-> 0]
    /\ late = {} /\ harmed = {} /\ dead = "no"

\* The connections whose conn_context holds the address of the buffer.
Holders == {c \in Conns : phase[c] \in {"accepted", "established"}}
-----------------------------------------------------------------------------
(* The CM thread. *)

\* Mutants: a connection counts twice; the buffer goes before the last client.
CountTwice == num_clients + 2
AlmostLast == num_clients' <= 1

CountIn == num_clients + 1

\* on_pre_conn tests the global pointer, which is never reset.
ConnectRequest(c) ==
    /\ Running /\ phase[c] = "requested"
    /\ phase' = [phase EXCEPT ![c] = "accepted"]
    /\ num_clients' = CountIn
    /\ memory' = IF memory = "none" THEN "live" ELSE memory
    /\ late' = IF memory = "freed" THEN late \cup {c} ELSE late
    /\ UNCHANGED <<clientVars, toClient, writerVars, harmed, dead>>

\* on_connection reads address and key from the region that buffer_mr points to.
Established(c) ==
    /\ Running /\ phase[c] = "accepted" /\ client[c] # "left"
    /\ phase' = [phase EXCEPT ![c] = "established"]
    /\ toClient' = toClient \cup {c}
    /\ harmed' = IF memory = "freed" THEN harmed \cup {c} ELSE harmed
    /\ UNCHANGED <<clientVars, bufferVars, writerVars, dead>>

\* The client is gone before: an event that event_loop does not list.
UnknownEvent(c) ==
    /\ Running /\ phase[c] = "accepted" /\ client[c] = "left"
    /\ dead' = "unknown_event"
    /\ UNCHANGED <<clientVars, phase, toClient, bufferVars, writerVars, harmed>>

LastGone == num_clients' = 0

\* DISCONNECTED: rdma_destroy_qp, then on_disconnect, which frees the buffer with
\* the last connection, be it freed already.
Disconnected(c) ==
    /\ Running /\ phase[c] = "established" /\ client[c] = "left"
    /\ phase' = [phase EXCEPT ![c] = "gone"]
    /\ toClient' = toClient \ {c}
    /\ num_clients' = num_clients - 1
    /\ memory' = IF LastGone THEN "freed" ELSE memory
    /\ harmed' = IF LastGone /\ memory = "freed" THEN harmed \cup {c} ELSE harmed
    /\ UNCHANGED <<clientVars, writerVars, late, dead>>
-----------------------------------------------------------------------------
(* produce_data, a thread of the server. *)

\* Mutant: the thread looks for a buffer once and gives up.
ProduceOnce ==
    /\ Running /\ produced < Writes
    /\ produced' = IF memory = "none" THEN Writes ELSE produced + 1
    /\ contents' = IF memory = "live" THEN contents + 1 ELSE contents
    /\ harmed' = IF memory = "freed" THEN harmed \cup {"produce_data"} ELSE harmed
    /\ UNCHANGED <<clientVars, phase, toClient, bufferVars, dead>>

\* It spins until there is a buffer, and then writes whatever became of it.
Produce ==
    /\ Running /\ produced < Writes /\ memory # "none"
    /\ produced' = produced + 1
    /\ contents' = IF memory = "live" THEN contents + 1 ELSE contents
    /\ harmed' = IF memory = "freed" THEN harmed \cup {"produce_data"} ELSE harmed
    /\ UNCHANGED <<clientVars, phase, toClient, bufferVars, dead>>
-----------------------------------------------------------------------------
(* The clients and the network. *)

\* READY arrives.  The server's completion of the SEND has no effect.
Deliver(c) ==
    /\ Running /\ c \in toClient /\ client[c] = "up"
    /\ toClient' = toClient \ {c}
    /\ client' = [client EXCEPT ![c] = "ready"]
    /\ UNCHANGED <<seen, phase, bufferVars, writerVars, harmed, dead>>

\* A SEND to a client that has left fails, on which poll_cq ends the server.
SendFails(c) ==
    /\ Running /\ c \in toClient /\ client[c] = "left"
    /\ dead' = "bad_completion"
    /\ UNCHANGED <<clientVars, phase, toClient, bufferVars, writerVars, harmed>>

\* A one-sided read that shows the client something new.
Read(c) ==
    /\ Running /\ client[c] = "ready" /\ memory = "live" /\ seen[c] # contents
    /\ seen' = [seen EXCEPT ![c] = contents]
    /\ UNCHANGED <<client, phase, toClient, bufferVars, writerVars, harmed, dead>>

\* A read of a region that is no longer registered: the client's rc_die.
ReadRefused(c) ==
    /\ Running /\ client[c] = "ready" /\ memory = "freed"
    /\ client' = [client EXCEPT ![c] = "left"]
    /\ harmed' = harmed \cup {c}
    /\ UNCHANGED <<seen, phase, toClient, bufferVars, writerVars, dead>>

\* The client's process ends: no library function disconnects.
Leave(c) ==
    /\ Running /\ client[c] # "left"
    /\ client' = [client EXCEPT ![c] = "left"]
    /\ UNCHANGED <<seen, phase, toClient, bufferVars, writerVars, harmed, dead>>
-----------------------------------------------------------------------------
CmStep(c) == ConnectRequest(c) \/ Established(c) \/ UnknownEvent(c)
             \/ Disconnected(c)
ClientStep(c) == Deliver(c) \/ SendFails(c) \/ Read(c) \/ ReadRefused(c)

Next == Produce \/ \E c \in Conns : CmStep(c) \/ ClientStep(c) \/ Leave(c)

(* The server's threads are scheduled, and connected clients go on reading,    *)
(* which takes an application that goes on calling consumeRecord: the poller   *)
(* waits for a call after each record.  Nobody has to leave.                   *)
Fairness == /\ WF_vars(Produce)
            /\ \A c \in Conns : WF_vars(CmStep(c)) /\ WF_vars(ClientStep(c))

Spec == Init /\ [][Next]_vars
FairSpec == Spec /\ Fairness
-----------------------------------------------------------------------------
(* Properties. *)

TypeOK ==
    /\ client \in [Conns -> {"up", "ready", "left"}]
    /\ phase \in [Conns -> {"requested", "accepted", "established", "gone"}]
    /\ toClient \subseteq Conns
    /\ num_clients \in 0 .. Cardinality(Conns)
    /\ memory \in {"none", "live", "freed"}
    /\ produced \in 0 .. Writes /\ contents \in 0 .. produced
    /\ seen \in [Conns -> 0 .. Writes]
    /\ late \subseteq Conns
    /\ harmed \subseteq Conns \cup {"produce_data"}
    /\ dead \in {"no", "unknown_event", "bad_completion"}

\* The count of clients keeps the buffer as long as a connection has its address:
\* no connection that was taken up before the buffer was freed uses it, or has its
\* client refused a read, afterwards, in whatever order clients come and go.
HarmOnlyToLate == harmed \cap Conns \subseteq late

\* A client that is connected in time, stays and goes on reading, reads everything
\* that is produced, unless the server exits: others that come and go do not take the
\* buffer away.
EarlyClientsFollow ==
    \A c \in Conns :
        phase[c] = "established" /\ c \notin late ~>
            seen[c] = Writes \/ client[c] = "left" \/ ~Running
=============================================================================
