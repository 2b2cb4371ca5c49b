------------------------------ MODULE FileTransfer ------------------------------
(* The file transfer of sample/: clients (client.c) send a name and then the   *)
(* chunks of a file by RDMA writes into a buffer of the server (server.c), one *)
(* per READY; the server's poller creates the file and appends the chunks.     *)
(* The two threads of the server race for a connection as they do in Broker;   *)
(* here a callback is one step.                                                *)
EXTENDS Integers, Sequences, FiniteSets

CONSTANTS
    Clients, Names,
    Namings,       \* bound: the ways clients name their files
    OldNames,      \* bound: names the server's directory may already have
    Chunks,        \* the number of chunks (BUFFER_SIZE or less) of each file
    Fds,           \* bound: the server's file descriptors
    MaxCrashes     \* bound: clients that crash or fail to read

ASSUME TransferAssumption ==
    /\ IsFiniteSet(Clients) /\ Chunks \in [Clients -> Nat]
    /\ Namings \subseteq [Clients -> Names] /\ OldNames \subseteq Names
    /\ Fds \subseteq Nat /\ IsFiniteSet(Fds) /\ Fds # {} /\ MaxCrashes \in Nat
    /\ "free" \notin Names /\ Clients \cap {"absent", "old"} = {}

VARIABLES
    name,        \* of each client: basename of the file it sends
    client,      \* of each client: "up", "left" or "dead"
    position,    \* of each client: chunks read from its file
    outBuffer,   \* of each client: ctx->buffer, <<client, chunk or 0: the name>>
    phase,       \* of each connection, as the server's CM thread has it
    named,       \* of each connection: ctx->file_name[0] is set
    fd,          \* of each connection: ctx->fd, at first whatever malloc left
    inBuffer,    \* of each connection: the server's ctx->buffer
    posted,      \* of each connection: receives posted by the server
    toClient,    \* of each connection: SENDs in flight
    toServer,    \* of each connection: writes in flight, 0 is of size 0
    cq,          \* of each connection: the server's unpolled receives
    open,        \* the server's descriptor table: a file name or "free"
    files,       \* the server's directory: contents by name
    owner,       \* of each name: "absent", "old" or the client it was made for
    robbed,      \* history: clients whose descriptor another's end has closed
    dead         \* "no", or why the server exited

clientVars == <<name, client, position, outBuffer>>
ctxVars == <<named, fd, inBuffer, posted>>
diskVars == <<open, files, owner>>
vars == <<clientVars, phase, ctxVars, toClient, toServer, cq, diskVars, robbed,
          dead>>

Running == dead = "no"

Init ==
    /\ name \in Namings
    /\ client = [c \in Clients |-> "up"]
    /\ position = [c \in Clients |-> 0]
    /\ outBuffer = [c \in Clients |-> <<c, 0>>]
    /\ phase = [c \in Clients |-> "requested"]
    /\ named = [c \in Clients |-> FALSE]
    /\ fd = [c \in Clients |-> CHOOSE f \in Fds : TRUE]
    /\ inBuffer = [c \in Clients |-> <<c, 0>>]
    /\ posted = [c \in Clients |-> 0]
    /\ toClient = [c \in Clients |-> <<>>]
    /\ toServer = [c \in Clients |-> <<>>]
    /\ cq = [c \in Clients |-> <<>>]
    /\ open = [f \in Fds |-> "free"]
    /\ files = [n \in Names |-> <<>>]
    /\ \E old \in SUBSET OldNames :
          owner = [n \in Names |-> IF n \in old THEN "old" ELSE "absent"]
    /\ robbed = {} /\ dead = "no"
-----------------------------------------------------------------------------
(* The client: what on_completion does with the message that has arrived. *)

\* Mutants: end of file is taken one read too late; or a short read, which the
\* last chunk is, is taken for it.
EofTooLate(c) == position[c] > Chunks[c]
EofAtShortRead(c) == position[c] + 1 >= Chunks[c]

AtEof(c) == position[c] = Chunks[c]

Receives(c, m) ==
    /\ Running /\ client[c] = "up" /\ phase[c] = "established"
    /\ toClient[c] # <<>> /\ Head(toClient[c]) = m
    /\ toClient' = [toClient EXCEPT ![c] = Tail(@)]

\* MR: send the name of the file.
OnMr(c) ==
    /\ Receives(c, "MR")
    /\ outBuffer' = [outBuffer EXCEPT ![c] = <<c, 0>>]
    /\ toServer' = [toServer EXCEPT ![c] = Append(@, 1)]
    /\ UNCHANGED <<name, client, position, phase, ctxVars, cq, diskVars, robbed,
                   dead>>

\* READY: read the next chunk and send it, or a size of 0 at the end of file.
OnReady(c) ==
    /\ Receives(c, "READY")
    /\ IF AtEof(c)
       THEN /\ toServer' = [toServer EXCEPT ![c] = Append(@, 0)]
            /\ UNCHANGED <<position, outBuffer>>
       ELSE /\ position' = [position EXCEPT ![c] = @ + 1]
            /\ outBuffer' = [outBuffer EXCEPT ![c] = <<c, position[c] + 1>>]
            /\ toServer' = [toServer EXCEPT ![c] = Append(@, 1)]
    /\ UNCHANGED <<name, client, phase, ctxVars, cq, diskVars, robbed, dead>>

\* DONE: disconnect.
OnDone(c) ==
    /\ Receives(c, "DONE")
    /\ client' = [client EXCEPT ![c] = "left"]
    /\ UNCHANGED <<name, position, outBuffer, phase, ctxVars, toServer, cq,
                   diskVars, robbed, dead>>

\* The client is killed, or its read() fails and it calls rc_die.
Crash(c) ==
    /\ Running /\ client[c] = "up"
    /\ Cardinality({d \in Clients : client[d] = "dead"}) < MaxCrashes
    /\ client' = [client EXCEPT ![c] = "dead"]
    /\ UNCHANGED <<name, position, outBuffer, phase, ctxVars, toClient, toServer,
                   cq, diskVars, robbed, dead>>

\* The write with immediate: outBuffer is read when it lands.
Lands(c) ==
    /\ Running /\ phase[c] = "established"
    /\ toServer[c] # <<>> /\ posted[c] > 0
    /\ inBuffer' = [inBuffer EXCEPT ![c] =
                       IF Head(toServer[c]) = 0 THEN @ ELSE outBuffer[c]]
    /\ cq' = [cq EXCEPT ![c] = Append(@, Head(toServer[c]))]
    /\ toServer' = [toServer EXCEPT ![c] = Tail(@)]
    /\ posted' = [posted EXCEPT ![c] = @ - 1]
    /\ UNCHANGED <<clientVars, phase, named, fd, toClient, diskVars, robbed, dead>>

\* A SEND to a dead client runs out of retries: poll_cq calls rc_die.
SendFails(c) ==
    /\ Running /\ phase[c] = "established" /\ client[c] = "dead"
    /\ toClient[c] # <<>>
    /\ dead' = "bad_completion"
    /\ UNCHANGED <<clientVars, phase, ctxVars, toClient, toServer, cq, diskVars,
                   robbed>>
-----------------------------------------------------------------------------
(* The server's CM thread. *)

\* on_pre_conn clears file_name and leaves fd as malloc returned it.
ConnectRequest(c) ==
    /\ Running /\ phase[c] = "requested"
    /\ phase' = [phase EXCEPT ![c] = "accepted"]
    /\ \E f \in Fds : fd' = [fd EXCEPT ![c] = f]
    /\ posted' = [posted EXCEPT ![c] = @ + 1]
    /\ UNCHANGED <<clientVars, named, inBuffer, toClient, toServer, cq, diskVars,
                   robbed, dead>>

\* on_connection sends the address of the buffer.
Established(c) ==
    /\ Running /\ phase[c] = "accepted"
    /\ phase' = [phase EXCEPT ![c] = "established"]
    /\ toClient' = [toClient EXCEPT ![c] = Append(@, "MR")]
    /\ UNCHANGED <<clientVars, ctxVars, toServer, cq, diskVars, robbed, dead>>

\* The client died before: event_loop does not know the event that says so.
UnknownEvent(c) ==
    /\ Running /\ phase[c] = "accepted" /\ client[c] = "dead"
    /\ dead' = "unknown_event"
    /\ UNCHANGED <<clientVars, phase, ctxVars, toClient, toServer, cq, diskVars,
                   robbed>>

\* The connections whose file is open through descriptor f.
Holders(f) == {d \in Clients : phase[d] = "established" /\ named[d] /\ fd[d] = f}

\* Mutant: the descriptor is never closed.
Leak(c) == UNCHANGED open

\* close(ctx->fd), be it ever so wild.
Close(c) == open' = [open EXCEPT ![fd[c]] = "free"]

Disconnected(c) ==
    /\ Running /\ phase[c] = "established" /\ client[c] # "up"
    /\ phase' = [phase EXCEPT ![c] = "gone"]
    /\ Close(c)
    /\ robbed' = robbed \cup (Holders(fd[c]) \ {c})
    /\ posted' = [posted EXCEPT ![c] = 0]
    /\ toClient' = [toClient EXCEPT ![c] = <<>>]
    /\ toServer' = [toServer EXCEPT ![c] = <<>>]
    /\ cq' = [cq EXCEPT ![c] = <<>>]
    /\ UNCHANGED <<clientVars, named, fd, inBuffer, files, owner, dead>>
-----------------------------------------------------------------------------
(* The server's poller: on_completion of a receive. *)

\* Mutant: the answer without a receive for the next write.
NoReceive(c) == UNCHANGED posted

FreeFds == {f \in Fds : open[f] = "free"}
PostReceive(c) == posted' = [posted EXCEPT ![c] = @ + 1]

Takes(c, sizes) ==
    /\ Running /\ phase[c] = "established"
    /\ cq[c] # <<>> /\ Head(cq[c]) \in sizes
    /\ cq' = [cq EXCEPT ![c] = Tail(@)]

Answers(c, m) == toClient' = [toClient EXCEPT ![c] = Append(@, m)]

Dies(why) ==
    /\ dead' = why
    /\ UNCHANGED <<clientVars, phase, ctxVars, toClient, toServer, diskVars, robbed>>

OpenFails(c) == owner[name[c]] # "absent" \/ FreeFds = {}

\* The first write is the name: open(O_CREAT | O_EXCL), the lowest descriptor.
OnName(c) ==
    /\ Takes(c, {1}) /\ ~named[c] /\ ~OpenFails(c)
    /\ named' = [named EXCEPT ![c] = TRUE]
    /\ \E f \in FreeFds :
          /\ \A g \in FreeFds : f <= g
          /\ fd' = [fd EXCEPT ![c] = f]
          /\ open' = [open EXCEPT ![f] = name[c]]
    /\ owner' = [owner EXCEPT ![name[c]] = c]
    /\ PostReceive(c) /\ Answers(c, "READY")
    /\ UNCHANGED <<clientVars, phase, inBuffer, toServer, files, robbed, dead>>

OpenDies(c) == Takes(c, {1}) /\ ~named[c] /\ OpenFails(c) /\ Dies("open_failed")

\* A chunk goes where the descriptor leads.
OnChunk(c) ==
    /\ Takes(c, {1}) /\ named[c] /\ fd[c] \notin FreeFds
    /\ files' = [files EXCEPT ![open[fd[c]]] = Append(@, inBuffer[c])]
    /\ PostReceive(c) /\ Answers(c, "READY")
    /\ UNCHANGED <<clientVars, phase, named, fd, inBuffer, toServer, open, owner,
                   robbed, dead>>

WriteDies(c) ==
    Takes(c, {1}) /\ named[c] /\ fd[c] \in FreeFds /\ Dies("write_failed")

\* A full disk: write() takes less than the chunk. The fragment that it leaves at
\* the end of the file, a prefix of the chunk, is not kept.
ShortWriteDies(c) ==
    Takes(c, {1}) /\ named[c] /\ fd[c] \notin FreeFds /\ Dies("disk_full")

\* A size of 0 ends the transfer: no receive is posted.
OnEnd(c) ==
    /\ Takes(c, {0}) /\ Answers(c, "DONE")
    /\ UNCHANGED <<clientVars, phase, ctxVars, toServer, diskVars, robbed, dead>>
-----------------------------------------------------------------------------
ClientStep(c) == OnMr(c) \/ OnReady(c) \/ OnDone(c) \/ Lands(c)
FailStep(c) == Crash(c) \/ SendFails(c)
CmStep(c) == ConnectRequest(c) \/ Established(c) \/ UnknownEvent(c)
             \/ Disconnected(c)
PollerStep(c) == OnName(c) \/ OpenDies(c) \/ OnChunk(c) \/ WriteDies(c)
                 \/ ShortWriteDies(c) \/ OnEnd(c)

Next == \E c \in Clients :
            ClientStep(c) \/ FailStep(c) \/ CmStep(c) \/ PollerStep(c)

(* All threads are scheduled and the network delivers; nothing need crash. *)
Fairness == \A c \in Clients : /\ WF_vars(ClientStep(c)) /\ WF_vars(CmStep(c))
                               /\ WF_vars(PollerStep(c))

Spec == Init /\ [][Next]_vars
FairSpec == Spec /\ Fairness
-----------------------------------------------------------------------------
(* Properties. *)

Blocks == Clients \X Nat

TypeOK ==
    /\ name \in [Clients -> Names]
    /\ client \in [Clients -> {"up", "left", "dead"}]
    /\ position \in [Clients -> Nat]
    /\ \A c \in Clients : position[c] <= Chunks[c]
    /\ outBuffer \in [Clients -> Blocks] /\ inBuffer \in [Clients -> Blocks]
    /\ phase \in [Clients -> {"requested", "accepted", "established", "gone"}]
    /\ named \in [Clients -> BOOLEAN] /\ fd \in [Clients -> Fds]
    /\ posted \in [Clients -> Nat]
    /\ toClient \in [Clients -> Seq({"MR", "READY", "DONE"})]
    /\ toServer \in [Clients -> Seq({0, 1})] /\ cq \in [Clients -> Seq({0, 1})]
    /\ open \in [Fds -> Names \cup {"free"}]
    /\ files \in [Names -> Seq(Blocks)]
    /\ owner \in [Names -> Clients \cup {"absent", "old"}]
    /\ robbed \subseteq Clients
    /\ dead \in {"no", "unknown_event", "bad_completion", "open_failed",
                 "write_failed", "disk_full"}

\* The server's file of every client is at any time the chunks sent so far, in
\* order and unmixed, and complete when the client is told DONE, however the
\* transfers interleave and whoever crashes; only a close of another transfer's
\* descriptor (on_disconnect before the name has come) ends this.
Copies == INSTANCE FileCopy WITH
    copy <- [c \in Clients |-> IF owner[name[c]] = c THEN files[name[c]] ELSE <<>>],
    done <- {c \in Clients : client[c] = "left"},
    broken <- robbed # {}

CopiesAreFaithful == Copies!Spec

\* One client brings the whole server down only by a name in use, by more open
\* files than descriptors, by dying itself, by filling the disk, or by the close of
\* a wild descriptor.
DeathHasCause ==
    /\ dead = "open_failed" =>
          \/ \E n \in Names : owner[n] = "old"
          \/ \E c, d \in Clients : c # d /\ name[c] = name[d]
          \/ \A f \in Fds : Holders(f) # {}
    /\ dead = "write_failed" => robbed # {}
    /\ dead = "bad_completion" => \E c \in Clients : client[c] = "dead"

\* Every transfer ends: the client is told DONE and leaves, unless it dies or
\* takes part in the end of the server.
TransferEnds ==
    \A c \in Clients : client[c] = "up" ~> client[c] # "up" \/ ~Running
=============================================================================
