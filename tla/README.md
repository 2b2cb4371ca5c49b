# A verification project for RDMAPubSub

RDMAPubSub is a publish/subscribe log over RDMA, in C. Producers write records
into buffers of a broker by RDMA writes with immediate, the broker appends them
to one buffer, and consumers follow that buffer by one-sided RDMA reads of which
the broker learns nothing. This directory holds TLA+ models of it, the TLC
configurations that check them, and proofs for TLAPS.

File and line numbers refer to the repository; `P`, `K`, `S` and `C` stand for
`rdma_producer_client.c`, `rdma_consumer_client.c`, `server.c` and `common.c` of
`src/integration/`.

## 1. The system

| part | state | operations | interacts by |
|---|---|---|---|
| producer library (`P`) | ring `producer_records` with `head`, cursor `ctx->index`, `shouldDisconnect`, two mutex/condition pairs, `ctx->buffer`, `ctx->msg` | `produceRecord`, `terminate` on the application's thread; `on_pre_conn`, `on_completion`, `send_producer_record` on the library's | ring and flag between the threads; RDMA writes to, SENDs from the broker |
| consumer library (`K`) | `read_status`, `peer_addr`, `size`, `buffer`, `producer_record`, two condition variables | `consumeRecord`, `terminate`; `on_completion`, `issue_one_sided_read` | `producer_record` and signals between the threads; RDMA reads |
| broker (`S`) | `conn_context` per connection, `consumer_buffer`, `num_clients` | `on_pre_conn`, `on_connection`, `on_completion`, `on_disconnect` | READY/DONE messages; memory that clients write and read |
| connection manager and poller (`C`) | `s_ctx` (protection domain, one completion queue of 10 entries), `client_role` | `event_loop` on the CM thread, `poll_cq` on a second thread, `rc_die` | callbacks into the three above |
| file transfer (`sample/`) | server: file name and descriptor per connection; client: open file | the same callbacks; `open`, `write`, `close` | MR/READY/DONE, RDMA writes |
| `producer/`, `consumer/` | earlier versions of the libraries with servers of their own | as above | as above |
| drivers, `scripts/`, ELF files | none of interest | calls of the libraries; plots | - |

Every process has at least two threads that share its connections without a
lock: the CM thread and the poller. The clients add the application's thread.
What is hard here:

- **Lost and stale signals.** Both libraries wait on condition variables without a
  predicate, under mutexes the signaller does not hold (P:119-136, 218-223;
  K:98-101, 164-167).
- **Memory that is read while it is written.** One-sided reads overlap the broker's
  three writes of a frame (S:145-146); registered buffers are reused for every
  record (P:144) and message (S:149).
- **Limits.** A ring that wraps on one side only (P:61, P:151), a completion queue
  of fixed size for all connections (C:51), four digits for a length (S:145), a
  buffer in `producer/` that keeps the end of a longer record behind a shorter one
  (`producer/rdma_producer_client.c`:151).
- **Failure.** Any failed completion or unlisted event ends the process (C:131,
  C:156), for the broker with all its other clients; contexts are freed by one
  thread under the other (C:119-125). When the broker's process ends, a client's CM
  thread returns from `run_client_loop`, on whose stack the context of the
  connection lives; its poller goes on with that context and its application is not
  woken.

What makes each part correct:

- *producer*: the broker receives the records of `produceRecord` in order, once
  each; the stream ends only when all are there; `terminate` returns then.
- *consumer*: `consumeRecord` returns the records of the log, whole and one after
  the other.
- *broker*: the log holds every producer's records in its order; what a
  producer sends is answered; no client that leaves ends it; the completion queue does
  not overflow; no record is lost to a context that is used when freed.
- *earlier producer*: the server prints each record as it was produced, in order;
  a client that was connected does not take the server with it when it ends.
- *file transfer*: a copy is a prefix of its file at any time, complete on DONE.

`PROJECT.json` lists the components and, under `hazards`, each such place with the
properties that guard it.

## 2. Modules

| module | models | about |
|---|---|---|
| `ProducerClient` | `P` over `C`, with the broker's side of the one connection | four threads; a record is the number of its `produceRecord` call |
| `ProducerClientProofs` | - | theorems about it |
| `TopicLog` | abstract: what the system promises producers | implemented by `Broker` and `EarlierProducer` |
| `EarlierProducer`, `MCEarlierProducer` | `producer/`: `client.c`, the library, `server.c`; extends `ProducerClient` | bytes of the buffers, end of the client's process |
| `EarlierProducerProofs` | - | theorems about it, extends `ProducerClientProofs` |
| `ConsumerClient`, `MCConsumerClient` | `K`, and the writes of S:145-146 cell by cell | connection, framing, torn and cut reads, the rendezvous |
| `ConsumerClientProofs` | - | theorems about it |
| `Broker`, `MCBroker` | `S` over `C`, with all clients | two server threads, crashes, one completion queue |
| `BrokerProofs` | - | theorems about it |
| `CompletionPoller`, `MCCompletionPoller` | `poll_cq` and `build_connection` of `C` | arming, events, draining, overrun |
| `CompletionPollerProofs` | - | theorems about it |
| `SharedBuffer`, `MCSharedBuffer` | `consumer/server.c` over `consumer/common.c` | lifetime of the shared buffer, the server's own thread |
| `SharedBufferProofs` | - | theorems about it |
| `EarlierConsumer`, `MCEarlierConsumer` | `consumer/rdma_consumer_client.c` as `consumer/client.c` uses it | two threads over one library |
| `EarlierConsumerProofs` | - | theorems about it |
| `FileCopy` | abstract: what the file transfer promises | implemented by |
| `FileTransfer`, `MCFileTransfer` | `sample/client.c`, `sample/server.c` | descriptors, names, crashes |
| `FileTransferProofs` | - | theorems about it |

### How state and actions correspond to the code

A C variable keeps its name where TLA+ allows. Program counters (`app`, `poller`)
name the point where a thread may be interrupted; code between two such points
that only touches the thread's own state is part of one action.

*ProducerClient.* `InsertAtEnd` is lines 57-66 under the mutex, `SignalRecord` the
signal after it (213). `Terminate`, `TerminateSignal`, `TerminateWait`,
`TerminateReturn` are lines 218, 220, 222-223 and 223-226. The poller's actions
are `OnReady`/`OnDone` (167-182), `LookAtHead` (112-128, with its branches
`Serialize`, `SendDone` and `Wait`), `LookAgain` (129-136), `RdmaSend` (148-151),
`PostReceive` (178), `RcDisconnect` and `SignalDone` (181-182). Both early returns
leave `mutex` held, as in the code. A slot past the end of the ring may read as
anything (`SlotValues`): what is behind `producer_records` is not known. The
connection's phases are the cases of `event_loop`; the broker's side is
`SrvRecord` and `SrvDone` (S:136-151). `BrokerExit` ends the broker's process and
leaves the connection `lost`: a write in flight then fails (`WriteFails`, C:156), or
the CM thread gets DISCONNECTED first (`ConnectionLost`, C:119-125) and the
connection is `orphaned`, with a context that the poller may still use
(`StaleContext`). What the poller does before it next touches the context goes on
as before; that is the part of each action's guard called `HasContext`.

*EarlierProducer.* The library of `producer/` has the control of `P`, so the module
extends `ProducerClient` and each of its actions is one or several of that module's
with what they do to the bytes: `Looks` is `LookAtHead`, `Wait` or `LookAgain` with
the `strcpy` into `ctx->buffer`, `Sends` is `RdmaSend` with the length it writes,
`Lands` replaces as many bytes of the server's buffer as the write is long, `Prints`
takes a C string from there. `SrvRecord`'s append to `log` is kept beside it and
numbers the records. `StateOK` is what it keeps of the type invariant:
`crashed` has one more value, `"exited"`. `Exits` is the return of `main`
(`producer/client.c`:12).
`SrvDisconnected`, `SrvUnknownEvent` and `SrvSendFails` are the three ways the
server's connection ends after that. A client may also give up before it is connected
(`CmError`); the server still takes its request up, and the failed connection is an
event that ends it. The broker's exit is left to `ProducerClient`.

*ConsumerClient.* `consumer_buffer` is a sequence of cells (digit, text, separator,
NUL); `WriteCell` writes the next. An RDMA read sees every cell that was there when
it was posted; each later cell it may see or not (`ReadResults`). `String` cuts at
the first NUL as `strncpy` and `strchr` do, `Atoi` reads leading digits. `Log[r]` is
the first `r` frames, and `Place[k]` what a digit with `k` digits after it counts; both
are recursive functions, about which something can be proved. A header
has as many digits as `%04d` writes, so a long record has a header that the reader
cuts (`PastUnfit` says that the cursor has gone on from there). `AddrResolved`,
`RouteResolved`, `Established`, `BrokerExit` and `ConnectionLost` are the
connection; `CmError`, `ReadFails`, `StaleContext` and `NoSeparator` the ways the
process dies. `PollAgain`, `LengthFound`, `Deserialize`, `SignalConsumer`,
`WaitForConsumer` and `Resume` are the stretches of `issue_one_sided_read`
(127-176). `torn` is a history variable.

*Broker.* `hand` is the completion `poll_cq` has taken and not yet handled, so the
CM thread can act between. `DestroyQp` and `OnDisconnect` are the two halves of
C:119-125; `UseAfterFree` is a completion handled on a connection that is gone,
recorded in `uaf` and without further effect. Clients are what the broker sees of
them; a crashed one makes a pending SEND fail. `Others` is the queue without a
connection's completions, a recursive function rather than `SelectSeq`, whose
definition the prover does not see. As a `TopicLog`, `topic` is
`consumer_buffer`, what a producer has `offered` is what it has sent, and `done` are
those that hold a DONE.

*CompletionPoller.* `Complete` is the network card: a completion goes into the
queue and, if the queue is armed, an event into the channel, and the queue is
disarmed. `GetEvent`, `ReqNotify`, `PollCq` and `Dispatch`/`BadStatus` are lines
147-148, 149, 151 and 152-157. `Overrun` is a completion for which there is no
entry: from then on `ibv_poll_cq` returns a negative number, which `while` takes
for true, so the loop handles what `wc` still holds. `BuildContext` and
`BuildConnection` are lines 26-55: one context for the first device, `rc_die`
for another. `ProducerClient`, `Broker` and `FileTransfer` build on what is shown
here: they poll without notifications.

*FileTransfer.* The client's `on_completion` is `OnMr`, `OnReady`, `OnDone`; the
server's is `OnName`, `OnChunk`, `OnEnd` and the three ways to die (`open` fails,
`write` fails, `write` takes less than the chunk). `open` is the process's
descriptor table; `ConnectRequest` leaves `fd` with any value, as `malloc` does, and
`Disconnected` closes it whatever it is. A chunk is `<<client, number>>`.

*SharedBuffer.* `memory` is what the global `buffer` points to: none, allocated, or
freed with the pointer left in place. `ConnectRequest`, `Established` and
`Disconnected` are the three callbacks (56-104), `Produce` is one `sprintf` of
`produce_data` (126-138), which is made whatever became of the memory. Uses of
freed memory are recorded in `harmed`: a region read by `on_connection`, a second
`free`, a `sprintf`, a refused read. `late` are the connections taken up after the
buffer was freed.

*EarlierConsumer.* The application's threads and their connections share
`producer_record`, the condition variables and the poller, whose `on` is the
connection it is at. The buffer is one `sprintf` at a time (`Contents`); a read
replaces the first cells of `ctx->buffer` and leaves the rest (`Complete`).
Lengths count the terminator (13 for 12 characters), hence `NextAddr` is line 165's
`size - 1`. What a read leaves behind its block is parsed when no terminator stops
`atoi` or `strstr`; `LengthAssumption` says for which lengths it is not. The actions
of the poller are the stretches of `issue_one_sided_read` as in `ConsumerClient`.
`SpuriousWakeup` ends the wait of a thread (line 101) or of the poller (161). A thread
that was not signalled is `"roused"` and not `"woken"`, which only the properties tell
apart. `ReturnRecord` returns whatever `producer_record` is, and the process ends if
that is NULL, since `client.c` dereferences it.

### Assumptions about what is not in the repository

- One application thread calls each library, and `terminate` is its last call.
- Reliable connection: SENDs and writes of a connection arrive in order, once; a
  write with immediate waits for a posted receive (`rnr_retry_count = 7` is
  infinite, C:61). The acknowledgement of a SEND precedes any answer to it.
- `rdma_destroy_qp` removes the connection's completions from the queue.
- A completion disarms the queue and makes one event; an overrun queue returns an
  error at every poll.
- `id->verbs` is never NULL (`DeviceAssumption`).
- Fresh pages are zero (the broker runs `strlen` on them, the consumer `atoi`).
- Bytes of keys and values are not mistaken for digits after misframing.
- What `posix_memalign` returns elsewhere is zero or memory nobody has written
  (`Junk` in `EarlierProducer`): the properties hold for both.
- Spurious wakeups are possible in every wait on a condition variable; the models of
  the libraries bound their number (`MaxSpurious`).

## 3. Runs

| run | instance | what it shows |
|---|---|---|
| `producer` | ring of 3, 5 records, 1 spurious wakeup | order, completeness, clean disconnect, stable buffers; every record that fits the ring is delivered, from the call of `produceRecord` on, unless a process dies; `terminate` returns or hangs in one of three named waits, the third after an exit of the broker |
| `producer_node` | no spurious wakeup | **violation** of the comment P:126: the wait ends with no record, `h->key` is read through NULL |
| `producer_hang` | no spurious wakeup | **violation** of the comment P:219: the signal of `terminate` is lost |
| `producer_index` | ring of 2, 3 records | **violation** of the comment P:115: the cursor leaves the ring |
| `earlier_producer` | ring of 4, 3 records of lengths 3, 1, 2, 1 spurious wakeup | refinement of `TopicLog` by what the server prints, complete when `main` has returned; a client that reached the end of `main` ends the server only after a spurious wakeup |
| `consumer` | 4 records of lengths 2, 3, 1 and 6; 4 calls, 1 spurious wakeup | while no read is torn and no length cut: the cursor stays on frames, records are whole and successive, stable while read; a call hangs only if the signals missed each other or the broker has gone |
| `consumer_torn` | no spurious wakeup | **violation** of the comment K:103: part of a record is returned |
| `broker` | 2 producers (2 and 1 records), 1 consumer, 1 crash | the queue never overflows, refinement of `TopicLog` (every producer's order, once each, DONE only when all is stored), which completions can be handled on freed memory, which crashes end the broker, whatever a producer sends is answered |
| `completion_poller` | 3 connections on 2 devices, queue of 2, 5 completions, 3 repeats | the poller never waits in vain, handles each completion once and in order, and leaves none unless the queue overruns |
| `earlier_server` | 3 connections, 5 writes | `num_clients` keeps the buffer for all who came in time, and those that stay read everything |
| `earlier_consumer` | 2 threads with 2 calls, records of 3 and 2 cells, 1 spurious wakeup | the cursor arithmetic, order of publication, NULL returned only to a call that was not signalled, where a call can hang |
| `file_transfer` | 3 clients (2, 1, 0 chunks), 2 descriptors, shared or existing names, 1 crash, a disk that may be full | refinement of `FileCopy`; the server dies only for the causes named; transfers end |

Each property of a passing run has a mutant in `PROJECT.json`: a definition of the
model changed as a plausible bug would change the code, under which TLC finds the
property violated. The mutants' operators stand before what they replace.

**Why the bounds suffice.** The ring of 3 with 5 records reaches every state of
ring and cursor: empty, partly filled, full, overflow, second lap below the
cursor, cursor past the end. Two binary digits (`VAL_LENGTH = 2`, `Base = 2`) give
headers that differ when cut after a digit, records with and without key and
value, and a length that fills the header; three records let the first be
skipped and two follow each other. The fourth, of length 6, needs three digits and
is read as of length 3, so that the cursor ends inside its frame. The earlier
producer's three calls, as many as `producer/client.c` makes, have a shorter
record after a longer one and one in between; a ring of four holds them all, as
the ring of 1000 does. Two producers and a consumer are every pair
of roles on the shared queue, and one crash is enough to hurt the others. Three
clients on two descriptors let a number be reused under a transfer that still
writes to it, and let the table be full.

A queue of two entries fills while the poller handles a third completion,
and five completions let it run empty and be announced again twice. Three
connections are two that overlap and one that comes after both have left. Two
threads and two records are those of `consumer/client.c` and `consumer/server.c`;
lengths of four and three in two ternary digits have headers that differ in the
last digit, as 13 and 12 do.

**Deadlock checking** is off in all runs: the processes end or die, and the hangs are
stated as properties instead.

**Fairness.** Weak fairness of each thread that is able to run (the operating system
schedules it; a mutex or a wait disables it), and of the network's deliveries. Nothing
forces the application to call a function, a client to crash, the broker to exit, a
consumer to leave or a wakeup to be spurious. In `Broker` a producer that is told DONE
disconnects, which the library does of itself (P:179-182); one that is told READY may
never write again, for want of a record or because it hangs as `producer_hang` shows, so
`Served` speaks of what it has asked for and written. In `SharedBuffer` a connected
client goes on reading: that takes an application that goes on calling `consumeRecord`,
and `EarlyClientsFollow` is about such clients. In `EarlierConsumer` the threads make
the calls that `client.c` makes. The threads are separate, so each has its own
condition; a thread runs one action after the other, so the condition is on the thread,
not on each action.

**What the violations mean.** All four need no failure of the network and no spurious
wakeup. They are about the waits (no predicate, signaller without the mutex), the
missing modulo, and the missing order between a frame's length and its bytes. The
consumer's rendezvous has the same fault as the producer's `terminate`: the state
`Deadlocked`, in which call and poller each wait for the other's next signal, is
reachable, and `ConsumeReturns` names it as one of the places where a call can stay.

**What the earlier programs do.** Four things hold only in the form stated. A consumer
that comes late reads each record but the last with the first digit of the next header
at the end of its value, since the length counts a terminator that is no longer there
(`PublishedInOrder`). When all clients have left, the buffer is freed but its pointer
kept: every later connection, and `produce_data` if it is still asleep, uses freed
memory (`HarmOnlyToLate` says that no one else does). The wait of `consumeRecord`
(`consumer/rdma_consumer_client.c`:101) is in no loop: woken spuriously before anything
is published, the call returns NULL, which `client.c` dereferences (`crashed =
"nullderef"`); `NullOnlySpuriously` says that nothing else makes it do so. And the
cursor depends on the lengths of the records, since a read is not terminated: a header
is parsed with the digit behind it when the record before was no longer than a header,
and a record that the next header follows is published with what is left of a longer one
before it. Without `LengthAssumption` TLC finds `CursorOnFrame` violated for records of
2 and 1 cells, and `PublishedInOrder` for 4, 3 and 3. The two records of
`consumer/server.c`, of 12 and 11 characters behind headers of 4, satisfy it.

## 4. Proofs

`ProducerClientProofs` proves, for every `BACKLOG`, `MaxRecords` and `MaxSpurious`
(assumptions: a positive ring and natural bounds):

| theorem | property |
|---|---|
| `Invariance` | the inductive invariant `IInv` |
| `TypeCorrect` | `TypeOK` |
| `Order` | `InOrderDelivery` |
| `Completeness` | `DoneMeansAllDelivered` |
| `CleanDisconnect` | `NoFlushAtDisconnect` |
| `TerminationIsComplete` | `TerminateMeansDelivered` |
| `OverflowIsFullness` | `OverflowOnlyWhenFull` |
| `BuffersAreStable` | the action property `BuffersStable` |

The properties are not inductive: order of the log depends on what is in the
broker's buffer when a completion is polled, that on what was in the client's when
the write landed, and that on the ring. `IInv` follows the one token of a
connection. While the connection is established exactly one of four things holds:
the client holds the token (`ClientHolds`: it was told READY or DONE and nothing is
in flight), a record travels (`RecordTravels`, in the client's buffer or the
broker's), READY travels, or the end of the stream travels (`EndTravels`). Each says
how `Len(log)` and `index` compare, which is what order and completeness need.
`LostInv` says what is left of the token once the broker has exited: what the client
holds or has in flight, with the same comparison where the client may act on it, so
that the log stays in order though nothing more arrives. `RingInv` says what the
ring holds from the cursor on, also when `head` is in its second lap below it.
`CursorInv` ties `index` to the program counter and `WokenInv` says what a wakeup
can have meant. One lemma per action that moves the token (`SerializeStep`,
`RdmaSendStep`, `SrvRecordStep`, ...) shows the invariant kept; `StepInv` combines
them. `BuffersAreStable` follows from the invariant: at the two actions that rewrite
a buffer the token is at the writer.

`OverflowIsFullness` needs what `RingInv` leaves out, the slots below the cursor.
`LapInv` says that they hold the records of the second lap, as many as have been
inserted, with `head` at the last of them. So the slot that `insertAtEnd` finds taken
is the cursor's, and the ring is full; `head` can wrap although the cursor cannot,
because no third lap is ever begun.

`EarlierProducerProofs` proves, for every ring that is larger than the number of
records and for all their lengths:

| theorem | property |
|---|---|
| `BytesInvariance` | the inductive invariant `ByteInv` |
| `BytesTypeCorrect` | `BytesTypeOK` |
| `ServerSurvivesClient` | `ServerSurvives` |
| `EarlierProducerImplementsTopic` | the refinement `ImplementsTopic` |

As long as client or server goes on (`Alive`), the threads and messages are those of
`ProducerClient`, so its `IInv` holds and is kept by its lemmas; only `Exits` and the
server's end are new steps. `TextInv` and `FlightInv` add the bytes: a buffer that is
said to hold a record starts with its string *and its terminator*, and a write in
flight is as long as both. With the order of `IInv` it follows that a line printed is
the next record (`PrintInv`). `GoneInv` says that a client that is gone without a
spurious wakeup has left nothing that the server could stumble over, except a request
for a connection that it has given up itself. That `strcpy`,
the write and `printf` are inverse to each other (`StrCpyHolds`, `CStringOf`) needs
the longest length to exist (`GreatestLength`), by induction on the records.

`BrokerProofs` proves, for all finite sets of producers and consumers, every number of
records, crashes and queue entries (assumption: no client is both):

| theorem | property |
|---|---|
| `Invariance` | the inductive invariant `IInv` |
| `TypeCorrect` | `TypeOK` |
| `QueueNeverOverflows` | `CqNeverOverflows` |
| `NoRecordAtStake` | `FreedOnlyUnderSend` |
| `EndsOverOwed` | `EndsOnlyOverOwed` |
| `OneMessage` | the action property `OneMessageInFlight` |
| `BrokerImplementsTopic` | the refinement `ImplementsTopic` |

Here the token of a connection is described by what it is in: a SEND (`SendInv`), a
write (`WriteInv`), the client's hand (`HasInv`), a completion not yet handled
(`EntryInv`). Each excludes the others and says how many of the client's records are
in the log. `SendThenRecv` is the one exception to the exclusion: a client may have
answered a SEND whose completion the poller has not seen, so that a connection can
have two completions, in that order, and no third. The bound on the queue follows by
an injection of its entries into the pairs of a client and a kind of completion, of
which a consumer, who answers nothing, has one. The same order is why a context
freed under the poller costs no record: the RECV of a client that has not crashed
cannot be behind its own disconnect. `QueuedHaveQp` says that `rdma_destroy_qp` leaves
nothing of its connection in the queue, so a failed completion that ends the broker is
of a client that crashed with a SEND on its way and is not yet seen to be gone. The
refinement maps `OnRecord` to `Store`, a
delivered DONE to `Confirm` and a write of a record to `Offer`.

`FileTransferProofs` proves, for every finite set of clients and of descriptors, all
names and numbers of chunks (`TransferAssumption`):

| theorem | property |
|---|---|
| `Invariance` | the inductive invariant `IInv` |
| `TypeCorrect` | `TypeOK` |
| `DeathsExplained` | `DeathHasCause` |
| `TransferImplementsCopy` | the refinement `CopiesAreFaithful` |

`TokenInv` is the token once more, now with the client's position in its file.
`FileInv` says that, as long as no descriptor has been closed under a transfer, a
connection's descriptor leads to its own file, which holds the chunks that have
arrived. That depends on the two relations between connections and files,
`OwnerInv` (a file that was created is its creator's) and `OpenInv` (an open
descriptor is held by a connection), which hold whatever is closed. The first
descriptor closed under a transfer maps to `Break`, after which `FileCopy` promises
nothing.

`CompletionPollerProofs` proves, for every set of connections, every size of the
queue and every number of completions:

| theorem | property |
|---|---|
| `Invariance` | the inductive invariant `IInv` |
| `TypeCorrect` | `TypeOK` |
| `NoVainWait` | `NeverWaitsInVain` |
| `OnceInOrder` | `HandledOnceInOrder` |

In it `ArmingInv` says at each program counter of `poll_cq` what is armed and what
is in the channel: never both, never two events, and one of the two from the
re-arming on, which is what makes the empty poll of line 151 a safe moment to
wait. `OrderInv` says that the completions handled, in hand and in the queue are
those added, in order; it is needed because what is handled next depends on the
queue's content.

`SharedBufferProofs` proves, for every finite set of connections and every number
of writes:

| theorem | property |
|---|---|
| `Invariance` | the inductive invariant `IInv` |
| `TypeCorrect` | `TypeOK` |
| `EarlyClientsUnharmed` | `HarmOnlyToLate` |
| `CountsHolders` | `num_clients` is the number of connections that hold the address |

`CountInv` ties the count to the set of holders by cardinality; `BufferInv` says
that once the buffer is freed all holders are late, which is kept because the
count is zero only when there is no holder, and that a client that reads is
connected.

`ConsumerClientProofs` proves, for every sequence of record lengths, every base and
width of the header and any number of calls (`ParameterAssumption`):

| theorem | property |
|---|---|
| `TypeCorrect` | `TypeOK` |
| `CursorIsOnFrame` | `CursorOnFrame` |
| `RecordIsStable` | the action property `RecordStable` |
| `Successive` | the inductive invariant `SuccessiveInv` |
| `RecordsAreSuccessive` | `SuccessiveRecords` |

The lemmas are about data first. `AtoiOfHeader` says that `atoi` undoes `%04d`: the
values of a header's beginnings are the quotients of its number by the places that
are left, down to `Place[0]`. `FrameCells` says where a header and a record are in the
log, by induction on the frames before them. With these, what a read that is not torn
returns is a header or a record, and `CursorInv` is kept: the cursor is on a header or
on the body after it, of a record before the first whose length does not fit.

Between the poller's signal and the return of the call it wakes, the poller is on its
way into a wait that only the next call ends (`RendezvousInv`), so `producer_record` is
not replaced although no lock protects it. `SuccessiveInv` puts both together: by the
two program counters it says which record of the log the poller is at and which one is
in `producer_record`, relative to the number of calls that have returned, for a first
call that came in time or one that came late. Both cases are needed because the poller
may publish the first record before there is a call; after that it never runs ahead of
the calls.

`EarlierConsumerProofs` proves, for every finite set of threads, any number of calls,
and all lengths that `LengthAssumption` admits:

| theorem | property |
|---|---|
| `Completions` | `TypeOK` with `TokenInv` |
| `TypeCorrect` | `TypeOK` |
| `NullNeedsSpurious` | the action property `NullOnlySpuriously` |
| `Frames` | the inductive invariant `FrameInv` with `PublishedInOrder` |
| `CursorIsOnFrame` | `CursorOnFrame` |
| `RecordsArePublishedInOrder` | `PublishedInOrder` |

`TokenInv` says that a connection has at most one of a read, a completion and the
poller, which bounds the queue and lets the steps of one connection leave the others
alone. `NullInv` says that nothing can signal a call before there is a record.
`FrameInv` follows each connection: at a header (`AtHeader`), reading the body after it
(`Reads`) or with the record published (`HasRead`). Since nothing terminates what was
read, it says of the buffer what a parser may meet behind the block: no digit behind a
header, and behind a record a NUL or the first digit of the next header and then the
end. `BodyEnd` gives that last cell, from where the next frame begins (`Starts`,
`ContentsIs`).

**Induction.** The library's induction theorems take an operator as a parameter and
cannot be used. Where an induction is needed it is made over a *set* of natural
numbers, which has a least element because the finite sets `1 .. n` are well-founded
under inclusion (`LeastNat` and `Induction` in `BrokerProofs`, `LeastLength` in
`EarlierProducerProofs`). So `Others`, a recursive function, is proved to keep order
and entries of the queue for queues of every length (`OthersOf`).

A recursive function is by definition *some* function that satisfies its equation, so
that there is one has to be shown before the equation can be used. `Recursion`, in the
proofs about the two consumers, does that once for functions on the natural numbers,
with the step as a function rather than an operator; `PlaceIs`, `LogIs` and `AtoiOf` are
its uses. The two modules have these lemmas each, since a theorem about one module
cannot be used by INSTANCE in the other.

**What the proofs assume.** The named assumptions of the modules' constants, which TLC
evaluates on each instance, and nothing else: bounds are natural numbers, sets of
clients finite and disjoint, a ring has a slot. The bounds on calls, crashes and
spurious wakeups are arbitrary, so they bound nothing here, with two exceptions. In
`EarlierProducer` the ring holds all the records (`LengthsAssumption`), as the ring of
1000 holds the three of `producer/client.c`. In `EarlierConsumer` the lengths fit their
headers, and a record that another one follows is longer than a header and not shorter
than the one before it (`LengthAssumption`), as the code's are; `ConsumerClient`, whose
code terminates what it has read, needs no such thing.

**Only model-checked:** the liveness properties (`DeliveredEventually`,
`TerminateReturnsOrHangs`, `ConsumeReturns` of both consumers, `Served`,
`EventuallyHandled`, `EarlyClientsFollow`, `TransferEnds`). They rest on fairness and
so on ENABLED, which is outside the prover's fragment. Every other property of a
passing run is stated by a theorem.

## 5. Not modelled

- Sizes of memory: `createNode` allocates `sizeof(char *) + 1` bytes for a string of
  any length (P:43-44) and the consumer's copies lack a terminator (K:155-161);
  `consumer_buffer` is never wrapped (K:141). These are memory errors whatever the
  order of events.
- What happens after a use of freed memory, of a dead stack frame or of a wild
  pointer, and after a consumer's cursor has left the frames (`PastUnfit`, `torn`):
  the models go on, the properties say nothing of it.
- Address resolution: its events are steps, its addresses are not there.
- The other clients of the server of `producer/` (its callbacks are the broker's, see
  `Broker`), its notifications (see `CompletionPoller`), and an exit of that server
  before its client (see `ProducerClient`).
- What a short write leaves of a chunk at the end of a file (`sample/`).
- How a role is passed in a connection request, and `private_data` read after the
  event was acknowledged (C:89-93).
- Drivers and scripts.
- The race of two CM threads in `build_context` when one process opens two
  connections (`consumer/client.c`), and what follows from a context that is used
  before it is filled in.

## 6. Order of the work, and what is open

The producer, its proofs, the consumer, the broker, the file transfer, the completion
poller and the earlier server with their proofs, the earlier consumer; then the
broker's exit in both libraries, records that do not fit their header, `TopicLog` with
its two implementations, the earlier producer. After that `OverflowOnlyWhenFull`,
`RecordStable`, the proofs about the broker, the file transfer and the earlier producer
with their refinements, and last the layout of the log and the cursors of both
consumers.

Open are the liveness properties, which TLC checks and the prover cannot; what becomes
of a reader once a read was torn or a length was cut, of which the models say nothing
beyond that it happens; and the items of section 5, most of which are about the size
or the lifetime of memory rather than about any order of events.
