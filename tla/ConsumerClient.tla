---------------------------- MODULE ConsumerClient ----------------------------
(* The consumer library (integration/rdma_consumer_client.c): a poller that    *)
(* follows the broker's consumer_buffer by one-sided RDMA reads, and an        *)
(* application that takes its records one by one with consumeRecord.           *)
(*                                                                             *)
(* consumer_buffer is a sequence of cells.  The broker (server.c:145-146)      *)
(* appends frames to it, each the record's length in at least VAL_LENGTH       *)
(* digits and then the record, one cell after the other, and no one tells it   *)
(* of the reads.                                                               *)
EXTENDS Integers, Sequences, FiniteSetsExt

CONSTANTS
    Sizes,         \* the lengths of the records, in the order of the log
    VAL_LENGTH,    \* digits of a header the consumer reads
    Base,          \* base of the digits (10 in the code)
    MaxCalls,      \* bound: calls of consumeRecord
    MaxSpurious    \* bound: spurious wakeups

ASSUME ParameterAssumption ==
    /\ Sizes \in Seq(Nat \ {0})
    /\ VAL_LENGTH \in Nat \ {0} /\ Base \in Nat \ {0, 1}
    /\ MaxCalls \in Nat /\ MaxSpurious \in Nat

VARIABLES
    conn,            \* phase of the connection
    written,         \* cells the broker has written to consumer_buffer
    app,             \* program counter of the application thread
    consumed,        \* what consumeRecord has returned so far
    poller,          \* program counter of the completion poller
    read_status,     \* ctx->read_status
    peer_addr,       \* ctx->peer_addr, as an offset in consumer_buffer
    size,            \* ctx->size
    buffer,          \* ctx->buffer, the cells of the last read
    readFrom,        \* -1, or cells written when the read in flight was posted
    producer_record, \* producer_record, <<>> for NULL
    torn,            \* history: an incomplete read has been acted on
    spurious,        \* spurious wakeups so far
    crashed          \* "no", or how the process died

appVars  == <<app, consumed>>
readVars == <<read_status, peer_addr, size>>
vars == <<conn, written, appVars, poller, readVars, buffer, readFrom,
          producer_record, torn, spurious, crashed>>

-----------------------------------------------------------------------------
(* The layout of consumer_buffer. *)

Records == DOMAIN Sizes

Digit(d) == <<"digit", d>>
Text(r) == <<"text", r>>     \* a byte of the key or the value: not a digit
Sep(r) == <<"sep", r>>
NUL == <<"nul", 0>>

\* What a digit with k digits after it counts.
Place[k \in Nat] == IF k = 0 THEN 1 ELSE Base * Place[k - 1]

\* sprintf("%04d"): as many digits as the number needs, and at least VAL_LENGTH.
HeaderWidth(n) ==
    CHOOSE k \in VAL_LENGTH .. VAL_LENGTH + n :
        n < Place[k] /\ (k = VAL_LENGTH \/ n >= Place[k - 1])
Header(n) ==
    [i \in 1 .. HeaderWidth(n) |->
        Digit((n \div Place[HeaderWidth(n) - i]) % Base)]

\* The record "key/value", with a key of one byte if it has any.
SepAt(n) == Min({2, n})
Body(r) == [i \in 1 .. Sizes[r] |->
                IF i = SepAt(Sizes[r]) THEN Sep(r) ELSE Text(r)]
Frame(r) == Header(Sizes[r]) \o Body(r)

\* The log of the first r records.
Log[r \in 0 .. Len(Sizes)] == IF r = 0 THEN <<>> ELSE Log[r - 1] \o Frame(r)
FullLog == Log[Len(Sizes)]
FrameStart(r) == Len(Log[r - 1])

\* Mutant: the copy is not terminated.
WholeBlock(cells) == cells

\* The string in a block of cells ends at the first NUL.
String(cells) ==
    SubSeq(cells, 1, Min({i \in 1 .. Len(cells) : cells[i] = NUL}
                            \cup {Len(cells) + 1}) - 1)

\* atoi: the value of the digits the string starts with.
Atoi(cells) ==
    LET s == String(cells)
        n == Min({i \in 1 .. Len(s) : s[i][1] # "digit"} \cup {Len(s) + 1}) - 1
        value[k \in 0 .. n] ==
            IF k = 0 THEN 0 ELSE Base * value[k - 1] + s[k][2]
    IN  value[n]

HasSep(s) == \E i \in DOMAIN s : s[i][1] = "sep"

\* What a read may return: a cell written before it was posted, NUL for a cell
\* not yet written, and either of them for a cell written in the meantime.
ReadResults(addr, len) ==
    LET recent == Max({readFrom, addr}) + 1 .. Min({written, addr + len})
        cell(k, late) == IF k <= readFrom \/ k \in late THEN FullLog[k] ELSE NUL
    IN  {[i \in 1 .. len |-> cell(addr + i, late)] : late \in SUBSET recent}

-----------------------------------------------------------------------------
Init ==
    /\ conn = "resolving" /\ written = 0
    /\ app = "idle" /\ consumed = <<>>
    /\ poller = "connecting"
    /\ read_status = "READ_POLLING" /\ peer_addr = 0 /\ size = VAL_LENGTH
    /\ buffer = [i \in 1 .. VAL_LENGTH |-> NUL] /\ readFrom = -1
    /\ producer_record = <<>>
    /\ torn = FALSE /\ spurious = 0 /\ crashed = "no"

Running == crashed = "no"
BrokerGone == conn \in {"lost", "orphaned"}

\* The broker's sprintf writes the next cell.
WriteCell ==
    /\ written < Len(FullLog) /\ ~BrokerGone
    /\ written' = written + 1
    /\ UNCHANGED <<conn, appVars, poller, readVars, buffer, readFrom,
                   producer_record, torn, spurious, crashed>>
-----------------------------------------------------------------------------
(* The application. *)

\* consumeRecord: signal consumer_cond_variable, if the poller waits for it.
ConsumeRecord ==
    /\ Running /\ app = "idle" /\ Len(consumed) < MaxCalls
    /\ app' = "lock"
    /\ poller' = IF poller = "waiting" THEN "woken" ELSE poller
    /\ UNCHANGED <<conn, written, consumed, readVars, buffer, readFrom,
                   producer_record, torn, spurious, crashed>>

\* consumer_mutex is the application's own: locking it never blocks.
WaitForPolling ==
    /\ Running /\ app = "lock"
    /\ app' = "waiting"
    /\ UNCHANGED <<conn, written, consumed, poller, readVars, buffer, readFrom,
                   producer_record, torn, spurious, crashed>>

\* producer_record is read after the mutex is released.
ReturnRecord ==
    /\ Running /\ app = "woken"
    /\ app' = "idle"
    /\ consumed' = Append(consumed, producer_record)
    /\ UNCHANGED <<conn, written, poller, readVars, buffer, readFrom,
                   producer_record, torn, spurious, crashed>>

\* terminate sets a flag that no one reads.
Terminate ==
    /\ Running /\ app = "idle"
    /\ app' = "terminated"
    /\ UNCHANGED <<conn, written, consumed, poller, readVars, buffer, readFrom,
                   producer_record, torn, spurious, crashed>>

\* Neither wait is in a loop that rechecks a condition.
SpuriousWakeup ==
    /\ Running /\ spurious < MaxSpurious
    /\ spurious' = spurious + 1
    /\ \/ app = "waiting" /\ app' = "woken" /\ UNCHANGED poller
       \/ poller = "waiting" /\ poller' = "woken" /\ UNCHANGED app
    /\ UNCHANGED <<conn, written, consumed, readVars, buffer, readFrom,
                   producer_record, torn, crashed>>
-----------------------------------------------------------------------------
(* The connection: event_loop, and the end of the broker's process.            *)

Goes(from, to) ==
    /\ Running /\ conn = from
    /\ conn' = to
    /\ UNCHANGED <<written, appVars, poller, readVars, buffer, readFrom,
                   producer_record, torn, spurious, crashed>>

\* on_pre_conn posts the receive for the one message there will be, READY.
AddrResolved == Goes("resolving", "routing")
RouteResolved == Goes("routing", "connecting")

\* The broker accepts and sends READY.
Established == Goes("connecting", "established")

BrokerExit == Goes("established", "lost")

\* What ends the process: rc_die, or a connection used after it was destroyed.
Dies(how) ==
    /\ Running
    /\ crashed' = how
    /\ UNCHANGED <<conn, written, appVars, poller, readVars, buffer, readFrom,
                   producer_record, torn, spurious>>

CmError == conn \in {"resolving", "routing", "connecting"} /\ Dies("cm_error")

\* A read is not answered.
ReadFails == conn = "lost" /\ readFrom >= 0 /\ Dies("read_failed")

\* DISCONNECTED: the connection is destroyed and the read with it, event_loop ends
\* and so does run_client_loop, whose local variable is the context.
ConnectionLost ==
    /\ Running /\ conn = "lost"
    /\ conn' = "orphaned"
    /\ readFrom' = -1
    /\ UNCHANGED <<written, appVars, poller, readVars, buffer, producer_record,
                   torn, spurious, crashed>>

\* The poller goes on with that context.
StaleContext ==
    conn = "orphaned" /\ poller \in {"completion", "woken"}
        /\ Dies("stale_context")

HasContext == Running /\ conn # "orphaned"
-----------------------------------------------------------------------------
(* The completion poller. *)

PostRead == readFrom' = written /\ poller' = "idle"

\* A step acts on the last read: is it what the log is to hold there?
Whole == buffer = SubSeq(FullLog, peer_addr + 1, peer_addr + size)

\* READY: the (fresh, zero) buffer is parsed like the result of a read.
OnReady ==
    /\ Running /\ poller = "connecting" /\ conn = "established"
    /\ PostRead
    /\ UNCHANGED <<conn, written, appVars, readVars, buffer, producer_record, torn,
                   spurious, crashed>>

\* The NIC carries out the read and its completion is polled.
ReadDone ==
    /\ Running /\ poller = "idle" /\ readFrom >= 0 /\ conn = "established"
    /\ buffer' \in ReadResults(peer_addr, size)
    /\ readFrom' = -1
    /\ poller' = "completion"
    /\ UNCHANGED <<conn, written, appVars, readVars, producer_record, torn, spurious,
                   crashed>>

\* Mutant: the read is not issued again.
PollOnce ==
    /\ HasContext /\ poller = "completion" /\ read_status = "READ_POLLING"
    /\ Atoi(buffer) = 0
    /\ poller' = "idle"
    /\ UNCHANGED <<conn, written, appVars, readVars, buffer, readFrom,
                   producer_record, torn, spurious, crashed>>

\* issue_one_sided_read, READ_POLLING: no length there yet, read again.
PollAgain ==
    /\ HasContext /\ poller = "completion" /\ read_status = "READ_POLLING"
    /\ Atoi(buffer) = 0
    /\ PostRead
    /\ UNCHANGED <<conn, written, appVars, readVars, buffer, producer_record, torn,
                   spurious, crashed>>

\* Where the body starts.
BodyAddr == peer_addr + VAL_LENGTH

\* issue_one_sided_read, READ_POLLING: a length, read as many cells after it.
LengthFound ==
    /\ HasContext /\ poller = "completion" /\ read_status = "READ_POLLING"
    /\ Atoi(buffer) > 0
    /\ read_status' = "READ_READY"
    /\ size' = Atoi(buffer)
    /\ peer_addr' = BodyAddr
    /\ PostRead
    /\ torn' = (torn \/ ~Whole)
    /\ UNCHANGED <<conn, written, appVars, buffer, producer_record, spurious, crashed>>

\* issue_one_sided_read, READ_READY: split the string at its separator.
Deserialize ==
    /\ HasContext /\ poller = "completion" /\ read_status = "READ_READY"
    /\ HasSep(String(buffer))
    /\ producer_record' = String(buffer)
    /\ torn' = (torn \/ ~Whole)
    /\ poller' = "signal"
    /\ UNCHANGED <<conn, written, appVars, readVars, buffer, readFrom, spurious,
                   crashed>>

\* strchr returns NULL and the difference of two pointers is taken for a length.
NoSeparator ==
    /\ HasContext /\ poller = "completion" /\ read_status = "READ_READY"
    /\ ~HasSep(String(buffer))
    /\ crashed' = "wild"
    /\ torn' = (torn \/ ~Whole)
    /\ UNCHANGED <<conn, written, appVars, poller, readVars, buffer, readFrom,
                   producer_record, spurious>>

SignalConsumer ==
    /\ Running /\ poller = "signal"
    /\ poller' = "prewait"
    /\ app' = IF app = "waiting" THEN "woken" ELSE app
    /\ UNCHANGED <<conn, written, consumed, readVars, buffer, readFrom,
                   producer_record, torn, spurious, crashed>>

\* Mutant: the poller does not wait for the next call.
NoWaitForConsumer ==
    /\ Running /\ poller = "prewait"
    /\ poller' = "woken"
    /\ UNCHANGED <<conn, written, appVars, readVars, buffer, readFrom,
                   producer_record, torn, spurious, crashed>>

\* polling_mutex is the poller's own: locking it never blocks.
WaitForConsumer ==
    /\ Running /\ poller = "prewait"
    /\ poller' = "waiting"
    /\ UNCHANGED <<conn, written, appVars, readVars, buffer, readFrom,
                   producer_record, torn, spurious, crashed>>

\* Mutant: one byte short, as if the length counted a terminator.
NextAddrShort == peer_addr + size - 1

\* Where the next header starts.
NextAddr == peer_addr + size

Resume ==
    /\ HasContext /\ poller = "woken"
    /\ read_status' = "READ_POLLING"
    /\ peer_addr' = NextAddr
    /\ size' = VAL_LENGTH
    /\ PostRead
    /\ UNCHANGED <<conn, written, appVars, buffer, producer_record, torn, spurious,
                   crashed>>
-----------------------------------------------------------------------------
AppStep == WaitForPolling \/ ReturnRecord
PollerStep == OnReady \/ ReadDone \/ PollAgain \/ LengthFound \/ Deserialize
              \/ NoSeparator \/ SignalConsumer \/ WaitForConsumer \/ Resume
              \/ StaleContext
CmStep == AddrResolved \/ RouteResolved \/ Established \/ ConnectionLost
Next == WriteCell \/ ConsumeRecord \/ Terminate \/ SpuriousWakeup
        \/ CmError \/ BrokerExit \/ ReadFails
        \/ AppStep \/ PollerStep \/ CmStep

(* The threads are scheduled and the broker finishes what it writes.  The     *)
(* application need not call, and nothing has to fail or wake spuriously.      *)
Fairness == /\ WF_vars(AppStep) /\ WF_vars(PollerStep) /\ WF_vars(CmStep)
            /\ WF_vars(WriteCell)

Spec == Init /\ [][Next]_vars
FairSpec == Spec /\ Fairness
-----------------------------------------------------------------------------
(* Properties. *)

Cells == {"digit", "text", "sep", "nul"} \X Nat

TypeOK ==
    /\ conn \in {"resolving", "routing", "connecting", "established", "lost",
                 "orphaned"}
    /\ written \in 0 .. Len(FullLog)
    /\ app \in {"idle", "lock", "waiting", "woken", "terminated"}
    /\ poller \in {"connecting", "idle", "completion", "signal", "prewait",
                   "waiting", "woken"}
    /\ read_status \in {"READ_POLLING", "READ_READY"}
    /\ peer_addr \in Nat
    /\ size \in Nat \ {0}
    /\ buffer \in Seq(Cells) /\ readFrom \in -1 .. written
    /\ producer_record \in Seq(Cells \ {NUL})
    /\ consumed \in Seq(Seq(Cells \ {NUL}))
    /\ torn \in BOOLEAN /\ spurious \in 0 .. MaxSpurious
    /\ crashed \in {"no", "wild", "cm_error", "read_failed", "stale_context"}

\* The first record whose length takes more digits than the consumer reads, and
\* whether the cursor has got past where its frame starts.
FirstUnfit == Min({r \in Records : Sizes[r] >= Place[VAL_LENGTH]}
                      \cup {Len(Sizes) + 1})
PastUnfit == peer_addr > FrameStart(FirstUnfit)

\* As long as no read was torn and no length too long for its header was parsed,
\* the cursor is on the frame of a record: its header while polling, its body with
\* its own length while reading (issue_one_sided_read's arithmetic on peer_addr and
\* size), and no pointer is made from a separator that is not there.
CursorOnFrame ==
    ~torn /\ ~PastUnfit =>
        /\ crashed # "wild"
        /\ IF read_status = "READ_POLLING"
           THEN size = VAL_LENGTH
                /\ \E r \in 1 .. FirstUnfit : peer_addr = FrameStart(r)
           ELSE \E r \in 1 .. FirstUnfit - 1 :
                   peer_addr = FrameStart(r) + VAL_LENGTH /\ size = Sizes[r]

\* The records consumeRecord returns are whole and successive, up to the first
\* whose length its header does not hold; only the first one of the log can be
\* missed, by a first call that comes after it was fetched.
SuccessiveRecords ==
    ~torn /\ spurious = 0 =>
        \E first \in {1, 2} : \A i \in DOMAIN consumed :
            first + i - 1 < FirstUnfit => consumed[i] = Body(first + i - 1)

\* consumeRecord reads producer_record without a lock, yet the poller does not
\* replace it between the signal and that read (unless a wakeup was spurious).
RecordStable ==
    [][producer_record' # producer_record /\ spurious = 0 =>
          app # "woken"]_vars

\* Both threads wait, each for the other's next signal.
Deadlocked == app = "waiting" /\ poller = "waiting"

\* A consumeRecord call returns, unless the process dies, the threads missed each
\* other's signals, the broker has gone, a read was torn, a length did not fit, or
\* the log holds no further record.
ConsumeReturns ==
    app = "waiting" ~>
        \/ app = "woken" \/ ~Running \/ Deadlocked \/ conn = "orphaned"
        \/ torn \/ PastUnfit \/ peer_addr = Len(FullLog)
-----------------------------------------------------------------------------
(* What comments of the source say, and the code does not do. *)

\* "Return record obtained after polling" (line 103): what is returned is a record.
ReturnsRecords ==
    \A i \in DOMAIN consumed : \E r \in Records : consumed[i] = Body(r)

=============================================================================
