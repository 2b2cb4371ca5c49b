----------------------------- MODULE EarlierConsumer -----------------------------
(* The earlier consumer as its only program uses it (consumer/client.c over    *)
(* rdma_consumer_client.c): two threads of one process each open a connection  *)
(* and take two records, over one library with one producer_record, one pair   *)
(* of condition variables and one completion poller.                           *)
(*                                                                             *)
(* The buffer they read is written by produce_data (server.c:124-141), here    *)
(* one sprintf at a time; ConsumerClient is about reads in the middle of one.  *)
(* A record's length counts its terminator, and the first header is written    *)
(* over a header of zero.                                                      *)
EXTENDS Integers, Sequences, FiniteSetsExt

CONSTANTS
    Threads,       \* the application threads and their connections
    Lengths,       \* of each record, strlen; 12 and 11 in the code
    VAL_LENGTH,    \* digits of a header
    Base,          \* base of the digits (10 in the code)
    Calls,         \* calls of consumeRecord by each thread, 2 in the code
    MaxSpurious    \* bound: spurious wakeups of pthread_cond_wait

ASSUME ParameterAssumption ==
    /\ IsFiniteSet(Threads)
    /\ Lengths \in Seq(Nat \ {0}) /\ Lengths # <<>>
    /\ VAL_LENGTH \in Nat \ {0} /\ Base \in Nat \ {0, 1}
    /\ Calls \in Nat /\ MaxSpurious \in Nat

VARIABLES
    produced,        \* sprintf calls produce_data has made
    app,             \* of each thread: its program counter; after its wait "woken"
                     \* or, if it was not signalled, "roused"
    calls,           \* of each thread: calls of consumeRecord that have returned
    producer_record, \* producer_record, <<>> for NULL
    published,       \* of each connection: what was assigned to producer_record
    read_status,     \* of each connection, as are the next three: ctx->read_status
    peer_addr,       \* ctx->peer_addr, as an offset in the server's buffer
    size,            \* ctx->size
    buffer,          \* ctx->buffer: cells, of which a read replaces the first
    pending,         \* connections whose READY or read is on its way
    cq,              \* completions not polled, by connection
    poller,          \* program counter of the completion poller
    on,              \* the connection the poller is at, if not idle
    torn,            \* history: an incomplete read has been acted on
    spurious,        \* spurious wakeups so far
    crashed          \* "no"; "wild", no separator was found; or "nullderef"

appVars  == <<app, calls>>
recVars  == <<producer_record, published>>
readVars == <<read_status, peer_addr, size>>
vars == <<produced, appVars, recVars, readVars, buffer, pending, cq, poller, on,
          torn, spurious, crashed>>
-----------------------------------------------------------------------------
(* The server's buffer. *)

Records == DOMAIN Lengths

Digit(d) == <<"digit", d>>
Text(r) == <<"text", r>>
Sep(r) == <<"sep", r>>
NUL == <<"nul", 0>>

\* What a digit with k digits after it counts.
Place[k \in Nat] == IF k = 0 THEN 1 ELSE Base * Place[k - 1]

Header(n) ==
    [i \in 1 .. VAL_LENGTH |-> Digit((n \div Place[VAL_LENGTH - i]) % Base)]
Body(r) == [i \in 1 .. Lengths[r] |->
                IF i = Lengths[r] \div 2 + 1 THEN Sep(r) ELSE Text(r)]
CountedLength(r) == Lengths[r] + 1

\* A length fits its header.  What a read leaves behind its block is neither parsed
\* with a header nor with a record before the last one: a record that another one
\* follows is longer than a header, and not shorter than the one before it.
ASSUME LengthAssumption ==
    \A r \in Records :
        /\ CountedLength(r) < Place[VAL_LENGTH]
        /\ r < Len(Lengths) =>
              /\ Lengths[r] > VAL_LENGTH
              /\ \A q \in Records : q < r => Lengths[q] <= Lengths[r]

\* A header, and the record over the terminator of that string.
Frame(r) == Header(CountedLength(r)) \o Body(r)

\* The first r records in the buffer.
Log[r \in 0 .. Len(Lengths)] == IF r = 0 THEN <<>> ELSE Log[r - 1] \o Frame(r)

\* The buffer after each of produce_data's calls: the second goes over the first,
\* the others go to where the string in the buffer ends.
LastPart == 2 * Len(Lengths) + 1
Contents == [n \in 0 .. LastPart |->
                IF n = 1 THEN Header(0)
                ELSE IF n = 0 \/ n % 2 = 1 THEN Log[n \div 2]
                ELSE Log[n \div 2 - 1] \o Header(CountedLength(n \div 2))]
HeaderAt(r) == Len(Log[r - 1])

\* The cells a read returns.
Block(n, addr, len) ==
    [i \in 1 .. len |->
        IF addr + i \in DOMAIN Contents[n] THEN Contents[n][addr + i] ELSE NUL]

\* The string in a buffer ends at the first NUL.
String(cells) ==
    SubSeq(cells, 1, Min({i \in 1 .. Len(cells) : cells[i] = NUL}
                            \cup {Len(cells) + 1}) - 1)

\* atoi: the value of the digits the buffer starts with.
Atoi(cells) ==
    LET n == Min({i \in 1 .. Len(cells) : cells[i][1] # "digit"}
                    \cup {Len(cells) + 1}) - 1
        value[k \in 0 .. n] ==
            IF k = 0 THEN 0 ELSE Base * value[k - 1] + cells[k][2]
    IN  value[n]

\* Mutant: a length of zero is taken for one.
HasLength0(cells) == Atoi(cells) >= 0

HasLength(cells) == Atoi(cells) > 0
HasSep(s) == \E i \in DOMAIN s : s[i][1] = "sep"
-----------------------------------------------------------------------------
\* READY is on its way to each connection; malloc'ed pages are zero.
Init ==
    /\ produced = 0
    /\ app = [t \in Threads |-> "idle"]
    /\ calls = [t \in Threads |-> 0]
    /\ producer_record = <<>> /\ published = [t \in Threads |-> <<>>]
    /\ read_status = [t \in Threads |-> "READ_POLLING"]
    /\ peer_addr = [t \in Threads |-> 0]
    /\ size = [t \in Threads |-> VAL_LENGTH]
    /\ buffer = [t \in Threads |-> [i \in 1 .. VAL_LENGTH |-> NUL]]
    /\ pending = [t \in Threads |-> "READY"]
    /\ cq = <<>>
    /\ poller = "idle" /\ on \in Threads
    /\ torn = FALSE /\ spurious = 0 /\ crashed = "no"

Running == crashed = "no"

\* produce_data's next sprintf.
Produce ==
    /\ produced < LastPart
    /\ produced' = produced + 1
    /\ UNCHANGED <<appVars, recVars, readVars, buffer, pending, cq, poller, on,
                   torn, spurious, crashed>>
-----------------------------------------------------------------------------
(* The application: client.c's two threads.                                    *)
(* consumer_mutex is held only from the lock to the wait and from the wakeup   *)
(* to the unlock, in one step each.                                            *)

\* pthread_cond_signal(&consumer_cond_variable).
ConsumeRecord(t) ==
    /\ Running /\ app[t] = "idle" /\ calls[t] < Calls
    /\ app' = [app EXCEPT ![t] = "lock"]
    /\ poller' = IF poller = "waiting" THEN "woken" ELSE poller
    /\ UNCHANGED <<produced, calls, recVars, readVars, buffer, pending, cq,
                   on, torn, spurious, crashed>>

\* Mutant: the call does not wait.
NoWaitForPolling(t) ==
    /\ Running /\ app[t] = "lock"
    /\ app' = [app EXCEPT ![t] = "woken"]
    /\ UNCHANGED <<produced, calls, recVars, readVars, buffer, pending, cq,
                   poller, on, torn, spurious, crashed>>

WaitForPolling(t) ==
    /\ Running /\ app[t] = "lock"
    /\ app' = [app EXCEPT ![t] = "waiting"]
    /\ UNCHANGED <<produced, calls, recVars, readVars, buffer, pending, cq,
                   poller, on, torn, spurious, crashed>>

\* producer_record is read after the mutex is released, whatever has ended the wait;
\* client.c dereferences it.
ReturnRecord(t) ==
    /\ Running /\ app[t] \in {"woken", "roused"}
    /\ app' = [app EXCEPT ![t] = "idle"]
    /\ calls' = [calls EXCEPT ![t] = @ + 1]
    /\ crashed' = IF producer_record = <<>> THEN "nullderef" ELSE crashed
    /\ UNCHANGED <<produced, recVars, readVars, buffer, pending, cq, poller, on,
                   torn, spurious>>

\* terminate sets a flag that no one reads.
Terminate(t) ==
    /\ Running /\ app[t] = "idle" /\ calls[t] = Calls
    /\ app' = [app EXCEPT ![t] = "terminated"]
    /\ UNCHANGED <<produced, calls, recVars, readVars, buffer, pending, cq,
                   poller, on, torn, spurious, crashed>>
-----------------------------------------------------------------------------
(* The network card. *)

\* A read leaves what is behind the block it replaces.
Complete(t) ==
    /\ Running /\ pending[t] # "none"
    /\ buffer' =
          IF pending[t] = "READY" THEN buffer
          ELSE [buffer EXCEPT ![t] = Block(produced, peer_addr[t], size[t])
                                     \o SubSeq(@, size[t] + 1, Len(@))]
    /\ cq' = Append(cq, t)
    /\ pending' = [pending EXCEPT ![t] = "none"]
    /\ UNCHANGED <<produced, appVars, recVars, readVars, poller, on, torn,
                   spurious, crashed>>
-----------------------------------------------------------------------------
(* The completion poller, at connection t.                                     *)

PostRead(t) == pending' = [pending EXCEPT ![t] = "read"] /\ poller' = "idle"

\* The buffer starts with what the server's buffer is to hold there in the end.
Whole(t) == SubSeq(buffer[t], 1, size[t])
                = Block(LastPart, peer_addr[t], size[t])

\* A terminator or, when the next header is written, its first digit.
WholeBody(t) == SubSeq(buffer[t], 1, size[t] - 1)
                    = Block(LastPart, peer_addr[t], size[t] - 1)

\* poll_cq takes a completion; on READY the zero buffer is parsed as well.
PollCq ==
    /\ Running /\ poller = "idle" /\ cq # <<>>
    /\ on' = Head(cq) /\ cq' = Tail(cq)
    /\ poller' = "completion"
    /\ UNCHANGED <<produced, appVars, recVars, readVars, buffer, pending, torn,
                   spurious, crashed>>

\* Mutant: the read is not issued again.
PollOnce ==
    /\ Running /\ poller = "completion" /\ read_status[on] = "READ_POLLING"
    /\ ~HasLength(buffer[on])
    /\ poller' = "idle"
    /\ UNCHANGED <<produced, appVars, recVars, readVars, buffer, pending, cq, on,
                   torn, spurious, crashed>>

\* READ_POLLING: no length yet.
PollAgain ==
    /\ Running /\ poller = "completion" /\ read_status[on] = "READ_POLLING"
    /\ ~HasLength(buffer[on])
    /\ PostRead(on)
    /\ UNCHANGED <<produced, appVars, recVars, readVars, buffer, cq, on, torn,
                   spurious, crashed>>

\* READ_POLLING: a length.
LengthFound ==
    /\ Running /\ poller = "completion" /\ read_status[on] = "READ_POLLING"
    /\ HasLength(buffer[on])
    /\ read_status' = [read_status EXCEPT ![on] = "READ_READY"]
    /\ size' = [size EXCEPT ![on] = Atoi(buffer[on])]
    /\ peer_addr' = [peer_addr EXCEPT ![on] = @ + VAL_LENGTH]
    /\ PostRead(on)
    /\ torn' = (torn \/ ~Whole(on))
    /\ UNCHANGED <<produced, appVars, recVars, buffer, cq, on, spurious, crashed>>

\* READ_READY: the value goes to the end of the string in the buffer.
Deserialize ==
    /\ Running /\ poller = "completion" /\ read_status[on] = "READ_READY"
    /\ HasSep(String(buffer[on]))
    /\ producer_record' = String(buffer[on])
    /\ published' = [published EXCEPT ![on] = Append(@, String(buffer[on]))]
    /\ torn' = (torn \/ ~WholeBody(on))
    /\ poller' = "signal"
    /\ UNCHANGED <<produced, appVars, readVars, buffer, pending, cq, on, spurious,
                   crashed>>

\* strstr returns NULL and the difference of two pointers is taken for a length.
NoSeparator ==
    /\ Running /\ poller = "completion" /\ read_status[on] = "READ_READY"
    /\ ~HasSep(String(buffer[on]))
    /\ crashed' = "wild" /\ torn' = (torn \/ ~WholeBody(on))
    /\ UNCHANGED <<produced, appVars, recVars, readVars, buffer, pending, cq,
                   poller, on, spurious>>

\* pthread_cond_signal(&polling_cond_variable) wakes one of the threads that wait.
SignalConsumer ==
    /\ Running /\ poller = "signal"
    /\ poller' = "prewait"
    /\ \/ \E t \in Threads : /\ app[t] = "waiting"
                           /\ app' = [app EXCEPT ![t] = "woken"]
       \/ (\A t \in Threads : app[t] # "waiting") /\ UNCHANGED app
    /\ UNCHANGED <<produced, calls, recVars, readVars, buffer, pending, cq,
                   on, torn, spurious, crashed>>

\* Meanwhile no completion of any connection is handled.
WaitForConsumer ==
    /\ Running /\ poller = "prewait"
    /\ poller' = "waiting"
    /\ UNCHANGED <<produced, appVars, recVars, readVars, buffer, pending, cq, on,
                   torn, spurious, crashed>>

\* Mutants: the terminator is taken to be in the buffer; the cursor goes back to
\* the header.
NextAddrLong(t) == peer_addr[t] + size[t]
NextAddrBack(t) == peer_addr[t] - VAL_LENGTH

\* The length counted a terminator, over which the next header is written.
NextAddr(t) == peer_addr[t] + size[t] - 1

Resume ==
    /\ Running /\ poller = "woken"
    /\ read_status' = [read_status EXCEPT ![on] = "READ_POLLING"]
    /\ peer_addr' = [peer_addr EXCEPT ![on] = NextAddr(on)]
    /\ size' = [size EXCEPT ![on] = VAL_LENGTH]
    /\ PostRead(on)
    /\ UNCHANGED <<produced, appVars, recVars, buffer, cq, on, torn, spurious, crashed>>

\* pthread_cond_wait may return though no one signalled; neither wait is in a loop.
SpuriousWakeup ==
    /\ Running /\ spurious < MaxSpurious
    /\ spurious' = spurious + 1
    /\ \/ poller = "waiting" /\ poller' = "woken" /\ UNCHANGED app
       \/ /\ \E t \in Threads : /\ app[t] = "waiting"
                                 /\ app' = [app EXCEPT ![t] = "roused"]
          /\ UNCHANGED poller
    /\ UNCHANGED <<produced, calls, recVars, readVars, buffer, pending, cq, on,
                   torn, crashed>>
-----------------------------------------------------------------------------
AppStep(t) == ConsumeRecord(t) \/ WaitForPolling(t) \/ ReturnRecord(t)
              \/ Terminate(t)
PollerStep == PollCq \/ PollAgain \/ LengthFound \/ Deserialize \/ NoSeparator
              \/ SignalConsumer \/ WaitForConsumer \/ Resume

Next == \/ Produce \/ PollerStep \/ SpuriousWakeup
        \/ \E t \in Threads : AppStep(t) \/ Complete(t)

(* All threads are scheduled, client.c's do what they do, reads complete.      *)
(* Nothing has to wake spuriously.                                             *)
Fairness == /\ WF_vars(Produce) /\ WF_vars(PollerStep)
            /\ \A t \in Threads : WF_vars(AppStep(t)) /\ WF_vars(Complete(t))

Spec == Init /\ [][Next]_vars
FairSpec == Spec /\ Fairness
-----------------------------------------------------------------------------
(* Properties. *)

Cells == {"digit", "text", "sep", "nul"} \X Nat
AppStates == {"idle", "lock", "waiting", "woken", "roused", "terminated"}

TypeOK ==
    /\ produced \in 0 .. LastPart
    /\ app \in [Threads -> AppStates]
    /\ calls \in [Threads -> Nat]
    /\ producer_record \in Seq(Cells)
    /\ published \in [Threads -> Seq(Seq(Cells))]
    /\ read_status \in [Threads -> {"READ_POLLING", "READ_READY"}]
    /\ peer_addr \in [Threads -> Nat] /\ size \in [Threads -> Nat \ {0}]
    /\ buffer \in [Threads -> Seq(Cells)]
    /\ pending \in [Threads -> {"none", "READY", "read"}]
    /\ cq \in Seq(Threads) /\ Len(cq) <= Cardinality(Threads)
    /\ poller \in {"idle", "completion", "signal", "prewait", "waiting", "woken"}
    /\ on \in Threads
    /\ torn \in BOOLEAN /\ spurious \in 0 .. MaxSpurious
    /\ crashed \in {"no", "wild", "nullderef"}

\* Though lengths count a terminator that the buffer does not keep, the cursor of
\* each connection goes from frame to frame, as long as no read was torn.
CursorOnFrame ==
    ~torn => \A t \in Threads :
        IF read_status[t] = "READ_POLLING"
        THEN \/ peer_addr[t] = Len(Log[Len(Lengths)])
             \/ \E r \in Records : peer_addr[t] = HeaderAt(r)
        ELSE \E r \in Records : /\ peer_addr[t] = HeaderAt(r) + VAL_LENGTH
                                /\ size[t] = CountedLength(r)

\* What the next header starts with, when it follows record r.
NextDigit(r) == SubSeq(Header(CountedLength(r + 1)), 1, 1)

\* Each connection publishes the records in order, and each as it was written or,
\* when the next header was there already, with that header's first digit at the
\* end of its value; unless a read was torn.
PublishedInOrder ==
    ~torn => \A t \in Threads : \A i \in DOMAIN published[t] :
        \/ published[t][i] = Body(i)
        \/ i + 1 \in Records /\ published[t][i] = Body(i) \o NextDigit(i)

\* client.c dereferences what consumeRecord returns.  A call that was signalled
\* returns a record, of whichever connection; NULL only one whose wait ended without
\* a signal.
NullOnlySpuriously ==
    [][\A t \in Threads :
          calls'[t] # calls[t] /\ producer_record = <<>> => app[t] = "roused"]_vars

\* The poller waits for a call that no thread is going to make.
Deadlocked ==
    poller = "waiting" /\ \A t \in Threads : app[t] \in {"waiting", "terminated"}
Exhausted == \A t \in Threads : peer_addr[t] = Len(Log[Len(Lengths)])

\* A call returns unless the threads and the poller missed each other, every
\* connection has come to the end, a read was torn, or the other thread has ended the
\* process over a NULL; however the signals of the threads, the records of the
\* connections and spurious wakeups mix.
ConsumeReturns ==
    \A t \in Threads :
        app[t] = "waiting" ~> \/ app[t] \in {"woken", "roused"}
                              \/ Deadlocked \/ Exhausted
                              \/ torn \/ crashed = "nullderef"
=============================================================================
