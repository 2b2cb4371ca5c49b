-------------------------------- MODULE FileCopy --------------------------------
(* What the file transfer of sample/ promises: the server's copy of a client's *)
(* file grows chunk by chunk, in order, and a client that is told it is done   *)
(* has a complete copy.  The promise holds until the server closes a           *)
(* descriptor that is another transfer's.                                      *)
EXTENDS Integers, Sequences

CONSTANTS
    Clients,
    Chunks      \* the number of chunks of each client's file

VARIABLES
    copy,       \* of each client: the chunks in the server's file
    done,       \* the clients that have been told DONE
    broken      \* the promise has been broken

Init == copy = [c \in Clients |-> <<>>] /\ done = {} /\ broken = FALSE

Extend(c) ==
    /\ ~broken /\ c \notin done /\ Len(copy[c]) < Chunks[c]
    /\ copy' = [copy EXCEPT ![c] = Append(@, <<c, Len(@) + 1>>)]
    /\ UNCHANGED <<done, broken>>

Finish(c) ==
    /\ ~broken /\ c \notin done /\ Len(copy[c]) = Chunks[c]
    /\ done' = done \cup {c}
    /\ UNCHANGED <<copy, broken>>

Break == ~broken /\ broken' /\ UNCHANGED <<copy, done>>

NoPromise == broken /\ broken'

Next == (\E c \in Clients : Extend(c) \/ Finish(c)) \/ Break \/ NoPromise

Spec == Init /\ [][Next]_<<copy, done, broken>>
=============================================================================
