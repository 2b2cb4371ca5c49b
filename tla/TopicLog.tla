-------------------------------- MODULE TopicLog --------------------------------
(* What the system promises its producers: one log, to which each record is    *)
(* appended once and in its producer's order, and the end of a producer's      *)
(* stream is confirmed only when all it has offered is there.                  *)
EXTENDS Integers, Sequences, FiniteSets

CONSTANT Producers

VARIABLES
    offered,    \* of each producer: the records it has offered
    topic,      \* the log, of pairs <<producer, number of its record>>
    done        \* the producers whose stream has been confirmed

Init == offered = [p \in Producers |-> 0] /\ topic = <<>> /\ done = {}

InTopic(p) == Cardinality({i \in DOMAIN topic : topic[i][1] = p})

Offer(p) ==
    /\ p \notin done
    /\ offered' = [offered EXCEPT ![p] = @ + 1]
    /\ UNCHANGED <<topic, done>>

Store(p) ==
    /\ InTopic(p) < offered[p]
    /\ topic' = Append(topic, <<p, InTopic(p) + 1>>)
    /\ UNCHANGED <<offered, done>>

Confirm(p) ==
    /\ p \notin done /\ InTopic(p) = offered[p]
    /\ done' = done \cup {p}
    /\ UNCHANGED <<offered, topic>>

Next == \E p \in Producers : Offer(p) \/ Store(p) \/ Confirm(p)

Spec == Init /\ [][Next]_<<offered, topic, done>>
=============================================================================
