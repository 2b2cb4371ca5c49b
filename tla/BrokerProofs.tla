------------------------------ MODULE BrokerProofs ------------------------------
(* Proofs about the broker with all its clients: its types, the bound on the   *)
(* completion queue, what is freed under the poller, what the broker ends      *)
(* over, and that the log is the topic that TopicLog promises.                 *)
EXTENDS Broker, FiniteSetTheorems, TLAPS

-----------------------------------------------------------------------------
(* Induction over the natural numbers, by way of the finite sets 1 .. n. *)

\* A set of natural numbers that is not empty has a least element.
LEMMA LeastNat ==
  ASSUME NEW S \in SUBSET Nat, S # {}
  PROVE  \E n \in S : \A m \in S : n <= m
<1> DEFINE T == {1 .. n : n \in S}
           R == StrictSubsetOrdering(Nat)
<1>1. T \subseteq FiniteSubsetsOf(Nat) /\ T # {}
  <2>1. \A n \in S : IsFiniteSet(1 .. n) /\ 1 .. n \in SUBSET Nat
    BY FS_Interval
  <2> QED
    BY <2>1 DEF FiniteSubsetsOf
<1>2. PICK X \in T : \A Y \in T : ~ (<<Y, X>> \in R)
  <2>1. IsWellFoundedOn(R, FiniteSubsetsOf(Nat))
    BY FS_StrictSubsetOrderingWellFounded
  <2> HIDE DEF T, R
  <2> QED
    BY <1>1, <2>1, WFMin
<1>3. PICK n \in S : X = 1 .. n
  OBVIOUS
<1>4. ASSUME NEW m \in S, m < n PROVE FALSE
  <2>1. 1 .. m \in T /\ 1 .. m \in SUBSET Nat /\ X \in SUBSET Nat
    BY <1>3
  <2>2. 1 .. m \subseteq X /\ 1 .. m # X
    BY <1>3, <1>4
  <2>3. <<1 .. m, X>> \in R
    BY <2>1, <2>2 DEF StrictSubsetOrdering
  <2> QED
    BY <1>2, <2>1, <2>3
<1> QED
  BY <1>4

\* A set of natural numbers that has 0 and with each number the next is all of
\* them.
LEMMA Induction ==
  ASSUME NEW S \in SUBSET Nat, 0 \in S, \A n \in S : n + 1 \in S
  PROVE  S = Nat
<1> SUFFICES ASSUME Nat \ S # {} PROVE FALSE
  OBVIOUS
<1>1. PICK x \in Nat \ S : \A y \in Nat \ S : x <= y
  BY LeastNat
<1>2. x # 0 /\ x - 1 \in Nat /\ x - 1 \notin Nat \ S
  BY <1>1
<1> QED
  BY <1>2

-----------------------------------------------------------------------------
(* The operators on the queue and the log. *)

\* What is left of the completions when those of a connection are taken out:
\* entries of the others, in the order they had.
LEMMA OthersOf ==
  ASSUME NEW S, NEW s \in Seq(S), NEW c
  PROVE  /\ Others(s, c) \in Seq(S)
         /\ \E f \in [DOMAIN Others(s, c) -> DOMAIN s] :
               /\ \A i \in DOMAIN Others(s, c) :
                     Others(s, c)[i] = s[f[i]] /\ s[f[i]].conn # c
               /\ \A i, j \in DOMAIN Others(s, c) : i < j => f[i] < f[j]
<1> DEFINE At(g, n) == IF n = 0 THEN <<>>
                       ELSE IF s[n].conn = c THEN g[n - 1]
                       ELSE Append(g[n - 1], s[n])
           Upto(g, m) == g = [n \in 0 .. m |-> At(g, n)]
           D == {m \in Nat : \E g : Upto(g, m)}
<1>1. D = Nat
  <2>1. 0 \in D
    <3>1. Upto([n \in 0 .. 0 |-> <<>>], 0)
      OBVIOUS
    <3> QED
      BY <3>1
  <2>2. ASSUME NEW m \in D PROVE m + 1 \in D
    <3>1. PICK g : Upto(g, m)
      OBVIOUS
    <3> DEFINE h == [n \in 0 .. m + 1 |-> IF n = m + 1 THEN At(g, n) ELSE g[n]]
    <3>2. Upto(h, m + 1)
      <4>1. \A n \in 0 .. m + 1 : At(h, n) = At(g, n)
        OBVIOUS
      <4>2. \A n \in 0 .. m : g[n] = At(g, n)
        BY <3>1
      <4> HIDE DEF At
      <4> QED
        BY <4>1, <4>2
    <3>3. m + 1 \in Nat
      OBVIOUS
    <3> HIDE DEF h, Upto
    <3> QED
      BY <3>2, <3>3
  <2> HIDE DEF D
  <2>3. D \subseteq Nat
    BY DEF D
  <2> QED
    BY <2>1, <2>2, <2>3, Induction
<1> DEFINE o == CHOOSE g : Upto(g, Len(s))
<1>2. Upto(o, Len(s))
  <2>1. Len(s) \in D
    <3> HIDE DEF D
    <3> QED
      BY <1>1
  <2> HIDE DEF Upto
  <2>2. \E g : Upto(g, Len(s))
    BY <2>1
  <2> QED
    BY <2>2
<1>3. Others(s, c) = o[Len(s)]
  BY DEF Others
<1> HIDE DEF o
<1>4. \A n \in 0 .. Len(s) : o[n] = At(o, n)
  BY <1>2
<1> DEFINE Picks(t, m, f) ==
             /\ f \in [DOMAIN t -> 1 .. m]
             /\ \A i \in DOMAIN t : t[i] = s[f[i]] /\ s[f[i]].conn # c
             /\ \A i, j \in DOMAIN t : i < j => f[i] < f[j]
           E == {m \in Nat : m <= Len(s) =>
                    /\ o[m] \in Seq(S)
                    /\ \E f : Picks(o[m], m, f)}
<1>5. E = Nat
  <2>1. 0 \in E
    <3>1. o[0] = <<>>
      BY <1>4
    <3>2. Picks(<<>>, 0, <<>>) /\ <<>> \in Seq(S) /\ 0 \in Nat
      OBVIOUS
    <3> HIDE DEF Picks
    <3> QED
      BY <3>1, <3>2
  <2>2. ASSUME NEW m \in E PROVE m + 1 \in E
    <3> SUFFICES ASSUME m + 1 <= Len(s)
                 PROVE  /\ o[m + 1] \in Seq(S)
                        /\ \E f : Picks(o[m + 1], m + 1, f)
      OBVIOUS
    <3>1. /\ m \in Nat /\ o[m] \in Seq(S) /\ s[m + 1] \in S
          /\ o[m + 1] = IF s[m + 1].conn = c THEN o[m]
                        ELSE Append(o[m], s[m + 1])
      BY <1>4
    <3>2. PICK f : Picks(o[m], m, f)
      OBVIOUS
    <3>3. CASE s[m + 1].conn = c
      <4>1. Picks(o[m], m + 1, f)
        BY <3>1, <3>2
      <4> HIDE DEF Picks
      <4> QED
        BY <3>1, <3>3, <4>1
    <3>4. CASE s[m + 1].conn # c
      <4> DEFINE t == Append(o[m], s[m + 1])
                 k == Len(o[m])
                 h == [i \in 1 .. k + 1 |-> IF i = k + 1 THEN m + 1 ELSE f[i]]
      <4>1. /\ k \in Nat /\ DOMAIN o[m] = 1 .. k /\ DOMAIN t = 1 .. k + 1
            /\ t \in Seq(S)
            /\ \A i \in 1 .. k : t[i] = o[m][i]
            /\ t[k + 1] = s[m + 1]
        BY <3>1
      <4> HIDE DEF t, k
      <4>2. /\ h \in [1 .. k + 1 -> 1 .. m + 1]
            /\ h[k + 1] = m + 1
            /\ \A i \in 1 .. k : h[i] = f[i] /\ f[i] \in 1 .. m
        BY <3>1, <3>2, <4>1
      <4> HIDE DEF h
      <4>3. ASSUME NEW i \in 1 .. k + 1
            PROVE  t[i] = s[h[i]] /\ s[h[i]].conn # c
        <5>1. CASE i \in 1 .. k
          BY <3>2, <4>1, <4>2, <5>1
        <5>2. CASE i = k + 1
          BY <3>4, <4>1, <4>2, <5>2
        <5> QED
          BY <4>1, <5>1, <5>2
      <4>4. ASSUME NEW i \in 1 .. k + 1, NEW j \in 1 .. k + 1, i < j
            PROVE  h[i] < h[j]
        <5>1. i \in 1 .. k /\ (j \in 1 .. k \/ j = k + 1)
          BY <4>1, <4>4
        <5>2. CASE j \in 1 .. k
          BY <3>2, <4>1, <4>2, <4>4, <5>1, <5>2
        <5>3. CASE j = k + 1
          <6>1. h[i] \in 1 .. m /\ h[j] = m + 1
            BY <4>2, <5>1, <5>3
          <6> QED
            BY <3>1, <6>1
        <5> QED
          BY <5>1, <5>2, <5>3
      <4>5. Picks(t, m + 1, h)
        BY <4>1, <4>2, <4>3, <4>4
      <4>6. o[m + 1] = t
        BY <3>1, <3>4 DEF t
      <4> HIDE DEF Picks
      <4> QED
        BY <4>1, <4>5, <4>6
    <3> QED
      BY <3>3, <3>4
  <2> HIDE DEF E
  <2>3. E \subseteq Nat
    BY DEF E
  <2> QED
    BY <2>1, <2>2, <2>3, Induction
<1>6. Len(s) \in E /\ DOMAIN s = 1 .. Len(s)
  BY <1>5
<1> QED
  BY <1>3, <1>6

-----------------------------------------------------------------------------
(* The inductive invariant. *)

\* Per connection, how many records of its client are in consumer_buffer.
InLog(c) == Cardinality({i \in DOMAIN log : log[i][1] = c})

\* Before the connection is established nothing but a receive is there; once it is
\* destroyed, nothing.
ConnInv(c) ==
    /\ phase[c] \in {"requested", "accepted"} =>
          has[c] = "none" /\ sent[c] = InLog(c)
    /\ phase[c] = "requested" => posted[c] = 0
    /\ phase[c] = "accepted" => posted[c] = 1
    /\ phase[c] # "established" => toClient[c] = <<>> /\ toServer[c] = <<>>
    /\ phase[c] \in {"noqp", "gone"} => posted[c] = 0 /\ client[c] # "up"
    /\ ctx[c] = "live" <=> phase[c] \in {"accepted", "established", "noqp"}
    /\ client[c] = "left" => has[c] # "none"

\* A SEND in flight is the only thing of its connection in flight.
SendInv(c) ==
    toClient[c] # <<>> =>
        /\ toServer[c] = <<>> /\ has[c] = "none" /\ sent[c] = InLog(c)
        /\ \/ toClient[c] = <<"READY">> /\ posted[c] = 1
           \/ toClient[c] = <<"DONE">> /\ c \in Producers

\* So is a write; a record that travels is the one after those in the log.
WriteInv(c) ==
    toServer[c] # <<>> =>
        /\ c \in Producers /\ has[c] = "none" /\ posted[c] = 1
        /\ \/ toServer[c] = <<0>> /\ sent[c] = InLog(c)
           \/ toServer[c] = <<sent[c]>> /\ sent[c] = InLog(c) + 1

\* A client acts on a message only when all it has written is in the log.
HasInv(c) ==
    has[c] # "none" =>
        /\ toClient[c] = <<>> /\ toServer[c] = <<>> /\ sent[c] = InLog(c)
        /\ has[c] = "READY" /\ phase[c] = "established" => posted[c] = 1
        /\ has[c] = "DONE" => c \in Producers

\* What a completion that is not yet handled says of its connection.
EntryInv(e) ==
    LET c == e.conn IN
    /\ phase[c] \notin {"requested", "accepted"} /\ toClient[c] = <<>>
    /\ e.kind # "SEND" => has[c] = "none" /\ toServer[c] = <<>>
    /\ e.kind = "ERROR" => client[c] = "crashed"
    /\ e.kind = "RECV" =>
          /\ c \in Producers /\ posted[c] = 0
          /\ \/ e.imm = 0 /\ sent[c] = InLog(c)
             \/ e.imm = sent[c] /\ buffer[c] = sent[c] /\ sent[c] = InLog(c) + 1

\* A connection has at most two completions, of a SEND and of the write that
\* answers it.
SendThenRecv(e, f) == e.conn = f.conn => e.kind = "SEND" /\ f.kind = "RECV"

ConnPart(c) == ConnInv(c) /\ SendInv(c) /\ WriteInv(c) /\ HasInv(c)

QueueInv ==
    /\ \A i \in DOMAIN cq : EntryInv(cq[i])
    /\ \A i, j \in DOMAIN cq : i < j => SendThenRecv(cq[i], cq[j])
    /\ \/ hand = <<>>
       \/ /\ Len(hand) = 1 /\ EntryInv(hand[1])
          /\ \A i \in DOMAIN cq : SendThenRecv(hand[1], cq[i])

IInv ==
    /\ TypeOK /\ FreedOnlyUnderSend /\ QueueInv
    /\ \A c \in Clients : ConnPart(c)


\* A step that has nothing to do with connection c.
Same(c) ==
    /\ client'[c] = client[c] /\ has'[c] = has[c] /\ sent'[c] = sent[c]
    /\ phase'[c] = phase[c] /\ ctx'[c] = ctx[c] /\ posted'[c] = posted[c]
    /\ buffer'[c] = buffer[c] /\ toClient'[c] = toClient[c]
    /\ toServer'[c] = toServer[c] /\ InLog(c)' = InLog(c)

LEMMA SamePart ==
  ASSUME NEW c, Same(c), ConnPart(c)
  PROVE  ConnPart(c)'
  BY DEF Same, ConnPart, ConnInv, SendInv, WriteInv, HasInv

LEMMA SameEntry ==
  ASSUME NEW e, Same(e.conn), EntryInv(e)
  PROVE  EntryInv(e)'
  BY DEF Same, EntryInv

\* An unchanged queue.
LEMMA QueueKept ==
  ASSUME QueueInv, UNCHANGED <<cq, hand>>,
         \A e \in Completions : EntryInv(e) => EntryInv(e)',
         TypeOK
  PROVE  QueueInv'
  BY DEF QueueInv, SendThenRecv, TypeOK

\* A queue with one more completion.
LEMMA QueueGrows ==
  ASSUME QueueInv, TypeOK, NEW x \in Completions,
         cq' = Append(cq, x), UNCHANGED hand, EntryInv(x)',
         \A e \in Completions : EntryInv(e) => EntryInv(e)',
         \A e \in Completions : EntryInv(e) => SendThenRecv(e, x)
  PROVE  QueueInv'
<1>1. /\ DOMAIN cq' = 1 .. Len(cq) + 1 /\ DOMAIN cq = 1 .. Len(cq)
      /\ Len(cq) \in Nat
      /\ cq'[Len(cq) + 1] = x
      /\ \A i \in DOMAIN cq : cq'[i] = cq[i] /\ cq[i] \in Completions
  BY DEF TypeOK
<1>2. \A i \in DOMAIN cq' : EntryInv(cq[i])'
  BY <1>1 DEF QueueInv
<1>3. ASSUME NEW i \in DOMAIN cq', NEW j \in DOMAIN cq', i < j
      PROVE  SendThenRecv(cq'[i], cq'[j])
  <2>1. i \in DOMAIN cq
    BY <1>1, <1>3
  <2>2. CASE j \in DOMAIN cq
    BY <1>1, <1>3, <2>1, <2>2 DEF QueueInv
  <2>3. CASE j = Len(cq) + 1
    BY <1>1, <2>1, <2>3 DEF QueueInv
  <2> QED
    BY <1>1, <2>2, <2>3
<1>4. hand # <<>> => hand[1] \in Completions
  BY DEF TypeOK
<1>5. \/ hand' = <<>>
      \/ /\ Len(hand') = 1 /\ EntryInv(hand[1])'
         /\ \A i \in DOMAIN cq' : SendThenRecv(hand'[1], cq'[i])
  BY <1>1, <1>4 DEF QueueInv
<1> QED
  BY <1>2, <1>3, <1>5 DEF QueueInv, SendThenRecv

\* A completion has been handled: none of its connection is left but, after a
\* SEND, that of the write that answers it.
LEMMA HandHandled ==
  ASSUME QueueInv, TypeOK, hand # <<>>, hand' = <<>>, UNCHANGED cq,
         \A e \in Completions :
            EntryInv(e) /\ SendThenRecv(hand[1], e) => EntryInv(e)'
  PROVE  QueueInv'
  BY DEF QueueInv, SendThenRecv, TypeOK

\* One record more is in the log.
LEMMA InLogAppend ==
  ASSUME NEW S, log \in Seq(S), NEW x \in S, log' = Append(log, x), NEW c
  PROVE  /\ InLog(c) \in Nat
         /\ InLog(c)' = IF x[1] = c THEN InLog(c) + 1 ELSE InLog(c)
<1> DEFINE D == {i \in DOMAIN log : log[i][1] = c}
           n == Len(log) + 1
<1>1. /\ DOMAIN log = 1 .. Len(log) /\ DOMAIN log' = DOMAIN log \cup {n}
      /\ log'[n] = x /\ n \notin DOMAIN log
      /\ \A i \in DOMAIN log : log'[i] = log[i]
  OBVIOUS
<1>2. IsFiniteSet(D) /\ Cardinality(D) \in Nat
  <2>1. IsFiniteSet(1 .. Len(log))
    BY FS_Interval
  <2> QED
    BY <1>1, <2>1, FS_Subset, FS_CardinalityType
<1>3. {i \in DOMAIN log' : log'[i][1] = c} = IF x[1] = c THEN D \cup {n} ELSE D
  BY <1>1
<1>4. n \notin D
  BY <1>1
<1> HIDE DEF D, n
<1>5. Cardinality(D \cup {n}) = Cardinality(D) + 1
  BY <1>2, <1>4, FS_AddElement
<1> QED
  BY <1>2, <1>3, <1>5 DEF InLog, D

LEMMA InLogNat == ASSUME TypeOK, NEW c PROVE InLog(c) \in Nat
<1> DEFINE D == {i \in DOMAIN log : log[i][1] = c}
<1>1. IsFiniteSet(1 .. Len(log)) /\ DOMAIN log = 1 .. Len(log)
  BY FS_Interval DEF TypeOK
<1> QED
  BY <1>1, FS_Subset, FS_CardinalityType DEF InLog

-----------------------------------------------------------------------------
(* Types. *)

LEMMA TypeInit == Init => TypeOK
  BY DEF Init, TypeOK

\* The completion in hand is one.
LEMMA HandEntry ==
  ASSUME TypeOK, hand # <<>>
  PROVE  /\ hand[1] \in Completions /\ hand[1].conn \in Clients
         /\ hand[1].kind \in {"SEND", "RECV", "ERROR"} /\ hand[1].imm \in Nat
<1>1. hand[1] \in Completions
  BY DEF TypeOK
<1> QED
  BY <1>1 DEF Completions

LEMMA TypeStep == ASSUME IInv, [Next]_vars PROVE TypeOK'
<1> TypeOK /\ QueueInv
  BY DEF IInv
<1>1. ASSUME NEW p \in Producers, Write(p) PROVE TypeOK'
  <2>1. p \in Clients /\ sent[p] \in Nat /\ toServer[p] \in Seq(Nat)
    BY DEF TypeOK, Clients
  <2>2. /\ sent[p] + 1 \in Nat
        /\ Append(toServer[p], sent[p] + 1) \in Seq(Nat)
        /\ Append(toServer[p], 0) \in Seq(Nat)
    BY <2>1
  <2>3. toServer' \in [Clients -> Seq(Nat)]
    BY <1>1, <2>2, Zenon DEF Write, TypeOK
  <2>4. sent' \in [Clients -> Nat]
    BY <1>1, <2>2 DEF Write, TypeOK
  <2>5. /\ has' \in [Clients -> {"none", "READY", "DONE"}]
        /\ UNCHANGED <<client, phase, ctx, posted, buffer, toClient, cq, hand,
                       log, uaf, dead>>
    BY <1>1 DEF Write, TypeOK
  <2> QED
    BY <2>3, <2>4, <2>5 DEF TypeOK
<1>2. ASSUME NEW c \in Clients, Leave(c) \/ Crash(c) PROVE TypeOK'
  BY <1>2 DEF Leave, Crash, memVars, TypeOK
<1>3. ASSUME NEW c \in Clients, Deliver(c) PROVE TypeOK'
  BY <1>3 DEF Deliver, TypeOK, Completions, Completion
<1>4. ASSUME NEW c \in Clients, SendFails(c) PROVE TypeOK'
  BY <1>4 DEF SendFails, clientVars, TypeOK, Completions, Completion
<1>5. ASSUME NEW c \in Clients, WriteLands(c) PROVE TypeOK'
  <2> DEFINE imm == Head(toServer[c])
  <2>1. /\ imm \in Nat /\ Tail(toServer[c]) \in Seq(Nat)
        /\ posted[c] - 1 \in Nat
    BY <1>5 DEF WriteLands, TypeOK
  <2>2. Completion(c, "RECV", imm) \in Completions
    BY <2>1 DEF Completion, Completions
  <2>3. cq' \in Seq(Completions)
    BY <1>5, <2>2 DEF WriteLands, TypeOK
  <2> QED
    BY <1>5, <2>1, <2>3 DEF WriteLands, TypeOK, clientVars
<1>6. ASSUME NEW c \in Clients, ConnectRequest(c) PROVE TypeOK'
  BY <1>6 DEF ConnectRequest, clientVars, TypeOK
<1>7. ASSUME NEW c \in Clients, Established(c) PROVE TypeOK'
  BY <1>7 DEF Established, Greeting, clientVars, TypeOK
<1>8. ASSUME NEW c \in Clients, UnknownEvent(c) PROVE TypeOK'
  BY <1>8 DEF UnknownEvent, clientVars, memVars, TypeOK
<1>9. ASSUME NEW c \in Clients, DestroyQp(c) PROVE TypeOK'
  <2>1. cq' \in Seq(Completions)
    BY <1>9, OthersOf DEF DestroyQp, TypeOK
  <2> QED
    BY <1>9, <2>1 DEF DestroyQp, clientVars, TypeOK
<1>10. ASSUME NEW c \in Clients, OnDisconnect(c) PROVE TypeOK'
  BY <1>10 DEF OnDisconnect, clientVars, memVars, TypeOK
<1>11. CASE PollCq
  <2>1. Head(cq) \in Completions /\ Tail(cq) \in Seq(Completions)
    BY <1>11 DEF PollCq, TypeOK
  <2>2. <<Head(cq)>> \in Seq(Completions)
    BY <2>1
  <2> QED
    BY <1>11, <2>1, <2>2 DEF PollCq, clientVars, memVars, TypeOK
<1>12. CASE OnRecord
  <2> DEFINE e == hand[1]
  <2>1. e.conn \in Clients /\ e.kind = "RECV" /\ e.imm > 0 /\ e.imm \in Nat
    BY <1>12, HandEntry DEF OnRecord, IsRecord
  <2>2. e.conn \in Producers /\ buffer[e.conn] \in Nat \ {0}
    BY <1>12, <2>1 DEF OnRecord, QueueInv, EntryInv, TypeOK
  <2>3. /\ log' \in Seq(Producers \X (Nat \ {0})) /\ <<>> \in Seq(Completions)
        /\ Append(toClient[e.conn], "READY") \in Seq({"READY", "DONE"})
    BY <1>12, <2>1, <2>2 DEF OnRecord, Stored, TypeOK
  <2>4. posted' \in [Clients -> Nat]
    <3>1. posted \in [Clients -> Nat]
      BY DEF TypeOK
    <3>2. posted' = [posted EXCEPT ![e.conn] = @ + 1]
      BY <1>12 DEF OnRecord, PostReceive
    <3> HIDE DEF e
    <3> QED
      BY <2>1, <3>1, <3>2
  <2>5. toClient' \in [Clients -> Seq({"READY", "DONE"})]
    BY <1>12, <2>3, Zenon DEF OnRecord, TypeOK
  <2>6. /\ hand' \in Seq(Completions)
        /\ UNCHANGED <<client, has, sent, phase, ctx, buffer, toServer, cq,
                       uaf, dead>>
    BY <1>12, <2>3 DEF OnRecord, clientVars
  <2> QED
    BY <2>3, <2>4, <2>5, <2>6 DEF TypeOK
<1>13. CASE OnEnd
  <2>1. hand[1].conn \in Clients /\ <<>> \in Seq(Completions)
    BY <1>13, HandEntry DEF OnEnd
  <2> QED
    BY <1>13, <2>1 DEF OnEnd, clientVars, TypeOK
<1>14. CASE OnSendCompleted
  <2>1. <<>> \in Seq(Completions)
    OBVIOUS
  <2> QED
    BY <1>14, <2>1 DEF OnSendCompleted, clientVars, memVars, TypeOK
<1>15. CASE UseAfterFree
  <2>1. /\ <<hand[1].conn, hand[1].kind>>
                \in Clients \X {"SEND", "RECV", "ERROR"}
        /\ <<>> \in Seq(Completions)
    BY <1>15, HandEntry DEF UseAfterFree
  <2> QED
    BY <1>15, <2>1 DEF UseAfterFree, clientVars, memVars, TypeOK
<1>16. CASE UNCHANGED vars
  BY <1>16 DEF vars, clientVars, memVars, TypeOK
<1> QED
  BY <1>1, <1>2, <1>3, <1>4, <1>5, <1>6, <1>7, <1>8, <1>9, <1>10, <1>11,
     <1>12, <1>13, <1>14, <1>15, <1>16
     DEF Next, ClientStep, CmStep, PollerStep

-----------------------------------------------------------------------------
(* The steps of one connection, one lemma for each. *)

\* A step of one connection leaves the others and their completions as they were.
LEMMA OneConnection ==
  ASSUME IInv, NEW c \in Clients, \A d \in Clients \ {c} : Same(d),
         ConnPart(c)'
  PROVE  /\ \A d \in Clients : ConnPart(d)'
         /\ \A e \in Completions : e.conn # c /\ EntryInv(e) => EntryInv(e)'
<1>1. \A d \in Clients : ConnPart(d)
  BY DEF IInv
<1>2. ASSUME NEW d \in Clients PROVE ConnPart(d)'
  BY <1>1, SamePart
<1>3. ASSUME NEW e \in Completions, e.conn # c, EntryInv(e) PROVE EntryInv(e)'
  BY <1>3, SameEntry DEF Completions
<1> QED
  BY <1>2, <1>3

\* What the steps have to establish besides the types.
Kept == QueueInv' /\ \A c \in Clients : ConnPart(c)'

LEMMA WriteStep == ASSUME IInv, NEW p \in Producers, Write(p) PROVE Kept
<1>1. /\ p \in Clients /\ TypeOK /\ ConnPart(p) /\ QueueInv
      /\ InLog(p) \in Nat /\ InLog(p)' = InLog(p)
  BY InLogNat DEF IInv, Clients, Write, InLog
<1>2. phase[p] = "established"
  BY <1>1 DEF Write, ConnPart, ConnInv, TypeOK
<1>3. ConnPart(p)'
  BY <1>1, <1>2 DEF Write, ConnPart, ConnInv, SendInv, WriteInv, HasInv, TypeOK
<1>4. \A d \in Clients \ {p} : Same(d)
  BY <1>1 DEF Write, Same, InLog, TypeOK
<1>5. ASSUME NEW e \in Completions, e.conn = p, EntryInv(e)
      PROVE  EntryInv(e)'
  BY <1>1, <1>2, <1>5 DEF Write, EntryInv, TypeOK, Completions
<1>6. UNCHANGED <<cq, hand>>
  BY DEF Write
<1> QED
  BY <1>1, <1>3, <1>4, <1>5, <1>6, OneConnection, QueueKept DEF Kept

LEMMA LeaveStep ==
  ASSUME IInv, NEW c \in Clients, Leave(c) \/ Crash(c)
  PROVE  Kept
<1>1. TypeOK /\ ConnPart(c) /\ QueueInv /\ InLog(c)' = InLog(c)
  BY DEF IInv, Leave, Crash, InLog
<1>3. ConnPart(c)'
  BY <1>1 DEF Leave, Crash, LastMessage, ConnPart, ConnInv, SendInv, WriteInv,
     HasInv, TypeOK, memVars
<1>4. ASSUME NEW d \in Clients \ {c}
      PROVE  Same(d)
  <2>1. InLog(d)' = InLog(d)
    BY DEF Leave, Crash, InLog
  <2>2. CASE Leave(c)
    BY <1>1, <2>1, <2>2 DEF Leave, Same, TypeOK, memVars
  <2>3. CASE Crash(c)
    BY <1>1, <2>1, <2>3 DEF Crash, Same, TypeOK, memVars
  <2> QED
    BY <2>2, <2>3
<1>5. ASSUME NEW e \in Completions, e.conn = c, EntryInv(e)
      PROVE  EntryInv(e)'
  BY <1>1, <1>5 DEF Leave, Crash, EntryInv, TypeOK, Completions, memVars
<1>6. UNCHANGED <<cq, hand>>
  BY DEF Leave, Crash
<1> QED
  BY <1>1, <1>3, <1>4, <1>5, <1>6, OneConnection, QueueKept DEF Kept

LEMMA OneElementQueue ==
  \A x : Head(<<x>>) = x /\ Tail(<<x>>) = <<>> /\ <<x>> # <<>>
  OBVIOUS

LEMMA DeliverStep == ASSUME IInv, NEW c \in Clients, Deliver(c) PROVE Kept
<1>1. TypeOK /\ ConnPart(c) /\ QueueInv /\ InLog(c)' = InLog(c)
  BY DEF IInv, Deliver, InLog
<1>2. \/ toClient[c] = <<"READY">> /\ posted[c] = 1
      \/ toClient[c] = <<"DONE">> /\ c \in Producers
  BY <1>1 DEF Deliver, ConnPart, SendInv
<1>3. /\ toClient'[c] = <<>> /\ has'[c] = Head(toClient[c])
      /\ Head(toClient[c]) \in {"READY", "DONE"}
      /\ phase'[c] = phase[c] /\ phase[c] \in {"accepted", "established"}
  BY <1>1, <1>2, OneElementQueue DEF Deliver, TypeOK, HasQp
<1>4. phase[c] = "established"
  BY <1>1, <1>3 DEF ConnPart, ConnInv, Deliver
<1>5. ConnPart(c)'
  BY <1>1, <1>2, <1>3, <1>4 DEF Deliver, ConnPart, ConnInv, SendInv, WriteInv,
     HasInv, TypeOK
<1>6. \A d \in Clients \ {c} : Same(d)
  BY <1>1 DEF Deliver, Same, InLog, TypeOK
<1>7. ASSUME NEW e \in Completions, e.conn = c, EntryInv(e) PROVE FALSE
  BY <1>7 DEF Deliver, EntryInv
<1> DEFINE x == Completion(c, "SEND", 0)
<1>8. x \in Completions /\ cq' = Append(cq, x) /\ UNCHANGED hand
  BY DEF Deliver, Completion, Completions
<1>9. EntryInv(x)'
  BY <1>3, <1>4 DEF EntryInv, Completion
<1>10. \A e \in Completions : EntryInv(e) => SendThenRecv(e, x)
  BY <1>7 DEF SendThenRecv, Completion
<1> HIDE DEF x
<1> QED
  BY <1>1, <1>5, <1>6, <1>7, <1>8, <1>9, <1>10, OneConnection, QueueGrows
     DEF Kept

LEMMA SendFailsStep == ASSUME IInv, NEW c \in Clients, SendFails(c) PROVE Kept
<1>1. TypeOK /\ ConnPart(c) /\ QueueInv /\ InLog(c)' = InLog(c)
  BY DEF IInv, SendFails, InLog
<1>2. toClient'[c] = <<>> /\ toServer[c] = <<>> /\ has[c] = "none"
  BY <1>1 DEF SendFails, ConnPart, SendInv, TypeOK
<1>3. phase[c] = "established"
  BY <1>1 DEF SendFails, HasQp, ConnPart, ConnInv
<1>4. ConnPart(c)'
  BY <1>1, <1>2, <1>3 DEF SendFails, ConnPart, ConnInv, SendInv, WriteInv,
     HasInv, TypeOK, clientVars
<1>5. \A d \in Clients \ {c} : Same(d)
  BY <1>1 DEF SendFails, Same, InLog, TypeOK, clientVars
<1>6. ASSUME NEW e \in Completions, e.conn = c, EntryInv(e) PROVE FALSE
  BY <1>6 DEF SendFails, EntryInv
<1> DEFINE x == Completion(c, "ERROR", 0)
<1>7. x \in Completions /\ cq' = Append(cq, x) /\ UNCHANGED hand
  BY DEF SendFails, Completion, Completions
<1>8. EntryInv(x)'
  BY <1>2, <1>3 DEF SendFails, EntryInv, Completion, clientVars
<1>9. \A e \in Completions : EntryInv(e) => SendThenRecv(e, x)
  BY <1>6 DEF SendThenRecv, Completion
<1> HIDE DEF x
<1> QED
  BY <1>1, <1>4, <1>5, <1>6, <1>7, <1>8, <1>9, OneConnection, QueueGrows
     DEF Kept

LEMMA WriteLandsStep ==
  ASSUME IInv, NEW c \in Clients, WriteLands(c)
  PROVE  Kept
<1>1. /\ TypeOK /\ ConnPart(c) /\ QueueInv
      /\ InLog(c)' = InLog(c) /\ InLog(c) \in Nat
  BY InLogNat DEF IInv, WriteLands, InLog
<1>imm. PICK imm : imm = Head(toServer[c])
  OBVIOUS
<1> DEFINE x == Completion(c, "RECV", imm)
<1>2. /\ c \in Producers /\ has[c] = "none" /\ posted[c] = 1
      /\ toServer[c] = <<imm>> /\ toClient[c] = <<>>
      /\ \/ imm = 0 /\ sent[c] = InLog(c)
         \/ imm = sent[c] /\ sent[c] = InLog(c) + 1
  BY <1>1, <1>imm, OneElementQueue DEF WriteLands, ConnPart, WriteInv, SendInv
<1>3. phase[c] = "established" /\ ctx[c] = "live"
  BY <1>1, <1>2, OneElementQueue DEF WriteLands, ConnPart, ConnInv, TypeOK
<1>4. toServer'[c] = <<>> /\ posted'[c] = 0 /\ sent[c] \in Nat
  BY <1>1, <1>2, OneElementQueue DEF WriteLands, TypeOK
<1>5. buffer'[c] = IF imm > 0 THEN imm ELSE buffer[c]
  BY <1>1, <1>imm DEF WriteLands, TypeOK
<1>6. ConnPart(c)'
  BY <1>1, <1>2, <1>3, <1>4 DEF WriteLands, clientVars, ConnPart, ConnInv,
     SendInv, WriteInv, HasInv
<1>7. \A d \in Clients \ {c} : Same(d)
  BY <1>1 DEF WriteLands, Same, InLog, TypeOK, clientVars
<1>8. ASSUME NEW e \in Completions, e.conn = c, EntryInv(e)
      PROVE  e.kind = "SEND" /\ EntryInv(e)'
  <2>1. e.kind \in {"SEND", "RECV", "ERROR"}
    BY DEF Completions
  <2>2. e.kind = "SEND"
    BY <1>2, <1>8, <2>1, OneElementQueue DEF EntryInv
  <2> QED
    BY <1>3, <1>8, <2>2 DEF WriteLands, EntryInv, clientVars
<1>9. x \in Completions /\ cq' = Append(cq, x) /\ UNCHANGED hand
  BY <1>2, <1>4, <1>imm DEF WriteLands, Completion, Completions
<1>10. EntryInv(x)'
  BY <1>1, <1>2, <1>3, <1>4, <1>5 DEF WriteLands, EntryInv, Completion, clientVars
<1>11. \A e \in Completions : EntryInv(e) => SendThenRecv(e, x)
  BY <1>8 DEF SendThenRecv, Completion
<1> HIDE DEF x
<1> QED
  BY <1>1, <1>6, <1>7, <1>8, <1>9, <1>10, <1>11, OneConnection, QueueGrows
     DEF Kept

LEMMA ConnectStep ==
  ASSUME IInv, NEW c \in Clients, ConnectRequest(c)
  PROVE  Kept
<1>1. TypeOK /\ ConnPart(c) /\ QueueInv /\ InLog(c)' = InLog(c)
  BY DEF IInv, ConnectRequest, InLog
<1>2. /\ phase'[c] = "accepted" /\ ctx'[c] = "live" /\ posted'[c] = 1
      /\ toClient[c] = <<>> /\ toServer[c] = <<>>
  BY <1>1 DEF ConnectRequest, TypeOK, ConnPart, ConnInv
<1>3. ConnPart(c)'
  BY <1>1, <1>2 DEF ConnectRequest, ConnPart, ConnInv, SendInv, WriteInv,
     HasInv, clientVars
<1>4. \A d \in Clients \ {c} : Same(d)
  BY <1>1 DEF ConnectRequest, Same, InLog, TypeOK, clientVars
<1>5. ASSUME NEW e \in Completions, e.conn = c, EntryInv(e) PROVE FALSE
  BY <1>5 DEF ConnectRequest, EntryInv
<1>6. UNCHANGED <<cq, hand>>
  BY DEF ConnectRequest
<1> QED
  BY <1>1, <1>3, <1>4, <1>5, <1>6, OneConnection, QueueKept DEF Kept

LEMMA EstablishedStep ==
  ASSUME IInv, NEW c \in Clients, Established(c)
  PROVE  Kept
<1>1. TypeOK /\ ConnPart(c) /\ QueueInv /\ InLog(c)' = InLog(c)
  BY DEF IInv, Established, InLog
<1>2. /\ toClient[c] = <<>> /\ toServer[c] = <<>> /\ has[c] = "none"
      /\ posted[c] = 1 /\ sent[c] = InLog(c) /\ ctx[c] = "live"
      /\ client[c] # "left"
  BY <1>1 DEF Established, ConnPart, ConnInv
<1>3. /\ phase'[c] = "established"
      /\ toClient'[c] = <<"READY">>
  <2>1. <<>> \o <<"READY">> = <<"READY">>
    OBVIOUS
  <2> QED
    BY <1>1, <1>2, <2>1 DEF Established, Greeting, TypeOK
<1>4. ConnPart(c)'
  BY <1>1, <1>2, <1>3 DEF Established, ConnPart, ConnInv, SendInv, WriteInv,
     HasInv, clientVars
<1>5. \A d \in Clients \ {c} : Same(d)
  BY <1>1 DEF Established, Same, InLog, TypeOK, clientVars
<1>6. ASSUME NEW e \in Completions, e.conn = c, EntryInv(e) PROVE FALSE
  BY <1>6 DEF Established, EntryInv
<1>7. UNCHANGED <<cq, hand>>
  BY DEF Established
<1> QED
  BY <1>1, <1>4, <1>5, <1>6, <1>7, OneConnection, QueueKept DEF Kept

\* The completions of the destroyed connection are gone from the queue, and the
\* one in hand, if it is one of them, has nothing in flight behind it.
LEMMA DestroyStep == ASSUME IInv, NEW c \in Clients, DestroyQp(c) PROVE Kept
<1>1. TypeOK /\ ConnPart(c) /\ QueueInv /\ InLog(c)' = InLog(c)
  BY DEF IInv, DestroyQp, InLog
<1>2. /\ phase'[c] = "noqp" /\ posted'[c] = 0 /\ toClient'[c] = <<>>
      /\ toServer'[c] = <<>> /\ ctx[c] = "live" /\ client[c] # "up"
  BY <1>1 DEF DestroyQp, TypeOK, ConnPart, ConnInv
<1>3. ConnPart(c)'
  BY <1>1, <1>2 DEF DestroyQp, ConnPart, ConnInv, SendInv, WriteInv, HasInv,
     clientVars
<1>4. \A d \in Clients \ {c} : Same(d)
  BY <1>1 DEF DestroyQp, Same, InLog, TypeOK, clientVars
<1>5. ASSUME NEW e \in Completions, e.conn = c, EntryInv(e) PROVE EntryInv(e)'
  BY <1>1, <1>2, <1>5 DEF DestroyQp, EntryInv, clientVars
<1>6. \A e \in Completions : EntryInv(e) => EntryInv(e)'
  BY <1>3, <1>4, <1>5, OneConnection
<1>7. PICK f \in [DOMAIN cq' -> DOMAIN cq] :
         /\ \A i \in DOMAIN cq' : cq'[i] = cq[f[i]] /\ cq[f[i]].conn # c
         /\ \A i, j \in DOMAIN cq' : i < j => f[i] < f[j]
  <2>1. cq' = Others(cq, c) /\ cq \in Seq(Completions)
    BY <1>1 DEF DestroyQp, TypeOK
  <2>2. \E f \in [DOMAIN Others(cq, c) -> DOMAIN cq] :
           /\ \A i \in DOMAIN Others(cq, c) :
                 Others(cq, c)[i] = cq[f[i]] /\ cq[f[i]].conn # c
           /\ \A i, j \in DOMAIN Others(cq, c) : i < j => f[i] < f[j]
    BY <2>1, OthersOf
  <2> QED
    BY <2>1, <2>2, Zenon
<1>8. ASSUME NEW i \in DOMAIN cq' PROVE EntryInv(cq[i])'
  <2>1. cq'[i] = cq[f[i]] /\ cq[f[i]] \in Completions /\ EntryInv(cq[f[i]])
    BY <1>1, <1>7 DEF QueueInv, TypeOK
  <2> DEFINE e == cq[f[i]]
  <2>2. \A g \in Completions : EntryInv(g) => EntryInv(g)'
    BY <1>6
  <2>3. PICK g \in Completions : g = e
    BY <2>1
  <2>4. EntryInv(g)'
    BY <2>1, <2>2, <2>3
  <2> QED
    BY <2>1, <2>3, <2>4 DEF EntryInv
<1>9. \A i, j \in DOMAIN cq' : i < j => SendThenRecv(cq'[i], cq'[j])
  BY <1>1, <1>7 DEF QueueInv
<1>10. hand # <<>> =>
          /\ Len(hand') = 1 /\ EntryInv(hand[1])'
          /\ \A i \in DOMAIN cq' : SendThenRecv(hand'[1], cq'[i])
  <2> SUFFICES ASSUME hand # <<>>
               PROVE  /\ Len(hand') = 1 /\ EntryInv(hand[1])'
                      /\ \A i \in DOMAIN cq' : SendThenRecv(hand'[1], cq'[i])
    OBVIOUS
  <2>1. hand' = hand /\ Len(hand) = 1 /\ EntryInv(hand[1])
    BY <1>1 DEF DestroyQp, QueueInv
  <2>2. PICK g \in Completions : g = hand[1]
    BY <1>1, HandEntry
  <2>3. EntryInv(g)'
    BY <1>6, <2>1, <2>2
  <2>4. EntryInv(hand[1])'
    BY <2>1, <2>2, <2>3 DEF EntryInv
  <2>5. \A i \in DOMAIN cq' : SendThenRecv(hand'[1], cq'[i])
    BY <1>1, <1>7, <2>1 DEF QueueInv
  <2> QED
    BY <2>1, <2>4, <2>5
<1>11. QueueInv'
  BY <1>8, <1>9, <1>10 DEF QueueInv, DestroyQp, SendThenRecv
<1> QED
  BY <1>3, <1>4, <1>11, OneConnection DEF Kept

LEMMA DisconnectStep ==
  ASSUME IInv, NEW c \in Clients, OnDisconnect(c)
  PROVE  Kept
<1>1. TypeOK /\ ConnPart(c) /\ QueueInv /\ InLog(c)' = InLog(c)
  BY DEF IInv, OnDisconnect, InLog
<1>2. phase'[c] = "gone" /\ ctx'[c] = "freed"
  BY <1>1 DEF OnDisconnect, TypeOK
<1>3. ConnPart(c)'
  BY <1>1, <1>2 DEF OnDisconnect, ConnPart, ConnInv, SendInv, WriteInv, HasInv,
     clientVars, memVars
<1>4. \A d \in Clients \ {c} : Same(d)
  BY <1>1 DEF OnDisconnect, Same, InLog, TypeOK, clientVars, memVars
<1>5. ASSUME NEW e \in Completions, e.conn = c, EntryInv(e)
      PROVE  EntryInv(e)'
  BY <1>1, <1>2, <1>5 DEF OnDisconnect, EntryInv, clientVars, memVars
<1>6. UNCHANGED <<cq, hand>>
  BY DEF OnDisconnect
<1> QED
  BY <1>1, <1>3, <1>4, <1>5, <1>6, OneConnection, QueueKept DEF Kept

\* Steps that change no connection: the broker's exits, polling, and the end of
\* the handling of a SEND or of a destroyed connection's completion.
LEMMA NoConnection ==
  ASSUME IInv, UNCHANGED <<clientVars, phase, ctx, memVars, log>>
  PROVE  /\ \A d \in Clients : ConnPart(d)'
         /\ \A e \in Completions : EntryInv(e) => EntryInv(e)'
<1>1. \A d : Same(d)
  BY DEF Same, clientVars, memVars, InLog
<1>2. \A d \in Clients : ConnPart(d)
  BY DEF IInv
<1> QED
  BY <1>1, <1>2, SamePart, SameEntry

LEMMA PollStep == ASSUME IInv, PollCq PROVE Kept
<1>1. TypeOK /\ QueueInv /\ cq # <<>>
  BY DEF IInv, PollCq
<1>2. /\ \A d \in Clients : ConnPart(d)'
      /\ \A e \in Completions : EntryInv(e) => EntryInv(e)'
  BY NoConnection DEF PollCq
<1>3. /\ DOMAIN cq = 1 .. Len(cq) /\ Len(cq) \in Nat \ {0}
      /\ DOMAIN cq' = 1 .. Len(cq) - 1
      /\ \A i \in DOMAIN cq' : cq'[i] = cq[i + 1] /\ i + 1 \in DOMAIN cq
      /\ \A i \in DOMAIN cq : cq[i] \in Completions
      /\ Head(cq) = cq[1] /\ 1 \in DOMAIN cq
  BY <1>1 DEF PollCq, TypeOK
<1>4. ASSUME NEW i \in DOMAIN cq' PROVE EntryInv(cq[i])'
  <2>1. PICK g \in Completions : g = cq[i + 1]
    BY <1>3
  <2>2. EntryInv(g)'
    BY <1>1, <1>2, <1>3, <2>1 DEF QueueInv
  <2> QED
    BY <1>3, <2>1, <2>2 DEF EntryInv
<1>5. \A i, j \in DOMAIN cq' : i < j => SendThenRecv(cq'[i], cq'[j])
  <2>1. \A i, j \in DOMAIN cq' : i < j => i + 1 < j + 1
    BY <1>3
  <2> QED
    BY <1>1, <1>3, <2>1 DEF QueueInv
<1>6. \/ hand' = <<>>
      \/ /\ Len(hand') = 1 /\ EntryInv(hand[1])'
         /\ \A i \in DOMAIN cq' : SendThenRecv(hand'[1], cq'[i])
  <2> SUFFICES ASSUME hand' = <<cq[1]>>
               PROVE  /\ Len(hand') = 1 /\ EntryInv(hand[1])'
                      /\ \A i \in DOMAIN cq' : SendThenRecv(hand'[1], cq'[i])
    BY <1>3 DEF PollCq
  <2>1. PICK g \in Completions : g = cq[1]
    BY <1>3
  <2>2. EntryInv(g)'
    BY <1>1, <1>2, <1>3, <2>1 DEF QueueInv
  <2>3. hand'[1] = g /\ Len(hand') = 1
    BY <2>1
  <2>4. EntryInv(hand[1])'
    BY <2>2, <2>3 DEF EntryInv
  <2>5. \A i \in DOMAIN cq' : SendThenRecv(hand'[1], cq'[i])
    <3>1. \A i \in DOMAIN cq' : 1 < i + 1
      BY <1>3
    <3> QED
      BY <1>1, <1>3, <2>1, <2>3, <3>1 DEF QueueInv
  <2> QED
    BY <2>3, <2>4, <2>5
<1>7. QueueInv'
  BY <1>4, <1>5, <1>6 DEF QueueInv, SendThenRecv
<1> QED
  BY <1>2, <1>7 DEF Kept

LEMMA DroppedStep ==
  ASSUME IInv, OnSendCompleted \/ UseAfterFree
  PROVE  Kept
<1>1. TypeOK /\ QueueInv /\ hand # <<>> /\ hand' = <<>> /\ UNCHANGED cq
  BY DEF IInv, OnSendCompleted, UseAfterFree
<1>2. /\ \A d \in Clients : ConnPart(d)'
      /\ \A e \in Completions : EntryInv(e) => EntryInv(e)'
  BY NoConnection DEF OnSendCompleted, UseAfterFree
<1> QED
  BY <1>1, <1>2, HandHandled DEF Kept

LEMMA ExitStep ==
  ASSUME IInv, NEW c \in Clients, UnknownEvent(c) PROVE Kept
<1>1. TypeOK /\ QueueInv /\ UNCHANGED <<cq, hand>>
  BY DEF IInv, UnknownEvent
<1>2. /\ \A d \in Clients : ConnPart(d)'
      /\ \A e \in Completions : EntryInv(e) => EntryInv(e)'
  BY NoConnection DEF UnknownEvent
<1> QED
  BY <1>1, <1>2, QueueKept DEF Kept

\* A record of producer c is stored: it is the next one of that producer.
LEMMA RecordStep ==
  ASSUME IInv, OnRecord
  PROVE  /\ Kept
         /\ hand[1].conn \in Producers
         /\ Stored(hand[1]) = InLog(hand[1].conn) + 1
         /\ InLog(hand[1].conn) < sent[hand[1].conn]
<1>e. PICK e \in Completions : e = hand[1]
  BY HandEntry DEF IInv, OnRecord
<1>c. PICK c \in Clients : c = e.conn
  BY DEF Completions
<1>1. /\ TypeOK /\ QueueInv /\ e \in Completions /\ c \in Clients
      /\ e.kind = "RECV" /\ e.imm \in Nat \ {0}
  BY HandEntry, <1>e DEF IInv, OnRecord, IsRecord
<1>2. /\ ConnPart(c) /\ EntryInv(e)
      /\ \A i \in DOMAIN cq : SendThenRecv(e, cq[i])
  BY <1>1, <1>e, <1>c DEF IInv, QueueInv, OnRecord
<1>3. /\ c \in Producers /\ posted[c] = 0 /\ toClient[c] = <<>>
      /\ toServer[c] = <<>> /\ has[c] = "none" /\ InLog(c) \in Nat
      /\ buffer[c] = sent[c] /\ sent[c] = InLog(c) + 1
      /\ phase[c] \notin {"requested", "accepted"}
  <2>1. InLog(c) \in Nat
    BY <1>1, InLogNat
  <2> QED
    BY <1>1, <1>2, <2>1, <1>c DEF EntryInv
<1>4. phase[c] = "established" /\ ctx[c] = "live"
  BY <1>1, <1>2, <1>3, <1>e, <1>c DEF OnRecord, Touches, HasQp, ConnPart, ConnInv
<1>5. \A d : InLog(d)' = IF d = c THEN InLog(d) + 1 ELSE InLog(d)
  <2> DEFINE x == <<c, Stored(e)>>
             S == Producers \X (Nat \ {0})
  <2>1. x \in S /\ log \in Seq(S) /\ log' = Append(log, x) /\ x[1] = c
    BY <1>1, <1>3, <1>c, <1>e DEF OnRecord, Stored, TypeOK
  <2> HIDE DEF x, S
  <2> QED
    BY <2>1, InLogAppend
<1>6. posted'[c] = 1 /\ toClient'[c] = <<"READY">>
  <2>1. Append(<<>>, "READY") = <<"READY">>
    OBVIOUS
  <2>2. posted'[c] = 1
    BY <1>1, <1>3, <1>c, <1>e DEF OnRecord, PostReceive, TypeOK
  <2>3. toClient'[c] = <<"READY">>
    BY <1>1, <1>3, <2>1, <1>c, <1>e DEF OnRecord, TypeOK
  <2> QED
    BY <2>2, <2>3
<1>7. ConnPart(c)'
  BY <1>2, <1>3, <1>4, <1>5, <1>6 DEF OnRecord, ConnPart, ConnInv, SendInv,
     WriteInv, HasInv, clientVars
<1>8. \A d \in Clients \ {c} : Same(d)
  BY <1>1, <1>5, <1>c, <1>e DEF OnRecord, PostReceive, Same, TypeOK, clientVars
<1>9. \A g \in Completions : EntryInv(g) /\ g.conn # c => EntryInv(g)'
  BY <1>1, <1>7, <1>8, OneConnection
<1>10. \A g \in Completions : SendThenRecv(e, g) => g.conn # c
  BY <1>1, <1>c DEF SendThenRecv
<1>11. QueueInv'
  BY <1>1, <1>9, <1>10, HandHandled, <1>e DEF OnRecord
<1>12. \A d \in Clients : ConnPart(d)'
  BY <1>1, <1>7, <1>8, OneConnection
<1>13. Stored(e) = InLog(c) + 1 /\ InLog(c) < sent[c]
  BY <1>3, <1>c DEF Stored
<1> QED
  BY <1>3, <1>11, <1>12, <1>13, <1>c, <1>e DEF Kept

LEMMA EndStep ==
  ASSUME IInv, OnEnd
  PROVE  Kept
<1>e. PICK e \in Completions : e = hand[1]
  BY HandEntry DEF IInv, OnEnd
<1>c. PICK c \in Clients : c = e.conn
  BY DEF Completions
<1>1. /\ TypeOK /\ QueueInv /\ e \in Completions /\ c \in Clients
      /\ e.kind = "RECV" /\ e.imm = 0
  BY HandEntry, <1>e DEF IInv, OnEnd, IsEnd
<1>2. /\ ConnPart(c) /\ EntryInv(e)
      /\ \A i \in DOMAIN cq : SendThenRecv(e, cq[i])
  BY <1>1, <1>e, <1>c DEF IInv, QueueInv, OnEnd
<1>3. /\ c \in Producers /\ posted[c] = 0 /\ toClient[c] = <<>>
      /\ toServer[c] = <<>> /\ has[c] = "none" /\ sent[c] = InLog(c)
      /\ phase[c] \notin {"requested", "accepted"}
  <2>1. InLog(c) \in Nat
    BY <1>1, InLogNat
  <2> QED
    BY <1>1, <1>2, <2>1, <1>c DEF EntryInv
<1>4. phase[c] = "established" /\ ctx[c] = "live"
  BY <1>1, <1>2, <1>3, <1>e, <1>c DEF OnEnd, Touches, HasQp, ConnPart, ConnInv
<1>5. toClient'[c] = <<"DONE">>
  <2>1. Append(<<>>, "DONE") = <<"DONE">>
    OBVIOUS
  <2> QED
    BY <1>1, <1>3, <2>1, <1>c, <1>e DEF OnEnd, TypeOK
<1>6. \A d : InLog(d)' = InLog(d)
  BY DEF OnEnd, InLog
<1>7. ConnPart(c)'
  BY <1>2, <1>3, <1>4, <1>5, <1>6 DEF OnEnd, ConnPart, ConnInv, SendInv,
     WriteInv, HasInv, clientVars
<1>8. \A d \in Clients \ {c} : Same(d)
  BY <1>1, <1>6, <1>c, <1>e DEF OnEnd, Same, TypeOK, clientVars
<1>9. \A g \in Completions : EntryInv(g) /\ g.conn # c => EntryInv(g)'
  BY <1>1, <1>7, <1>8, OneConnection
<1>10. \A g \in Completions : SendThenRecv(e, g) => g.conn # c
  BY <1>1, <1>c DEF SendThenRecv
<1>11. QueueInv'
  BY <1>1, <1>9, <1>10, HandHandled, <1>e DEF OnEnd
<1>12. \A d \in Clients : ConnPart(d)'
  BY <1>1, <1>7, <1>8, OneConnection
<1> QED
  BY <1>11, <1>12 DEF Kept

-----------------------------------------------------------------------------
(* The invariant is inductive. *)

LEMMA InvInit == Init => IInv
<1> SUFFICES ASSUME Init PROVE IInv
  OBVIOUS
<1>1. \A c : InLog(c) = 0
  BY FS_EmptySet DEF Init, InLog
<1>2. \A c \in Clients : ConnPart(c)
  BY <1>1 DEF Init, ConnPart, ConnInv, SendInv, WriteInv, HasInv
<1>3. QueueInv
  BY DEF Init, QueueInv
<1>4. FreedOnlyUnderSend
  BY DEF Init, FreedOnlyUnderSend
<1> QED
  BY <1>2, <1>3, <1>4, TypeInit DEF IInv

LEMMA StepKept == ASSUME IInv, [Next]_vars PROVE Kept
<1>1. CASE UNCHANGED vars
  <2>1. /\ \A d \in Clients : ConnPart(d)'
        /\ \A e \in Completions : EntryInv(e) => EntryInv(e)'
    BY <1>1, NoConnection DEF vars
  <2> QED
    BY <1>1, <2>1, QueueKept DEF IInv, Kept, vars
<1> QED
  BY <1>1, WriteStep, LeaveStep, DeliverStep, SendFailsStep, WriteLandsStep,
     ConnectStep, EstablishedStep, ExitStep, DestroyStep, DisconnectStep,
     PollStep, RecordStep, EndStep, DroppedStep
     DEF Next, ClientStep, CmStep, PollerStep

\* A context that is freed under a receive belongs to a client that crashed: had
\* it left, it would have had its last message, which the broker sends after the
\* receive.
LEMMA FreedStep == ASSUME IInv, [Next]_vars PROVE FreedOnlyUnderSend'
<1>1. \A c \in Clients : client[c] = "crashed" => client'[c] = "crashed"
  BY DEF Next, Write, ClientStep, Leave, Crash, Deliver, SendFails, WriteLands,
     CmStep, ConnectRequest, Established, UnknownEvent, DestroyQp,
     OnDisconnect, PollerStep, PollCq, OnRecord, OnEnd, OnSendCompleted,
     UseAfterFree, clientVars, vars, IInv, TypeOK
<1>2. \A u \in uaf : u[1] \in Clients /\ (u[2] = "RECV" => client[u[1]] = "crashed")
  BY DEF IInv, TypeOK, FreedOnlyUnderSend
<1>3. CASE UseAfterFree
  <2>1. PICK e \in Completions : e = hand[1]
    BY <1>3, HandEntry DEF IInv, UseAfterFree
  <2>2. PICK c \in Clients : c = e.conn
    BY DEF Completions
  <2>3. ASSUME e.kind = "RECV" PROVE client[c] = "crashed"
    <3>1. ConnInv(c) /\ EntryInv(e) /\ TypeOK
      BY <1>3, <2>1, <2>2 DEF IInv, ConnPart, QueueInv, UseAfterFree
    <3>2. phase[c] \in {"noqp", "gone"}
      BY <1>3, <2>1, <2>2, <2>3, <3>1 DEF UseAfterFree, Touches, HasQp, TypeOK,
         EntryInv
    <3> QED
      BY <2>2, <2>3, <3>1, <3>2 DEF ConnInv, EntryInv, TypeOK
  <2>4. uaf' = uaf \cup {<<c, e.kind>>} /\ UNCHANGED client
    BY <1>3, <2>1, <2>2 DEF UseAfterFree, clientVars
  <2> QED
    BY <1>2, <2>3, <2>4 DEF FreedOnlyUnderSend
<1>4. CASE ~UseAfterFree
  <2>1. uaf' = uaf
    BY <1>4 DEF Next, Write, ClientStep, Leave, Crash, Deliver, SendFails,
       WriteLands, CmStep, ConnectRequest, Established, UnknownEvent,
       DestroyQp, OnDisconnect, PollerStep, PollCq, OnRecord, OnEnd,
       OnSendCompleted, vars
  <2> QED
    BY <1>1, <1>2, <2>1 DEF FreedOnlyUnderSend
<1> QED
  BY <1>3, <1>4

\* The inductive invariant holds throughout.
THEOREM Invariance == Spec => []IInv
<1>1. IInv /\ [Next]_vars => IInv'
  <2> SUFFICES ASSUME IInv, [Next]_vars PROVE IInv'
    OBVIOUS
  <2>1. TypeOK' /\ FreedOnlyUnderSend' /\ Kept
    BY TypeStep, FreedStep, StepKept
  <2> QED
    BY <2>1 DEF IInv, Kept
<1> QED
  BY InvInit, <1>1, PTL DEF Spec

\* Type correctness of the broker: the log holds records of producers only, and
\* none without a number.
THEOREM TypeCorrect == Spec => []TypeOK
<1>1. IInv => TypeOK
  BY DEF IInv
<1> QED
  BY <1>1, Invariance, PTL

\* The poller uses a freed context only for the completion of a SEND, unless the
\* client has crashed.
THEOREM NoRecordAtStake == Spec => []FreedOnlyUnderSend
<1>1. IInv => FreedOnlyUnderSend
  BY DEF IInv
<1> QED
  BY <1>1, Invariance, PTL

\* The completions of a connection are told apart by whether they are receives,
\* which only a producer's connection has.
LEMMA QueueFits == ASSUME IInv PROVE CqNeverOverflows
<1> DEFINE T == (Producers \X {1, 2}) \cup (Consumers \X {1})
           f == [i \in 1 .. Len(cq) |->
                    <<cq[i].conn, IF cq[i].kind = "RECV" THEN 2 ELSE 1>>]
<1>1. DOMAIN cq = 1 .. Len(cq) /\ Len(cq) \in Nat /\ TypeOK /\ QueueInv
  BY DEF IInv, TypeOK
<1>2. \A i \in 1 .. Len(cq) :
         /\ cq[i].conn \in Clients
         /\ cq[i].kind = "RECV" => cq[i].conn \in Producers
  <2> TAKE i \in 1 .. Len(cq)
  <2>1. cq[i] \in Completions
    BY <1>1 DEF TypeOK
  <2>2. EntryInv(cq[i])
    BY <1>1 DEF QueueInv
  <2> QED
    BY <2>1, <2>2 DEF Completions, EntryInv
<1>3. f \in [1 .. Len(cq) -> T]
  BY <1>2 DEF Clients
<1>4. ASSUME NEW i \in 1 .. Len(cq), NEW j \in 1 .. Len(cq), i < j
      PROVE  f[i] # f[j]
  <2>1. SendThenRecv(cq[i], cq[j])
    BY <1>1, <1>4 DEF QueueInv
  <2> QED
    BY <2>1 DEF SendThenRecv
<1>5. f \in Injection(1 .. Len(cq), T)
  BY <1>3, <1>4 DEF Injection, IsInjective
<1>6. /\ IsFiniteSet(T)
      /\ Cardinality(T) <= 2 * Cardinality(Producers) + Cardinality(Consumers)
  <2>1. /\ IsFiniteSet({1, 2}) /\ Cardinality({1, 2}) = 2
        /\ IsFiniteSet({1}) /\ Cardinality({1}) = 1
    <3>1. {1, 2} = {1} \cup {2} /\ 2 \notin {1}
      OBVIOUS
    <3>2. IsFiniteSet({1}) /\ Cardinality({1}) = 1
      BY FS_Singleton
    <3> QED
      BY <3>1, <3>2, FS_AddElement
  <2>2. /\ IsFiniteSet(Producers \X {1, 2})
        /\ Cardinality(Producers \X {1, 2}) = Cardinality(Producers) * 2
        /\ IsFiniteSet(Consumers \X {1})
        /\ Cardinality(Consumers \X {1}) = Cardinality(Consumers) * 1
    BY <2>1, ClientsAssumption, FS_Product
  <2> DEFINE U == Producers \X {1, 2}
             V == Consumers \X {1}
  <2>3. /\ IsFiniteSet(U) /\ IsFiniteSet(V) /\ IsFiniteSet(T)
        /\ Cardinality(T) = Cardinality(U) + Cardinality(V)
                             - Cardinality(U \cap V)
    BY <2>2, FS_Union
  <2>4. /\ Cardinality(U \cap V) \in Nat
        /\ Cardinality(Producers) \in Nat /\ Cardinality(Consumers) \in Nat
    BY <2>3, ClientsAssumption, FS_CardinalityType, FS_Intersection
  <2> HIDE DEF U, V, T
  <2> QED
    BY <2>2, <2>3, <2>4 DEF U, V
<1> HIDE DEF f, T
<1>7. Cardinality(1 .. Len(cq)) <= Cardinality(T)
  BY <1>5, <1>6, FS_Injection
<1>8. Cardinality(1 .. Len(cq)) = Len(cq)
  <2>1. 1 \in Int /\ Len(cq) \in Int
    BY <1>1
  <2>2. Cardinality(1 .. Len(cq)) = IF 1 > Len(cq) THEN 0 ELSE Len(cq) - 1 + 1
    BY <2>1, FS_Interval
  <2> QED
    BY <1>1, <2>2
<1>9. /\ Cardinality(T) \in Nat /\ Cardinality(Producers) \in Nat
      /\ Cardinality(Consumers) \in Nat /\ Cqe \in Nat
  BY <1>6, ClientsAssumption, BoundsAssumption, FS_CardinalityType
<1> QED
  BY <1>1, <1>6, <1>7, <1>8, <1>9 DEF CqNeverOverflows

\* The completion queue, which all connections share, holds what they can have
\* outstanding, however long the poller is kept from it.
THEOREM QueueNeverOverflows == Spec => []CqNeverOverflows
<1>1. IInv => CqNeverOverflows
  BY QueueFits
<1> QED
  BY <1>1, Invariance, PTL

\* ctx->msg is not rewritten while it is being sent.
THEOREM OneMessage == Spec => OneMessageInFlight
<1>1. IInv /\ [Next]_vars =>
         [\A c \in Clients : Len(toClient'[c]) > Len(toClient[c]) =>
            toClient[c] = <<>>]_vars
  <2> SUFFICES ASSUME IInv, Next, NEW c \in Clients,
                      Len(toClient'[c]) > Len(toClient[c])
               PROVE  toClient[c] = <<>>
    OBVIOUS
  <2>1. ASSUME NEW d \in Clients, Established(d) PROVE toClient[c] = <<>>
    <3>1. c # d => toClient'[c] = toClient[c]
      BY <2>1 DEF Established, IInv, TypeOK
    <3>2. c = d
      BY <3>1 DEF IInv, TypeOK
    <3> QED
      BY <2>1, <3>2 DEF Established, IInv, ConnPart, ConnInv
  <2>2. CASE OnRecord \/ OnEnd
    <3>1. hand # <<>>
      BY <2>2 DEF OnRecord, OnEnd
    <3>2. hand[1].conn \in Clients /\ toClient[hand[1].conn] = <<>>
      BY <3>1, HandEntry DEF IInv, QueueInv, EntryInv
    <3>3. c # hand[1].conn => toClient'[c] = toClient[c]
      BY <2>2, <3>2 DEF OnRecord, OnEnd, IInv, TypeOK
    <3>4. c = hand[1].conn
      BY <3>3 DEF IInv, TypeOK
    <3> QED
      BY <3>2, <3>4
  <2>3. CASE \E d \in Clients : Deliver(d) \/ SendFails(d) \/ DestroyQp(d)
    <3>1. PICK d \in Clients : Deliver(d) \/ SendFails(d) \/ DestroyQp(d)
      BY <2>3
    <3>2. toClient[c] \in Seq({"READY", "DONE"})
      BY DEF IInv, TypeOK
    <3>3. \/ toClient'[c] = toClient[c] \/ toClient'[c] = <<>>
          \/ toClient'[c] = Tail(toClient[c]) /\ toClient[c] # <<>>
      BY <3>1 DEF Deliver, SendFails, DestroyQp, IInv, TypeOK
    <3>4. ASSUME toClient[c] # <<>>
          PROVE  ~ Len(toClient'[c]) > Len(toClient[c])
      <4>1. Len(toClient[c]) \in Nat \ {0} /\ Len(<<>>) = 0
        BY <3>2, <3>4
      <4>2. Len(Tail(toClient[c])) = Len(toClient[c]) - 1
        BY <3>2, <3>4
      <4>3. Len(toClient'[c]) <= Len(toClient[c])
        <5>1. CASE toClient'[c] = <<>>
          BY <4>1, <5>1
        <5>2. CASE toClient'[c] = Tail(toClient[c])
          BY <4>1, <4>2, <5>2
        <5>3. CASE toClient'[c] = toClient[c]
          BY <4>1, <5>3
        <5> QED
          BY <3>3, <5>1, <5>2, <5>3
      <4> QED
        BY <4>1, <4>3
    <3> QED
      BY <3>4
  <2>4. CASE UNCHANGED toClient
    BY <2>4 DEF IInv, TypeOK
  <2> QED
    BY <2>1, <2>2, <2>3, <2>4 DEF Next, Write, ClientStep, Leave, Crash,
       WriteLands, CmStep, ConnectRequest, UnknownEvent, OnDisconnect,
       PollerStep, PollCq, OnSendCompleted, UseAfterFree, memVars
<1> QED
  BY <1>1, Invariance, PTL DEF Spec, OneMessageInFlight

-----------------------------------------------------------------------------
(* What the broker ends over. *)

\* The completions in the queue are of connections with a queue pair; not so the
\* one in hand.
QueuedHaveQp == \A i \in DOMAIN cq : HasQp(cq[i].conn)

LEMMA QueuedHaveQpStep ==
  ASSUME IInv, QueuedHaveQp, [Next]_vars
  PROVE  QueuedHaveQp'
<1> TypeOK /\ DOMAIN cq = 1 .. Len(cq) /\ Len(cq) \in Nat
  BY DEF IInv, TypeOK
<1>0. \A i \in DOMAIN cq : cq[i].conn \in Clients
  <2>1. \A i \in DOMAIN cq : cq[i] \in Completions
    BY DEF TypeOK
  <2>2. \A e \in Completions : e.conn \in Clients
    BY DEF Completions
  <2> QED
    BY <2>1, <2>2
<1>1. ASSUME NEW c \in Clients, Deliver(c) \/ SendFails(c) \/ WriteLands(c)
      PROVE  QueuedHaveQp'
  <2>1. PICK x \in Completions : cq' = Append(cq, x) /\ x.conn = c
    <3>1. Head(toServer[c]) \in Nat \/ ~WriteLands(c)
      BY DEF WriteLands, TypeOK
    <3> QED
      BY <1>1, <3>1 DEF Deliver, SendFails, WriteLands, Completion, Completions
  <2>2. HasQp(c) /\ phase' = phase
    BY <1>1 DEF Deliver, SendFails, WriteLands
  <2>3. /\ DOMAIN cq' = 1 .. Len(cq) + 1 /\ cq'[Len(cq) + 1] = x
        /\ \A i \in DOMAIN cq : cq'[i] = cq[i]
    BY <2>1
  <2> QED
    BY <2>1, <2>2, <2>3 DEF QueuedHaveQp, HasQp
<1>2. ASSUME NEW c \in Clients, DestroyQp(c) PROVE QueuedHaveQp'
  <2>1. cq' = Others(cq, c) /\ cq \in Seq(Completions)
    BY <1>2 DEF DestroyQp, TypeOK
  <2>2. \E f \in [DOMAIN Others(cq, c) -> DOMAIN cq] :
           /\ \A i \in DOMAIN Others(cq, c) :
                 Others(cq, c)[i] = cq[f[i]] /\ cq[f[i]].conn # c
           /\ \A i, j \in DOMAIN Others(cq, c) : i < j => f[i] < f[j]
    BY <2>1, OthersOf
  <2>3. \A i \in DOMAIN cq' : \E k \in DOMAIN cq : cq'[i] = cq[k] /\ cq[k].conn # c
    BY <2>1, <2>2
  <2>4. \A d \in Clients : d # c => phase'[d] = phase[d]
    BY <1>2 DEF DestroyQp, TypeOK
  <2> QED
    BY <1>0, <2>3, <2>4 DEF QueuedHaveQp, HasQp
<1>3. CASE PollCq
  <2>1. \A i \in DOMAIN cq' : i + 1 \in DOMAIN cq /\ cq'[i] = cq[i + 1]
    BY <1>3 DEF PollCq, TypeOK
  <2>2. phase' = phase
    BY <1>3 DEF PollCq
  <2> QED
    BY <2>1, <2>2 DEF QueuedHaveQp, HasQp
<1>4. ASSUME NEW c \in Clients,
             ConnectRequest(c) \/ Established(c) \/ OnDisconnect(c)
      PROVE  QueuedHaveQp'
  <2>1. /\ cq' = cq
        /\ phase[c] # "noqp" => phase'[c] \in {"accepted", "established"}
        /\ phase[c] = "noqp" => ~HasQp(c)
        /\ \A d \in Clients : d # c => phase'[d] = phase[d]
    BY <1>4 DEF ConnectRequest, Established, OnDisconnect, HasQp, TypeOK
  <2> QED
    BY <1>0, <2>1 DEF QueuedHaveQp, HasQp
<1>5. CASE UNCHANGED <<cq, phase>>
  BY <1>5 DEF QueuedHaveQp, HasQp
<1> QED
  BY <1>1, <1>2, <1>3, <1>4, <1>5 DEF Next, Write, ClientStep, Leave, Crash, CmStep,
     UnknownEvent, PollerStep, OnRecord, OnEnd, OnSendCompleted, UseAfterFree,
     memVars, vars

\* The broker's last step shows what it ends over, and after it there is none.
LEMMA EndsStep ==
  ASSUME IInv, QueuedHaveQp, EndsOnlyOverOwed, [Next]_vars
  PROVE  EndsOnlyOverOwed'
<1> TypeOK /\ \A c \in Clients : ConnPart(c)
  BY DEF IInv
<1>1. CASE ~Running
  <2>1. UNCHANGED vars
    BY <1>1 DEF Next, Write, ClientStep, Leave, Crash, Deliver, SendFails,
       WriteLands, CmStep, ConnectRequest, Established, UnknownEvent, DestroyQp,
       OnDisconnect, PollerStep, PollCq, OnRecord, OnEnd, OnSendCompleted,
       UseAfterFree
  <2> QED
    BY <2>1 DEF vars, clientVars, EndsOnlyOverOwed, Running, HasQp
<1>2. CASE Running
  <2>1. ASSUME NEW c \in Clients, UnknownEvent(c) PROVE EndsOnlyOverOwed'
    BY <2>1 DEF UnknownEvent, ConnPart, ConnInv, EndsOnlyOverOwed, HasQp, clientVars
  <2>2. CASE PollCq /\ Head(cq).kind = "ERROR"
    <3>1. PICK e \in Completions : e = cq[1]
      BY <2>2 DEF PollCq, TypeOK
    <3>2. e.kind = "ERROR" /\ EntryInv(e) /\ HasQp(e.conn)
      BY <2>2, <3>1 DEF PollCq, IInv, QueueInv, QueuedHaveQp, TypeOK
    <3>3. /\ e.conn \in Clients /\ client[e.conn] = "crashed"
          /\ has[e.conn] = "none"
      BY <3>2 DEF EntryInv, Completions
    <3> QED
      BY <2>2, <3>2, <3>3 DEF PollCq, EndsOnlyOverOwed, HasQp, clientVars
  <2>3. CASE UNCHANGED dead
    BY <1>2, <2>3 DEF EndsOnlyOverOwed, Running
  <2> QED
    BY <2>1, <2>2, <2>3 DEF Next, Write, ClientStep, Leave, Crash, Deliver,
       SendFails, WriteLands, CmStep, ConnectRequest, Established, DestroyQp,
       OnDisconnect, PollerStep, PollCq, OnRecord, OnEnd, OnSendCompleted,
       UseAfterFree, vars
<1> QED
  BY <1>1, <1>2

\* The broker ends only over a client that crashed while it was owed a message; a
\* client that leaves, or crashes otherwise, leaves it to the others.
THEOREM EndsOverOwed == Spec => []EndsOnlyOverOwed
<1>1. Init => QueuedHaveQp /\ EndsOnlyOverOwed
  BY DEF Init, QueuedHaveQp, EndsOnlyOverOwed, Running
<1>2. IInv /\ QueuedHaveQp /\ EndsOnlyOverOwed /\ [Next]_vars
         => QueuedHaveQp' /\ EndsOnlyOverOwed'
  BY QueuedHaveQpStep, EndsStep
<1> QED
  BY <1>1, <1>2, Invariance, PTL DEF Spec

-----------------------------------------------------------------------------
(* The log is a topic log. *)

LEMMA TopicInit == Init => Topic!Init
  BY DEF Init, Topic!Init, Clients

\* The topic's count of a producer's records is that of the log.
LEMMA TopicCount == \A c : Topic!InTopic(c) = InLog(c)
  BY DEF Topic!InTopic, InLog, Cardinality, Topic!Cardinality

\* Each step of the broker and its clients is a step of the topic or none.
LEMMA TopicStep ==
  ASSUME IInv, [Next]_vars
  PROVE  [Topic!Next]_<<[p \in Producers |-> sent[p]], log,
                        {p \in Producers : has[p] = "DONE"}>>
<1> DEFINE offered == [p \in Producers |-> sent[p]]
           done == {p \in Producers : has[p] = "DONE"}
<1>1. ASSUME NEW p \in Producers, Write(p)
      PROVE  Topic!Offer(p) \/ UNCHANGED <<offered, log, done>>
  <2>1. p \in Clients /\ Producers \subseteq Clients /\ TypeOK
    BY DEF Clients, IInv
  <2>2. UNCHANGED <<log, done>> /\ p \notin done
    BY <1>1, <2>1 DEF Write, TypeOK
  <2>3. \/ UNCHANGED offered
        \/ offered' = [offered EXCEPT ![p] = @ + 1]
    BY <1>1, <2>1 DEF Write, TypeOK
  <2> QED
    BY <2>2, <2>3 DEF Topic!Offer
<1>2. ASSUME NEW c \in Clients, Deliver(c)
      PROVE  Topic!Next \/ UNCHANGED <<offered, log, done>>
  <2>1. /\ UNCHANGED <<log, offered>> /\ TypeOK
        /\ has[c] = "none" /\ sent[c] = InLog(c)
        /\ \/ toClient[c] = <<"READY">>
           \/ toClient[c] = <<"DONE">> /\ c \in Producers
    BY <1>2 DEF Deliver, IInv, ConnPart, SendInv
  <2>2. has' = [has EXCEPT ![c] = Head(toClient[c])]
    BY <1>2 DEF Deliver
  <2>3. CASE toClient[c] = <<"READY">>
    <3>1. has' = [has EXCEPT ![c] = "READY"]
      BY <2>2, <2>3, OneElementQueue
    <3> QED
      BY <2>1, <3>1 DEF TypeOK, Clients
  <2>4. CASE toClient[c] = <<"DONE">> /\ c \in Producers
    <3>1. has' = [has EXCEPT ![c] = "DONE"]
      BY <2>2, <2>4, OneElementQueue
    <3>2. done' = done \cup {c} /\ c \notin done
      BY <2>1, <2>4, <3>1 DEF TypeOK, Clients
    <3>3. Topic!Confirm(c)
      BY <2>1, <2>4, <3>2, TopicCount DEF Topic!Confirm
    <3> QED
      BY <2>4, <3>3 DEF Topic!Next
  <2> QED
    BY <2>1, <2>3, <2>4
<1>3. CASE OnRecord
  <2>1. PICK p \in Producers : p = hand[1].conn
    BY <1>3, RecordStep
  <2>2. Stored(hand[1]) = InLog(p) + 1 /\ InLog(p) < offered[p]
    BY <1>3, <2>1, RecordStep
  <2>3. Topic!Store(p)
    BY <1>3, <2>1, <2>2, TopicCount DEF OnRecord, Topic!Store, clientVars
  <2> QED
    BY <2>3 DEF Topic!Next
<1>4. CASE UNCHANGED <<sent, has, log>>
  BY <1>4
<1> QED
  BY <1>1, <1>2, <1>3, <1>4 DEF Topic!Next, Next, ClientStep, Leave, Crash,
     SendFails, WriteLands, CmStep, ConnectRequest, Established, UnknownEvent,
     DestroyQp, OnDisconnect, PollerStep, PollCq, OnEnd, OnSendCompleted,
     UseAfterFree, clientVars, vars

\* consumer_buffer is the log that the system promises: each producer's records in
\* its order, once, and DONE only when all of them are there.
THEOREM BrokerImplementsTopic == Spec => ImplementsTopic
  BY TopicInit, TopicStep, Invariance, PTL DEF Spec, ImplementsTopic, Topic!Spec

=============================================================================
