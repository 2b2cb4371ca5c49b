------------------------ MODULE CompletionPollerProofs ------------------------
(* Theorems about CompletionPoller, for any connections, devices, queue size   *)
(* and bounds: the wait of poll_cq is never in vain, and the callback is called *)
(* once for each completion.                                                   *)
EXTENDS CompletionPoller, TLAPS

\* What each program counter of poll_cq says of the arming and of the channel.
ArmingInv ==
    /\ channel \in {0, 1}
    /\ armed => channel = 0
    /\ s_ctx = "none" <=> poller = "none"
    /\ poller = "none" => channel = 0 /\ ~armed /\ qps = {} /\ cq = <<>>
    /\ poller = "get" => channel = 1 \/ (armed /\ cq = <<>>)
    /\ poller = "notify" => channel = 0 /\ ~armed
    /\ poller \in {"poll", "handle"} => armed \/ channel = 1

InHand == IF poller = "handle" THEN 1 ELSE 0

\* Handled, in hand and in the queue are the completions added, in their order.
OrderInv ==
    ~overrun =>
        /\ Len(handled) + InHand + Len(cq) = added
        /\ \A i \in DOMAIN handled : handled[i] = i
        /\ poller = "handle" => wc[1] = Len(handled) + 1
        /\ \A i \in DOMAIN cq : cq[i][1] = Len(handled) + InHand + i

IInv == TypeOK /\ ArmingInv /\ OrderInv

\* The first connection starts the poller with an armed, empty queue.
LEMMA InitInv == Init => IInv
<1> SUFFICES ASSUME Init PROVE IInv
  OBVIOUS
<1>1. cq \in Seq((1 .. MaxCompletions) \X Statuses) /\ Len(cq) = 0
  BY DEF Init
<1>2. wc \in (0 .. MaxCompletions) \X Statuses
  BY PollerBounds DEF Init
<1>0. FlagsOK
  BY DEF Init, FlagsOK
<1>3. TypeOK
  BY <1>0, <1>1, <1>2, CqeAssumption, PollerBounds DEF Init, TypeOK
<1>4. ArmingInv /\ OrderInv
  BY DEF Init, ArmingInv, OrderInv, InHand
<1>5. QED
  BY <1>3, <1>4 DEF IInv

\* The CM thread creates the queue armed and leaves it alone afterwards.
LEMMA CmStepInv == ASSUME IInv, CmStep PROVE IInv'
<1>1. PICK c \in Conns : BuildContext(c) \/ BuildConnection(c)
  BY DEF CmStep
<1>2. CASE BuildContext(c)
  <2>0. FlagsOK'
    BY <1>2 DEF BuildContext, IInv, TypeOK, FlagsOK
  <2>1. TypeOK'
    BY <1>2, <2>0 DEF BuildContext, IInv, TypeOK
  <2>2. ArmingInv'
    <3>1. channel = 0 /\ cq = <<>>
      BY <1>2 DEF BuildContext, IInv, ArmingInv
    <3>2. /\ s_ctx' # "none" /\ armed' /\ poller' = "get"
          /\ UNCHANGED <<cq, channel>>
      BY <1>2, DeviceAssumption DEF BuildContext
    <3>3. QED
      BY <3>1, <3>2 DEF ArmingInv
  <2>3. InHand' = InHand
    BY <1>2 DEF BuildContext, IInv, ArmingInv, InHand
  <2>4. OrderInv'
    BY <1>2, <2>3 DEF BuildContext, IInv, OrderInv, ArmingInv
  <2>5. QED
    BY <2>1, <2>2, <2>4 DEF IInv
<1>3. CASE BuildConnection(c)
  <2>0. FlagsOK'
    BY <1>3 DEF BuildConnection, cqVars, IInv, TypeOK, FlagsOK
  <2>1. TypeOK'
    BY <1>3, <2>0 DEF BuildConnection, cqVars, pollVars, IInv, TypeOK
  <2>2. ArmingInv' /\ OrderInv'
    BY <1>3 DEF BuildConnection, cqVars, pollVars, IInv, ArmingInv, OrderInv,
                InHand
  <2>3. QED
    BY <2>1, <2>2 DEF IInv
<1>4. QED
  BY <1>1, <1>2, <1>3

\* A completion goes to the end of the queue and makes an event if it is armed.
LEMMA CardStepInv == ASSUME IInv, CardStep PROVE IInv'
<1>1. ASSUME NEW status \in Statuses, Complete(status) PROVE IInv'
  <2> USE DEF Complete, pollVars
  <2>1. <<added + 1, status>> \in (1 .. MaxCompletions) \X Statuses
    BY <1>1, PollerBounds DEF IInv, TypeOK
  <2>2. /\ cq' \in Seq((1 .. MaxCompletions) \X Statuses)
        /\ Len(cq') = Len(cq) + 1
        /\ \A i \in DOMAIN cq' :
              cq'[i] = IF i <= Len(cq) THEN cq[i] ELSE <<added + 1, status>>
    BY <1>1, <2>1 DEF IInv, TypeOK
  <2>0. FlagsOK'
    BY <1>1 DEF IInv, TypeOK, FlagsOK
  <2>3. TypeOK'
    BY <1>1, <2>0, <2>2, PollerBounds, CqeAssumption DEF IInv, TypeOK
  <2>4. ArmingInv'
    BY <1>1 DEF IInv, TypeOK, ArmingInv
  <2>5. /\ ~overrun /\ ~overrun' /\ InHand' = InHand /\ InHand \in {0, 1}
        /\ UNCHANGED <<handled, wc, poller>> /\ added' = added + 1
    BY <1>1 DEF InHand
  <2>6. /\ Len(handled) \in Nat /\ Len(cq) \in Nat /\ added \in Nat
        /\ DOMAIN cq = 1 .. Len(cq) /\ DOMAIN cq' = 1 .. Len(cq')
    BY <2>2 DEF IInv, TypeOK
  <2>7. \A i \in DOMAIN cq' : cq'[i][1] = Len(handled) + InHand + i
    <3>1. SUFFICES ASSUME NEW i \in 1 .. Len(cq')
                   PROVE  cq'[i][1] = Len(handled) + InHand + i
      BY <2>6
    <3>2. CASE i <= Len(cq)
      <4>1. i \in DOMAIN cq /\ i \in DOMAIN cq'
        BY <2>2, <2>6, <3>1, <3>2
      <4>2. cq'[i] = cq[i]
        BY <2>2, <3>2, <4>1
      <4>3. QED
        BY <2>5, <4>1, <4>2 DEF IInv, OrderInv
    <3>3. CASE ~(i <= Len(cq))
      <4>1. i = Len(cq) + 1 /\ cq'[i] = <<added + 1, status>>
        BY <2>2, <2>6, <3>3
      <4>2. Len(handled) + InHand + Len(cq) = added
        BY <2>5 DEF IInv, OrderInv
      <4>3. QED
        BY <2>5, <2>6, <4>1, <4>2
    <3>4. QED
      BY <3>2, <3>3
  <2>8. OrderInv'
    BY <2>2, <2>5, <2>6, <2>7 DEF IInv, OrderInv
  <2>9. QED
    BY <2>3, <2>4, <2>8 DEF IInv
<1>2. ASSUME Overrun PROVE IInv'
  <2>0. FlagsOK'
    BY <1>2 DEF Overrun, IInv, TypeOK, FlagsOK
  <2>1. TypeOK'
    BY <1>2, <2>0 DEF Overrun, pollVars, IInv, TypeOK
  <2>2. ArmingInv' /\ OrderInv'
    BY <1>2 DEF Overrun, pollVars, IInv, ArmingInv, OrderInv
  <2>3. QED
    BY <2>1, <2>2 DEF IInv
<1>3. QED
  BY <1>1, <1>2 DEF CardStep

\* The event is taken and the queue armed before it is polled.
LEMMA WaitStepInv == ASSUME IInv, GetEvent \/ ReqNotify PROVE IInv'
<1>0. FlagsOK'
  BY DEF GetEvent, ReqNotify, Rearm, IInv, TypeOK, FlagsOK
<1>1. TypeOK'
  BY <1>0 DEF GetEvent, EventReady, ReqNotify, Rearm, IInv, TypeOK
<1>2. ArmingInv'
  BY DEF GetEvent, EventReady, ReqNotify, Rearm, IInv, TypeOK, ArmingInv
<1>3. OrderInv'
  BY DEF GetEvent, ReqNotify, IInv, OrderInv, InHand
<1>4. QED
  BY <1>1, <1>2, <1>3 DEF IInv

\* The queue is found empty only while it is armed or an event is waiting.
LEMMA PollCqInv == ASSUME IInv, PollCq PROVE IInv'
<1>1. /\ poller = "poll"
      /\ UNCHANGED <<s_ctx, qps, added, overrun, armed, channel, handled, dead>>
  BY DEF PollCq
<1>2. FlagsOK'
  BY <1>1 DEF IInv, TypeOK, FlagsOK
<1>3. CASE overrun
  <2>1. poller' = "handle" /\ UNCHANGED <<cq, wc>>
    BY <1>3 DEF PollCq
  <2>2. TypeOK'
    BY <1>1, <1>2, <2>1 DEF IInv, TypeOK
  <2>3. ArmingInv' /\ OrderInv'
    BY <1>1, <1>3, <2>1 DEF IInv, ArmingInv, OrderInv
  <2>4. QED
    BY <2>2, <2>3 DEF IInv
<1>4. CASE ~overrun /\ cq = <<>>
  <2>1. poller' = "get" /\ UNCHANGED <<cq, wc>>
    BY <1>4 DEF PollCq
  <2>2. TypeOK'
    BY <1>1, <1>2, <2>1 DEF IInv, TypeOK
  <2>3. ArmingInv' /\ OrderInv'
    BY <1>1, <1>4, <2>1 DEF IInv, TypeOK, ArmingInv, OrderInv, InHand
  <2>4. QED
    BY <2>2, <2>3 DEF IInv
<1>5. CASE ~overrun /\ cq # <<>>
  <2>1. poller' = "handle" /\ wc' = Head(cq) /\ cq' = Tail(cq)
    BY <1>5 DEF PollCq
  <2>2. /\ Len(cq) \in Nat \ {0}
        /\ cq[1] \in (1 .. MaxCompletions) \X Statuses
    BY <1>5 DEF IInv, TypeOK
  <2>3. /\ cq' \in Seq((1 .. MaxCompletions) \X Statuses)
        /\ Len(cq') = Len(cq) - 1
        /\ \A i \in 1 .. Len(cq') : cq'[i] = cq[i + 1]
    BY <1>5, <2>1 DEF IInv, TypeOK
  <2>4. DOMAIN cq' = 1 .. Len(cq') /\ DOMAIN cq = 1 .. Len(cq)
    BY <2>3 DEF IInv, TypeOK
  <2>5. wc' = cq[1]
    BY <1>5, <2>1 DEF IInv, TypeOK
  <2>6. wc' \in (0 .. MaxCompletions) \X Statuses
    BY <2>2, <2>5, PollerBounds
  <2>7. Len(cq') <= Cqe
    BY <2>2, <2>3, CqeAssumption DEF IInv, TypeOK
  <2>8. poller' = "handle"
    BY <2>1
  <2>9. TypeOK'
    BY <1>1, <1>2, <2>3, <2>6, <2>7, <2>8 DEF IInv, TypeOK
  <2>10. ArmingInv'
    BY <1>1, <2>8 DEF IInv, TypeOK, ArmingInv
  <2>11. OrderInv'
    <3>0. Len(handled) \in Nat /\ InHand = 0
      BY <1>1 DEF IInv, TypeOK, InHand
    <3>1. /\ Len(handled) + Len(cq) = added
          /\ \A i \in 1 .. Len(cq) : cq[i][1] = Len(handled) + i
          /\ \A i \in DOMAIN handled : handled[i] = i
      BY <1>5, <2>2, <2>4, <3>0 DEF IInv, OrderInv
    <3>2. ASSUME NEW i \in DOMAIN cq' PROVE cq'[i][1] = Len(handled) + 1 + i
      <4>1. i + 1 \in 1 .. Len(cq) /\ i \in Nat
        BY <2>2, <2>3, <2>4
      <4>2. cq'[i] = cq[i + 1]
        BY <2>3, <2>4
      <4>3. cq[i + 1][1] = Len(handled) + (i + 1)
        BY <3>1, <4>1
      <4>4. QED
        BY <3>0, <4>1, <4>2, <4>3
    <3>3. wc'[1] = Len(handled) + 1
      BY <2>2, <2>5, <3>1
    <3>4. Len(handled) + 1 + Len(cq') = added
      BY <2>2, <2>3, <3>1 DEF IInv, TypeOK
    <3>5. QED
      BY <1>1, <2>8, <3>1, <3>2, <3>3, <3>4 DEF OrderInv, InHand
  <2>12. QED
    BY <2>9, <2>10, <2>11 DEF IInv
<1>6. QED
  BY <1>3, <1>4, <1>5

\* The callback takes the completion out of the poller's hand.
LEMMA DispatchInv == ASSUME IInv, Dispatch PROVE IInv'
<1>1. wc[1] \in 0 .. MaxCompletions /\ handled' = Append(handled, wc[1])
  BY DEF Dispatch, IInv, TypeOK
<1>2. /\ handled' \in Seq(0 .. MaxCompletions)
      /\ Len(handled') = Len(handled) + 1
      /\ \A i \in DOMAIN handled' :
            handled'[i] = IF i <= Len(handled) THEN handled[i] ELSE wc[1]
  BY <1>1 DEF IInv, TypeOK
<1> USE DEF Dispatch, AfterCallback, cqVars
<1>0. FlagsOK'
  BY DEF IInv, TypeOK, FlagsOK
<1>3. TypeOK'
  BY <1>0, <1>2 DEF IInv, TypeOK
<1>4. ArmingInv'
  BY DEF IInv, TypeOK, ArmingInv
<1>5. OrderInv'
  BY <1>2 DEF IInv, TypeOK, OrderInv, InHand
<1>6. QED
  BY <1>3, <1>4, <1>5 DEF IInv

LEMMA StepInv == IInv /\ [Next]_vars => IInv'
<1> SUFFICES ASSUME IInv, [Next]_vars PROVE IInv'
  OBVIOUS
<1>1. CASE CmStep
  BY <1>1, CmStepInv
<1>2. CASE CardStep
  BY <1>2, CardStepInv
<1>3. CASE GetEvent \/ ReqNotify
  BY <1>3, WaitStepInv
<1>4. CASE PollCq
  BY <1>4, PollCqInv
<1>5. CASE Dispatch
  BY <1>5, DispatchInv
<1>6. CASE BadStatus
  <2>0. FlagsOK'
    BY <1>6 DEF BadStatus, cqVars, IInv, TypeOK, FlagsOK
  <2>1. TypeOK'
    BY <1>6, <2>0 DEF BadStatus, cqVars, pollVars, IInv, TypeOK
  <2>2. ArmingInv' /\ OrderInv'
    BY <1>6 DEF BadStatus, cqVars, pollVars, IInv, ArmingInv, OrderInv, InHand
  <2>3. QED
    BY <2>1, <2>2 DEF IInv
<1>7. CASE UNCHANGED vars
  <2>0. FlagsOK'
    BY <1>7 DEF vars, cqVars, IInv, TypeOK, FlagsOK
  <2>1. TypeOK'
    BY <1>7, <2>0 DEF vars, cqVars, pollVars, IInv, TypeOK
  <2>2. ArmingInv' /\ OrderInv'
    BY <1>7 DEF vars, cqVars, pollVars, IInv, ArmingInv, OrderInv, InHand
  <2>3. QED
    BY <2>1, <2>2 DEF IInv
<1>8. QED
  BY <1>1, <1>2, <1>3, <1>4, <1>5, <1>6, <1>7 DEF Next, PollerStep

\* The inductive invariant holds in every reachable state (event_loop's
\* build_connection, poll_cq and the card together).
THEOREM Invariance == Spec => []IInv
  BY InitInv, StepInv, PTL DEF Spec

\* Every variable of CompletionPoller keeps its type.
THEOREM TypeCorrect == Spec => []TypeOK
<1>1. IInv => TypeOK
  BY DEF IInv
<1>2. QED
  BY <1>1, Invariance, PTL

\* poll_cq never waits for an event while a completion is in the queue and none
\* is announced.
THEOREM NoVainWait == Spec => []NeverWaitsInVain
<1>1. IInv => NeverWaitsInVain
  BY DEF IInv, TypeOK, ArmingInv, NeverWaitsInVain
<1>2. QED
  BY <1>1, Invariance, PTL

\* s_on_completion_cb is called once for each completion, in order, unless the
\* queue overruns.
THEOREM OnceInOrder == Spec => []HandledOnceInOrder
<1>1. IInv => HandledOnceInOrder
  BY DEF IInv, OrderInv, HandledOnceInOrder
<1>2. QED
  BY <1>1, Invariance, PTL
===============================================================================
