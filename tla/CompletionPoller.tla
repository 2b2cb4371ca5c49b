---------------------------- MODULE CompletionPoller ----------------------------
(* The connection manager's half of integration/common.c that all programs     *)
(* share: build_connection, with the context, the completion queue and the     *)
(* poller thread it makes for the first connection, and poll_cq, the loop of   *)
(* that thread.  The channel delivers one event when the queue is armed and a  *)
(* completion is added to it; adding disarms the queue.                        *)
EXTENDS Integers, Sequences

CONSTANTS
    Conns,             \* the connections, by their rdma_cm_id
    Device,            \* of each connection: id->verbs
    Cqe,               \* entries of the completion queue, 10 in the code
    MaxCompletions,    \* bound: completions that are added
    MaxRepeats         \* bound: completions handled once more

ASSUME DeviceAssumption == \A c \in Conns : Device[c] # "none"
ASSUME CqeAssumption == Cqe \in Nat \ {0}
ASSUME PollerBounds == MaxCompletions \in Nat /\ MaxRepeats \in Nat

VARIABLES
    s_ctx,      \* device of s_ctx, or "none" for NULL
    qps,        \* the connections that have a queue pair
    added,      \* completions added so far
    cq,         \* the completion queue: <<number, status>>
    overrun,    \* the queue has overrun; ibv_poll_cq returns an error from then on
    armed,      \* ibv_req_notify_cq is in force
    channel,    \* events in comp_channel
    poller,     \* program counter of poll_cq
    wc,         \* poll_cq's local wc, <<0, ...>> before it is written
    handled,    \* the completions s_on_completion_cb was called with
    dead        \* "no", or the reason given to rc_die

cqVars == <<added, cq, overrun, armed, channel>>
pollVars == <<poller, wc, handled>>
vars == <<s_ctx, qps, cqVars, pollVars, dead>>

Running == dead = "no"
Statuses == {"SUCCESS", "ERROR"}

\* wc is not initialised: its status may read as either.
Init ==
    /\ s_ctx = "none" /\ qps = {}
    /\ added = 0 /\ cq = <<>> /\ overrun = FALSE /\ armed = FALSE /\ channel = 0
    /\ poller = "none" /\ wc \in {0} \X Statuses /\ handled = <<>>
    /\ dead = "no"
-----------------------------------------------------------------------------
(* The CM thread. *)

\* build_connection for the first connection: build_context makes everything.
BuildContext(c) ==
    /\ Running /\ s_ctx = "none"
    /\ s_ctx' = Device[c] /\ qps' = {c}
    /\ armed' = TRUE /\ poller' = "get"
    /\ UNCHANGED <<added, cq, overrun, channel, wc, handled, dead>>

\* build_connection for another one of the same device, or of another: rc_die.
BuildConnection(c) ==
    /\ Running /\ s_ctx # "none" /\ c \notin qps
    /\ IF s_ctx = Device[c]
       THEN qps' = qps \cup {c} /\ UNCHANGED dead
       ELSE dead' = "two_contexts" /\ UNCHANGED qps
    /\ UNCHANGED <<s_ctx, cqVars, pollVars>>
-----------------------------------------------------------------------------
(* The network card. *)

\* A work request of some connection completes.
Complete(status) ==
    /\ Running /\ qps # {} /\ ~overrun /\ added < MaxCompletions
    /\ Len(cq) < Cqe
    /\ added' = added + 1
    /\ cq' = Append(cq, <<added + 1, status>>)
    /\ channel' = IF armed THEN channel + 1 ELSE channel
    /\ armed' = FALSE
    /\ UNCHANGED <<s_ctx, qps, overrun, pollVars, dead>>

Overrun ==
    /\ Running /\ qps # {} /\ ~overrun /\ added < MaxCompletions
    /\ Len(cq) = Cqe
    /\ overrun' = TRUE
    /\ UNCHANGED <<s_ctx, qps, added, cq, armed, channel, pollVars, dead>>
-----------------------------------------------------------------------------
(* The poller. *)

\* Mutants: the queue is not armed again; the wait for an event does not block;
\* the loop takes one completion per event, or does not poll again.
KeepDisarmed == armed' = armed
NoBlock == TRUE
GetAgain == "get"
SameAgain == "handle"

Rearm == armed' = TRUE
EventReady == channel > 0

GetEvent ==
    /\ Running /\ poller = "get" /\ EventReady
    /\ channel' = channel - 1
    /\ poller' = "notify"
    /\ UNCHANGED <<s_ctx, qps, added, cq, overrun, armed, wc, handled, dead>>

ReqNotify ==
    /\ Running /\ poller = "notify"
    /\ Rearm
    /\ poller' = "poll"
    /\ UNCHANGED <<s_ctx, qps, added, cq, overrun, channel, wc, handled, dead>>

\* ibv_poll_cq returns 1 with a completion in wc, 0, or a negative number when
\* the queue has overrun: then the loop goes on with what wc still holds.
PollCq ==
    /\ Running /\ poller = "poll"
    /\ \/ /\ overrun
          /\ poller' = "handle" /\ UNCHANGED <<cq, wc>>
       \/ /\ ~overrun /\ cq = <<>>
          /\ poller' = "get" /\ UNCHANGED <<cq, wc>>
       \/ /\ ~overrun /\ cq # <<>>
          /\ poller' = "handle" /\ wc' = Head(cq) /\ cq' = Tail(cq)
    /\ UNCHANGED <<s_ctx, qps, added, overrun, armed, channel, handled, dead>>

\* What the loop does after the callback: poll again.
AfterCallback == "poll"

Dispatch ==
    /\ Running /\ poller = "handle" /\ wc[2] = "SUCCESS"
    /\ Len(handled) < MaxCompletions + MaxRepeats
    /\ handled' = Append(handled, wc[1])
    /\ poller' = AfterCallback
    /\ UNCHANGED <<s_ctx, qps, cqVars, wc, dead>>

BadStatus ==
    /\ Running /\ poller = "handle" /\ wc[2] = "ERROR"
    /\ dead' = "bad_status"
    /\ UNCHANGED <<s_ctx, qps, cqVars, pollVars>>
-----------------------------------------------------------------------------
CmStep == \E c \in Conns : BuildContext(c) \/ BuildConnection(c)
CardStep == (\E status \in Statuses : Complete(status)) \/ Overrun
PollerStep == GetEvent \/ ReqNotify \/ PollCq \/ Dispatch \/ BadStatus

Next == CmStep \/ CardStep \/ PollerStep

Spec == Init /\ [][Next]_vars

(* The poller's thread is scheduled; nobody need connect or complete anything. *)
FairSpec == Spec /\ WF_vars(PollerStep)
-----------------------------------------------------------------------------
(* Properties. *)

FlagsOK == overrun \in BOOLEAN /\ armed \in BOOLEAN

TypeOK ==
    /\ FlagsOK
    /\ s_ctx = "none" \/ \E c \in Conns : s_ctx = Device[c]
    /\ qps \subseteq Conns
    /\ added \in 0 .. MaxCompletions
    /\ cq \in Seq((1 .. MaxCompletions) \X Statuses) /\ Len(cq) <= Cqe
    /\ channel \in Nat
    /\ poller \in {"none", "get", "notify", "poll", "handle"}
    /\ wc \in (0 .. MaxCompletions) \X Statuses
    /\ handled \in Seq(0 .. MaxCompletions)
    /\ dead \in {"no", "two_contexts", "bad_status"}

\* The poller never waits for an event that will not come: with a completion in
\* the queue there is an event in the channel, and with none the queue is armed.
\* This is what arming before draining is for: a completion that is added
\* between the last empty poll and the wait makes an event.
NeverWaitsInVain ==
    poller = "get" => IF cq # <<>> THEN channel > 0 ELSE armed \/ channel > 0

\* Unless the queue overruns, the callback is called for every completion once and
\* in the order in which they were added.
HandledOnceInOrder ==
    ~overrun => \A i \in DOMAIN handled : handled[i] = i

\* Every completion is handled, unless the process dies or the queue overruns.
EventuallyHandled ==
    \A i \in 1 .. MaxCompletions :
        added >= i ~> Len(handled) >= i \/ ~Running \/ overrun
=============================================================================
