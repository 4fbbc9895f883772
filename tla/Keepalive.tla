------------------------------- MODULE Keepalive -------------------------------
(***************************************************************************)
(* The keepalive exchange on a session's control stream: one peer runs     *)
(* run_keepalive_sender, the other run_keepalive_responder, each with its  *)
(* own CancellationToken, under a clock.  RayHost and RayView do not start *)
(* the two loops yet; this is what they promise whoever does.              *)
(*                                                                         *)
(* The control stream delivers whole messages reliably and in order, each  *)
(* within MaxDelay as long as both peers run, and flow control lets        *)
(* Window of them wait in either direction.  A loop needs no time for      *)
(* what it can do at once.  Who runs the sender's loop is its owner: it    *)
(* may read the acks, and once the loop has returned it may send messages  *)
(* of another layer, send Disconnect, drop the stream, or do nothing.      *)
(* Until then the loop has the only ControlSender, so no other kind of     *)
(* message is on its way.                                                  *)
(***************************************************************************)
EXTENDS Naturals, Sequences

CONSTANTS
    Interval,  \* DEFAULT_KEEPALIVE_INTERVAL
    Timeout,   \* DEFAULT_KEEPALIVE_TIMEOUT
    MaxDelay,  \* how long a message is on its way at most
    MaxSkew,   \* how much later than the responder the sender starts at most
    Window     \* messages that may wait to be read in one direction

ASSUME KeepaliveAssumption ==
    /\ Interval \in Nat \ {0} /\ Timeout \in Nat \ {0} /\ Window \in Nat \ {0}
    /\ MaxDelay \in Nat /\ MaxSkew \in Nat
    /\ MaxSkew + Interval + MaxDelay < Timeout

VARIABLES
    conn,      \* the connection: "up", "silent" (nothing arrives) or "closed"
    cancelled, \* the loops whose token is cancelled
    sender,    \* where run_keepalive_sender is
    nap,       \* what is left of its sleep
    flight,    \* messages to the responder, the oldest first
    responder, \* where run_keepalive_responder is
    idle,      \* how long its timeout has been running
    result,    \* what it has returned
    acks,      \* acks sent and not yet read
    quiet      \* how long the responder has waited since the last sign of life that
               \* a stopped peer sent (history)

link == <<conn, cancelled>>
ping == <<sender, nap>>
pong == <<responder, idle, result>>
vars == <<link, ping, flight, pong, acks, quiet>>

Kinds    == {"Keepalive", "Other", "Disconnect", "End"}
Messages == [kind : Kinds, age : 0..MaxDelay]
Results  == {"none", "Ok", "KeepaliveTimeout", "RemoteClosed", "Transport"}

Init ==
    /\ conn = "up" /\ cancelled = {}
    /\ sender = "sleeping" /\ nap \in Interval..(Interval + MaxSkew)
    /\ responder = "waiting" /\ idle = 0 /\ result = "none"
    /\ flight = <<>> /\ acks = 0 /\ quiet = 0
-----------------------------------------------------------------------------
(* run_keepalive_sender *)

StopSending ==
    /\ sender = "sleeping" /\ "sender" \in cancelled
    /\ sender' = "done"
    /\ UNCHANGED <<link, nap, flight, pong, acks, quiet>>

Wake ==
    /\ sender = "sleeping" /\ nap = 0
    /\ sender' = "sending"
    /\ UNCHANGED <<link, nap, flight, pong, acks, quiet>>

\* Once it sends, the loop waits for nothing but the stream.
CanSend == sender = "sending" /\ conn # "closed" /\ Len(flight) < Window

SendKeepalive ==
    /\ CanSend
    /\ flight' = Append(flight, [kind |-> "Keepalive", age |-> 0])
    /\ sender' = "sleeping" /\ nap' = Interval
    /\ UNCHANGED <<link, pong, acks, quiet>>

SendFails ==
    /\ sender = "sending" /\ conn = "closed"
    /\ sender' = "done"
    /\ UNCHANGED <<link, nap, flight, pong, acks, quiet>>
-----------------------------------------------------------------------------
(* run_keepalive_responder *)

Return(r) == responder' = "done" /\ result' = r /\ UNCHANGED idle

\* The mutant has one timer for all the turns of the loop.
Restart_mut == idle' = idle
Restart     == idle' = 0

StopResponding_mut ==
    /\ responder = "waiting" /\ "responder" \in cancelled /\ flight = <<>> /\ conn = "up"
    /\ Return("Ok")
    /\ UNCHANGED <<link, ping, flight, acks, quiet>>
StopResponding ==
    /\ responder = "waiting" /\ "responder" \in cancelled
    /\ Return("Ok")
    /\ UNCHANGED <<link, ping, flight, acks, quiet>>

\* The oldest message arrives, and recv returns it.  One of another layer is
\* ignored, and the next turn of the loop has a timeout of its own.
Recv ==
    /\ responder = "waiting" /\ conn = "up" /\ flight # <<>>
    /\ flight' = Tail(flight)
    /\ LET kind == Head(flight).kind
       IN  \/ kind = "Keepalive" /\ responder' = "acking" /\ UNCHANGED <<idle, result>>
           \/ kind = "Other" /\ idle' = 0 /\ UNCHANGED <<responder, result>>
           \/ kind \in {"Disconnect", "End"} /\ Return("RemoteClosed")
    /\ UNCHANGED <<link, ping, acks, quiet>>

\* The acks are sent without regard to flow control.
CanAck_mut == responder = "acking" /\ conn # "closed"
CanAck == responder = "acking" /\ conn # "closed" /\ acks < Window

SendAck ==
    /\ CanAck
    /\ acks' = acks + 1
    /\ responder' = "waiting" /\ Restart
    /\ UNCHANGED <<link, ping, flight, result, quiet>>

\* recv or send finds the connection closed.
RespondFails ==
    /\ responder \in {"waiting", "acking"} /\ conn = "closed"
    /\ Return("Transport")
    /\ UNCHANGED <<link, ping, flight, acks, quiet>>

\* A timeout is taken for another turn of the loop.
TimesOut_mut ==
    /\ responder = "waiting" /\ idle = Timeout
    /\ idle' = 0
    /\ UNCHANGED <<link, ping, flight, responder, result, acks, quiet>>
TimesOut ==
    /\ responder = "waiting" /\ idle = Timeout
    /\ Return("KeepaliveTimeout")
    /\ UNCHANGED <<link, ping, flight, acks, quiet>>
-----------------------------------------------------------------------------
(* The owners of the loops, the connection, and time *)

Cancel(loop) ==
    /\ cancelled' = cancelled \cup {loop}
    /\ UNCHANGED <<conn, ping, flight, pong, acks, quiet>>

\* The owner of the sender's loop sends something else, takes leave, or only drops
\* its stream.  As long as messages get through, one of another layer is a sign of life.
Leaves(m) == m.kind \in {"Disconnect", "End"}

OwnerSends(kind) ==
    /\ sender = "done" /\ conn # "closed" /\ Len(flight) < Window
    /\ \A i \in DOMAIN flight : ~ Leaves(flight[i])
    /\ flight' = Append(flight, [kind |-> kind, age |-> 0])
    /\ quiet' = IF kind = "Other" /\ conn = "up" THEN 0 ELSE quiet
    /\ UNCHANGED <<link, ping, pong, acks>>

ReadAck ==
    /\ acks > 0
    /\ acks' = acks - 1
    /\ UNCHANGED <<link, ping, flight, pong, quiet>>

\* A peer hangs or is cut off, and nothing arrives any more.
FallSilent ==
    /\ conn = "up" /\ conn' = "silent"
    /\ UNCHANGED <<cancelled, ping, flight, pong, acks, quiet>>

\* The connection is closed, or has been idle for too long.
Close ==
    /\ conn # "closed" /\ conn' = "closed"
    /\ UNCHANGED <<cancelled, ping, flight, pong, acks, quiet>>

\* Something has to happen before time goes on.
Due ==
    \/ sender = "sleeping" /\ nap = 0
    \/ CanSend \/ CanAck
    \/ responder = "waiting" /\ idle = Timeout
    \/ responder = "waiting" /\ conn = "up" /\ flight # <<>> /\ Head(flight).age = MaxDelay

\* The sender has returned, or nothing gets through any more.
PeerStopped == sender = "done" \/ conn # "up"

\* The longest silence that is told apart (bound): one more than there may be.
Horizon == Timeout + MaxDelay + 1

Older(m) == [m EXCEPT !.age = IF m.age < MaxDelay THEN m.age + 1 ELSE m.age]

Tick ==
    /\ ~ Due
    /\ nap' = IF sender = "sleeping" THEN nap - 1 ELSE nap
    /\ idle' = IF responder = "waiting" THEN idle + 1 ELSE idle
    /\ flight' = [i \in 1..Len(flight) |-> Older(flight[i])]
    /\ quiet' = IF PeerStopped /\ responder = "waiting" /\ quiet < Horizon
                THEN quiet + 1 ELSE quiet
    /\ UNCHANGED <<link, sender, responder, result, acks>>
-----------------------------------------------------------------------------
SenderStep    == Wake \/ SendKeepalive \/ SendFails
ResponderStep == Recv \/ SendAck \/ RespondFails \/ TimesOut
Environment   == \/ \E loop \in {"sender", "responder"} : Cancel(loop)
                 \/ \E kind \in {"Other", "Disconnect", "End"} : OwnerSends(kind)
                 \/ ReadAck \/ FallSilent \/ Close

Next == SenderStep \/ StopSending \/ ResponderStep \/ StopResponding \/ Environment \/ Tick

Spec == Init /\ [][Next]_vars

(***************************************************************************)
(* Fairness.  Both tasks run and time goes on.  A select that finds its    *)
(* token cancelled again and again takes that branch: it starts at a       *)
(* random one.  A silent connection reaches QUIC's idle timeout, and the   *)
(* owner of a responder that has returned drops the connection.            *)
(***************************************************************************)
Drop == (conn = "silent" \/ responder = "done") /\ Close

Fairness ==
    /\ WF_vars(SenderStep) /\ SF_vars(StopSending)
    /\ WF_vars(ResponderStep) /\ SF_vars(StopResponding)
    /\ WF_vars(Drop) /\ WF_vars(Tick)

FairSpec == Spec /\ Fairness
-----------------------------------------------------------------------------
(* Properties *)

\* Every variable keeps its type; neither direction of the stream holds more than
\* flow control allows.
TypeOK ==
    /\ conn \in {"up", "silent", "closed"} /\ cancelled \subseteq {"sender", "responder"}
    /\ sender \in {"sleeping", "sending", "done"} /\ nap \in 0..(Interval + MaxSkew)
    /\ flight \in Seq(Messages) /\ Len(flight) <= Window
    /\ responder \in {"waiting", "acking", "done"} /\ idle \in 0..Timeout
    /\ result \in Results
    /\ acks \in 0..Window /\ quiet \in 0..Horizon

\* A peer that is alive is never given up: the responder times out only when the
\* sender has returned or nothing gets through, however the start of the loops,
\* the delays of the messages and the reading of the acks fall together.
LivePeerKept == result = "KeepaliveTimeout" => PeerStopped

\* "If the peer stops responding, the session is considered lost" (ADR-010), and in time:
\* from the last sign of life on, the responder waits no longer than its timeout and the
\* delay of what was still on its way, although each late message, one that it ignores
\* included, starts the timeout anew.
SilenceNoticedInTime == quiet <= Timeout + MaxDelay

\* Both loops return when they are cancelled, also while both directions are full,
\* if only the acks are read.
CancelledReturns ==
    []<>(acks < Window) =>
        \A loop \in {"sender", "responder"} :
            (loop \in cancelled) ~> (IF loop = "sender" THEN sender = "done"
                                     ELSE responder = "done")
=============================================================================
