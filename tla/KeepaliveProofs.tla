--------------------------- MODULE KeepaliveProofs ---------------------------
(***************************************************************************)
(* Theorems about the keepalive exchange, for every interval, timeout,     *)
(* delay and window of the assumption.                                     *)
(***************************************************************************)
EXTENDS Keepalive, TLAPS

(***************************************************************************)
(* Why a live peer is never given up: while the responder waits, the time  *)
(* its timeout has been running is at most the sender's sleep and head     *)
(* start plus the age of the oldest message on its way.  What remains of   *)
(* the sleep and what has passed of the timeout add up to a constant.      *)
(***************************************************************************)
Expected == responder = "waiting" /\ conn = "up" /\ sender # "done"

NextIsDue ==
    /\ flight = <<>> /\ sender = "sleeping" => idle + nap <= Interval + MaxSkew
    /\ flight = <<>> /\ sender = "sending"  => idle <= Interval + MaxSkew
    /\ flight # <<>> => idle <= Interval + MaxSkew + Head(flight).age

OnTime == Expected => NextIsDue

(***************************************************************************)
(* Why a peer that has stopped is given up in time: what the responder may *)
(* still hear was sent before, so it is at least as old as the silence,    *)
(* and no message gets older than MaxDelay without being read.  The last   *)
(* of them restarts the timeout, after a silence of MaxDelay at most.      *)
(* Nothing follows what the owner of the sender's loop sends when it       *)
(* leaves, and that ends the responder.                                    *)
(***************************************************************************)
LeaveIsLast ==
    \A i \in 1..Len(flight) :
        /\ flight[i].kind # "Keepalive" => sender = "done"
        /\ Leaves(flight[i]) => i = Len(flight)

OnlyOldNews ==
    conn = "up" /\ responder # "done" =>
        \A i \in 1..Len(flight) : ~ Leaves(flight[i]) => quiet <= flight[i].age

SilenceCounted ==
    /\ ~ PeerStopped => quiet = 0
    /\ responder = "waiting" => quiet <= idle + MaxDelay
    /\ responder = "acking"  => quiet <= MaxDelay

InTime == LeaveIsLast /\ OnlyOldNews /\ SilenceCounted /\ SilenceNoticedInTime

IInv == TypeOK /\ OnTime /\ LivePeerKept /\ InTime
-----------------------------------------------------------------------------
(* Sequences of messages *)

\* Receiving takes the oldest message off the stream.
LEMMA TailFacts ==
    ASSUME NEW q \in Seq(Messages), q # <<>>
    PROVE  /\ Len(q) \in Nat \ {0} /\ Head(q) \in Messages
           /\ Head(q) = q[1] /\ 1 \in 1..Len(q)
           /\ Tail(q) \in Seq(Messages) /\ Len(Tail(q)) = Len(q) - 1
           /\ \A i \in 1..Len(Tail(q)) : Tail(q)[i] = q[i + 1]
  OBVIOUS

\* Sending leaves the oldest message the oldest.
LEMMA AppendFacts ==
    ASSUME NEW q \in Seq(Messages), NEW m \in Messages
    PROVE  /\ Len(q) \in Nat /\ Append(q, m) # <<>>
           /\ Append(q, m) \in Seq(Messages) /\ Len(Append(q, m)) = Len(q) + 1
           /\ Head(Append(q, m)) = IF q = <<>> THEN m ELSE Head(q)
           /\ Append(q, m)[Len(q) + 1] = m
           /\ \A i \in 1..Len(q) : Append(q, m)[i] = q[i]
<1>1. /\ Len(q) \in Nat /\ Append(q, m) # <<>>
      /\ Append(q, m) \in Seq(Messages) /\ Len(Append(q, m)) = Len(q) + 1
      /\ Head(Append(q, m)) = IF q = <<>> THEN m ELSE Head(q)
  OBVIOUS
<1>2. /\ Append(q, m)[Len(q) + 1] = m
      /\ \A i \in 1..Len(q) : Append(q, m)[i] = q[i]
  OBVIOUS
<1>. QED
  BY <1>1, <1>2

\* A message that is sent is a new one.
LEMMA NewMessage ==
    ASSUME NEW k \in Kinds
    PROVE  [kind |-> k, age |-> 0] \in Messages
  BY KeepaliveAssumption DEF KeepaliveAssumption, Messages

\* With time every message gets older, by one until it is as old as it may be.
LEMMA OlderFacts ==
    ASSUME NEW m \in Messages
    PROVE  /\ Older(m) \in Messages
           /\ m.age \in Nat /\ m.age <= MaxDelay
           /\ m.age # MaxDelay => Older(m).age = m.age + 1
           /\ m.age = MaxDelay => Older(m).age = MaxDelay
           /\ Older(m).kind = m.kind
  BY KeepaliveAssumption DEF KeepaliveAssumption, Messages, Older

LEMMA OlderSequence ==
    ASSUME NEW q \in Seq(Messages), NEW r, r = [i \in 1..Len(q) |-> Older(q[i])]
    PROVE  /\ r \in Seq(Messages) /\ Len(r) = Len(q)
           /\ r = <<>> <=> q = <<>>
           /\ q # <<>> => Head(r) = Older(Head(q))
           /\ \A i \in 1..Len(q) : r[i] = Older(q[i]) /\ q[i] \in Messages
<1>1. \A i \in 1..Len(q) : Older(q[i]) \in Messages
  BY OlderFacts
<1>2. r \in Seq(Messages) /\ Len(r) = Len(q)
  BY <1>1
<1>3. q # <<>> => Head(q) = q[1] /\ Head(r) = r[1] /\ 1 \in 1..Len(q)
  BY <1>2
<1>. QED
  BY <1>2, <1>3
-----------------------------------------------------------------------------
(* The steps *)

LEMMA InitIInv == Init => IInv
<1>1. SUFFICES ASSUME Init PROVE IInv
  OBVIOUS
<1>2. flight \in Seq(Messages) /\ Len(flight) = 0
  BY <1>1 DEF Init
<1>3. TypeOK
  BY <1>1, <1>2, KeepaliveAssumption DEF Init, TypeOK, Results, KeepaliveAssumption, Horizon
<1>4. InTime
  BY <1>1, <1>2, KeepaliveAssumption
     DEF Init, InTime, LeaveIsLast, OnlyOldNews, SilenceCounted, SilenceNoticedInTime,
         KeepaliveAssumption
<1>. QED
  BY <1>1, <1>3, <1>4, KeepaliveAssumption
     DEF Init, IInv, OnTime, Expected, NextIsDue, LivePeerKept, KeepaliveAssumption

\* Every step keeps the types; flow control bounds both directions.
LEMMA StepTypeOK ==
    ASSUME TypeOK, Next
    PROVE  TypeOK'
<1>. USE KeepaliveAssumption
     DEF TypeOK, Results, link, ping, pong, KeepaliveAssumption, Horizon
<1>1. CASE SendKeepalive
  BY <1>1, AppendFacts, NewMessage DEF SendKeepalive, CanSend, Kinds
<1>2. CASE Wake \/ SendFails \/ StopSending
  BY <1>2 DEF Wake, SendFails, StopSending
<1>3. CASE Recv
  BY <1>3, TailFacts DEF Recv, Return
<1>4. CASE SendAck
  BY <1>4 DEF SendAck, CanAck, Restart
<1>5. CASE RespondFails \/ TimesOut \/ StopResponding
  BY <1>5 DEF RespondFails, TimesOut, StopResponding, Return
<1>6. CASE \E kind \in {"Other", "Disconnect", "End"} : OwnerSends(kind)
  <2>1. PICK kind \in Kinds : OwnerSends(kind)
    BY <1>6 DEF Kinds
  <2>2. flight' \in Seq(Messages) /\ Len(flight') <= Window
    BY <2>1, AppendFacts, NewMessage DEF OwnerSends
  <2>3. quiet' \in 0..Horizon
    BY <2>1 DEF OwnerSends
  <2>. QED
    BY <2>1, <2>2, <2>3 DEF OwnerSends
<1>7. CASE ReadAck \/ FallSilent \/ Close
  <2>1. CASE ReadAck
    <3>1. acks' \in 0..Window
      BY <2>1 DEF ReadAck
    <3>. QED
      BY <2>1, <3>1 DEF ReadAck
  <2>2. CASE FallSilent \/ Close
    BY <2>2 DEF FallSilent, Close
  <2>. QED
    BY <1>7, <2>1, <2>2
<1>9. CASE \E loop \in {"sender", "responder"} : Cancel(loop)
  <2>1. cancelled' \subseteq {"sender", "responder"}
    BY <1>9 DEF Cancel
  <2>. QED
    BY <1>9, <2>1 DEF Cancel
<1>8. CASE Tick
  <2>1. flight' \in Seq(Messages) /\ Len(flight') <= Window
    BY <1>8, OlderSequence DEF Tick
  <2>2. nap' \in 0..(Interval + MaxSkew) /\ idle' \in 0..Timeout
    BY <1>8 DEF Tick, Due
  <2>3. quiet' \in 0..Horizon
    BY <1>8 DEF Tick
  <2>. QED
    BY <1>8, <2>1, <2>2, <2>3 DEF Tick
<1>. QED
  BY <1>1, <1>2, <1>3, <1>4, <1>5, <1>6, <1>7, <1>8, <1>9
     DEF Next, SenderStep, ResponderStep, Environment

\* Every step keeps the next message on time.
LEMMA StepOnTime ==
    ASSUME TypeOK, OnTime, LeaveIsLast, Next
    PROVE  OnTime'
<1>1. SUFFICES ASSUME Expected' PROVE NextIsDue'
  BY DEF OnTime
<1>. USE <1>1, KeepaliveAssumption
     DEF TypeOK, OnTime, Expected, NextIsDue, link, ping, pong, KeepaliveAssumption
<1>2. CASE SendKeepalive
  <2>1. /\ flight' # <<>>
        /\ Head(flight').age = IF flight = <<>> THEN 0 ELSE Head(flight).age
    BY <1>2, AppendFacts, NewMessage DEF SendKeepalive
  <2>2. Expected /\ idle' = idle /\ sender = "sending"
    BY <1>2 DEF SendKeepalive, CanSend
  <2>. QED
    BY <2>1, <2>2
<1>3. CASE Wake
  BY <1>3 DEF Wake
<1>4. CASE SendFails \/ StopSending \/ \E kind \in {"Other", "Disconnect", "End"} : OwnerSends(kind)
  BY <1>4 DEF SendFails, StopSending, OwnerSends
<1>5. CASE RespondFails \/ TimesOut \/ StopResponding
  BY <1>5 DEF RespondFails, TimesOut, StopResponding, Return
<1>9. CASE Recv
  <2>1. /\ flight # <<>> /\ sender' = sender
        /\ Head(flight).kind = "Keepalive" => responder' = "acking"
    BY <1>9 DEF Recv
  <2>2. Head(flight).kind = "Keepalive"
    BY <2>1, TailFacts DEF LeaveIsLast
  <2>. QED
    BY <2>1, <2>2
<1>6. CASE SendAck
  <2>1. idle' = 0 /\ UNCHANGED <<sender, nap, flight>>
    BY <1>6 DEF SendAck, Restart
  <2>2. flight # <<>> => Head(flight).age \in Nat
    BY TailFacts, OlderFacts
  <2>. QED
    BY <2>1, <2>2
<1>7. CASE ReadAck \/ FallSilent \/ Close \/ \E loop \in {"sender", "responder"} : Cancel(loop)
  BY <1>7 DEF ReadAck, FallSilent, Close, Cancel
<1>8. CASE Tick
  <2>1. Expected /\ idle' = idle + 1 /\ UNCHANGED sender
        /\ nap' = IF sender = "sleeping" THEN nap - 1 ELSE nap
    BY <1>8 DEF Tick
  <2>2. flight' = <<>> <=> flight = <<>>
    BY <1>8, OlderSequence DEF Tick
  <2>3. flight # <<>> => Head(flight').age = Head(flight).age + 1 /\ Head(flight).age \in Nat
    BY <1>8, <2>1, OlderSequence, OlderFacts, TailFacts DEF Tick, Due
  <2>4. ~ (flight = <<>> /\ sender = "sending")
    BY <1>8, <2>1 DEF Tick, Due, CanSend
  <2>. QED
    BY <2>1, <2>2, <2>3, <2>4
<1>. QED
  BY <1>2, <1>3, <1>4, <1>5, <1>6, <1>7, <1>8, <1>9
     DEF Next, SenderStep, ResponderStep, Environment

\* The only step that can give a peer up finds that it is not expected any more.
LEMMA StepKept ==
    ASSUME TypeOK, OnTime, LivePeerKept, Next
    PROVE  LivePeerKept'
<1>. USE DEF LivePeerKept, PeerStopped, link, ping, pong
<1>1. CASE SenderStep \/ StopSending \/ Environment \/ Tick
  BY <1>1 DEF SenderStep, Wake, SendKeepalive, SendFails, CanSend, StopSending, Environment, OwnerSends,
     Cancel, ReadAck, FallSilent, Close, Tick
<1>2. CASE Recv \/ SendAck \/ RespondFails \/ StopResponding
  BY <1>2 DEF Recv, SendAck, RespondFails, StopResponding, Return
<1>3. CASE TimesOut
  <2>1. SUFFICES ASSUME sender # "done", conn = "up" PROVE FALSE
    BY <1>3 DEF TimesOut
  <2>2. idle = Timeout /\ NextIsDue
    BY <1>3, <2>1 DEF TimesOut, OnTime, Expected
  <2>3. flight # <<>> => Head(flight).age \in Nat /\ Head(flight).age <= MaxDelay
    BY TailFacts, OlderFacts DEF TypeOK
  <2>. QED
    BY <2>1, <2>2, <2>3, KeepaliveAssumption DEF TypeOK, NextIsDue, KeepaliveAssumption
<1>. QED
  BY <1>1, <1>2, <1>3 DEF Next, ResponderStep

\* The sender and its owner add to the end of the stream: a Keepalive only while no
\* silence is counted, and anything else only after the last Keepalive.
LEMMA SendInTime ==
    ASSUME TypeOK, InTime,
           SendKeepalive \/ \E kind \in {"Other", "Disconnect", "End"} : OwnerSends(kind)
    PROVE  InTime'
<1>1. PICK kind \in Kinds :
          flight' = Append(flight, [kind |-> kind, age |-> 0])
          /\ (kind = "Keepalive" => SendKeepalive) /\ (kind # "Keepalive" => OwnerSends(kind))
  BY DEF SendKeepalive, OwnerSends, Kinds
<1>. DEFINE m == [kind |-> kind, age |-> 0]
<1>2. m \in Messages /\ m.kind = kind /\ m.age = 0
  BY NewMessage
<1>3. /\ Len(flight) \in Nat /\ Len(flight') = Len(flight) + 1
      /\ flight'[Len(flight) + 1] = m
      /\ \A i \in 1..Len(flight) : flight'[i] = flight[i]
  BY <1>1, <1>2, AppendFacts DEF TypeOK
<1>. HIDE DEF m
<1>4. /\ UNCHANGED <<conn, responder, idle>> /\ (sender = "done" <=> sender' = "done")
      /\ quiet' = IF kind = "Other" /\ conn = "up" THEN 0 ELSE quiet
  BY <1>1 DEF SendKeepalive, CanSend, OwnerSends, link, ping, pong
<1>5. /\ kind = "Keepalive" => sender # "done"
      /\ kind # "Keepalive" => sender = "done"
      /\ \A i \in 1..Len(flight) : ~ Leaves(flight[i])
  <2>1. kind # "Keepalive" => \A i \in 1..Len(flight) : ~ Leaves(flight[i])
    BY <1>1 DEF OwnerSends, TypeOK
  <2>2. kind = "Keepalive" => sender # "done"
    BY <1>1 DEF SendKeepalive, CanSend
  <2>3. kind = "Keepalive" => \A i \in 1..Len(flight) : ~ Leaves(flight[i])
    BY <2>2 DEF InTime, LeaveIsLast, Leaves
  <2>. QED
    BY <1>1, <2>1, <2>2, <2>3 DEF OwnerSends
<1>6. ASSUME NEW i \in 1..Len(flight')
      PROVE  i \in 1..Len(flight) \/ (i = Len(flight) + 1 /\ i = Len(flight'))
  BY <1>3
<1>7. LeaveIsLast'
  BY <1>2, <1>3, <1>4, <1>5, <1>6 DEF InTime, LeaveIsLast, Leaves
<1>8. OnlyOldNews'
  <2>1. SUFFICES ASSUME conn = "up", responder # "done", NEW i \in 1..Len(flight'),
                        ~ Leaves(flight'[i])
                 PROVE  quiet' <= flight'[i].age
    BY <1>4 DEF OnlyOldNews, Leaves
  <2>2. quiet' = 0 \/ (kind \notin {"Keepalive", "Other"} /\ quiet' = quiet)
    BY <1>4, <1>5, <2>1 DEF InTime, SilenceCounted, PeerStopped
  <2>3. CASE i = Len(flight) + 1
    <3>1. kind \in {"Keepalive", "Other"} /\ flight'[i].age = 0
      BY <1>2, <1>3, <2>1, <2>3 DEF Leaves, Kinds
    <3>. QED
      BY <2>2, <3>1
  <2>4. CASE i \in 1..Len(flight)
    <3>1. flight'[i] = flight[i] /\ flight[i].age \in Nat
      BY <1>3, <2>4, OlderFacts DEF TypeOK
    <3>2. quiet <= flight[i].age
      BY <2>1, <2>4, <3>1 DEF InTime, OnlyOldNews
    <3>. QED
      BY <2>2, <3>1, <3>2
  <2>. QED
    BY <1>6, <2>3, <2>4
<1>9. SilenceCounted' /\ SilenceNoticedInTime'
  BY <1>4, KeepaliveAssumption
     DEF InTime, SilenceCounted, SilenceNoticedInTime, PeerStopped, TypeOK, KeepaliveAssumption
<1>. QED
  BY <1>7, <1>8, <1>9 DEF InTime

\* What the responder receives was sent before the silence.
LEMMA RecvInTime ==
    ASSUME TypeOK, InTime, Recv
    PROVE  InTime'
<1>1. /\ flight' = Tail(flight) /\ flight # <<>> /\ responder = "waiting" /\ conn = "up"
      /\ UNCHANGED <<conn, sender, quiet>>
      /\ responder' = "done" \/ ~ Leaves(Head(flight))
      /\ responder' \in {"waiting", "acking", "done"}
      /\ responder' = "waiting" => idle' = 0
  BY DEF Recv, Return, Leaves, link, ping
<1>2. /\ Len(flight) \in Nat \ {0} /\ Len(flight') = Len(flight) - 1
      /\ Head(flight) = flight[1] /\ 1 \in 1..Len(flight) /\ Head(flight) \in Messages
      /\ \A i \in 1..Len(flight') : flight'[i] = flight[i + 1]
  BY <1>1, TailFacts DEF TypeOK
<1>3. ASSUME NEW i \in 1..Len(flight')
      PROVE  /\ i + 1 \in 1..Len(flight) /\ flight'[i] = flight[i + 1]
             /\ i + 1 = Len(flight) => i = Len(flight')
  BY <1>2
<1>4. LeaveIsLast' /\ OnlyOldNews'
  BY <1>1, <1>3 DEF InTime, LeaveIsLast, OnlyOldNews
<1>5. responder' # "done" => quiet <= MaxDelay
  <2>1. responder' # "done" => quiet <= flight[1].age
    BY <1>1, <1>2 DEF InTime, OnlyOldNews
  <2>2. flight[1].age \in Nat /\ flight[1].age <= MaxDelay
    BY <1>2, OlderFacts
  <2>. QED
    BY <2>1, <2>2, KeepaliveAssumption DEF TypeOK, KeepaliveAssumption, Horizon
<1>6. SilenceCounted' /\ SilenceNoticedInTime'
  BY <1>1, <1>5, KeepaliveAssumption
     DEF InTime, SilenceCounted, SilenceNoticedInTime, PeerStopped, KeepaliveAssumption, TypeOK, Horizon
<1>. QED
  BY <1>4, <1>6 DEF InTime

\* Time passes only while the oldest message may still be late.
LEMMA TickInTime ==
    ASSUME TypeOK, InTime, Tick
    PROVE  InTime'
<1>. USE KeepaliveAssumption DEF KeepaliveAssumption
<1>1. /\ UNCHANGED <<conn, sender, responder>>
      /\ flight' = [i \in 1..Len(flight) |-> Older(flight[i])]
      /\ flight \in Seq(Messages) /\ quiet \in Nat /\ idle \in Nat
  BY DEF TypeOK, Tick, link, Horizon
<1>2. /\ Len(flight) \in Nat /\ Len(flight') = Len(flight)
      /\ \A i \in 1..Len(flight) :
             /\ flight'[i] = Older(flight[i]) /\ flight[i] \in Messages
  BY <1>1, OlderSequence
<1>3. \A i \in 1..Len(flight) :
          /\ flight'[i].kind = flight[i].kind
          /\ flight[i].age \in Nat /\ flight[i].age <= MaxDelay
          /\ flight'[i].age = IF flight[i].age = MaxDelay THEN MaxDelay ELSE flight[i].age + 1
  BY <1>2, OlderFacts
<1>4. /\ quiet' \in Nat /\ quiet' <= quiet + 1
      /\ quiet' # quiet => PeerStopped /\ responder = "waiting"
      /\ responder = "waiting" => idle' = idle + 1 /\ idle < Timeout
      /\ responder # "waiting" => idle' = idle
  BY <1>1 DEF TypeOK, Tick, Due, Horizon
<1>5. LeaveIsLast'
  BY <1>1, <1>2, <1>3 DEF InTime, LeaveIsLast, Leaves
<1>6. OnlyOldNews'
  <2>1. SUFFICES ASSUME conn = "up", responder # "done", NEW i \in 1..Len(flight),
                        ~ Leaves(flight[i])
                 PROVE  quiet' <= flight'[i].age
    BY <1>1, <1>2, <1>3 DEF OnlyOldNews, Leaves
  <2>2. quiet <= flight[i].age
    BY <2>1 DEF InTime, OnlyOldNews
  <2>3. CASE flight[i].age # MaxDelay
    BY <1>1, <1>3, <1>4, <2>2, <2>3
  <2>4. CASE quiet' = quiet
    BY <1>1, <1>3, <2>2, <2>4
  <2>5. CASE flight[i].age = MaxDelay /\ quiet' # quiet
    <3>1. flight # <<>> /\ Head(flight) = flight[1] /\ 1 \in 1..Len(flight)
      BY <1>1, <1>2
    <3>2. flight[1].age # MaxDelay
      BY <1>4, <2>1, <2>5, <3>1 DEF Tick, Due
    <3>3. ~ Leaves(flight[1])
      <4>1. i # 1
        BY <2>5, <3>2
      <4>. QED
        BY <1>2, <3>1, <4>1 DEF InTime, LeaveIsLast
    <3>4. quiet <= flight[1].age
      BY <2>1, <3>1, <3>3 DEF InTime, OnlyOldNews
    <3>. QED
      BY <1>1, <1>3, <1>4, <2>5, <3>1, <3>2, <3>4
  <2>. QED
    BY <2>3, <2>4, <2>5
<1>7. SilenceCounted'
  BY <1>1, <1>4 DEF InTime, SilenceCounted, PeerStopped
<1>8. SilenceNoticedInTime'
  BY <1>1, <1>4 DEF InTime, SilenceCounted, SilenceNoticedInTime, TypeOK
<1>. QED
  BY <1>5, <1>6, <1>7, <1>8 DEF InTime

\* Every step keeps the silence within its bound.
LEMMA StepInTime ==
    ASSUME TypeOK, InTime, Next
    PROVE  InTime'
<1>1. CASE SendKeepalive \/ \E kind \in {"Other", "Disconnect", "End"} : OwnerSends(kind)
  BY <1>1, SendInTime
<1>2. CASE Recv
  BY <1>2, RecvInTime
<1>3. CASE Tick
  BY <1>3, TickInTime
<1>4. ASSUME UNCHANGED <<flight, quiet>>,
             conn' = "up" => conn = "up", responder' # "done" => responder # "done",
             sender = "done" => sender' = "done", SilenceCounted'
      PROVE  InTime'
  BY <1>4 DEF InTime, LeaveIsLast, OnlyOldNews, SilenceNoticedInTime
<1>. USE DEF InTime, SilenceCounted, PeerStopped, link, ping, pong
<1>5. CASE Wake \/ SendFails \/ StopSending
  BY <1>4, <1>5 DEF Wake, SendFails, StopSending
<1>6. CASE SendAck
  BY <1>4, <1>6, KeepaliveAssumption DEF SendAck, CanAck, Restart, KeepaliveAssumption, TypeOK
<1>7. CASE RespondFails \/ TimesOut \/ StopResponding
  BY <1>4, <1>7 DEF RespondFails, TimesOut, StopResponding, Return
<1>8. CASE ReadAck \/ FallSilent \/ Close \/ \E loop \in {"sender", "responder"} : Cancel(loop)
  BY <1>4, <1>8 DEF ReadAck, FallSilent, Close, Cancel
<1>. QED
  BY <1>1, <1>2, <1>3, <1>5, <1>6, <1>7, <1>8
     DEF Next, SenderStep, ResponderStep, Environment

\* The invariant holds in every reachable state.
THEOREM Invariance == Spec => []IInv
<1>1. Init => IInv
  BY InitIInv
<1>2. IInv /\ [Next]_vars => IInv'
  <2>1. CASE UNCHANGED vars /\ IInv
    BY <2>1 DEF vars, link, ping, pong, IInv, TypeOK, OnTime, Expected, NextIsDue, LivePeerKept,
         PeerStopped, InTime, LeaveIsLast, OnlyOldNews, SilenceCounted, SilenceNoticedInTime
  <2>2. CASE Next /\ IInv
    BY <2>2, StepTypeOK, StepOnTime, StepKept, StepInTime DEF IInv, InTime
  <2>. QED
    BY <2>1, <2>2
<1>. QED
  BY <1>1, <1>2, PTL DEF Spec

\* Every reachable state of the two loops and their stream is well typed.
THEOREM TypeCorrect == Spec => []TypeOK
<1>1. IInv => TypeOK
  BY DEF IInv
<1>. QED
  BY <1>1, Invariance, PTL

\* With a timeout longer than interval, head start and delay together, a peer that
\* runs and can be reached is never given up (run_keepalive_responder).
THEOREM LivePeersAreKept == Spec => []LivePeerKept
<1>1. IInv => LivePeerKept
  BY DEF IInv
<1>. QED
  BY <1>1, Invariance, PTL

\* A peer that has stopped, or can no longer be reached, is given up after the timeout and
\* the longest delay of a message at the latest, not counting the time that the responder
\* spends in a send (run_keepalive_responder).
THEOREM SilenceIsNoticedInTime == Spec => []SilenceNoticedInTime
<1>1. IInv => SilenceNoticedInTime
  BY DEF IInv, InTime
<1>. QED
  BY <1>1, Invariance, PTL
=============================================================================
