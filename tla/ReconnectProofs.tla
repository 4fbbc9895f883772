---------------------------- MODULE ReconnectProofs ----------------------------
(***************************************************************************)
(* Theorems about Reconnect, for every backoff range, attempt length and   *)
(* timeout.                                                                *)
(***************************************************************************)
EXTENDS Reconnect, TLAPS

(***************************************************************************)
(* GivesUpOnTime is not inductive: it must be known how much of the time   *)
(* without a session had already passed when the present phase began.      *)
(* That is less than the timeout for a sleep (the loop would have given    *)
(* up), and each phase adds at most its own limit.  The loop compares      *)
(* elapsed, which is never behind down.                                    *)
(***************************************************************************)
ElapsedCoversDown ==
    phase # "returned" /\ down # None => elapsed # None /\ down <= elapsed

PhasePaced ==
    reconnect_timeout # 0 /\ down # None =>
        /\ phase = "sleeping"   => down < spent + reconnect_timeout
        /\ phase = "connecting" => down < spent + reconnect_timeout + MAX_BACKOFF
        /\ phase = "setup"      => down < spent + reconnect_timeout + MAX_BACKOFF + MaxAttempt

NoSessionNoLoss == phase = "session" => down = None

IInv == TypeOK /\ ElapsedCoversDown /\ PhasePaced /\ NoSessionNoLoss

\* The three facts about the numbers of the constants that the steps use.
LEMMA Constants ==
    /\ INITIAL_BACKOFF \in Nat /\ MAX_BACKOFF \in Nat /\ MaxAttempt \in Nat
    /\ 0 < INITIAL_BACKOFF /\ INITIAL_BACKOFF <= MAX_BACKOFF
    /\ Timeouts \subseteq Nat
  BY ReconnectAssumption DEF ReconnectAssumption

\* An age stays an age, and grows by at most one.
LEMMA OlderIsAge ==
    ASSUME TypeOK, NEW age \in Ages
    PROVE  /\ Older(age) \in Ages
           /\ (Older(age) = None) <=> (age = None)
           /\ Older(age) <= age + 1
           /\ age <= Older(age)
  BY Constants DEF TypeOK, Ages, Older, None, Horizon

\* A clock that is ahead of another one stays ahead.
LEMMA OlderIsMonotone ==
    ASSUME TypeOK, NEW a \in 0..Horizon, NEW b \in 0..Horizon, a <= b
    PROVE  Older(a) <= Older(b)
  BY Constants DEF TypeOK, Older, None, Horizon

\* The doubled backoff stays in its range.
LEMMA NextBackoffInRange ==
    ASSUME TypeOK
    PROVE  NextBackoff \in INITIAL_BACKOFF..MAX_BACKOFF
  BY Constants DEF TypeOK, NextBackoff

\* The initial state satisfies the invariant.
LEMMA InitIInv == Init => IInv
<1>1. SUFFICES ASSUME Init PROVE IInv
  OBVIOUS
<1>2. TypeOK
  <2>1. Limit = MaxAttempt /\ None \in Ages
    BY <1>1 DEF Init, Limit, Ages
  <2>2. backoff \in INITIAL_BACKOFF..MAX_BACKOFF /\ spent \in 0..Limit
    BY <1>1, <2>1, Constants DEF Init
  <2>. QED
    BY <1>1, <2>1, <2>2 DEF Init, TypeOK
<1>. QED
  BY <1>1, <1>2 DEF Init, IInv, ElapsedCoversDown, PhasePaced, NoSessionNoLoss

\* The passing of time preserves it.
LEMMA TickIInv ==
    ASSUME IInv, Tick
    PROVE  IInv'
<1>1. TypeOK /\ UNCHANGED <<reconnect_timeout, token, gone, phase, backoff, result>>
  BY DEF IInv, Tick
<1>2. Horizon' = Horizon /\ Ages' = Ages /\ Limit' = Limit /\ None' = None
  BY <1>1 DEF Horizon, Ages, Limit, None
<1>3. elapsed \in Ages /\ down \in Ages /\ elapsed' = Older(elapsed) /\ down' = Older(down)
  BY <1>1 DEF TypeOK, Tick
<1>4. spent' \in 0..Limit
  BY <1>1, <1>2, Constants DEF TypeOK, Tick, Limit
<1>5. TypeOK'
  BY <1>1, <1>2, <1>3, <1>4, OlderIsAge DEF TypeOK
<1>6. ElapsedCoversDown'
  <2>1. SUFFICES ASSUME phase' # "returned", down' # None
                 PROVE  elapsed' # None /\ down' <= elapsed'
    BY <1>2 DEF ElapsedCoversDown
  <2>2. phase # "returned" /\ down # None
    BY <2>1, <1>1, <1>3, OlderIsAge
  <2>3. elapsed # None /\ down <= elapsed
    BY <2>2 DEF IInv, ElapsedCoversDown
  <2>4. down \in 0..Horizon /\ elapsed \in 0..Horizon
    BY <1>3, <2>2, <2>3 DEF Ages, None
  <2>. QED
    BY <1>1, <1>3, <2>3, <2>4, OlderIsMonotone, OlderIsAge
<1>7. PhasePaced'
  <2>1. SUFFICES ASSUME reconnect_timeout' # 0, down' # None
                 PROVE  /\ phase' = "sleeping"   => down' < spent' + reconnect_timeout'
                        /\ phase' = "connecting" => down' < spent' + reconnect_timeout' + MAX_BACKOFF
                        /\ phase' = "setup"      => down' < spent' + reconnect_timeout' + MAX_BACKOFF + MaxAttempt
    BY <1>2 DEF PhasePaced
  <2>2. down # None /\ down' <= down + 1 /\ down \in Int /\ down' \in Int
    BY <2>1, <1>1, <1>2, <1>3, <1>5, OlderIsAge, Constants DEF Ages, None, Horizon, TypeOK
  <2>3. phase # "session" => spent' = spent + 1
    BY DEF Tick
  <2>4. PhasePaced /\ reconnect_timeout # 0
    BY <2>1, <1>1 DEF IInv
  <2>5. spent \in Int /\ reconnect_timeout \in Int
    BY <1>1, <1>4, Constants DEF TypeOK, Limit, Horizon
  <2>. QED
    BY <1>1, <2>2, <2>3, <2>4, <2>5, Constants DEF PhasePaced
<1>8. NoSessionNoLoss'
  BY <1>1, <1>2, <1>3, OlderIsAge DEF IInv, NoSessionNoLoss
<1>. QED
  BY <1>5, <1>6, <1>7, <1>8 DEF IInv

\* A failed attempt, or the loss of a session, preserves it: the loop sleeps only
\* while elapsed is less than the timeout.
LEMMA FailIInv ==
    ASSUME IInv, Fail
    PROVE  IInv'
<1>1. /\ TypeOK /\ ElapsedCoversDown
      /\ Failure /\ UNCHANGED <<reconnect_timeout, token, gone, backoff>>
      /\ phase # "returned"
  BY DEF IInv, Fail, Failure
<1>2. Horizon' = Horizon /\ Ages' = Ages /\ 0 \in Ages
  BY <1>1, Constants DEF Horizon, Ages, TypeOK
<1>3. spent' = 0 /\ phase' \in {"returned", "sleeping"}
  BY <1>1 DEF Failure, Return, Enter
<1>4. elapsed' \in Ages /\ down' \in Ages
  BY <1>1, <1>2 DEF Failure, SinceFirst, TypeOK
<1>5. 0 \in 0..Limit'
  BY <1>1, <1>3, Constants DEF Limit, TypeOK
<1>6. TypeOK'
  BY <1>1, <1>2, <1>3, <1>4, <1>5 DEF TypeOK, Failure, Return, Enter
<1>7. ASSUME phase' = "sleeping"
      PROVE  /\ elapsed' # None /\ down' # None /\ down' <= elapsed'
             /\ reconnect_timeout # 0 => elapsed' < reconnect_timeout
  BY <1>1, <1>4, <1>7, Constants
     DEF Failure, Return, Enter, SinceFirst, ElapsedCoversDown, TypeOK, Ages, Horizon, None
<1>8. ElapsedCoversDown' /\ PhasePaced' /\ NoSessionNoLoss'
  <2>1. reconnect_timeout' = reconnect_timeout /\ reconnect_timeout \in Int
        /\ elapsed' \in Int /\ down' \in Int
    BY <1>1, <1>4, Constants DEF TypeOK, Ages, Horizon, None
  <2>2. CASE phase' = "returned"
    BY <2>2 DEF ElapsedCoversDown, PhasePaced, NoSessionNoLoss
  <2>3. CASE phase' = "sleeping"
    <3>1. ElapsedCoversDown' /\ NoSessionNoLoss'
      BY <2>3, <1>7 DEF ElapsedCoversDown, NoSessionNoLoss, None
    <3>2. ASSUME reconnect_timeout # 0
          PROVE  down' < spent' + reconnect_timeout'
      <4>1. down' <= elapsed' /\ elapsed' < reconnect_timeout
        BY <2>3, <1>7, <3>2
      <4>. QED
        BY <4>1, <1>3, <2>1
    <3>3. PhasePaced'
      BY <2>1, <2>3, <3>2 DEF PhasePaced
    <3>. QED
      BY <3>1, <3>3
  <2>. QED
    BY <1>3, <2>2, <2>3
<1>. QED
  BY <1>6, <1>8 DEF IInv

\* The other steps of the loop preserve it.
LEMMA StepIInv ==
    ASSUME IInv,
           Cancel \/ RendererGone \/ CancelConnect \/ Connected \/ StartSession
             \/ EndSession \/ Wake \/ CancelSleep
    PROVE  IInv'
<1>. USE Constants DEF IInv, TypeOK, ElapsedCoversDown, PhasePaced, NoSessionNoLoss,
         Ages, Horizon, Limit, None, loop
<1>1. CASE Cancel \/ RendererGone
  BY <1>1 DEF Cancel, RendererGone
<1>2. CASE CancelConnect
  BY <1>2 DEF CancelConnect, Success, Return, Enter
<1>3. CASE Connected
  BY <1>3 DEF Connected, Enter
<1>4. CASE StartSession
  BY <1>4 DEF StartSession, Enter
<1>5. CASE EndSession
  BY <1>5 DEF EndSession, Success, Return, Enter
<1>6. CASE Wake
  BY <1>6, NextBackoffInRange DEF Wake, Return, Enter
<1>7. CASE CancelSleep
  BY <1>7 DEF CancelSleep, Return, Enter
<1>. QED
  BY <1>1, <1>2, <1>3, <1>4, <1>5, <1>6, <1>7

\* The inductive invariant holds in every reachable state.
LEMMA IInvHolds == Spec => []IInv
<1>1. IInv /\ [Next]_vars => IInv'
  <2>1. SUFFICES ASSUME IInv, [Next]_vars PROVE IInv'
    OBVIOUS
  <2>2. CASE UNCHANGED vars
    BY <2>1, <2>2 DEF vars, IInv, TypeOK, ElapsedCoversDown, PhasePaced, NoSessionNoLoss,
         Ages, Horizon, Limit
  <2>. QED
    BY <2>1, <2>2, TickIInv, FailIInv, StepIInv DEF Next
<1>. QED
  BY InitIInv, <1>1, PTL DEF Spec

\* Every variable keeps its type; the backoff and every wait stay in their range.
THEOREM TypeCorrect == Spec => []TypeOK
  BY IInvHolds, PTL DEF IInv

\* A client that gets no session back gives up within its timeout, the longest
\* backoff and one attempt, whatever the length of the attempts before.
THEOREM GivesUpInTime == Spec => []GivesUpOnTime
<1>1. IInv => GivesUpOnTime
  BY Constants DEF IInv, TypeOK, PhasePaced, NoSessionNoLoss, GivesUpOnTime, Ages, Horizon,
        Limit, None
<1>. QED
  BY IInvHolds, <1>1, PTL

\* Once the token is cancelled the loop does not sleep, starts no further attempt and does
\* not return an error, in whichever phase the cancellation finds it.
THEOREM CancelledLoopsWindDown == Spec => CancelledWindsDown
<1>. DEFINE Step == token => /\ phase' # phase => <<phase, phase'>> \in Onward
                             /\ result' # result => result' = "ok"
<1>1. IInv /\ [Next]_vars => Step
  <2>1. SUFFICES ASSUME TypeOK, [Next]_vars, token PROVE Step
    BY DEF IInv
  <2>. USE DEF Onward, Return, Enter
  <2>2. CASE UNCHANGED vars \/ Cancel \/ RendererGone \/ Tick
    BY <2>2 DEF vars, loop, Cancel, RendererGone, Tick
  <2>3. CASE CancelConnect \/ EndSession
    BY <2>1, <2>3 DEF CancelConnect, EndSession, Success
  <2>4. CASE Connected \/ StartSession
    BY <2>4 DEF Connected, StartSession, loop
  <2>5. CASE Fail
    BY <2>1, <2>5 DEF Fail, Failure
  <2>6. CASE Wake \/ CancelSleep
    BY <2>1, <2>6 DEF Wake, CancelSleep
  <2>. QED
    BY <2>1, <2>2, <2>3, <2>4, <2>5, <2>6 DEF Next
<1>2. IInv /\ [Next]_vars => [Step]_vars
  BY <1>1
<1>. HIDE DEF Step
<1>3. Spec => [][Step]_vars
  BY <1>2, IInvHolds, PTL DEF Spec
<1>. QED
  BY <1>3 DEF CancelledWindsDown, Step
=============================================================================
