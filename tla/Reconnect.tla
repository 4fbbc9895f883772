------------------------------- MODULE Reconnect -------------------------------
(***************************************************************************)
(* The client's reconnect loop (connect_with_reconnect around              *)
(* connect_with_handler) with its clock: the exponential backoff, the      *)
(* reconnect timeout and the cancellation of each of its phases.           *)
(*                                                                         *)
(* Time is discrete and passes only in the phases that wait; the code      *)
(* between two waits takes none.  An attempt is "connecting" (the QUIC     *)
(* handshake, raced with the token) and then "setup" (authentication and   *)
(* codec negotiation, which do not look at it); either lasts at most       *)
(* MaxAttempt, QUIC's idle timeout.  The handler returns Ok only when the  *)
(* token is cancelled or the renderer is gone.                             *)
(***************************************************************************)
EXTENDS Integers

CONSTANTS
    INITIAL_BACKOFF, MAX_BACKOFF,  \* the backoff's first value and its cap
    MaxAttempt,                    \* the longest a connecting or setup phase lasts
    Timeouts                       \* the --reconnect-timeout values, 0 for none

ASSUME ReconnectAssumption ==
    /\ INITIAL_BACKOFF \in Nat \ {0} /\ MAX_BACKOFF \in Nat
    /\ INITIAL_BACKOFF <= MAX_BACKOFF
    /\ MaxAttempt \in Nat
    /\ Timeouts \subseteq Nat

VARIABLES
    reconnect_timeout,
    token,      \* the CancellationToken
    gone,       \* the renderer has dropped frame_rx
    phase,      \* where the loop is
    spent,      \* time spent in this phase
    backoff,    \* backoff_ms
    elapsed,    \* disconnect_start.elapsed(), or None
    result,     \* what connect_with_reconnect has returned
    down        \* time without a session since the last one, or the first failure (history)

vars == <<reconnect_timeout, token, gone, phase, spent, backoff, elapsed, result, down>>
loop == <<reconnect_timeout, backoff, elapsed, result, down>>

None == -1

\* Ages are told apart up to the first one that no loop without a session reaches.
Horizon == reconnect_timeout + MAX_BACKOFF + 2 * MaxAttempt + 1
Older(age) == IF age = None \/ age = Horizon THEN age ELSE age + 1

Init ==
    /\ reconnect_timeout \in Timeouts
    /\ token = FALSE /\ gone = FALSE
    /\ phase = "connecting" /\ spent = 0
    /\ backoff = INITIAL_BACKOFF /\ elapsed = None
    /\ result = "none" /\ down = None

\* Ctrl+C, or main after the window has been closed.
Cancel ==
    /\ ~ token
    /\ token' = TRUE
    /\ UNCHANGED <<gone, phase, spent, loop>>

RendererGone ==
    /\ ~ gone
    /\ gone' = TRUE
    /\ UNCHANGED <<token, phase, spent, loop>>

\* How long a sleep or a phase of an attempt may last.
Limit == IF phase = "sleeping" THEN backoff ELSE MaxAttempt

Tick ==
    /\ phase = "session" \/ (phase # "returned" /\ spent < Limit)
    /\ spent' = IF phase = "session" THEN spent ELSE spent + 1
    /\ elapsed' = Older(elapsed) /\ down' = Older(down)
    /\ UNCHANGED <<reconnect_timeout, token, gone, phase, backoff, result>>
-----------------------------------------------------------------------------
Enter(where) == phase' = where /\ spent' = 0

Return(value) == Enter("returned") /\ result' = value

\* The attempt or the session ended in Ok.
Success ==
    /\ backoff' = INITIAL_BACKOFF /\ elapsed' = None
    /\ IF token THEN Return("ok") ELSE Enter("sleeping") /\ UNCHANGED result

\* disconnect_start.get_or_insert_with(Instant::now), in the mutant replaced.
SinceFirst_mut(age) == 0
SinceFirst(age) == IF age = None THEN 0 ELSE age

\* The attempt or the session ended in Err.
Failure_mut ==
    /\ UNCHANGED backoff
    /\ IF token
       THEN Return("ok") /\ UNCHANGED <<elapsed, down>>
       ELSE /\ elapsed' = SinceFirst(elapsed)
            /\ down' = IF down = None THEN 0 ELSE down
            /\ IF elapsed' >= reconnect_timeout
               THEN Return("err")
               ELSE Enter("sleeping") /\ UNCHANGED result
Failure ==
    /\ UNCHANGED backoff
    /\ IF token
       THEN Return("ok") /\ UNCHANGED <<elapsed, down>>
       ELSE /\ elapsed' = SinceFirst(elapsed)
            /\ down' = IF down = None THEN 0 ELSE down
            /\ IF reconnect_timeout # 0 /\ elapsed' >= reconnect_timeout
               THEN Return("err")
               ELSE Enter("sleeping") /\ UNCHANGED result

\* connect_with_handler: the token and the connection attempt are raced.
CancelConnect ==
    /\ phase = "connecting" /\ token
    /\ Success
    /\ UNCHANGED <<reconnect_timeout, token, gone, down>>

Connected ==
    /\ phase = "connecting"
    /\ Enter("setup")
    /\ UNCHANGED <<token, gone, loop>>

\* The handshake, authentication or codec negotiation fails, or the session is lost.
Fail ==
    /\ phase \in {"connecting", "setup", "session"}
    /\ Failure
    /\ UNCHANGED <<reconnect_timeout, token, gone>>

\* Frames flow again.
StartSession ==
    /\ phase = "setup"
    /\ Enter("session")
    /\ down' = None
    /\ UNCHANGED <<reconnect_timeout, token, gone, backoff, elapsed, result>>

\* run_receive_loop returns Ok.
EndSession ==
    /\ phase = "session" /\ (token \/ gone)
    /\ Success
    /\ UNCHANGED <<reconnect_timeout, token, gone, down>>

\* The sleep is over; the top of the loop looks at the token again.
NextBackoff_mut == 2 * backoff
NextBackoff == IF 2 * backoff < MAX_BACKOFF THEN 2 * backoff ELSE MAX_BACKOFF

Wake ==
    /\ phase = "sleeping" /\ spent = backoff
    /\ backoff' = NextBackoff
    /\ IF token THEN Return("ok") ELSE Enter("connecting") /\ UNCHANGED result
    /\ UNCHANGED <<reconnect_timeout, token, gone, elapsed, down>>

CancelSleep_mut ==
    /\ phase = "sleeping" /\ token
    /\ Return("err")
    /\ UNCHANGED <<reconnect_timeout, token, gone, backoff, elapsed, down>>
CancelSleep ==
    /\ phase = "sleeping" /\ token
    /\ Return("ok")
    /\ UNCHANGED <<reconnect_timeout, token, gone, backoff, elapsed, down>>
-----------------------------------------------------------------------------
Attempt == CancelConnect \/ Connected \/ StartSession \/ (phase # "session" /\ Fail)

Next == Cancel \/ RendererGone \/ Tick
        \/ CancelConnect \/ Connected \/ Fail \/ StartSession \/ EndSession
        \/ Wake \/ CancelSleep

Spec == Init /\ [][Next]_vars

(***************************************************************************)
(* Fairness.  Time passes, a sleep ends, an attempt has an outcome, and a  *)
(* session whose token is cancelled stops, by whatever branch of select!.  *)
(***************************************************************************)
Fairness ==
    /\ WF_vars(Tick) /\ WF_vars(Wake \/ CancelSleep)
    /\ WF_vars(Attempt) /\ WF_vars(token /\ EndSession)

FairSpec == Spec /\ Fairness
-----------------------------------------------------------------------------
(* Properties *)

Ages == {None} \cup 0..Horizon

\* Every variable keeps its type; the backoff never leaves its range.
TypeOK ==
    /\ reconnect_timeout \in Timeouts
    /\ token \in BOOLEAN /\ gone \in BOOLEAN
    /\ phase \in {"connecting", "setup", "session", "sleeping", "returned"}
    /\ backoff \in INITIAL_BACKOFF..MAX_BACKOFF
    /\ spent \in 0..Limit
    /\ elapsed \in Ages /\ down \in Ages
    /\ result \in {"none", "ok", "err"}

\* A client that cannot get a session back stops trying within the timeout, one
\* backoff and one attempt, however the last sleep and the last attempt fall.
GivesUpOnTime ==
    phase # "returned" /\ reconnect_timeout # 0 =>
        down < reconnect_timeout + MAX_BACKOFF + 2 * MaxAttempt

\* A client without a timeout gets its session back, and keeps it, once attempts no
\* longer fail: whatever number of them failed before, in whichever phase, and
\* however far the backoff has grown.  (Unless it is stopped or its window closed.)
SessionComesBack ==
    reconnect_timeout = 0 /\ [](~ token /\ ~ gone) /\ <>[][~ Fail]_vars
        => <>[](phase = "session")

\* A client that is told to stop before it has given up returns Ok, from
\* whichever phase of whichever attempt it is in.
CancelledReturnsOk == (token /\ phase # "returned") ~> (result = "ok")

\* From then on it goes no further than the session that its attempt was to bring:
\* it neither sleeps nor tries again, and what it returns is not the error.
Onward ==
    {<<"connecting", "setup">>, <<"setup", "session">>}
        \cup {"connecting", "setup", "session", "sleeping"} \X {"returned"}

CancelledWindsDown ==
    [][token => /\ phase' # phase => <<phase, phase'>> \in Onward
                /\ result' # result => result' = "ok"]_vars

\* "Elapsed timer resets on each successful connection" (ADR-010, section 6): a
\* client only gives up once it has been without a session for the whole timeout.
GivesUpNotBeforeTimeout == result = "err" => down >= reconnect_timeout
=============================================================================
