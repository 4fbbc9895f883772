---------------------------- MODULE FrameMailbox ----------------------------
(***************************************************************************)
(* What the client's pipeline promises between its decoder and its screen, *)
(* with the threads, the channel, the wakeups and the swap chain           *)
(* abstracted away.  Decoding never waits for the screen.  A frame is      *)
(* refused only when Capacity frames wait already, or nobody draws any     *)
(* more; one that waits is lost only to a newer one; the screen shows only *)
(* frames that waited, each once, and never one that is older than what it *)
(* has shown.                                                              *)
(***************************************************************************)
EXTENDS Naturals, FiniteSets

CONSTANT Capacity

VARIABLES
    offered,    \* frames decoded so far, numbered from 1
    waiting,    \* the frames that wait for the screen
    shown,      \* the last frame shown, 0 before the first
    closed      \* nothing is shown any more

mailboxVars == <<offered, waiting, shown, closed>>

MailboxInit == offered = 0 /\ waiting = {} /\ shown = 0 /\ closed = FALSE

Accept ==
    /\ ~ closed /\ Cardinality(waiting) <= Capacity
    /\ offered' = offered + 1 /\ waiting' = waiting \cup {offered'}
    /\ UNCHANGED <<shown, closed>>

Refuse ==
    /\ closed \/ Cardinality(waiting) >= Capacity
    /\ offered' = offered + 1
    /\ UNCHANGED <<waiting, shown, closed>>

\* A newer frame is there to be shown instead of f.
Supersede(f) ==
    /\ \E g \in waiting : f < g
    /\ waiting' = waiting \ {f}
    /\ UNCHANGED <<offered, shown, closed>>

\* Frames are shown in the order they were decoded in.
Show(f) ==
    /\ shown < f /\ \A g \in waiting : f <= g
    /\ shown' = f /\ waiting' = waiting \ {f}
    /\ UNCHANGED <<offered, closed>>

Close ==
    /\ ~ closed
    /\ closed' = TRUE /\ waiting' = {}
    /\ UNCHANGED <<offered, shown>>

MailboxNext ==
    \/ Accept \/ Refuse \/ Close
    \/ \E f \in waiting : Supersede(f) \/ Show(f)

MailboxSpec == MailboxInit /\ [][MailboxNext]_mailboxVars
=============================================================================
