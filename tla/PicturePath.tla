------------------------------ MODULE PicturePath ------------------------------
(***************************************************************************)
(* What a path that loses packets and lets one overtake another does to    *)
(* the sequence of packets in flight.  A packet is a record whose field    *)
(* linked says that the packet encoded just before it is delivered just    *)
(* before it.                                                              *)
(***************************************************************************)
EXTENDS Naturals, Sequences

Unlinked(p) == [p EXCEPT !.linked = FALSE]

\* The packet at i is lost.
Without(net, i) ==
    [j \in 1..(Len(net) - 1) |->
        IF j < i THEN net[j]
        ELSE IF j = i THEN Unlinked(net[j + 1]) ELSE net[j + 1]]

\* The packet at i + 1 overtakes the one at i.
Swapped(net, i) ==
    [j \in 1..Len(net) |->
        IF j = i THEN Unlinked(net[i + 1])
        ELSE IF j = i + 1 THEN Unlinked(net[i])
        ELSE IF j = i + 2 THEN Unlinked(net[j]) ELSE net[j]]
=============================================================================
