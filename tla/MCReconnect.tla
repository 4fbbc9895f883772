----------------------------- MODULE MCReconnect -----------------------------
(***************************************************************************)
(* Reconnect on small instances.  A unit of time is 500 ms: the backoff    *)
(* goes 1, 2, 4, 5 (a cap that is no power of two, as 10 s is not          *)
(* 500 ms * 2^n); timeouts shorter and longer than a backoff, and none.    *)
(***************************************************************************)
EXTENDS Reconnect

NoneShortLong == {0, 3, 8}
OnlyLong      == {8}
=============================================================================
