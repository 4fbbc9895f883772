------------------------------ MODULE HostTrust ------------------------------
(***************************************************************************)
(* What pairing and authentication promise of hosts, with the connections, *)
(* the messages and the clients' processes abstracted away.  A key comes   *)
(* to be trusted by a host only after its user typed the PIN that this     *)
(* host showed; a host lets one key at a time into a session, one that it  *)
(* trusts; trust is not withdrawn while the host runs, and a new start     *)
(* trusts again what was saved whole.                                      *)
(***************************************************************************)
CONSTANTS Hosts, Keys, Nothing

VARIABLES
    running,    \* running[h]: the process of h runs
    pinned,     \* pinned[h]: the keys whose users typed a PIN of h
    trusted,    \* trusted[h]: the keys that h trusts
    saved,      \* saved[h]: what a new start of h trusts, and whether it can be read
    admitted    \* admitted[h]: the key of the session that h is in, or Nothing

trustVars == <<running, pinned, trusted, saved, admitted>>

TrustInit ==
    /\ running = [h \in Hosts |-> FALSE]
    /\ pinned = [h \in Hosts |-> {}] /\ trusted = [h \in Hosts |-> {}]
    /\ saved = [h \in Hosts |-> [keys |-> {}, parses |-> TRUE]]
    /\ admitted = [h \in Hosts |-> Nothing]

\* A user types the PIN that h shows, for key k.
Pin(h, k) ==
    /\ running[h] /\ admitted[h] = Nothing
    /\ pinned' = [pinned EXCEPT ![h] = @ \cup {k}]
    /\ UNCHANGED <<running, trusted, saved, admitted>>

\* h trusts k from now on, and lets it in if its client is still there.
Trust(h, k) ==
    /\ running[h] /\ k \in pinned[h] /\ admitted[h] = Nothing
    /\ trusted' = [trusted EXCEPT ![h] = @ \cup {k}]
    /\ admitted' \in {admitted, [admitted EXCEPT ![h] = k]}
    /\ UNCHANGED <<running, pinned, saved>>

\* h lets in a key that it trusts already.
Admit(h, k) ==
    /\ running[h] /\ k \in trusted[h] /\ admitted[h] = Nothing
    /\ admitted' = [admitted EXCEPT ![h] = k]
    /\ UNCHANGED <<running, pinned, trusted, saved>>

\* The session ends, or its connection is lost.
Leave(h) ==
    /\ admitted[h] # Nothing
    /\ admitted' = [admitted EXCEPT ![h] = Nothing]
    /\ UNCHANGED <<running, pinned, trusted, saved>>

Torn(h) == [saved EXCEPT ![h].parses = FALSE]

\* What h trusts is saved, or the attempt leaves something that cannot be read.
Save(h) ==
    /\ running[h]
    /\ saved' \in {[saved EXCEPT ![h] = [keys |-> trusted[h], parses |-> TRUE]], Torn(h)}
    /\ UNCHANGED <<running, pinned, trusted, admitted>>

Start(h) ==
    /\ ~ running[h]
    /\ running' = [running EXCEPT ![h] = TRUE]
    /\ trusted' = [trusted EXCEPT ![h] = IF saved[h].parses THEN saved[h].keys ELSE {}]
    /\ UNCHANGED <<pinned, saved, admitted>>

Stop(h) ==
    /\ running[h]
    /\ running' = [running EXCEPT ![h] = FALSE]
    /\ trusted' = [trusted EXCEPT ![h] = {}]
    /\ saved' \in {saved, Torn(h)}
    /\ admitted' = [admitted EXCEPT ![h] = Nothing]
    /\ UNCHANGED pinned

TrustNext ==
    \E h \in Hosts :
        \/ \E k \in Keys : Pin(h, k) \/ Trust(h, k) \/ Admit(h, k)
        \/ Leave(h) \/ Save(h) \/ Start(h) \/ Stop(h)

TrustSpec == TrustInit /\ [][TrustNext]_trustVars
=============================================================================
