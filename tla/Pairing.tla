-------------------------------- MODULE Pairing --------------------------------
(***************************************************************************)
(* Pairing and authentication between RayPlay hosts and clients, and the   *)
(* files that make them last: the host's trust database, the client's      *)
(* signing key and its copy of the host's certificate.  Processes crash    *)
(* and restart, connections are lost, users mistype the PIN.               *)
(*                                                                         *)
(* Abstractions.  A key stands for an ed25519 key pair; a certificate for  *)
(* the start of the host that generated it.  SPAKE2 and the HMAC are what  *)
(* they are used for: the confirmation verifies if and only if both sides  *)
(* used the same PIN; a signature verifies under its own key.  The codec   *)
(* handshake and the stream are one phase, "streaming".  One client        *)
(* process runs on a client machine at a time; a retry of its reconnect    *)
(* loop is a new connection with the same files.  A client with a key has  *)
(* the certificate that pairing saved, one without may be given a copy     *)
(* (--cert).  A certificate that cannot be used counts as absent (NoCert); *)
(* a key that cannot be used is BadKey, with which a client does not       *)
(* connect.                                                                *)
(***************************************************************************)
EXTENDS Naturals, Sequences

CONSTANTS
    Hosts, Clients, Nobody,
    MaxKeys,    \* keys generated in a behaviour (bound)
    MaxStarts   \* MaxStarts[h]: starts of h in a behaviour (bound)

ASSUME PairingAssumption ==
    /\ MaxKeys \in Nat /\ MaxStarts \in [Hosts -> Nat]
    /\ Nobody \notin Hosts \cup Clients

VARIABLES
    hpc,        \* hpc[h]: where host h is; "down" when it does not run
    peer,       \* peer[h]: the client whose connection h serves
    cert,       \* cert[h]: h's certificate, numbered by its starts
    db,         \* db[h]: the keys in its TrustDatabase
    file,       \* file[h]: trusted_clients.json, its keys and whether it parses
    cpc,        \* cpc[c]: where the client process of c is; "off" when none runs
    target,     \* target[c]: the host it connects to
    key,        \* key[c]: its signing key
    peer_cert,  \* peer_cert[c]: the certificate of its connection
    keyfile,    \* keyfile[c]: client_key.bin
    certfile,   \* certfile[c][h]: the saved certificate of h
    link,       \* link[<<c, h>>]: their connection and the two ways of its control stream
    keys,       \* keys generated so far
    typed       \* typed[h]: the keys whose users typed the PIN that h showed them

host   == <<hpc, peer, cert, db, file>>
client == <<cpc, target, key, peer_cert, keyfile, certfile>>
vars   == <<host, client, link, keys, typed>>

Key    == 1..MaxKeys
NoKey  == 0
BadKey == MaxKeys + 1   \* in client_key.bin: part of a key
NoCert == 0

NoLink == [up |-> FALSE, to_host |-> <<>>, to_client |-> <<>>]

Init ==
    /\ hpc = [h \in Hosts |-> "down"] /\ peer = [h \in Hosts |-> Nobody]
    /\ cert = [h \in Hosts |-> NoCert]
    /\ db = [h \in Hosts |-> {}]
    /\ file = [h \in Hosts |-> [keys |-> {}, parses |-> TRUE]]
    /\ cpc = [c \in Clients |-> "off"] /\ target = [c \in Clients |-> Nobody]
    /\ key = [c \in Clients |-> NoKey] /\ peer_cert = [c \in Clients |-> NoCert]
    /\ keyfile = [c \in Clients |-> NoKey]
    /\ certfile = [c \in Clients |-> [h \in Hosts |-> NoCert]]
    /\ link = [p \in Clients \X Hosts |-> NoLink]
    /\ keys = 0 /\ typed = [h \in Hosts |-> {}]
-----------------------------------------------------------------------------
(* Connections *)

Msg(type, k, good) == [type |-> type, key |-> k, good |-> good]

\* A connection that ends may take along what was sent on it and not yet read.
Dropped(l) == {[l EXCEPT !.up = FALSE], NoLink}

\* What an end drops when it goes away: nobody reads the other's messages any more.
HostDrops(l)   == Dropped([l EXCEPT !.to_host = <<>>])
ClientDrops(l) == Dropped([l EXCEPT !.to_client = <<>>])

\* The connection of c and h becomes one of ls.
Links(c, h, ls) == link' \in {[link EXCEPT ![<<c, h>>] = l] : l \in ls}

LoseConnection(c, h) ==
    /\ link[<<c, h>>].up
    /\ Links(c, h, Dropped(link[<<c, h>>]))
    /\ UNCHANGED <<host, client, keys, typed>>

\* The connection that h serves, its next message, and what is left without it.
Served(h) == link[<<peer[h], h>>]
HasMsg(h) == peer[h] # Nobody /\ Served(h).to_host # <<>>
Heard(h)  == Head(Served(h).to_host)
Rest(h)   == [Served(h) EXCEPT !.to_host = Tail(@)]

\* The same for a client.
Own(c)     == link[<<c, target[c]>>]
CHasMsg(c) == Own(c).to_client # <<>>
CHeard(c)  == Head(Own(c).to_client)
CRest(c)   == [Own(c) EXCEPT !.to_client = Tail(@)]
-----------------------------------------------------------------------------
(* The host process *)

\* Load or create the trust database.
load_trust_db_mut(h) == {}
load_trust_db(h) == IF file[h].parses THEN file[h].keys ELSE {}

\* QuicVideoTransport::listen: the certificate is new, and kept in memory only.
make_server_config(h) == cert[h] + 1

HostStart(h) ==
    /\ hpc[h] = "down" /\ cert[h] < MaxStarts[h]
    /\ hpc' = [hpc EXCEPT ![h] = "accept"]
    /\ cert' = [cert EXCEPT ![h] = make_server_config(h)]
    /\ db' = [db EXCEPT ![h] = load_trust_db(h)]
    /\ UNCHANGED <<peer, file, client, link, keys, typed>>

\* on_connect returns and the connection, now l, is dropped; serve goes on.
HostDone_mut(h, l) ==
    /\ hpc' = [hpc EXCEPT ![h] = "accept"] /\ UNCHANGED peer
    /\ Links(peer[h], h, HostDrops(l))
HostDone(h, l) ==
    /\ hpc' = [hpc EXCEPT ![h] = "accept"] /\ peer' = [peer EXCEPT ![h] = Nobody]
    /\ Links(peer[h], h, HostDrops(l))

\* send_msg(m), then go on at next; a send on a lost connection fails.
Reply(h, l, m, next) ==
    IF l.up
    THEN /\ hpc' = [hpc EXCEPT ![h] = next] /\ UNCHANGED peer
         /\ Links(peer[h], h, {[l EXCEPT !.to_client = Append(@, m)]})
    ELSE HostDone(h, l)

\* send_msg(m), then return an error.
Refuse(h, l, m) ==
    HostDone(h, IF l.up THEN [l EXCEPT !.to_client = Append(@, m)] ELSE l)

\* The host is stopped or crashes; a save under way may leave half a file.
HostStops(h) ==
    /\ hpc[h] # "down"
    /\ hpc' = [hpc EXCEPT ![h] = "down"] /\ peer' = [peer EXCEPT ![h] = Nobody]
    /\ db' = [db EXCEPT ![h] = {}]
    /\ \/ UNCHANGED file
       \/ hpc[h] = "saving" /\ file' = [file EXCEPT ![h].parses = FALSE]
    /\ IF peer[h] = Nobody THEN UNCHANGED link ELSE Links(peer[h], h, HostDrops(Served(h)))
    /\ UNCHANGED <<cert, client, keys, typed>>

\* authenticate_and_stream: show a PIN, or send a challenge; it expects a ClientHello.
RecvHello(h) ==
    /\ hpc[h] = "hello" /\ HasMsg(h)
    /\ \/ /\ Heard(h).type = "Pair"
          /\ hpc' = [hpc EXCEPT ![h] = "pairing"] /\ UNCHANGED peer
          /\ Links(peer[h], h, {Rest(h)})
       \/ /\ Heard(h).type = "Auth"
          /\ Reply(h, Rest(h), Msg("AuthChallenge", NoKey, TRUE), "auth")
       \/ /\ Heard(h).type \notin {"Pair", "Auth"}
          /\ HostDone(h, Rest(h))
    /\ UNCHANGED <<cert, db, file, client, keys, typed>>

\* host_pairing, up to PairingResponse.
RecvPairingRequest(h) ==
    /\ hpc[h] = "pairing" /\ HasMsg(h)
    /\ Reply(h, Rest(h), Msg("PairingResponse", NoKey, TRUE), "confirming")
    /\ UNCHANGED <<cert, db, file, client, keys, typed>>

\* compute_hmac(..).verify_slice(..)
Verified_mut(m) == TRUE
Verified(m) == m.good

\* TrustDatabase::add_client; the mutant replaces another client's entry.
add_client_mut(clients, k) == {k}
add_client(clients, k) == clients \cup {k}

\* host_pairing, from PairingConfirm: trust the key, then tell the client.
AcceptPairing(h) ==
    /\ hpc[h] = "confirming" /\ HasMsg(h) /\ Verified(Heard(h))
    /\ db' = [db EXCEPT ![h] = add_client(@, Heard(h).key)]
    /\ Reply(h, Rest(h), Msg("PairingResult", NoKey, TRUE), "saving")
    /\ UNCHANGED <<cert, file, client, keys, typed>>

RejectPairing(h) ==
    /\ hpc[h] = "confirming" /\ HasMsg(h) /\ ~ Verified(Heard(h))
    /\ Refuse(h, Rest(h), Msg("PairingResult", NoKey, FALSE))
    /\ UNCHANGED <<cert, db, file, client, keys, typed>>

\* TrustDatabase::is_trusted
is_trusted_mut(clients, k) == TRUE
is_trusted(clients, k) == k \in clients

\* host_auth_challenge, from AuthResponse; the mutant only answers when it refuses.
AcceptAuth_mut(h) ==
    /\ hpc[h] = "auth" /\ HasMsg(h) /\ is_trusted(db[h], Heard(h).key)
    /\ hpc' = [hpc EXCEPT ![h] = "saving"]
    /\ Links(peer[h], h, {Rest(h)})
    /\ UNCHANGED <<peer, cert, db, file, client, keys, typed>>
AcceptAuth(h) ==
    /\ hpc[h] = "auth" /\ HasMsg(h) /\ is_trusted(db[h], Heard(h).key)
    /\ Reply(h, Rest(h), Msg("AuthResult", NoKey, TRUE), "saving")
    /\ UNCHANGED <<cert, db, file, client, keys, typed>>

RejectAuth(h) ==
    /\ hpc[h] = "auth" /\ HasMsg(h) /\ ~ is_trusted(db[h], Heard(h).key)
    /\ Refuse(h, Rest(h), Msg("AuthResult", NoKey, FALSE))
    /\ UNCHANGED <<cert, db, file, client, keys, typed>>

\* save_trust_db_if_possible: a failure, before the write or in it, is only logged.
SaveTrust(h) ==
    /\ hpc[h] = "saving"
    /\ \/ file' = [file EXCEPT ![h] = [keys |-> db[h], parses |-> TRUE]]
       \/ UNCHANGED file
       \/ file' = [file EXCEPT ![h].parses = FALSE]
    /\ hpc' = [hpc EXCEPT ![h] = "streaming"]
    /\ UNCHANGED <<peer, cert, db, client, link, keys, typed>>

\* recv_msg fails: the connection is lost and there is nothing left to read.
HostHangsUp_mut(h) ==
    /\ hpc[h] \in {"hello", "confirming", "auth"}
    /\ ~ Served(h).up /\ ~ HasMsg(h)
    /\ HostDone(h, Served(h))
    /\ UNCHANGED <<cert, db, file, client, keys, typed>>
HostHangsUp(h) ==
    /\ hpc[h] \in {"hello", "pairing", "confirming", "auth"}
    /\ ~ Served(h).up /\ ~ HasMsg(h)
    /\ HostDone(h, Served(h))
    /\ UNCHANGED <<cert, db, file, client, keys, typed>>

\* The pipeline fails, or the stream ends, for whatever reason.
StreamEnds(h) ==
    /\ hpc[h] = "streaming"
    /\ HostDone(h, Served(h))
    /\ UNCHANGED <<cert, db, file, client, keys, typed>>
-----------------------------------------------------------------------------
(* The client process *)

\* The process of c goes on at next, connected to h with key k and certificate n.
Become(c, next, h, k, n) ==
    /\ cpc' = [cpc EXCEPT ![c] = next] /\ target' = [target EXCEPT ![c] = h]
    /\ key' = [key EXCEPT ![c] = k] /\ peer_cert' = [peer_cert EXCEPT ![c] = n]

Step(c, k, next) == Become(c, next, target[c], k, peer_cert[c])

\* connect returns an error, or the process ends.
ClientDone(c, l) ==
    Become(c, "off", Nobody, NoKey, NoCert) /\ Links(c, target[c], ClientDrops(l))

\* send_msg(m), then go on at next with key k.
Answer(c, l, m, k, next) ==
    IF l.up
    THEN Step(c, k, next) /\ Links(c, target[c], {[l EXCEPT !.to_host = Append(@, m)]})
    ELSE ClientDone(c, l)

\* The certificates that a connection trusts.
make_client_config(saved)   == {saved}
make_client_config_insecure == Nat

\* h presents a certificate that is trusted and accepts c's connection; c sends its
\* first message.
Connect(c, h, trusted, k, m, next) ==
    /\ cpc[c] = "off" /\ hpc[h] = "accept" /\ cert[h] \in trusted
    /\ hpc' = [hpc EXCEPT ![h] = "hello"] /\ peer' = [peer EXCEPT ![h] = c]
    /\ Become(c, next, h, k, cert[h])
    /\ Links(c, h, {[NoLink EXCEPT !.up = TRUE, !.to_host = <<m>>]})
    /\ UNCHANGED <<cert, db, file, keyfile, certfile, keys, typed>>

\* rayview --pair: connect_insecure, client_send_pair_intent.
ConnectToPair(c, h) ==
    Connect(c, h, make_client_config_insecure, NoKey, Msg("Pair", NoKey, TRUE), "prompting")

\* What the files hold, if they can be used; NoKey if there has never been a key.
load_server_cert(c, h) == {certfile[c][h]} \ {NoCert}
load_client_key(c)     == {keyfile[c]} \ {BadKey}

\* rayview, with the certificate saved for h and the client's key.
ConnectToAuth(c, h) ==
    \E n \in load_server_cert(c, h), k \in load_client_key(c) \ {NoKey} :
        Connect(c, h, make_client_config(n), k, Msg("Auth", NoKey, TRUE), "challenged")

\* rayview --cert, with a copy of h's certificate and no key: it goes on without
\* authentication, to the codec handshake.
ConnectWithoutKey(c, h) ==
    \E k \in load_client_key(c) \cap {NoKey} :
        Connect(c, h, make_client_config(cert[h]), k, Msg("HandshakeRequest", NoKey, TRUE),
                "negotiating")

\* The user types a PIN, right or wrong, and client_pairing starts with a new key.
EnterPin(c) ==
    /\ cpc[c] = "prompting" /\ keys < MaxKeys
    /\ keys' = keys + 1
    /\ \/ UNCHANGED typed
       \/ /\ peer[target[c]] = c /\ hpc[target[c]] = "pairing"
          /\ typed' = [typed EXCEPT ![target[c]] = @ \cup {keys'}]
    /\ Answer(c, Own(c), Msg("PairingRequest", NoKey, TRUE), keys', "requested")
    /\ UNCHANGED <<host, keyfile, certfile>>

RecvPairingResponse(c) ==
    /\ cpc[c] = "requested" /\ CHasMsg(c)
    /\ Answer(c, CRest(c), Msg("PairingConfirm", key[c], key[c] \in typed[target[c]]),
              key[c], "confirmed")
    /\ UNCHANGED <<host, keyfile, certfile, keys, typed>>

RecvPairingResult(c) ==
    /\ cpc[c] = "confirmed" /\ CHasMsg(c)
    /\ IF CHeard(c).good
       THEN Step(c, key[c], "saving_key") /\ Links(c, target[c], {CRest(c)})
       ELSE ClientDone(c, CRest(c))
    /\ UNCHANGED <<host, keyfile, certfile, keys, typed>>

SaveKey(c) ==
    /\ cpc[c] = "saving_key"
    /\ keyfile' = [keyfile EXCEPT ![c] = key[c]]
    /\ Step(c, key[c], "saving_cert")
    /\ UNCHANGED <<host, certfile, link, keys, typed>>

SaveCert(c) ==
    /\ cpc[c] = "saving_cert"
    /\ certfile' = [certfile EXCEPT ![c][target[c]] = peer_cert[c]]
    /\ Step(c, key[c], "streaming")
    /\ UNCHANGED <<host, keyfile, link, keys, typed>>

RecvAuthChallenge(c) ==
    /\ cpc[c] = "challenged" /\ CHasMsg(c)
    /\ Answer(c, CRest(c), Msg("AuthResponse", key[c], TRUE), key[c], "responded")
    /\ UNCHANGED <<host, keyfile, certfile, keys, typed>>

RecvAuthResult(c) ==
    /\ cpc[c] = "responded" /\ CHasMsg(c)
    /\ IF CHeard(c).good
       THEN Step(c, key[c], "streaming") /\ Links(c, target[c], {CRest(c)})
       ELSE ClientDone(c, CRest(c))
    /\ UNCHANGED <<host, keyfile, certfile, keys, typed>>

\* Where it waits for an answer.
Awaiting == {"requested", "confirmed", "challenged", "responded", "negotiating"}

\* recv_msg, or the receive of client_handshake, fails.
ClientHangsUp(c) ==
    /\ cpc[c] \in Awaiting
    /\ ~ Own(c).up /\ ~ CHasMsg(c)
    /\ ClientDone(c, Own(c))
    /\ UNCHANGED <<host, keyfile, certfile, keys, typed>>

\* The process ends, for whatever reason: an error, a lost stream, the user, a
\* crash; one that is writing a file may leave part of it.
ClientStops(c) ==
    /\ cpc[c] # "off"
    /\ ClientDone(c, Own(c))
    /\ \/ UNCHANGED <<keyfile, certfile>>
       \/ /\ cpc[c] = "saving_key"
          /\ keyfile' = [keyfile EXCEPT ![c] = BadKey] /\ UNCHANGED certfile
       \/ /\ cpc[c] = "saving_cert"
          /\ certfile' = [certfile EXCEPT ![c][target[c]] = NoCert] /\ UNCHANGED keyfile
    /\ UNCHANGED <<host, keys, typed>>
-----------------------------------------------------------------------------
HostStep(h) ==
    \/ RecvHello(h) \/ RecvPairingRequest(h) \/ AcceptPairing(h) \/ RejectPairing(h)
    \/ AcceptAuth(h) \/ RejectAuth(h) \/ SaveTrust(h) \/ HostHangsUp(h)

ClientStep(c) ==
    \/ RecvPairingResponse(c) \/ RecvPairingResult(c) \/ SaveKey(c) \/ SaveCert(c)
    \/ RecvAuthChallenge(c) \/ RecvAuthResult(c) \/ ClientHangsUp(c)

Next ==
    \/ \E h \in Hosts : HostStep(h) \/ HostStart(h) \/ HostStops(h) \/ StreamEnds(h)
    \/ \E c \in Clients : ClientStep(c) \/ EnterPin(c) \/ ClientStops(c)
    \/ \E c \in Clients, h \in Hosts :
          \/ ConnectToPair(c, h) \/ ConnectToAuth(c, h) \/ ConnectWithoutKey(c, h)
          \/ LoseConnection(c, h)

Spec == Init /\ [][Next]_vars

(***************************************************************************)
(* Fairness.  Both processes run.  A connection on which nothing moves     *)
(* (the user never types the PIN) ends by QUIC's idle timeout: there is no *)
(* keepalive.  Nothing is assumed of users, crashes or restarts.           *)
(***************************************************************************)
IdlesOut(c, h) ==
    /\ peer[h] = c /\ hpc[h] = "pairing" /\ link[<<c, h>>].to_host = <<>>
    /\ LoseConnection(c, h)

Fairness ==
    /\ \A h \in Hosts : WF_vars(HostStep(h))
    /\ \A c \in Clients : WF_vars(ClientStep(c))
    /\ \A c \in Clients, h \in Hosts : WF_vars(IdlesOut(c, h))

FairSpec == Spec /\ Fairness
-----------------------------------------------------------------------------
(* Properties *)

Msgs == [type : {"Pair", "Auth", "PairingRequest", "PairingResponse", "PairingConfirm",
                 "PairingResult", "AuthChallenge", "AuthResponse", "AuthResult",
                 "HandshakeRequest"},
         key : Key \cup {NoKey}, good : BOOLEAN]

\* Every variable keeps its type; a host serves a client exactly while it is
\* neither down nor waiting for one.
TypeOK ==
    /\ hpc \in [Hosts -> {"down", "accept", "hello", "pairing", "confirming", "auth",
                          "saving", "streaming"}]
    /\ peer \in [Hosts -> Clients \cup {Nobody}]
    /\ \A h \in Hosts : peer[h] = Nobody <=> hpc[h] \in {"down", "accept"}
    /\ cert \in [Hosts -> Nat]
    /\ db \in [Hosts -> SUBSET Key]
    /\ file \in [Hosts -> [keys : SUBSET Key, parses : BOOLEAN]]
    /\ cpc \in [Clients -> {"off", "prompting", "requested", "confirmed", "saving_key",
                            "saving_cert", "challenged", "responded", "negotiating",
                            "streaming"}]
    /\ target \in [Clients -> Hosts \cup {Nobody}]
    /\ key \in [Clients -> Key \cup {NoKey}]
    /\ keyfile \in [Clients -> Key \cup {NoKey, BadKey}]
    /\ peer_cert \in [Clients -> Nat]
    /\ certfile \in [Clients -> [Hosts -> Nat]]
    /\ \A p \in Clients \X Hosts :
          /\ link[p].up \in BOOLEAN
          /\ link[p].to_host \in Seq(Msgs) /\ link[p].to_client \in Seq(Msgs)
    /\ keys \in 0..MaxKeys /\ typed \in [Hosts -> SUBSET Key]

\* A host trusts, in memory and on disk, only keys of clients whose user typed the
\* PIN that this host showed, across restarts and whatever is lost.
TrustedByPin == \A h \in Hosts : db[h] \cup file[h].keys \subseteq typed[h]

\* The two ends of a live connection agree: a host that streams does so with a
\* client that holds a key it trusts, and a client that believes it was accepted
\* is being served.
SessionAgreement ==
    \A c \in Clients, h \in Hosts :
        link[<<c, h>>].up =>
            /\ peer[h] = c /\ target[c] = h
            /\ hpc[h] \in {"saving", "streaming"} => key[c] \in db[h]
            /\ cpc[c] \in {"saving_key", "saving_cert", "streaming"}
                  => hpc[h] \in {"saving", "streaming"}

\* On a live connection the two ends never wait for each other: a client that waits for
\* an answer has it on its way, or the host is about to read what it has to answer.
NeverBothWait ==
    \A c \in Clients, h \in Hosts :
        link[<<c, h>>].up /\ cpc[c] \in Awaiting
            => \/ link[<<c, h>>].to_client # <<>>
               \/ /\ hpc[h] \in {"hello", "pairing", "confirming", "auth"}
                  /\ link[<<c, h>>].to_host # <<>>

\* A key that was once saved is never saved over: the file only loses keys when a
\* save is cut short.
TrustKept ==
    [][\A h \in Hosts : file[h].parses => file[h].keys \subseteq file'[h].keys]_vars

\* The key of the client that h is in a session with, while their connection is up.
AdmittedKey(h) ==
    IF hpc[h] \in {"saving", "streaming"} /\ Served(h).up THEN key[peer[h]] ELSE NoKey

Promise ==
    INSTANCE HostTrust
    WITH Keys <- Key, Nothing <- NoKey,
         running <- [h \in Hosts |-> hpc[h] # "down"],
         pinned <- typed, trusted <- db, saved <- file,
         admitted <- [h \in Hosts |-> AdmittedKey(h)]

\* Pairing implements the abstract hosts: a key is trusted only after its PIN was typed,
\* a session belongs to one trusted key from its first to its last moment, and trust is
\* gained, saved and lost in no other way, whatever is lost, mistyped or restarted.
RefinesHostTrust == Promise!TrustSpec

\* A client that holds the certificate which a running host has now, and a key that was
\* made to pair with this host, is trusted by it: across restarts, saves that fail or are
\* cut short on either side, lost answers, and pairings with other hosts in between.
PairedKeyIsGood ==
    \A c \in Clients, h \in Hosts :
        hpc[h] # "down" /\ certfile[c][h] = cert[h] /\ keyfile[c] \in typed[h]
            => keyfile[c] \in db[h]

\* "Stores one DER-encoded certificate per host so the client can reconnect without
\* re-pairing" (server_cert_store.rs): a client that holds the certificate that a
\* running host has now, and a key, is trusted by it.  It is not so: certificates are
\* saved per host, the key is not, and the one it has may have been made for another.
CertificateMeansTrust ==
    \A c \in Clients, h \in Hosts :
        hpc[h] # "down" /\ certfile[c][h] = cert[h] /\ keyfile[c] \in Key
            => keyfile[c] \in db[h]

\* Every attempt to pair or to authenticate ends, on both sides, in a stream or
\* with the host ready for the next client, even if the PIN is never typed.
AttemptsEnd ==
    /\ \A h \in Hosts : hpc[h] # "accept" ~> hpc[h] \in {"accept", "streaming", "down"}
    /\ \A c \in Clients : cpc[c] # "prompting" ~> cpc[c] \in {"off", "prompting", "streaming"}

\* "Once paired, the client is remembered and can reconnect without re-entering
\* the PIN" (UC-016, criterion 2): a running host still has the certificate that
\* a paired client saved.
PairedClientCanConnect ==
    \A c \in Clients, h \in Hosts :
        hpc[h] # "down" /\ certfile[c][h] # NoCert => certfile[c][h] = cert[h]
=============================================================================
