---------------------------- MODULE PairingProofs ----------------------------
(***************************************************************************)
(* Theorems about pairing and authentication, for any number of hosts,     *)
(* clients, keys and restarts.                                             *)
(***************************************************************************)
EXTENDS Pairing, TLAPS

HostPlaces == {"down", "accept", "hello", "pairing", "confirming", "auth", "saving",
               "streaming"}
Files == [keys : SUBSET Key, parses : BOOLEAN]
Ends  == [up : BOOLEAN, to_host : Seq(Msgs), to_client : Seq(Msgs)]

Typed ==
    /\ TypeOK
    /\ link \in [Clients \X Hosts -> Ends]
    /\ \A c \in Clients : target[c] = Nobody <=> cpc[c] = "off"

(***************************************************************************)
(* What a host at place x can still hear from the client that it serves,   *)
(* live or gone, is queued in q.  It hears one message at a time, and a    *)
(* confirmation that verifies carries a key whose user typed the PIN.      *)
(***************************************************************************)
HearsAs(x, q, pins) ==
    /\ x = "hello"      => Len(q) <= 2
    /\ x = "pairing"    => Len(q) <= 1
    /\ x = "confirming" => /\ Len(q) <= 1
                           /\ q # <<>> /\ Head(q).good => Head(q).key \in pins

Hears == \A h \in Hosts : peer[h] # Nobody => HearsAs(hpc[h], Served(h).to_host, typed[h])

(***************************************************************************)
(* How the places of client (p, with key k) and host (x, trusting d) and   *)
(* what is on its way between them (l) fit together while their connection *)
(* is up.  Neither can be at a step of the protocol that the other has not *)
(* prepared.                                                               *)
(***************************************************************************)
Accepted(k, x, d) == x \in {"saving", "streaming"} /\ k \in d

AgreeAs(p, k, x, d, l) ==
    /\ p # "off"
    /\ p = "prompting" =>
          /\ l.to_client = <<>>
          /\ \/ x = "hello" /\ Len(l.to_host) = 1 /\ Head(l.to_host).type = "Pair"
             \/ x = "pairing" /\ l.to_host = <<>>
    /\ p = "requested" =>
          \/ /\ x = "hello" /\ Len(l.to_host) = 2 /\ Head(l.to_host).type = "Pair"
             /\ l.to_client = <<>>
          \/ x = "pairing" /\ Len(l.to_host) = 1 /\ l.to_client = <<>>
          \/ x = "confirming" /\ l.to_host = <<>> /\ Len(l.to_client) = 1
    /\ p = "confirmed" =>
          \/ /\ x = "confirming" /\ Len(l.to_host) = 1 /\ Head(l.to_host).key = k
             /\ l.to_client = <<>>
          \/ Accepted(k, x, d) /\ l.to_client # <<>>
    /\ p \in {"saving_key", "saving_cert", "streaming"} => Accepted(k, x, d)
    /\ p = "challenged" =>
          \/ /\ x = "hello" /\ Len(l.to_host) = 1 /\ Head(l.to_host).type = "Auth"
             /\ l.to_client = <<>>
          \/ x = "auth" /\ l.to_host = <<>> /\ Len(l.to_client) = 1
    /\ p = "responded" =>
          \/ /\ x = "auth" /\ Len(l.to_host) = 1 /\ Head(l.to_host).key = k
             /\ l.to_client = <<>>
          \/ Accepted(k, x, d) /\ l.to_client # <<>>
    /\ p = "negotiating" =>
          /\ x = "hello" /\ Len(l.to_host) = 1 /\ Head(l.to_host).type = "HandshakeRequest"
          /\ l.to_client = <<>>

Agrees(c, h) ==
    link[<<c, h>>].up =>
        peer[h] = c /\ target[c] = h /\ AgreeAs(cpc[c], key[c], hpc[h], db[h], link[<<c, h>>])

\* What a running host has read or written is in its memory.
Loaded == \A h \in Hosts : hpc[h] # "down" /\ file[h].parses => file[h].keys \subseteq db[h]

IInv ==
    /\ Typed /\ TrustedByPin /\ Loaded /\ Hears
    /\ \A c \in Clients, h \in Hosts : Agrees(c, h)
-----------------------------------------------------------------------------
(* Connections *)

\* Taking a message, and adding one.
LEMMA QueueFacts ==
    ASSUME NEW q \in Seq(Msgs)
    PROVE  /\ Len(q) \in Nat /\ (q = <<>> <=> Len(q) = 0)
           /\ q # <<>> => /\ Head(q) \in Msgs /\ Tail(q) \in Seq(Msgs)
                          /\ Len(Tail(q)) = Len(q) - 1
           /\ \A m \in Msgs : /\ Append(q, m) \in Seq(Msgs) /\ Len(Append(q, m)) = Len(q) + 1
                              /\ Append(q, m) # <<>>
                              /\ q = <<>> => Head(Append(q, m)) = m
                              /\ q # <<>> => Head(Append(q, m)) = Head(q)
  OBVIOUS

LEMMA EndsFacts ==
    ASSUME NEW l \in Ends
    PROVE  /\ l.up \in BOOLEAN /\ l.to_host \in Seq(Msgs) /\ l.to_client \in Seq(Msgs)
  BY DEF Ends

LEMMA NoLinkFacts ==
    NoLink \in Ends /\ ~ NoLink.up /\ NoLink.to_host = <<>> /\ NoLink.to_client = <<>>
  BY DEF NoLink, Ends

\* Changes of a connection, field by field.
LEMMA ChangedEnds ==
    ASSUME NEW l \in Ends, NEW u \in BOOLEAN, NEW q \in Seq(Msgs), NEW r \in Seq(Msgs)
    PROVE  /\ [l EXCEPT !.up = u] \in Ends /\ [l EXCEPT !.up = u].up = u
           /\ [l EXCEPT !.up = u].to_host = l.to_host
           /\ [l EXCEPT !.up = u].to_client = l.to_client
           /\ [l EXCEPT !.to_host = q] \in Ends /\ [l EXCEPT !.to_host = q].up = l.up
           /\ [l EXCEPT !.to_host = q].to_host = q
           /\ [l EXCEPT !.to_host = q].to_client = l.to_client
           /\ [l EXCEPT !.to_client = r] \in Ends /\ [l EXCEPT !.to_client = r].up = l.up
           /\ [l EXCEPT !.to_client = r].to_host = l.to_host
           /\ [l EXCEPT !.to_client = r].to_client = r
  BY DEF Ends

\* A dropped connection is down; it has kept its messages or lost them.
LEMMA DroppedFacts ==
    ASSUME NEW l \in Ends, NEW m \in Dropped(l)
    PROVE  m \in Ends /\ ~ m.up /\ (m.to_host = l.to_host \/ m.to_host = <<>>)
<1>1. [l EXCEPT !.up = FALSE] \in Ends /\ [l EXCEPT !.up = FALSE].up = FALSE
      /\ [l EXCEPT !.up = FALSE].to_host = l.to_host
  BY ChangedEnds, EndsFacts
<1>. QED
  BY <1>1, NoLinkFacts DEF Dropped

LEMMA HostDropsFacts ==
    ASSUME NEW l \in Ends, NEW m \in HostDrops(l)
    PROVE  m \in Ends /\ ~ m.up
<1>1. <<>> \in Seq(Msgs)
  OBVIOUS
<1>2. [l EXCEPT !.to_host = <<>>] \in Ends
  BY <1>1, ChangedEnds, EndsFacts
<1>. QED
  BY <1>2, DroppedFacts DEF HostDrops

LEMMA ClientDropsFacts ==
    ASSUME NEW l \in Ends, NEW m \in ClientDrops(l)
    PROVE  m \in Ends /\ ~ m.up /\ (m.to_host = l.to_host \/ m.to_host = <<>>)
<1>1. <<>> \in Seq(Msgs)
  OBVIOUS
<1>2. [l EXCEPT !.to_client = <<>>] \in Ends
      /\ [l EXCEPT !.to_client = <<>>].to_host = l.to_host
  BY <1>1 DEF Ends
<1>. QED
  BY <1>2, DroppedFacts DEF ClientDrops

\* Links changes one connection, that of c and h.
LinkMoves(c, h) ==
    /\ link' \in [Clients \X Hosts -> Ends]
    /\ \A b \in Clients, g \in Hosts : (b # c \/ g # h) => link'[<<b, g>>] = link[<<b, g>>]

LEMMA LinkChanged ==
    ASSUME link \in [Clients \X Hosts -> Ends], NEW c \in Clients, NEW h \in Hosts,
           NEW ls \in SUBSET Ends, Links(c, h, ls)
    PROVE  LinkMoves(c, h) /\ link'[<<c, h>>] \in ls
<1>1. PICK l \in ls : link' = [link EXCEPT ![<<c, h>>] = l]
  BY DEF Links
<1>2. <<c, h>> \in Clients \X Hosts /\ l \in Ends
  BY <1>1
<1>3. link' \in [Clients \X Hosts -> Ends] /\ link'[<<c, h>>] = l
  BY <1>1, <1>2
<1>4. ASSUME NEW b \in Clients, NEW g \in Hosts, b # c \/ g # h
      PROVE  link'[<<b, g>>] = link[<<b, g>>]
  <2>1. <<b, g>> \in Clients \X Hosts /\ <<b, g>> # <<c, h>>
    BY <1>4
  <2>. QED
    BY <1>1, <2>1
<1>. QED
  BY <1>1, <1>3, <1>4 DEF LinkMoves

\* Nothing changes.
LEMMA LinkUnchanged ==
    ASSUME link \in [Clients \X Hosts -> Ends], UNCHANGED link, NEW c, NEW h
    PROVE  LinkMoves(c, h)
  BY DEF LinkMoves

LEMMA LinkTyped ==
    ASSUME link \in [Clients \X Hosts -> Ends], NEW c \in Clients, NEW h \in Hosts
    PROVE  link[<<c, h>>] \in Ends
  OBVIOUS

\* What a host hears next, if it hears anything, is a matter of its own connection.
LEMMA HearsLess ==
    ASSUME NEW x, NEW q \in Seq(Msgs), NEW r, NEW pins, NEW pins2,
           HearsAs(x, q, pins), r = q \/ r = <<>>, pins \subseteq pins2
    PROVE  HearsAs(x, r, pins2)
<1>1. Len(<<>>) = 0
  OBVIOUS
<1>. QED
  BY <1>1 DEF HearsAs
-----------------------------------------------------------------------------
(* The initial states *)

LEMMA InitIInv == Init => IInv
<1>. SUFFICES ASSUME Init PROVE IInv
  OBVIOUS
<1>. USE PairingAssumption DEF Init
<1>1. link \in [Clients \X Hosts -> Ends]
  BY NoLinkFacts
<1>2. \A p \in Clients \X Hosts : link[p] = NoLink
  OBVIOUS
<1>3. TypeOK
  <2>1. \A p \in Clients \X Hosts :
          /\ link[p].up \in BOOLEAN
          /\ link[p].to_host \in Seq(Msgs) /\ link[p].to_client \in Seq(Msgs)
    BY <1>2, NoLinkFacts, EndsFacts
  <2>. QED
    BY <2>1 DEF TypeOK, NoKey, NoCert
<1>4. Typed
  BY <1>1, <1>3 DEF Typed
<1>5. TrustedByPin /\ Loaded /\ Hears
  BY DEF TrustedByPin, Loaded, Hears
<1>6. ASSUME NEW c \in Clients, NEW h \in Hosts PROVE Agrees(c, h)
  <2>1. <<c, h>> \in Clients \X Hosts
    OBVIOUS
  <2>2. ~ link[<<c, h>>].up
    BY <2>1, <1>2, NoLinkFacts
  <2>. QED
    BY <2>2 DEF Agrees
<1>. QED
  BY <1>4, <1>5, <1>6 DEF IInv
-----------------------------------------------------------------------------
(* What a step must show of the one host, the one client and the one connection   *)
(* that it changes                                                           *)

ClientPlaces == {"off", "prompting", "requested", "confirmed", "saving_key", "saving_cert",
                 "challenged", "responded", "negotiating", "streaming"}

\* A step of host h: it goes on at x, serving y, and trusts d with f on disk.
HostMoves(h, x, y, d, f) ==
    /\ hpc' = [hpc EXCEPT ![h] = x] /\ peer' = [peer EXCEPT ![h] = y]
    /\ db' = [db EXCEPT ![h] = d] /\ file' = [file EXCEPT ![h] = f]
    /\ UNCHANGED <<client, keys, typed>>

LEMMA HostTurn ==
    ASSUME IInv, NEW h \in Hosts, NEW x \in HostPlaces, NEW y \in {peer[h], Nobody},
           NEW d \in SUBSET Key, NEW f \in Files,
           HostMoves(h, x, y, d, f), cert' \in [Hosts -> Nat], LinkMoves(peer[h], h),
           y = Nobody <=> x \in {"down", "accept"},
           d \cup f.keys \subseteq typed[h],
           x # "down" /\ f.parses => f.keys \subseteq d,
           y # Nobody => HearsAs(x, link'[<<y, h>>].to_host, typed[h]),
           peer[h] # Nobody /\ link'[<<peer[h], h>>].up =>
               /\ y = peer[h] /\ target[y] = h
               /\ AgreeAs(cpc[y], key[y], x, d, link'[<<y, h>>])
    PROVE  IInv'
<1>. USE DEF HostMoves
<1>1. Typed
  BY DEF IInv
<1>2. /\ hpc' \in [Hosts -> HostPlaces] /\ hpc'[h] = x
      /\ peer' \in [Hosts -> Clients \cup {Nobody}] /\ peer'[h] = y
      /\ db' \in [Hosts -> SUBSET Key] /\ db'[h] = d
      /\ file' \in [Hosts -> Files] /\ file'[h] = f
      /\ \A g \in Hosts : g # h => /\ hpc'[g] = hpc[g] /\ peer'[g] = peer[g]
                                   /\ db'[g] = db[g] /\ file'[g] = file[g]
  BY <1>1 DEF Typed, TypeOK, HostPlaces, Files
<1>3. /\ cpc' = cpc /\ target' = target /\ key' = key /\ peer_cert' = peer_cert
      /\ keyfile' = keyfile /\ certfile' = certfile /\ keys' = keys /\ typed' = typed
  BY DEF client
<1>4. /\ link' \in [Clients \X Hosts -> Ends]
      /\ \A b \in Clients, g \in Hosts :
             (b # peer[h] \/ g # h) => link'[<<b, g>>] = link[<<b, g>>]
  BY DEF LinkMoves
<1>5. Typed'
  <2>1. \A p \in Clients \X Hosts :
          /\ link'[p].up \in BOOLEAN
          /\ link'[p].to_host \in Seq(Msgs) /\ link'[p].to_client \in Seq(Msgs)
    BY <1>4, EndsFacts
  <2>2. \A g \in Hosts : peer'[g] = Nobody <=> hpc'[g] \in {"down", "accept"}
    BY <1>1, <1>2 DEF Typed, TypeOK
  <2>3. TypeOK'
    BY <1>1, <1>2, <1>3, <2>1, <2>2 DEF Typed, TypeOK, HostPlaces, Files
  <2>. QED
    BY <1>1, <1>3, <1>4, <2>3 DEF Typed
<1>6. TrustedByPin' /\ Loaded'
  BY <1>2, <1>3 DEF IInv, TrustedByPin, Loaded
<1>7. ASSUME NEW g \in Hosts, peer'[g] # Nobody
      PROVE  HearsAs(hpc'[g], link'[<<peer'[g], g>>].to_host, typed'[g])
  <2>1. CASE g = h
    BY <1>2, <1>3, <1>7, <2>1
  <2>2. CASE g # h
    <3>1. peer'[g] = peer[g] /\ hpc'[g] = hpc[g] /\ peer[g] \in Clients
      BY <1>1, <1>2, <1>7, <2>2 DEF Typed, TypeOK
    <3>2. HearsAs(hpc[g], link[<<peer[g], g>>].to_host, typed[g])
      BY <1>7, <3>1 DEF IInv, Hears, Served
    <3>. QED
      BY <1>3, <1>4, <2>2, <3>1, <3>2
  <2>. QED
    BY <2>1, <2>2
<1>8. ASSUME NEW b \in Clients, NEW g \in Hosts PROVE Agrees(b, g)'
  <2>1. CASE b = peer[h] /\ g = h
    <3>1. peer[h] # Nobody
      BY <2>1, PairingAssumption
    <3>. QED
      BY <1>2, <1>3, <2>1, <3>1 DEF Agrees
  <2>2. CASE b # peer[h] \/ g # h
    <3>1. link'[<<b, g>>] = link[<<b, g>>] /\ Agrees(b, g)
      BY <1>4, <2>2 DEF IInv
    <3>2. CASE g = h
      BY <2>2, <3>1, <3>2 DEF Agrees
    <3>3. CASE g # h
      BY <1>2, <1>3, <3>1, <3>3 DEF Agrees
    <3>. QED
      BY <3>2, <3>3
  <2>. QED
    BY <2>1, <2>2
<1>9. Hears'
  BY <1>7 DEF Hears, Served
<1>. QED
  BY <1>5, <1>6, <1>8, <1>9 DEF IInv

LEMMA ClientTurn ==
    ASSUME IInv, NEW c \in Clients, NEW h \in Hosts, target[c] = h,
           NEW p \in ClientPlaces, NEW t \in {h, Nobody}, NEW k \in Key \cup {NoKey},
           NEW n \in Nat, Become(c, p, t, k, n), LinkMoves(c, h), UNCHANGED host,
           keyfile' \in [Clients -> Key \cup {NoKey, BadKey}],
           certfile' \in [Clients -> [Hosts -> Nat]],
           keys' \in 0..MaxKeys, typed' \in [Hosts -> SUBSET Key],
           \A g \in Hosts : typed[g] \subseteq typed'[g],
           t = Nobody <=> p = "off",
           peer[h] = c => HearsAs(hpc[h], link'[<<c, h>>].to_host, typed'[h]),
           link'[<<c, h>>].up =>
               t = h /\ peer[h] = c /\ AgreeAs(p, k, hpc[h], db[h], link'[<<c, h>>])
    PROVE  IInv'
<1>. USE DEF Become
<1>1. Typed
  BY DEF IInv
<1>2. /\ cpc' \in [Clients -> ClientPlaces] /\ cpc'[c] = p
      /\ target' \in [Clients -> Hosts \cup {Nobody}] /\ target'[c] = t
      /\ key' \in [Clients -> Key \cup {NoKey}] /\ key'[c] = k
      /\ peer_cert' \in [Clients -> Nat]
      /\ \A b \in Clients : b # c => /\ cpc'[b] = cpc[b] /\ target'[b] = target[b]
                                     /\ key'[b] = key[b]
  BY <1>1 DEF Typed, TypeOK, ClientPlaces
<1>3. hpc' = hpc /\ peer' = peer /\ cert' = cert /\ db' = db /\ file' = file
  BY DEF host
<1>4. /\ link' \in [Clients \X Hosts -> Ends]
      /\ \A b \in Clients, g \in Hosts :
             (b # c \/ g # h) => link'[<<b, g>>] = link[<<b, g>>]
  BY DEF LinkMoves
<1>5. Typed'
  <2>1. \A q \in Clients \X Hosts :
          /\ link'[q].up \in BOOLEAN
          /\ link'[q].to_host \in Seq(Msgs) /\ link'[q].to_client \in Seq(Msgs)
    BY <1>4, EndsFacts
  <2>2. \A b \in Clients : target'[b] = Nobody <=> cpc'[b] = "off"
    BY <1>1, <1>2 DEF Typed
  <2>3. TypeOK'
    BY <1>1, <1>2, <1>3, <2>1 DEF Typed, TypeOK, ClientPlaces
  <2>. QED
    BY <1>4, <2>2, <2>3 DEF Typed
<1>6. TrustedByPin' /\ Loaded'
  BY <1>3 DEF IInv, TrustedByPin, Loaded
<1>7. ASSUME NEW g \in Hosts, peer'[g] # Nobody
      PROVE  HearsAs(hpc'[g], link'[<<peer'[g], g>>].to_host, typed'[g])
  <2>1. peer[g] \in Clients
    BY <1>1, <1>3, <1>7 DEF Typed, TypeOK
  <2>2. CASE g = h /\ peer[g] = c
    BY <1>3, <2>2
  <2>3. CASE g # h \/ peer[g] # c
    <3>1. HearsAs(hpc[g], link[<<peer[g], g>>].to_host, typed[g])
      BY <1>3, <1>7 DEF IInv, Hears, Served
    <3>2. link[<<peer[g], g>>].to_host \in Seq(Msgs)
      BY <1>1, <2>1, LinkTyped, EndsFacts DEF Typed
    <3>3. link'[<<peer[g], g>>] = link[<<peer[g], g>>]
      BY <1>4, <2>1, <2>3
    <3>. QED
      BY <1>3, <3>1, <3>2, <3>3, HearsLess
  <2>. QED
    BY <2>2, <2>3
<1>8. ASSUME NEW b \in Clients, NEW g \in Hosts PROVE Agrees(b, g)'
  <2>1. CASE b = c /\ g = h
    BY <1>2, <1>3, <2>1 DEF Agrees
  <2>2. CASE b # c \/ g # h
    <3>1. link'[<<b, g>>] = link[<<b, g>>] /\ Agrees(b, g)
      BY <1>4, <2>2 DEF IInv
    <3>2. CASE b = c
      BY <2>2, <3>1, <3>2 DEF Agrees
    <3>3. CASE b # c
      BY <1>2, <1>3, <3>1, <3>3 DEF Agrees
    <3>. QED
      BY <3>2, <3>3
  <2>. QED
    BY <2>1, <2>2
<1>9. Hears'
  BY <1>7 DEF Hears, Served
<1>. QED
  BY <1>5, <1>6, <1>8, <1>9 DEF IInv
-----------------------------------------------------------------------------
(* The steps of a host *)

Running(h) == hpc[h] \notin {"down", "accept"}

\* What the invariant says of a host that serves a client.
LEMMA ServedFacts ==
    ASSUME IInv, NEW h \in Hosts, Running(h)
    PROVE  /\ peer[h] \in Clients /\ peer[h] # Nobody /\ Served(h) \in Ends
           /\ HearsAs(hpc[h], Served(h).to_host, typed[h])
           /\ Served(h).up =>
                 /\ target[peer[h]] = h
                 /\ AgreeAs(cpc[peer[h]], key[peer[h]], hpc[h], db[h], Served(h))
<1>1. peer[h] \in Clients /\ peer[h] # Nobody
  BY PairingAssumption DEF IInv, Typed, TypeOK, Running
<1>2. Served(h) \in Ends
  BY <1>1, LinkTyped DEF IInv, Typed, Served
<1>3. HearsAs(hpc[h], Served(h).to_host, typed[h])
  BY <1>1 DEF IInv, Hears
<1>4. Agrees(peer[h], h)
  BY <1>1 DEF IInv
<1>. QED
  BY <1>1, <1>2, <1>3, <1>4 DEF Agrees, Served

LEMMA HostData ==
    ASSUME IInv, NEW h \in Hosts
    PROVE  /\ hpc[h] \in HostPlaces /\ db[h] \in SUBSET Key /\ file[h] \in Files
           /\ file[h].keys \in SUBSET Key
           /\ cert \in [Hosts -> Nat] /\ db[h] \cup file[h].keys \subseteq typed[h]
           /\ Running(h) /\ file[h].parses => file[h].keys \subseteq db[h]
  BY DEF IInv, Typed, TypeOK, HostPlaces, Files, TrustedByPin, Loaded, Running

\* Reading a message takes it off the queue.
LEMMA RestFacts ==
    ASSUME IInv, NEW h \in Hosts, Running(h), HasMsg(h)
    PROVE  /\ Rest(h) \in Ends /\ Rest(h).up = Served(h).up
           /\ Rest(h).to_host = Tail(Served(h).to_host)
           /\ Rest(h).to_client = Served(h).to_client
           /\ Heard(h) = Head(Served(h).to_host) /\ Heard(h) \in Msgs
           /\ Served(h).to_host # <<>> /\ Served(h).to_host \in Seq(Msgs)
           /\ Served(h).to_client \in Seq(Msgs)
           /\ Len(Rest(h).to_host) = Len(Served(h).to_host) - 1
           /\ Len(Rest(h).to_host) = 0 <=> Rest(h).to_host = <<>>
<1>1. Served(h) \in Ends /\ Served(h).to_host \in Seq(Msgs) /\ Served(h).to_client \in Seq(Msgs)
  BY ServedFacts, EndsFacts
<1>2. Served(h).to_host # <<>>
  BY DEF HasMsg
<1>3. Tail(Served(h).to_host) \in Seq(Msgs) /\ Head(Served(h).to_host) \in Msgs
      /\ Len(Tail(Served(h).to_host)) = Len(Served(h).to_host) - 1
      /\ (Tail(Served(h).to_host) = <<>> <=> Len(Tail(Served(h).to_host)) = 0)
  BY <1>1, <1>2, QueueFacts
<1>4. /\ Rest(h) \in Ends /\ Rest(h).up = Served(h).up
      /\ Rest(h).to_host = Tail(Served(h).to_host)
      /\ Rest(h).to_client = Served(h).to_client
  BY <1>1, <1>3 DEF Rest, Ends
<1>. QED
  BY <1>1, <1>2, <1>3, <1>4 DEF Heard

\* Trust that a step may leave in the memory of h.
MayTrust(h, d) == d \in SUBSET Key /\ db[h] \subseteq d /\ d \subseteq typed[h]

\* The connection is dropped and h is ready for the next.
LEMMA HostGoesOn ==
    ASSUME IInv, NEW h \in Hosts, Running(h), NEW l \in Ends, NEW d, MayTrust(h, d),
           HostDone(h, l), db' = [db EXCEPT ![h] = d],
           UNCHANGED <<cert, file, client, keys, typed>>
    PROVE  IInv'
<1>1. peer[h] \in Clients /\ peer[h] # Nobody
  BY ServedFacts
<1>2. HostDrops(l) \in SUBSET Ends
  BY HostDropsFacts
<1>3. LinkMoves(peer[h], h) /\ link'[<<peer[h], h>>] \in HostDrops(l)
  BY <1>1, <1>2, LinkChanged DEF HostDone, IInv, Typed
<1>4. ~ link'[<<peer[h], h>>].up
  BY <1>3, HostDropsFacts
<1>5. file' = [file EXCEPT ![h] = file[h]]
  BY DEF IInv, Typed, TypeOK
<1>6. HostMoves(h, "accept", Nobody, d, file[h])
  BY <1>5 DEF HostMoves, HostDone
<1>7. cert' \in [Hosts -> Nat] /\ file[h] \in Files /\ d \in SUBSET Key
      /\ d \cup file[h].keys \subseteq typed[h]
      /\ (file[h].parses => file[h].keys \subseteq d)
  BY HostData DEF MayTrust
<1>8. "accept" \in HostPlaces /\ "accept" \in {"down", "accept"}
  BY DEF HostPlaces
<1>. QED
  BY <1>3, <1>4, <1>6, <1>7, <1>8, HostTurn

\* h goes on with the client it serves; their connection is l now.
LEMMA HostStays ==
    ASSUME IInv, NEW h \in Hosts, peer[h] \in Clients, NEW x \in HostPlaces \ {"down", "accept"},
           NEW d, MayTrust(h, d), NEW f \in Files, NEW l \in Ends,
           HostMoves(h, x, peer[h], d, f), UNCHANGED cert,
           LinkMoves(peer[h], h), link'[<<peer[h], h>>] = l,
           f.keys \subseteq typed[h], f.parses => f.keys \subseteq d,
           HearsAs(x, l.to_host, typed[h]), l.up => target[peer[h]] = h,
           l.up => AgreeAs(cpc[peer[h]], key[peer[h]], x, d, l)
    PROVE  IInv'
<1>. DEFINE y == peer[h]
<1>1. y # Nobody /\ cert' \in [Hosts -> Nat] /\ d \in SUBSET Key /\ d \cup f.keys \subseteq typed[h]
  BY PairingAssumption, HostData DEF MayTrust
<1>2. y = Nobody <=> x \in {"down", "accept"}
  BY <1>1
<1>3. HearsAs(x, link'[<<y, h>>].to_host, typed[h])
  OBVIOUS
<1>4. link'[<<y, h>>].up => /\ y = peer[h] /\ target[y] = h
                            /\ AgreeAs(cpc[y], key[y], x, d, link'[<<y, h>>])
  OBVIOUS
<1>5. HostMoves(h, x, y, d, f) /\ y \in {peer[h], Nobody} /\ x \in HostPlaces
  OBVIOUS
<1>6. y = peer[h]
  OBVIOUS
<1>. HIDE DEF y
<1>. QED
  BY <1>1, <1>2, <1>3, <1>4, <1>5, <1>6, HostTurn

\* What an answer of h on l has to fit.
ReplyFits(h, l, d, next) ==
    \A k \in Ends :
        /\ k.up /\ l.up /\ k.to_host = l.to_host
        /\ Len(k.to_client) = Len(l.to_client) + 1
        => AgreeAs(cpc[peer[h]], key[peer[h]], next, d, k)

\* An answer is sent, or the connection turns out to be lost.
LEMMA HostReplies ==
    ASSUME IInv, NEW h \in Hosts, Running(h), NEW l \in Ends, NEW d, MayTrust(h, d),
           NEW m \in Msgs, NEW next \in {"confirming", "auth", "saving"},
           Reply(h, l, m, next), db' = [db EXCEPT ![h] = d],
           UNCHANGED <<cert, file, client, keys, typed>>,
           l.up => Served(h).up,
           HearsAs(next, l.to_host, typed[h]),
           ReplyFits(h, l, d, next)
    PROVE  IInv'
<1>1. peer[h] \in Clients /\ peer[h] # Nobody
  BY ServedFacts
<1>2. CASE ~ l.up
  BY <1>2, HostGoesOn DEF Reply
<1>3. CASE l.up
  <2>. DEFINE k == [l EXCEPT !.to_client = Append(@, m)]
  <2>1. l.to_client \in Seq(Msgs) /\ Append(l.to_client, m) \in Seq(Msgs)
        /\ Len(Append(l.to_client, m)) = Len(l.to_client) + 1
    BY EndsFacts, QueueFacts
  <2>2. k \in Ends /\ k.up = l.up /\ k.to_host = l.to_host
        /\ k.to_client = Append(l.to_client, m)
    BY <2>1 DEF Ends
  <2>. HIDE DEF k
  <2>3. Links(peer[h], h, {k}) /\ hpc' = [hpc EXCEPT ![h] = next] /\ peer' = peer
    BY <1>3 DEF Reply, k
  <2>4. {k} \in SUBSET Ends
    BY <2>2
  <2>5. LinkMoves(peer[h], h) /\ link'[<<peer[h], h>>] = k
    BY <1>1, <2>3, <2>4, LinkChanged DEF IInv, Typed
  <2>6. file' = [file EXCEPT ![h] = file[h]] /\ peer' = [peer EXCEPT ![h] = peer[h]]
    BY <2>3 DEF IInv, Typed, TypeOK
  <2>7. HostMoves(h, next, peer[h], d, file[h])
    BY <2>3, <2>6 DEF HostMoves
  <2>8. file[h] \in Files /\ file[h].keys \subseteq typed[h]
        /\ (file[h].parses => file[h].keys \subseteq d)
    BY HostData DEF MayTrust
  <2>9. next \in HostPlaces \ {"down", "accept"}
    BY DEF HostPlaces
  <2>10. target[peer[h]] = h
    BY <1>3, ServedFacts
  <2>11. AgreeAs(cpc[peer[h]], key[peer[h]], next, d, k)
    BY <1>3, <2>1, <2>2 DEF ReplyFits
  <2>12. HearsAs(next, k.to_host, typed[h])
    BY <2>2
  <2>. QED
    BY <1>1, <2>2, <2>5, <2>7, <2>8, <2>9, <2>10, <2>11, <2>12, HostStays
<1>. QED
  BY <1>2, <1>3

LEMMA SameTrust ==
    ASSUME IInv, NEW h \in Hosts
    PROVE  /\ MayTrust(h, db[h])
           /\ UNCHANGED db => db' = [db EXCEPT ![h] = db[h]]
<1>1. db' = db => db' = [db EXCEPT ![h] = db[h]]
  BY DEF IInv, Typed, TypeOK
<1>. QED
  BY <1>1, HostData DEF MayTrust

LEMMA HostStartStep ==
    ASSUME IInv, NEW h \in Hosts, HostStart(h) PROVE IInv'
<1>. DEFINE d == load_trust_db(h)
<1>1. peer[h] = Nobody /\ peer' = [peer EXCEPT ![h] = Nobody]
      /\ file' = [file EXCEPT ![h] = file[h]]
  BY DEF HostStart, IInv, Typed, TypeOK
<1>2. /\ d \in SUBSET Key /\ d \cup file[h].keys \subseteq typed[h]
      /\ file[h] \in Files /\ (file[h].parses => file[h].keys \subseteq d)
  BY HostData DEF load_trust_db
<1>3. cert' \in [Hosts -> Nat]
  <2>1. cert[h] + 1 \in Nat
    BY DEF IInv, Typed, TypeOK
  <2>. QED
    BY <2>1, HostData DEF HostStart, make_server_config
<1>4. HostMoves(h, "accept", Nobody, d, file[h])
  BY <1>1 DEF HostStart, HostMoves
<1>5. LinkMoves(peer[h], h)
  BY LinkUnchanged DEF HostStart, IInv, Typed
<1>6. "accept" \in HostPlaces /\ "accept" \in {"down", "accept"}
  BY DEF HostPlaces
<1>. HIDE DEF d
<1>. QED
  BY <1>1, <1>2, <1>3, <1>4, <1>5, <1>6, HostTurn

LEMMA HostStopsStep ==
    ASSUME IInv, NEW h \in Hosts, HostStops(h) PROVE IInv'
<1>. USE DEF HostStops
<1>1. PICK f \in Files : /\ file' = [file EXCEPT ![h] = f] /\ f.keys = file[h].keys
  <2>1. CASE UNCHANGED file
    <3>1. file' = [file EXCEPT ![h] = file[h]]
      BY <2>1 DEF IInv, Typed, TypeOK
    <3>. QED
      BY <3>1, HostData
  <2>2. CASE file' = [file EXCEPT ![h].parses = FALSE]
    <3>. DEFINE f == [file[h] EXCEPT !.parses = FALSE]
    <3>1. f \in Files /\ f.keys = file[h].keys
      BY HostData DEF Files
    <3>2. file' = [file EXCEPT ![h] = f]
      BY <2>2
    <3>. QED
      BY <3>1, <3>2
  <2>. QED
    BY <2>1, <2>2
<1>2. HostMoves(h, "down", Nobody, {}, f)
  BY <1>1 DEF HostMoves
<1>3. /\ "down" \in HostPlaces /\ "down" \in {"down", "accept"} /\ {} \in SUBSET Key
      /\ {} \cup f.keys \subseteq typed[h] /\ cert' \in [Hosts -> Nat]
  BY <1>1, HostData DEF HostPlaces
<1>4. LinkMoves(peer[h], h) /\ (peer[h] # Nobody => ~ link'[<<peer[h], h>>].up)
  <2>1. CASE peer[h] = Nobody
    BY <2>1, LinkUnchanged DEF IInv, Typed
  <2>2. CASE peer[h] # Nobody
    <3>1. Running(h)
      BY <2>2 DEF IInv, Typed, TypeOK, Running
    <3>2. peer[h] \in Clients /\ HostDrops(Served(h)) \in SUBSET Ends
      BY <3>1, ServedFacts, HostDropsFacts
    <3>3. LinkMoves(peer[h], h) /\ link'[<<peer[h], h>>] \in HostDrops(Served(h))
      BY <2>2, <3>2, LinkChanged DEF IInv, Typed
    <3>. QED
      BY <3>1, <3>3, ServedFacts, HostDropsFacts
  <2>. QED
    BY <2>1, <2>2
<1>. QED
  BY <1>1, <1>2, <1>3, <1>4, HostTurn

\* The protocol, step by step: l is the connection before a message is read or an
\* answer sent, r the connection after it.
LEMMA HelloPair ==
    ASSUME NEW p, NEW k, NEW d, NEW l \in Ends, NEW r \in Ends,
           AgreeAs(p, k, "hello", d, l), Head(l.to_host).type = "Pair",
           Len(r.to_host) = Len(l.to_host) - 1, r.to_client = l.to_client
    PROVE  AgreeAs(p, k, "pairing", d, r)
<1>1. Len(r.to_host) = 0 <=> r.to_host = <<>>
  BY EndsFacts, QueueFacts
<1>. QED
  BY <1>1 DEF AgreeAs, Accepted

LEMMA HelloAuth ==
    ASSUME NEW p, NEW k, NEW d, NEW l \in Ends, NEW r \in Ends,
           AgreeAs(p, k, "hello", d, l), Head(l.to_host).type = "Auth",
           Len(r.to_host) = Len(l.to_host) - 1, Len(r.to_client) = Len(l.to_client) + 1
    PROVE  AgreeAs(p, k, "auth", d, r)
<1>1. (Len(r.to_host) = 0 <=> r.to_host = <<>>) /\ (l.to_client = <<>> => Len(l.to_client) = 0)
  BY EndsFacts, QueueFacts
<1>. QED
  BY <1>1 DEF AgreeAs, Accepted

LEMMA RecvHelloStep ==
    ASSUME IInv, NEW h \in Hosts, RecvHello(h) PROVE IInv'
<1>1. hpc[h] = "hello" /\ Running(h) /\ HasMsg(h)
  BY DEF RecvHello, Running
<1>2. HearsAs("hello", Served(h).to_host, typed[h])
      /\ (Served(h).up =>
             /\ target[peer[h]] = h
             /\ AgreeAs(cpc[peer[h]], key[peer[h]], "hello", db[h], Served(h)))
  BY <1>1, ServedFacts
<1>3. db' = [db EXCEPT ![h] = db[h]] /\ MayTrust(h, db[h])
      /\ UNCHANGED <<cert, file, client, keys, typed>>
  BY SameTrust DEF RecvHello
<1>4. /\ Served(h) \in Ends /\ Rest(h) \in Ends /\ (Rest(h).up <=> Served(h).up)
      /\ Rest(h).to_client = Served(h).to_client /\ Heard(h) = Head(Served(h).to_host)
      /\ Len(Rest(h).to_host) = Len(Served(h).to_host) - 1
  BY <1>1, ServedFacts, RestFacts
<1>5. CASE /\ Heard(h).type = "Pair"
           /\ hpc' = [hpc EXCEPT ![h] = "pairing"] /\ UNCHANGED peer
           /\ Links(peer[h], h, {Rest(h)})
  <2>1. peer[h] \in Clients /\ peer[h] # Nobody /\ Rest(h) \in Ends
    BY <1>1, ServedFacts, RestFacts
  <2>2. LinkMoves(peer[h], h) /\ link'[<<peer[h], h>>] = Rest(h)
    <3>1. {Rest(h)} \in SUBSET Ends
      BY <2>1
    <3>. QED
      BY <1>5, <2>1, <3>1, LinkChanged DEF IInv, Typed
  <2>3. peer' = [peer EXCEPT ![h] = peer[h]] /\ file' = [file EXCEPT ![h] = file[h]]
    BY <1>3, <1>5 DEF IInv, Typed, TypeOK
  <2>4. HostMoves(h, "pairing", peer[h], db[h], file[h])
    BY <1>3, <1>5, <2>3 DEF HostMoves
  <2>5. "pairing" \in HostPlaces \ {"down", "accept"}
    BY DEF HostPlaces
  <2>6. HearsAs("pairing", Rest(h).to_host, typed[h])
    <3>1. Len(Served(h).to_host) \in Nat
      BY <1>4, EndsFacts, QueueFacts
    <3>. QED
      BY <1>2, <1>4, <3>1 DEF HearsAs
  <2>7. Rest(h).up => AgreeAs(cpc[peer[h]], key[peer[h]], "pairing", db[h], Rest(h))
    BY <1>2, <1>5, <1>4, HelloPair
  <2>8. file[h] \in Files /\ file[h].keys \subseteq typed[h]
        /\ (file[h].parses => file[h].keys \subseteq db[h])
    BY <1>1, HostData
  <2>9. Rest(h).up => target[peer[h]] = h
    BY <1>1, <1>2, RestFacts
  <2>. QED
    BY <1>3, <2>1, <2>2, <2>4, <2>5, <2>6, <2>7, <2>8, <2>9, HostStays
<1>6. CASE /\ Heard(h).type = "Auth"
           /\ Reply(h, Rest(h), Msg("AuthChallenge", NoKey, TRUE), "auth")
  <2>1. Msg("AuthChallenge", NoKey, TRUE) \in Msgs
    BY DEF Msg, Msgs
  <2>2. HearsAs("auth", Rest(h).to_host, typed[h])
    BY DEF HearsAs
  <2>3. ReplyFits(h, Rest(h), db[h], "auth")
    <3>. SUFFICES ASSUME NEW k \in Ends, Rest(h).up, k.to_host = Rest(h).to_host,
                           Len(k.to_client) = Len(Rest(h).to_client) + 1
                    PROVE  AgreeAs(cpc[peer[h]], key[peer[h]], "auth", db[h], k)
      BY DEF ReplyFits
    <3>1. Head(Served(h).to_host).type = "Auth"
      BY <1>6, <1>4
    <3>2. AgreeAs(cpc[peer[h]], key[peer[h]], "hello", db[h], Served(h))
      BY <1>2, <1>4
    <3>3. /\ Len(k.to_host) = Len(Served(h).to_host) - 1
          /\ Len(k.to_client) = Len(Served(h).to_client) + 1 /\ Served(h) \in Ends
      BY <1>4
    <3>. QED
      BY <3>1, <3>2, <3>3, HelloAuth
  <2>4. Rest(h) \in Ends /\ (Rest(h).up => Served(h).up)
    BY <1>4
  <2>. QED
    BY <1>1, <1>3, <1>6, <2>1, <2>2, <2>3, <2>4, HostReplies
<1>7. CASE HostDone(h, Rest(h))
  BY <1>1, <1>3, <1>4, <1>7, HostGoesOn
<1>. QED
  BY <1>5, <1>6, <1>7 DEF RecvHello

\* A queue that has got longer is not empty.
LEMMA Longer ==
    ASSUME NEW q \in Seq(Msgs), NEW r \in Seq(Msgs), Len(r) = Len(q) + 1
    PROVE  r # <<>>
  OBVIOUS

LEMMA PairingAsked ==
    ASSUME NEW p, NEW k, NEW d, NEW l \in Ends, NEW r \in Ends,
           AgreeAs(p, k, "pairing", d, l), l.to_host # <<>>,
           Len(r.to_host) = Len(l.to_host) - 1, Len(r.to_client) = Len(l.to_client) + 1
    PROVE  AgreeAs(p, k, "confirming", d, r)
<1>1. (Len(r.to_host) = 0 <=> r.to_host = <<>>) /\ (l.to_client = <<>> => Len(l.to_client) = 0)
  BY EndsFacts, QueueFacts
<1>. QED
  BY <1>1 DEF AgreeAs, Accepted

LEMMA PairingAccepted ==
    ASSUME NEW p, NEW k, NEW d, NEW l \in Ends, NEW r \in Ends,
           AgreeAs(p, k, "confirming", d, l), l.to_host # <<>>, r.to_client # <<>>
    PROVE  AgreeAs(p, k, "saving", d \cup {Head(l.to_host).key}, r)
  BY DEF AgreeAs, Accepted

LEMMA AuthAccepted ==
    ASSUME NEW p, NEW k, NEW d, NEW l \in Ends, NEW r \in Ends,
           AgreeAs(p, k, "auth", d, l), l.to_host # <<>>, Head(l.to_host).key \in d,
           r.to_client # <<>>
    PROVE  AgreeAs(p, k, "saving", d, r)
  BY DEF AgreeAs, Accepted

LEMMA RecvPairingRequestStep ==
    ASSUME IInv, NEW h \in Hosts, RecvPairingRequest(h) PROVE IInv'
<1>1. hpc[h] = "pairing" /\ Running(h) /\ HasMsg(h)
  BY DEF RecvPairingRequest, Running
<1>2. /\ Served(h) \in Ends /\ HearsAs("pairing", Served(h).to_host, typed[h])
      /\ Served(h).up =>
             AgreeAs(cpc[peer[h]], key[peer[h]], "pairing", db[h], Served(h))
  BY <1>1, ServedFacts
<1>3. /\ db' = [db EXCEPT ![h] = db[h]] /\ MayTrust(h, db[h])
      /\ UNCHANGED <<cert, file, client, keys, typed>>
      /\ Reply(h, Rest(h), Msg("PairingResponse", NoKey, TRUE), "confirming")
  BY SameTrust DEF RecvPairingRequest
<1>4. Msg("PairingResponse", NoKey, TRUE) \in Msgs
  BY DEF Msg, Msgs
<1>5. /\ Rest(h) \in Ends /\ (Rest(h).up <=> Served(h).up)
      /\ Served(h).to_host # <<>> /\ Len(Rest(h).to_host) = Len(Served(h).to_host) - 1
      /\ Rest(h).to_client = Served(h).to_client
  BY <1>1, RestFacts
<1>6. HearsAs("confirming", Rest(h).to_host, typed[h])
  <2>1. Len(Served(h).to_host) \in Nat /\ (Rest(h).to_host = <<>> <=> Len(Rest(h).to_host) = 0)
        /\ Len(Rest(h).to_host) \in Nat
    BY <1>2, <1>5, EndsFacts, QueueFacts
  <2>. QED
    BY <1>2, <1>5, <2>1 DEF HearsAs
<1>7. ReplyFits(h, Rest(h), db[h], "confirming")
  <2>. SUFFICES ASSUME NEW k \in Ends, Rest(h).up, k.to_host = Rest(h).to_host,
                         Len(k.to_client) = Len(Rest(h).to_client) + 1
                  PROVE  AgreeAs(cpc[peer[h]], key[peer[h]], "confirming", db[h], k)
    BY DEF ReplyFits
  <2>1. AgreeAs(cpc[peer[h]], key[peer[h]], "pairing", db[h], Served(h))
    BY <1>2, <1>5
  <2>2. /\ Len(k.to_host) = Len(Served(h).to_host) - 1
        /\ Len(k.to_client) = Len(Served(h).to_client) + 1
        /\ Served(h) \in Ends /\ Served(h).to_host # <<>>
    BY <1>2, <1>5
  <2>. QED
    BY <2>1, <2>2, PairingAsked
<1>. QED
  BY <1>1, <1>3, <1>4, <1>5, <1>6, <1>7, HostReplies

LEMMA AcceptPairingStep ==
    ASSUME IInv, NEW h \in Hosts, AcceptPairing(h) PROVE IInv'
<1>. DEFINE d == db[h] \cup {Heard(h).key}
<1>1. hpc[h] = "confirming" /\ Running(h) /\ HasMsg(h) /\ Heard(h).good
  BY DEF AcceptPairing, Running, Verified
<1>2. /\ Served(h) \in Ends /\ HearsAs("confirming", Served(h).to_host, typed[h])
      /\ Served(h).up =>
             AgreeAs(cpc[peer[h]], key[peer[h]], "confirming", db[h], Served(h))
  BY <1>1, ServedFacts
<1>3. /\ Rest(h) \in Ends /\ (Rest(h).up <=> Served(h).up)
      /\ Heard(h) = Head(Served(h).to_host) /\ Served(h).to_host # <<>>
  BY <1>1, RestFacts
<1>4. Heard(h).key \in typed[h]
  BY <1>1, <1>2, <1>3 DEF HearsAs
<1>5. MayTrust(h, d)
  <2>1. typed[h] \in SUBSET Key
    BY DEF IInv, Typed, TypeOK
  <2>. QED
    BY <1>4, <2>1, HostData DEF MayTrust
<1>6. /\ db' = [db EXCEPT ![h] = d] /\ UNCHANGED <<cert, file, client, keys, typed>>
      /\ Reply(h, Rest(h), Msg("PairingResult", NoKey, TRUE), "saving")
  BY DEF AcceptPairing, add_client
<1>7. Msg("PairingResult", NoKey, TRUE) \in Msgs
  BY DEF Msg, Msgs
<1>8. HearsAs("saving", Rest(h).to_host, typed[h])
  BY DEF HearsAs
<1>9. ReplyFits(h, Rest(h), d, "saving")
  <2>. SUFFICES ASSUME NEW k \in Ends, Rest(h).up, k.to_host = Rest(h).to_host,
                         Len(k.to_client) = Len(Rest(h).to_client) + 1
                  PROVE  AgreeAs(cpc[peer[h]], key[peer[h]], "saving", d, k)
    BY DEF ReplyFits
  <2>1. AgreeAs(cpc[peer[h]], key[peer[h]], "confirming", db[h], Served(h))
    BY <1>2, <1>3
  <2>2. Served(h) \in Ends /\ Served(h).to_host # <<>> /\ k.to_client # <<>>
    BY <1>2, <1>3, EndsFacts, Longer
  <2>3. AgreeAs(cpc[peer[h]], key[peer[h]], "saving",
                db[h] \cup {Head(Served(h).to_host).key}, k)
    BY <2>1, <2>2, PairingAccepted
  <2>. QED
    BY <1>3, <2>3
<1>. HIDE DEF d
<1>. QED
  BY <1>1, <1>3, <1>5, <1>6, <1>7, <1>8, <1>9, HostReplies

LEMMA AcceptAuthStep ==
    ASSUME IInv, NEW h \in Hosts, AcceptAuth(h) PROVE IInv'
<1>1. hpc[h] = "auth" /\ Running(h) /\ HasMsg(h) /\ Heard(h).key \in db[h]
  BY DEF AcceptAuth, Running, is_trusted
<1>2. /\ Served(h) \in Ends
      /\ Served(h).up => AgreeAs(cpc[peer[h]], key[peer[h]], "auth", db[h], Served(h))
  BY <1>1, ServedFacts
<1>3. /\ Rest(h) \in Ends /\ (Rest(h).up <=> Served(h).up)
      /\ Heard(h) = Head(Served(h).to_host) /\ Served(h).to_host # <<>>
  BY <1>1, RestFacts
<1>4. /\ db' = [db EXCEPT ![h] = db[h]] /\ MayTrust(h, db[h])
      /\ UNCHANGED <<cert, file, client, keys, typed>>
      /\ Reply(h, Rest(h), Msg("AuthResult", NoKey, TRUE), "saving")
  BY SameTrust DEF AcceptAuth
<1>5. Msg("AuthResult", NoKey, TRUE) \in Msgs
  BY DEF Msg, Msgs
<1>6. HearsAs("saving", Rest(h).to_host, typed[h])
  BY DEF HearsAs
<1>7. ReplyFits(h, Rest(h), db[h], "saving")
  <2>. SUFFICES ASSUME NEW k \in Ends, Rest(h).up, k.to_host = Rest(h).to_host,
                         Len(k.to_client) = Len(Rest(h).to_client) + 1
                  PROVE  AgreeAs(cpc[peer[h]], key[peer[h]], "saving", db[h], k)
    BY DEF ReplyFits
  <2>1. AgreeAs(cpc[peer[h]], key[peer[h]], "auth", db[h], Served(h))
    BY <1>2, <1>3
  <2>2. /\ Served(h) \in Ends /\ Served(h).to_host # <<>>
        /\ Head(Served(h).to_host).key \in db[h] /\ k.to_client # <<>>
    BY <1>1, <1>2, <1>3, EndsFacts, Longer
  <2>. QED
    BY <2>1, <2>2, AuthAccepted
<1>. QED
  BY <1>1, <1>3, <1>4, <1>5, <1>6, <1>7, HostReplies

\* The steps after which the host waits for the next connection.
LEMMA RefuseStep ==
    ASSUME IInv, NEW h \in Hosts, RejectPairing(h) \/ RejectAuth(h) PROVE IInv'
<1>1. /\ Running(h) /\ HasMsg(h) /\ UNCHANGED <<cert, file, client, keys, typed>>
      /\ db' = [db EXCEPT ![h] = db[h]] /\ MayTrust(h, db[h])
  BY SameTrust DEF RejectPairing, RejectAuth, Running
<1>2. PICK m \in Msgs : Refuse(h, Rest(h), m)
  <2>1. Msg("PairingResult", NoKey, FALSE) \in Msgs /\ Msg("AuthResult", NoKey, FALSE) \in Msgs
    BY DEF Msg, Msgs
  <2>. QED
    BY <2>1 DEF RejectPairing, RejectAuth
<1>3. Rest(h) \in Ends /\ Rest(h).to_client \in Seq(Msgs)
  BY <1>1, RestFacts, EndsFacts
<1>4. [Rest(h) EXCEPT !.to_client = Append(@, m)] \in Ends
  <2>1. Append(Rest(h).to_client, m) \in Seq(Msgs)
    BY <1>3
  <2>. QED
    BY <1>3, <2>1 DEF Ends
<1>5. PICK l \in Ends : HostDone(h, l)
  BY <1>2, <1>3, <1>4 DEF Refuse
<1>. QED
  BY <1>1, <1>5, HostGoesOn

LEMMA HostEndsStep ==
    ASSUME IInv, NEW h \in Hosts, HostHangsUp(h) \/ StreamEnds(h) PROVE IInv'
<1>1. /\ Running(h) /\ HostDone(h, Served(h)) /\ UNCHANGED <<cert, file, client, keys, typed>>
      /\ db' = [db EXCEPT ![h] = db[h]] /\ MayTrust(h, db[h])
  BY SameTrust DEF HostHangsUp, StreamEnds, Running
<1>2. Served(h) \in Ends
  BY <1>1, ServedFacts
<1>. QED
  BY <1>1, <1>2, HostGoesOn

LEMMA SaveTrustStep ==
    ASSUME IInv, NEW h \in Hosts, SaveTrust(h) PROVE IInv'
<1>1. hpc[h] = "saving" /\ Running(h)
  BY DEF SaveTrust, Running
<1>2. /\ peer[h] \in Clients /\ peer[h] # Nobody /\ Served(h) \in Ends
      /\ Served(h).up =>
            /\ target[peer[h]] = h
            /\ AgreeAs(cpc[peer[h]], key[peer[h]], "saving", db[h], Served(h))
  BY <1>1, ServedFacts
<1>3. PICK f \in Files : /\ file' = [file EXCEPT ![h] = f]
                         /\ f.keys \subseteq typed[h]
                         /\ f.parses => f.keys \subseteq db[h]
  <2>1. CASE file' = [file EXCEPT ![h] = [keys |-> db[h], parses |-> TRUE]]
    <3>1. [keys |-> db[h], parses |-> TRUE] \in Files
      BY HostData DEF Files
    <3>. QED
      BY <2>1, <3>1, HostData
  <2>2. CASE UNCHANGED file
    <3>1. file' = [file EXCEPT ![h] = file[h]]
      BY <2>2 DEF IInv, Typed, TypeOK
    <3>. QED
      BY <1>1, <3>1, HostData
  <2>3. CASE file' = [file EXCEPT ![h].parses = FALSE]
    <3>. DEFINE f == [file[h] EXCEPT !.parses = FALSE]
    <3>1. f \in Files /\ f.keys = file[h].keys /\ f.parses = FALSE
      BY HostData DEF Files
    <3>2. file' = [file EXCEPT ![h] = f]
      BY <2>3
    <3>. HIDE DEF f
    <3>. QED
      BY <3>1, <3>2, HostData
  <2>. QED
    BY <2>1, <2>2, <2>3 DEF SaveTrust
<1>4. HostMoves(h, "streaming", peer[h], db[h], f)
  <2>1. peer' = [peer EXCEPT ![h] = peer[h]] /\ db' = [db EXCEPT ![h] = db[h]]
    BY SameTrust DEF SaveTrust, IInv, Typed, TypeOK
  <2>. QED
    BY <1>3, <2>1 DEF HostMoves, SaveTrust
<1>5. LinkMoves(peer[h], h) /\ link'[<<peer[h], h>>] = Served(h)
  BY LinkUnchanged DEF SaveTrust, IInv, Typed, Served
<1>6. "streaming" \in HostPlaces \ {"down", "accept"} /\ MayTrust(h, db[h]) /\ UNCHANGED cert
  BY SameTrust DEF HostPlaces, SaveTrust
<1>7. HearsAs("streaming", Served(h).to_host, typed[h])
  BY DEF HearsAs
<1>8. Served(h).up => AgreeAs(cpc[peer[h]], key[peer[h]], "streaming", db[h], Served(h))
  BY <1>2 DEF AgreeAs, Accepted
<1>9. Served(h).up => target[peer[h]] = h
  BY <1>2
<1>10. peer[h] \in Clients /\ Served(h) \in Ends
  BY <1>2
<1>. QED
  BY <1>3, <1>4, <1>5, <1>6, <1>7, <1>8, <1>9, <1>10, HostStays
-----------------------------------------------------------------------------
(* The steps of a client *)

LEMMA OwnFacts ==
    ASSUME IInv, NEW c \in Clients, cpc[c] # "off"
    PROVE  /\ target[c] \in Hosts /\ target[c] # Nobody /\ Own(c) \in Ends
           /\ Own(c).up =>
                 /\ peer[target[c]] = c
                 /\ AgreeAs(cpc[c], key[c], hpc[target[c]], db[target[c]], Own(c))
           /\ peer[target[c]] = c =>
                 HearsAs(hpc[target[c]], Own(c).to_host, typed[target[c]])
<1>1. target[c] \in Hosts /\ target[c] # Nobody
  BY DEF IInv, Typed, TypeOK
<1>2. Own(c) \in Ends
  BY <1>1, LinkTyped DEF IInv, Typed, Own
<1>3. Agrees(c, target[c])
  BY <1>1 DEF IInv
<1>4. peer[target[c]] = c => HearsAs(hpc[target[c]], Own(c).to_host, typed[target[c]])
  BY <1>1, PairingAssumption DEF IInv, Hears, Served, Own
<1>. QED
  BY <1>1, <1>2, <1>3, <1>4 DEF Agrees, Own

LEMMA ClientData ==
    ASSUME IInv, NEW c \in Clients
    PROVE  /\ cpc[c] \in ClientPlaces /\ key[c] \in Key \cup {NoKey} /\ peer_cert[c] \in Nat
           /\ keyfile \in [Clients -> Key \cup {NoKey, BadKey}]
           /\ certfile \in [Clients -> [Hosts -> Nat]]
           /\ keys \in 0..MaxKeys /\ typed \in [Hosts -> SUBSET Key]
  BY DEF IInv, Typed, TypeOK, ClientPlaces

LEMMA CRestFacts ==
    ASSUME IInv, NEW c \in Clients, cpc[c] # "off", CHasMsg(c)
    PROVE  /\ CRest(c) \in Ends /\ CRest(c).up = Own(c).up
           /\ CRest(c).to_host = Own(c).to_host
           /\ CRest(c).to_client = Tail(Own(c).to_client)
           /\ Own(c).to_client # <<>>
           /\ Len(CRest(c).to_client) = Len(Own(c).to_client) - 1
<1>1. Own(c) \in Ends /\ Own(c).to_host \in Seq(Msgs) /\ Own(c).to_client \in Seq(Msgs)
  BY OwnFacts, EndsFacts
<1>2. Own(c).to_client # <<>>
  BY DEF CHasMsg
<1>3. Tail(Own(c).to_client) \in Seq(Msgs)
      /\ Len(Tail(Own(c).to_client)) = Len(Own(c).to_client) - 1
  BY <1>1, <1>2, QueueFacts
<1>. QED
  BY <1>1, <1>2, <1>3 DEF CRest, Ends

\* What a step of a client may do to the files, the keys and the PINs that were typed.
ClientFiles ==
    /\ keyfile' \in [Clients -> Key \cup {NoKey, BadKey}]
    /\ certfile' \in [Clients -> [Hosts -> Nat]]
    /\ keys' \in 0..MaxKeys /\ typed' \in [Hosts -> SUBSET Key]
    /\ \A g \in Hosts : typed[g] \subseteq typed'[g]

LEMMA SameFiles ==
    ASSUME IInv, UNCHANGED <<keyfile, certfile, keys, typed>>
    PROVE  ClientFiles
  BY DEF IInv, Typed, TypeOK, ClientFiles

\* The process ends, or its connection is gone.
LEMMA ClientGoes ==
    ASSUME IInv, NEW c \in Clients, cpc[c] # "off", NEW l \in Ends,
           l.to_host = Own(c).to_host, ClientDone(c, l), ClientFiles, UNCHANGED host
    PROVE  IInv'
<1>1. target[c] \in Hosts /\ Own(c).to_host \in Seq(Msgs)
  BY OwnFacts, EndsFacts
<1>2. ClientDrops(l) \in SUBSET Ends
  BY ClientDropsFacts
<1>3. LinkMoves(c, target[c]) /\ link'[<<c, target[c]>>] \in ClientDrops(l)
  BY <1>1, <1>2, LinkChanged DEF ClientDone, IInv, Typed
<1>4. /\ ~ link'[<<c, target[c]>>].up
      /\ \/ link'[<<c, target[c]>>].to_host = Own(c).to_host
         \/ link'[<<c, target[c]>>].to_host = <<>>
  BY <1>3, ClientDropsFacts
<1>5. peer[target[c]] = c =>
          HearsAs(hpc[target[c]], link'[<<c, target[c]>>].to_host, typed'[target[c]])
  <2>1. typed[target[c]] \subseteq typed'[target[c]]
    BY <1>1 DEF ClientFiles
  <2>. QED
    BY <1>1, <1>4, <2>1, OwnFacts, HearsLess
<1>6. Become(c, "off", Nobody, NoKey, NoCert)
  BY DEF ClientDone
<1>7. "off" \in ClientPlaces /\ NoKey \in Key \cup {NoKey} /\ NoCert \in Nat
  BY DEF ClientPlaces, NoCert
<1>. QED
  BY <1>1, <1>3, <1>4, <1>5, <1>6, <1>7, ClientTurn DEF ClientFiles

\* The process goes on at next; its connection, now r, says the same to the host.
LEMMA ClientSteps ==
    ASSUME IInv, NEW c \in Clients, cpc[c] # "off", NEW r \in Ends,
           NEW next \in ClientPlaces \ {"off"}, NEW k \in Key \cup {NoKey},
           Step(c, k, next), ClientFiles, UNCHANGED host,
           LinkMoves(c, target[c]), link'[<<c, target[c]>>] = r,
           r.up => Own(c).up /\ AgreeAs(next, k, hpc[target[c]], db[target[c]], r),
           peer[target[c]] = c => HearsAs(hpc[target[c]], r.to_host, typed'[target[c]])
    PROVE  IInv'
<1>1. target[c] \in Hosts /\ target[c] # Nobody
  BY OwnFacts
<1>2. Become(c, next, target[c], k, peer_cert[c]) /\ peer_cert[c] \in Nat
  BY ClientData DEF Step
<1>3. r.up => peer[target[c]] = c
  BY OwnFacts
<1>. QED
  BY <1>1, <1>2, <1>3, ClientTurn DEF ClientFiles

\* What an answer m of c on l has to fit.
AnswerFits(c, l, m, k, next) ==
    \A r \in Ends :
        /\ r.up /\ l.up /\ r.to_host = Append(l.to_host, m)
        /\ r.to_client = l.to_client
        => /\ AgreeAs(next, k, hpc[target[c]], db[target[c]], r)
           /\ HearsAs(hpc[target[c]], r.to_host, typed'[target[c]])

\* An answer is sent, or the connection turns out to be lost.
LEMMA ClientAnswers ==
    ASSUME IInv, NEW c \in Clients, cpc[c] # "off", NEW l \in Ends, NEW m \in Msgs,
           NEW next \in ClientPlaces \ {"off"}, NEW k \in Key \cup {NoKey},
           Answer(c, l, m, k, next), ClientFiles, UNCHANGED host,
           l.to_host = Own(c).to_host, l.up => Own(c).up,
           AnswerFits(c, l, m, k, next)
    PROVE  IInv'
<1>1. target[c] \in Hosts
  BY OwnFacts
<1>2. CASE ~ l.up
  BY <1>2, ClientGoes DEF Answer
<1>3. CASE l.up
  <2>. DEFINE r == [l EXCEPT !.to_host = Append(@, m)]
  <2>1. l.to_host \in Seq(Msgs) /\ Append(l.to_host, m) \in Seq(Msgs)
    BY EndsFacts, QueueFacts
  <2>2. r \in Ends /\ r.up = l.up /\ r.to_host = Append(l.to_host, m)
        /\ r.to_client = l.to_client
    BY <2>1 DEF Ends
  <2>. HIDE DEF r
  <2>3. Links(c, target[c], {r}) /\ Step(c, k, next)
    BY <1>3 DEF Answer, r
  <2>4. {r} \in SUBSET Ends
    BY <2>2
  <2>5. LinkMoves(c, target[c]) /\ link'[<<c, target[c]>>] = r
    BY <1>1, <2>3, <2>4, LinkChanged DEF IInv, Typed
  <2>6. /\ AgreeAs(next, k, hpc[target[c]], db[target[c]], r)
        /\ HearsAs(hpc[target[c]], r.to_host, typed'[target[c]])
    BY <1>3, <2>2 DEF AnswerFits
  <2>7. r.up => Own(c).up
    BY <2>2
  <2>. QED
    BY <2>2, <2>3, <2>5, <2>6, <2>7, ClientSteps
<1>. QED
  BY <1>2, <1>3

LEMMA PinEntered ==
    ASSUME NEW k, NEW j, NEW x, NEW d, NEW l \in Ends, NEW r \in Ends, NEW m \in Msgs,
           NEW pins, AgreeAs("prompting", k, x, d, l),
           r.to_host = Append(l.to_host, m), r.to_client = l.to_client
    PROVE  AgreeAs("requested", j, x, d, r) /\ HearsAs(x, r.to_host, pins)
<1>1. /\ Len(r.to_host) = Len(l.to_host) + 1
      /\ (l.to_host = <<>> <=> Len(l.to_host) = 0)
      /\ (l.to_host # <<>> => Head(r.to_host) = Head(l.to_host))
  BY EndsFacts, QueueFacts
<1>. QED
  BY <1>1 DEF AgreeAs, HearsAs

LEMMA ConfirmSent ==
    ASSUME NEW k, NEW x, NEW d, NEW l \in Ends, NEW r \in Ends, NEW m \in Msgs, NEW pins,
           AgreeAs("requested", k, x, d, l), l.to_client # <<>>,
           r.to_host = Append(l.to_host, m), Len(r.to_client) = Len(l.to_client) - 1,
           m.key = k, m.good => k \in pins
    PROVE  AgreeAs("confirmed", k, x, d, r) /\ HearsAs(x, r.to_host, pins)
<1>0. /\ l.to_host \in Seq(Msgs) /\ r.to_client \in Seq(Msgs)
  BY EndsFacts
<1>1. /\ Len(r.to_host) = Len(l.to_host) + 1 /\ (l.to_host = <<>> => Len(l.to_host) = 0)
      /\ (l.to_host = <<>> => Head(r.to_host) = m)
  BY <1>0, QueueFacts
<1>2. r.to_client = <<>> <=> Len(r.to_client) = 0
  BY <1>0, QueueFacts
<1>. QED
  BY <1>1, <1>2 DEF AgreeAs, HearsAs

LEMMA ResponseSent ==
    ASSUME NEW k, NEW x, NEW d, NEW l \in Ends, NEW r \in Ends, NEW m \in Msgs, NEW pins,
           AgreeAs("challenged", k, x, d, l), l.to_client # <<>>,
           r.to_host = Append(l.to_host, m), Len(r.to_client) = Len(l.to_client) - 1,
           m.key = k
    PROVE  AgreeAs("responded", k, x, d, r) /\ HearsAs(x, r.to_host, pins)
<1>0. /\ l.to_host \in Seq(Msgs) /\ r.to_client \in Seq(Msgs)
  BY EndsFacts
<1>1. /\ Len(r.to_host) = Len(l.to_host) + 1 /\ (l.to_host = <<>> => Len(l.to_host) = 0)
      /\ (l.to_host = <<>> => Head(r.to_host) = m)
  BY <1>0, QueueFacts
<1>2. r.to_client = <<>> <=> Len(r.to_client) = 0
  BY <1>0, QueueFacts
<1>. QED
  BY <1>1, <1>2 DEF AgreeAs, HearsAs

\* Only a host that accepted the client has answered what it asked last.
LEMMA ResultHeard ==
    ASSUME NEW p \in {"confirmed", "responded"}, NEW q \in {"saving_key", "streaming"},
           NEW k, NEW x, NEW d, NEW l \in Ends, NEW r \in Ends,
           AgreeAs(p, k, x, d, l), l.to_client # <<>>
    PROVE  AgreeAs(q, k, x, d, r)
  BY DEF AgreeAs, Accepted

LEMMA EnterPinStep ==
    ASSUME IInv, NEW c \in Clients, EnterPin(c) PROVE IInv'
<1>1. /\ cpc[c] = "prompting" /\ cpc[c] # "off" /\ keys' = keys + 1 /\ keys < MaxKeys
      /\ Answer(c, Own(c), Msg("PairingRequest", NoKey, TRUE), keys', "requested")
      /\ UNCHANGED <<host, keyfile, certfile>>
  BY DEF EnterPin
<1>2. keys' \in Key /\ keys' \in 0..MaxKeys
  BY <1>1, ClientData, PairingAssumption DEF Key
<1>3. ClientFiles
  <2>1. CASE UNCHANGED typed
    BY <1>1, <1>2, <2>1, ClientData DEF ClientFiles
  <2>2. CASE typed' = [typed EXCEPT ![target[c]] = @ \cup {keys'}]
    BY <1>1, <1>2, <2>2, ClientData DEF ClientFiles
  <2>. QED
    BY <2>1, <2>2 DEF EnterPin
<1>4. Msg("PairingRequest", NoKey, TRUE) \in Msgs
  BY DEF Msg, Msgs
<1>5. /\ Own(c) \in Ends
      /\ Own(c).up =>
            AgreeAs("prompting", key[c], hpc[target[c]], db[target[c]], Own(c))
  BY <1>1, OwnFacts
<1>6. AnswerFits(c, Own(c), Msg("PairingRequest", NoKey, TRUE), keys', "requested")
  <2>. SUFFICES ASSUME NEW r \in Ends, Own(c).up, r.to_client = Own(c).to_client,
                       r.to_host = Append(Own(c).to_host, Msg("PairingRequest", NoKey, TRUE))
                PROVE  /\ AgreeAs("requested", keys', hpc[target[c]], db[target[c]], r)
                       /\ HearsAs(hpc[target[c]], r.to_host, typed'[target[c]])
    BY DEF AnswerFits
  <2>1. AgreeAs("prompting", key[c], hpc[target[c]], db[target[c]], Own(c))
    BY <1>5
  <2>. QED
    BY <1>4, <1>5, <2>1, PinEntered
<1>7. "requested" \in ClientPlaces \ {"off"} /\ keys' \in Key \cup {NoKey}
  BY <1>2 DEF ClientPlaces
<1>. QED
  BY <1>1, <1>3, <1>4, <1>5, <1>6, <1>7, ClientAnswers

LEMMA RecvPairingResponseStep ==
    ASSUME IInv, NEW c \in Clients, RecvPairingResponse(c) PROVE IInv'
<1>. DEFINE m == Msg("PairingConfirm", key[c], key[c] \in typed[target[c]])
<1>1. /\ cpc[c] = "requested" /\ cpc[c] # "off" /\ CHasMsg(c) /\ UNCHANGED host
      /\ Answer(c, CRest(c), m, key[c], "confirmed")
      /\ UNCHANGED <<keyfile, certfile, keys, typed>>
  BY DEF RecvPairingResponse
<1>2. m \in Msgs /\ m.key = key[c] /\ (m.good => key[c] \in typed[target[c]])
  <2>. DEFINE b == key[c] \in typed[target[c]]
  <2>1. m = Msg("PairingConfirm", key[c], b)
    OBVIOUS
  <2>2. b \in BOOLEAN
    OBVIOUS
  <2>3. b => key[c] \in typed[target[c]]
    OBVIOUS
  <2>. HIDE DEF b, m
  <2>4. m \in Msgs /\ m.key = key[c] /\ m.good = b
    BY <2>1, <2>2, ClientData DEF Msg, Msgs
  <2>. QED
    BY <2>3, <2>4
<1>. HIDE DEF m
<1>3. /\ CRest(c) \in Ends /\ (CRest(c).up <=> Own(c).up)
      /\ CRest(c).to_host = Own(c).to_host /\ Own(c).to_client # <<>>
      /\ Len(CRest(c).to_client) = Len(Own(c).to_client) - 1
  BY <1>1, CRestFacts
<1>4. /\ Own(c) \in Ends
      /\ Own(c).up =>
            AgreeAs("requested", key[c], hpc[target[c]], db[target[c]], Own(c))
  BY <1>1, OwnFacts
<1>5. AnswerFits(c, CRest(c), m, key[c], "confirmed")
  <2>. SUFFICES ASSUME NEW r \in Ends, CRest(c).up, r.to_host = Append(CRest(c).to_host, m),
                       r.to_client = CRest(c).to_client
                PROVE  /\ AgreeAs("confirmed", key[c], hpc[target[c]], db[target[c]], r)
                       /\ HearsAs(hpc[target[c]], r.to_host, typed'[target[c]])
    BY DEF AnswerFits
  <2>1. /\ r.to_host = Append(Own(c).to_host, m)
        /\ Len(r.to_client) = Len(Own(c).to_client) - 1
    BY <1>3
  <2>2. AgreeAs("requested", key[c], hpc[target[c]], db[target[c]], Own(c))
    BY <1>3, <1>4
  <2>3. m.good => key[c] \in typed'[target[c]]
    BY <1>1, <1>2
  <2>4. Own(c) \in Ends /\ Own(c).to_client # <<>> /\ m \in Msgs /\ m.key = key[c]
    BY <1>2, <1>3, <1>4
  <2>. QED
    BY <2>1, <2>2, <2>3, <2>4, ConfirmSent
<1>6. ClientFiles /\ "confirmed" \in ClientPlaces \ {"off"} /\ key[c] \in Key \cup {NoKey}
  BY <1>1, SameFiles, ClientData DEF ClientPlaces
<1>. QED
  BY <1>1, <1>2, <1>3, <1>5, <1>6, ClientAnswers

LEMMA RecvAuthChallengeStep ==
    ASSUME IInv, NEW c \in Clients, RecvAuthChallenge(c) PROVE IInv'
<1>. DEFINE m == Msg("AuthResponse", key[c], TRUE)
<1>1. /\ cpc[c] = "challenged" /\ cpc[c] # "off" /\ CHasMsg(c) /\ UNCHANGED host
      /\ Answer(c, CRest(c), m, key[c], "responded")
      /\ UNCHANGED <<keyfile, certfile, keys, typed>>
  BY DEF RecvAuthChallenge
<1>2. m \in Msgs /\ m.key = key[c]
  BY ClientData DEF Msg, Msgs
<1>. HIDE DEF m
<1>3. /\ CRest(c) \in Ends /\ (CRest(c).up <=> Own(c).up)
      /\ CRest(c).to_host = Own(c).to_host /\ Own(c).to_client # <<>>
      /\ Len(CRest(c).to_client) = Len(Own(c).to_client) - 1
  BY <1>1, CRestFacts
<1>4. /\ Own(c) \in Ends
      /\ Own(c).up =>
            AgreeAs("challenged", key[c], hpc[target[c]], db[target[c]], Own(c))
  BY <1>1, OwnFacts
<1>5. AnswerFits(c, CRest(c), m, key[c], "responded")
  <2>. SUFFICES ASSUME NEW r \in Ends, CRest(c).up, r.to_host = Append(CRest(c).to_host, m),
                       r.to_client = CRest(c).to_client
                PROVE  /\ AgreeAs("responded", key[c], hpc[target[c]], db[target[c]], r)
                       /\ HearsAs(hpc[target[c]], r.to_host, typed'[target[c]])
    BY DEF AnswerFits
  <2>1. /\ r.to_host = Append(Own(c).to_host, m)
        /\ Len(r.to_client) = Len(Own(c).to_client) - 1
    BY <1>3
  <2>2. AgreeAs("challenged", key[c], hpc[target[c]], db[target[c]], Own(c))
    BY <1>3, <1>4
  <2>3. Own(c) \in Ends /\ Own(c).to_client # <<>> /\ m \in Msgs /\ m.key = key[c]
    BY <1>2, <1>3, <1>4
  <2>. QED
    BY <2>1, <2>2, <2>3, ResponseSent
<1>6. ClientFiles /\ "responded" \in ClientPlaces \ {"off"} /\ key[c] \in Key \cup {NoKey}
  BY <1>1, SameFiles, ClientData DEF ClientPlaces
<1>. QED
  BY <1>1, <1>2, <1>3, <1>5, <1>6, ClientAnswers

LEMMA RecvResultStep ==
    ASSUME IInv, NEW c \in Clients, RecvPairingResult(c) \/ RecvAuthResult(c) PROVE IInv'
<1>1. /\ cpc[c] \in {"confirmed", "responded"} /\ cpc[c] # "off" /\ CHasMsg(c)
      /\ UNCHANGED host /\ UNCHANGED <<keyfile, certfile, keys, typed>>
  BY DEF RecvPairingResult, RecvAuthResult
<1>2. /\ CRest(c) \in Ends /\ (CRest(c).up <=> Own(c).up)
      /\ CRest(c).to_host = Own(c).to_host /\ Own(c).to_client # <<>>
  BY <1>1, CRestFacts
<1>3. ClientFiles
  BY <1>1, SameFiles
<1>4. CASE ClientDone(c, CRest(c))
  BY <1>1, <1>2, <1>3, <1>4, ClientGoes
<1>5. ASSUME NEW next \in {"saving_key", "streaming"}, Step(c, key[c], next),
             Links(c, target[c], {CRest(c)})
      PROVE  IInv'
  <2>1. target[c] \in Hosts /\ {CRest(c)} \in SUBSET Ends
    BY <1>1, <1>2, OwnFacts
  <2>2. LinkMoves(c, target[c]) /\ link'[<<c, target[c]>>] = CRest(c)
    BY <1>5, <2>1, LinkChanged DEF IInv, Typed
  <2>3. /\ Own(c) \in Ends
        /\ Own(c).up => AgreeAs(cpc[c], key[c], hpc[target[c]], db[target[c]], Own(c))
        /\ peer[target[c]] = c =>
              HearsAs(hpc[target[c]], CRest(c).to_host, typed'[target[c]])
    BY <1>1, <1>2, OwnFacts
  <2>4. CRest(c).up => AgreeAs(next, key[c], hpc[target[c]], db[target[c]], CRest(c))
    BY <1>1, <1>2, <2>3, ResultHeard
  <2>5. next \in ClientPlaces \ {"off"} /\ key[c] \in Key \cup {NoKey}
    BY ClientData DEF ClientPlaces
  <2>. QED
    BY <1>1, <1>2, <1>3, <1>5, <2>2, <2>3, <2>4, <2>5, ClientSteps
<1>. QED
  BY <1>4, <1>5 DEF RecvPairingResult, RecvAuthResult

LEMMA SaveStep ==
    ASSUME IInv, NEW c \in Clients, SaveKey(c) \/ SaveCert(c) PROVE IInv'
<1>1. PICK next \in {"saving_cert", "streaming"} :
          /\ cpc[c] \in {"saving_key", "saving_cert"} /\ cpc[c] # "off"
          /\ Step(c, key[c], next) /\ UNCHANGED host /\ UNCHANGED <<link, keys, typed>>
  BY DEF SaveKey, SaveCert
<1>2. ClientFiles
  <2>1. keyfile' \in [Clients -> Key \cup {NoKey, BadKey}]
    BY ClientData DEF SaveKey, SaveCert
  <2>2. certfile' \in [Clients -> [Hosts -> Nat]]
    <3>1. [certfile[c] EXCEPT ![target[c]] = peer_cert[c]] \in [Hosts -> Nat]
      BY ClientData
    <3>. QED
      BY <3>1, ClientData DEF SaveKey, SaveCert
  <2>. QED
    BY <1>1, <2>1, <2>2, ClientData DEF ClientFiles
<1>3. LinkMoves(c, target[c]) /\ link'[<<c, target[c]>>] = Own(c)
  BY <1>1, LinkUnchanged DEF IInv, Typed, Own
<1>4. /\ Own(c) \in Ends
      /\ Own(c).up => AgreeAs(cpc[c], key[c], hpc[target[c]], db[target[c]], Own(c))
      /\ peer[target[c]] = c => HearsAs(hpc[target[c]], Own(c).to_host, typed'[target[c]])
  BY <1>1, OwnFacts
<1>5. Own(c).up => AgreeAs(next, key[c], hpc[target[c]], db[target[c]], Own(c))
  BY <1>1, <1>4 DEF AgreeAs
<1>6. next \in ClientPlaces \ {"off"} /\ key[c] \in Key \cup {NoKey}
  BY ClientData DEF ClientPlaces
<1>. QED
  BY <1>1, <1>2, <1>3, <1>4, <1>5, <1>6, ClientSteps

LEMMA ClientEndsStep ==
    ASSUME IInv, NEW c \in Clients, ClientHangsUp(c) \/ ClientStops(c) PROVE IInv'
<1>1. /\ cpc[c] # "off" /\ ClientDone(c, Own(c)) /\ UNCHANGED host
      /\ UNCHANGED <<keys, typed>>
  BY DEF ClientHangsUp, ClientStops, Awaiting
<1>2. ClientFiles
  <2>1. keyfile' \in [Clients -> Key \cup {NoKey, BadKey}]
    BY ClientData DEF ClientHangsUp, ClientStops
  <2>2. certfile' \in [Clients -> [Hosts -> Nat]]
    <3>1. [certfile[c] EXCEPT ![target[c]] = NoCert] \in [Hosts -> Nat]
      BY ClientData DEF NoCert
    <3>. QED
      BY <3>1, ClientData DEF ClientHangsUp, ClientStops
  <2>. QED
    BY <1>1, <2>1, <2>2, ClientData DEF ClientFiles
<1>3. Own(c) \in Ends
  BY <1>1, OwnFacts
<1>. QED
  BY <1>1, <1>2, <1>3, ClientGoes
-----------------------------------------------------------------------------
(* The steps of both, and of the network *)

LEMMA NewLink ==
    ASSUME NEW m \in Msgs, NEW l, l = [NoLink EXCEPT !.up = TRUE, !.to_host = <<m>>]
    PROVE  /\ l \in Ends /\ l.up /\ l.to_client = <<>> /\ Len(l.to_host) = 1
           /\ Head(l.to_host) = m
<1>. DEFINE n == [NoLink EXCEPT !.up = TRUE]
<1>1. n \in Ends /\ n.up /\ n.to_client = <<>>
  BY NoLinkFacts DEF Ends
<1>2. l = [n EXCEPT !.to_host = <<m>>]
  OBVIOUS
<1>3. <<m>> \in Seq(Msgs) /\ Len(<<m>>) = 1 /\ Head(<<m>>) = m
  OBVIOUS
<1>. HIDE DEF n
<1>4. l \in Ends /\ l.up = n.up /\ l.to_client = n.to_client /\ l.to_host = <<m>>
  BY <1>1, <1>2, <1>3 DEF Ends
<1>. QED
  BY <1>1, <1>3, <1>4

LEMMA ConnectStep ==
    ASSUME IInv, NEW c \in Clients, NEW h \in Hosts, NEW trusted, NEW k \in Key \cup {NoKey},
           NEW m \in Msgs, NEW next, Connect(c, h, trusted, k, m, next),
           \/ next = "prompting" /\ m.type = "Pair"
           \/ next = "challenged" /\ m.type = "Auth"
           \/ next = "negotiating" /\ m.type = "HandshakeRequest"
    PROVE  IInv'
<1>. DEFINE l == [NoLink EXCEPT !.up = TRUE, !.to_host = <<m>>]
<1>1. Typed /\ cpc[c] = "off" /\ hpc[h] = "accept" /\ target[c] = Nobody /\ peer[h] = Nobody
  BY DEF IInv, Typed, TypeOK, Connect
<1>2. /\ l \in Ends /\ l.up /\ l.to_client = <<>> /\ Len(l.to_host) = 1
      /\ Head(l.to_host) = m
  BY NewLink
<1>3. Links(c, h, {l})
  BY DEF Connect
<1>. HIDE DEF l
<1>4. LinkMoves(c, h) /\ link'[<<c, h>>] = l
  <2>1. {l} \in SUBSET Ends
    BY <1>2
  <2>. QED
    BY <1>1, <1>3, <2>1, LinkChanged DEF Typed
<1>5. /\ link' \in [Clients \X Hosts -> Ends]
      /\ \A b \in Clients, g \in Hosts :
             (b # c \/ g # h) => link'[<<b, g>>] = link[<<b, g>>]
  BY <1>4 DEF LinkMoves
<1>6. /\ hpc' \in [Hosts -> HostPlaces] /\ hpc'[h] = "hello"
      /\ peer' \in [Hosts -> Clients \cup {Nobody}] /\ peer'[h] = c
      /\ \A g \in Hosts : g # h => hpc'[g] = hpc[g] /\ peer'[g] = peer[g]
  BY <1>1 DEF Typed, TypeOK, HostPlaces, Connect
<1>7. /\ cpc' \in [Clients -> ClientPlaces] /\ cpc'[c] = next
      /\ target' \in [Clients -> Hosts \cup {Nobody}] /\ target'[c] = h
      /\ key' \in [Clients -> Key \cup {NoKey}] /\ key'[c] = k
      /\ peer_cert' \in [Clients -> Nat]
      /\ \A b \in Clients : b # c => /\ cpc'[b] = cpc[b] /\ target'[b] = target[b]
                                     /\ key'[b] = key[b]
  BY <1>1 DEF Typed, TypeOK, ClientPlaces, Connect, Become
<1>8. /\ cert' = cert /\ db' = db /\ file' = file /\ keyfile' = keyfile
      /\ certfile' = certfile /\ keys' = keys /\ typed' = typed
  BY DEF Connect
<1>9. Typed'
  <2>1. \A p \in Clients \X Hosts :
          /\ link'[p].up \in BOOLEAN
          /\ link'[p].to_host \in Seq(Msgs) /\ link'[p].to_client \in Seq(Msgs)
    BY <1>5, EndsFacts
  <2>2. ASSUME NEW g \in Hosts
        PROVE  peer'[g] = Nobody <=> hpc'[g] \in {"down", "accept"}
    <3>1. CASE g = h
      BY <1>6, <3>1, PairingAssumption
    <3>2. CASE g # h
      BY <1>1, <1>6, <3>2 DEF Typed, TypeOK
    <3>. QED
      BY <3>1, <3>2
  <2>3. TypeOK'
    BY <1>1, <1>6, <1>7, <1>8, <2>1, <2>2 DEF Typed, TypeOK, HostPlaces, ClientPlaces
  <2>4. \A b \in Clients : target'[b] = Nobody <=> cpc'[b] = "off"
    BY <1>1, <1>7, PairingAssumption DEF Typed
  <2>. QED
    BY <1>5, <2>3, <2>4 DEF Typed
<1>10. TrustedByPin' /\ Loaded'
  <2>1. Loaded'
    BY <1>1, <1>6, <1>8 DEF IInv, Loaded
  <2>. QED
    BY <1>8, <2>1 DEF IInv, TrustedByPin
<1>11. ASSUME NEW g \in Hosts, peer'[g] # Nobody
       PROVE  HearsAs(hpc'[g], link'[<<peer'[g], g>>].to_host, typed'[g])
  <2>1. CASE g = h
    <3>1. hpc'[g] = "hello" /\ link'[<<peer'[g], g>>] = l
      BY <1>4, <1>6, <2>1
    <3>2. HearsAs("hello", l.to_host, typed'[g])
      BY <1>2 DEF HearsAs
    <3>. QED
      BY <3>1, <3>2
  <2>2. CASE g # h
    <3>1. peer'[g] = peer[g] /\ hpc'[g] = hpc[g] /\ peer[g] \in Clients
      BY <1>1, <1>6, <1>11, <2>2 DEF Typed, TypeOK
    <3>2. HearsAs(hpc[g], link[<<peer[g], g>>].to_host, typed[g])
      BY <1>11, <3>1 DEF IInv, Hears, Served
    <3>. QED
      BY <1>5, <1>8, <2>2, <3>1, <3>2
  <2>. QED
    BY <2>1, <2>2
<1>12. ASSUME NEW b \in Clients, NEW g \in Hosts PROVE Agrees(b, g)'
  <2>1. CASE b = c /\ g = h
    <3>1. AgreeAs(next, k, "hello", db[h], l)
      BY <1>2 DEF AgreeAs
    <3>. QED
      BY <1>4, <1>6, <1>7, <1>8, <2>1, <3>1 DEF Agrees
  <2>2. CASE b # c \/ g # h
    <3>1. link'[<<b, g>>] = link[<<b, g>>] /\ Agrees(b, g)
      BY <1>5, <2>2 DEF IInv
    <3>2. CASE b = c \/ g = h
      BY <1>1, <3>1, <3>2, PairingAssumption DEF Agrees
    <3>3. CASE b # c /\ g # h
      BY <1>6, <1>7, <1>8, <3>1, <3>3 DEF Agrees
    <3>. QED
      BY <3>2, <3>3
  <2>. QED
    BY <2>1, <2>2
<1>13. Hears'
  BY <1>11 DEF Hears, Served
<1>. QED
  BY <1>9, <1>10, <1>12, <1>13 DEF IInv

LEMMA ConnectSteps ==
    ASSUME IInv, NEW c \in Clients, NEW h \in Hosts,
           ConnectToPair(c, h) \/ ConnectToAuth(c, h) \/ ConnectWithoutKey(c, h)
    PROVE  IInv'
<1>1. CASE ConnectToPair(c, h)
  <2>1. NoKey \in Key \cup {NoKey} /\ Msg("Pair", NoKey, TRUE) \in Msgs
        /\ Msg("Pair", NoKey, TRUE).type = "Pair"
    BY DEF Msg, Msgs
  <2>. QED
    BY <1>1, <2>1, ConnectStep DEF ConnectToPair
<1>2. CASE ConnectToAuth(c, h)
  <2>1. PICK n \in load_server_cert(c, h), k \in load_client_key(c) \ {NoKey} :
            Connect(c, h, make_client_config(n), k, Msg("Auth", NoKey, TRUE), "challenged")
    BY <1>2 DEF ConnectToAuth
  <2>2. k \in Key \cup {NoKey} /\ Msg("Auth", NoKey, TRUE) \in Msgs
        /\ Msg("Auth", NoKey, TRUE).type = "Auth"
    BY ClientData DEF Msg, Msgs, load_client_key
  <2>. QED
    BY <2>1, <2>2, ConnectStep
<1>3. CASE ConnectWithoutKey(c, h)
  <2>1. Connect(c, h, make_client_config(cert[h]), NoKey,
                Msg("HandshakeRequest", NoKey, TRUE), "negotiating")
    BY <1>3 DEF ConnectWithoutKey
  <2>2. NoKey \in Key \cup {NoKey} /\ Msg("HandshakeRequest", NoKey, TRUE) \in Msgs
        /\ Msg("HandshakeRequest", NoKey, TRUE).type = "HandshakeRequest"
    BY DEF Msg, Msgs
  <2>. QED
    BY <2>1, <2>2, ConnectStep
<1>. QED
  BY <1>1, <1>2, <1>3

LEMMA LoseConnectionStep ==
    ASSUME IInv, NEW c \in Clients, NEW h \in Hosts, LoseConnection(c, h) PROVE IInv'
<1>1. Typed /\ link[<<c, h>>] \in Ends
  BY LinkTyped DEF IInv, Typed
<1>2. LinkMoves(c, h) /\ link'[<<c, h>>] \in Dropped(link[<<c, h>>])
  <2>1. Dropped(link[<<c, h>>]) \in SUBSET Ends
    BY <1>1, DroppedFacts
  <2>. QED
    BY <1>1, <2>1, LinkChanged DEF LoseConnection, Typed
<1>3. /\ ~ link'[<<c, h>>].up
      /\ link'[<<c, h>>].to_host = link[<<c, h>>].to_host \/ link'[<<c, h>>].to_host = <<>>
      /\ link[<<c, h>>].to_host \in Seq(Msgs)
  BY <1>1, <1>2, DroppedFacts, EndsFacts
<1>4. /\ link' \in [Clients \X Hosts -> Ends]
      /\ \A b \in Clients, g \in Hosts :
             (b # c \/ g # h) => link'[<<b, g>>] = link[<<b, g>>]
  BY <1>2 DEF LinkMoves
<1>5. /\ hpc' = hpc /\ peer' = peer /\ cert' = cert /\ db' = db /\ file' = file
      /\ cpc' = cpc /\ target' = target /\ key' = key /\ peer_cert' = peer_cert
      /\ keyfile' = keyfile /\ certfile' = certfile /\ keys' = keys /\ typed' = typed
  BY DEF LoseConnection, host, client
<1>6. Typed'
  <2>1. \A p \in Clients \X Hosts :
          /\ link'[p].up \in BOOLEAN
          /\ link'[p].to_host \in Seq(Msgs) /\ link'[p].to_client \in Seq(Msgs)
    BY <1>4, EndsFacts
  <2>. QED
    BY <1>1, <1>4, <1>5, <2>1 DEF Typed, TypeOK
<1>7. TrustedByPin' /\ Loaded'
  BY <1>5 DEF IInv, TrustedByPin, Loaded
<1>8. ASSUME NEW g \in Hosts, peer'[g] # Nobody
      PROVE  HearsAs(hpc'[g], link'[<<peer'[g], g>>].to_host, typed'[g])
  <2>1. HearsAs(hpc[g], link[<<peer[g], g>>].to_host, typed[g]) /\ peer[g] \in Clients
    BY <1>1, <1>5, <1>8 DEF IInv, Hears, Served, Typed, TypeOK
  <2>2. CASE peer[g] = c /\ g = h
    BY <1>3, <1>5, <2>1, <2>2, HearsLess
  <2>3. CASE peer[g] # c \/ g # h
    BY <1>4, <1>5, <2>1, <2>3
  <2>. QED
    BY <2>2, <2>3
<1>9. ASSUME NEW b \in Clients, NEW g \in Hosts PROVE Agrees(b, g)'
  <2>1. CASE b = c /\ g = h
    BY <1>3, <2>1 DEF Agrees
  <2>2. CASE b # c \/ g # h
    BY <1>4, <1>5, <2>2 DEF IInv, Agrees
  <2>. QED
    BY <2>1, <2>2
<1>10. Hears'
  BY <1>8 DEF Hears, Served
<1>. QED
  BY <1>6, <1>7, <1>9, <1>10 DEF IInv

LEMMA StutterStep ==
    ASSUME IInv, UNCHANGED vars PROVE IInv'
<1>. USE DEF vars, host, client
<1>1. Typed' /\ TrustedByPin' /\ Loaded'
  BY DEF IInv, Typed, TypeOK, TrustedByPin, Loaded
<1>2. Hears'
  BY DEF IInv, Hears, Served
<1>3. \A c \in Clients, h \in Hosts : Agrees(c, h)'
  BY DEF IInv, Agrees
<1>. QED
  BY <1>1, <1>2, <1>3 DEF IInv
-----------------------------------------------------------------------------
(* The theorems *)

LEMMA NextIInv == IInv /\ [Next]_vars => IInv'
<1>. SUFFICES ASSUME IInv, [Next]_vars PROVE IInv'
  OBVIOUS
<1>1. ASSUME NEW h \in Hosts, HostStep(h) \/ HostStart(h) \/ HostStops(h) \/ StreamEnds(h)
      PROVE  IInv'
  BY <1>1, RecvHelloStep, RecvPairingRequestStep, AcceptPairingStep, RefuseStep,
     AcceptAuthStep, SaveTrustStep, HostEndsStep, HostStartStep, HostStopsStep DEF HostStep
<1>2. ASSUME NEW c \in Clients, ClientStep(c) \/ EnterPin(c) \/ ClientStops(c)
      PROVE  IInv'
  BY <1>2, RecvPairingResponseStep, RecvResultStep, SaveStep, RecvAuthChallengeStep,
     EnterPinStep, ClientEndsStep DEF ClientStep
<1>3. ASSUME NEW c \in Clients, NEW h \in Hosts,
             \/ ConnectToPair(c, h) \/ ConnectToAuth(c, h) \/ ConnectWithoutKey(c, h)
             \/ LoseConnection(c, h)
      PROVE  IInv'
  BY <1>3, ConnectSteps, LoseConnectionStep
<1>4. CASE UNCHANGED vars
  BY <1>4, StutterStep
<1>. QED
  BY <1>1, <1>2, <1>3, <1>4 DEF Next

LEMMA Invariance == Spec => []IInv
  BY InitIInv, NextIInv, PTL DEF Spec

\* The variables keep their types: places, keys, queues of messages; and a host that
\* serves nobody is down or waiting (authenticate_and_stream always ends in serve's loop).
THEOREM TypeCorrect == Spec => []TypeOK
<1>1. IInv => TypeOK
  BY DEF IInv, Typed
<1>. QED
  BY <1>1, Invariance, PTL

\* However many hosts, clients, restarts, crashes and losses: a host never trusts a key,
\* in its TrustDatabase or in trusted_clients.json, unless the user of that key typed
\* the PIN that the host showed for it (host_pairing, host_auth_challenge).
THEOREM TrustOnlyByPin == Spec => []TrustedByPin
<1>1. IInv => TrustedByPin
  BY DEF IInv
<1>. QED
  BY <1>1, Invariance, PTL

\* While their connection is up, the two ends of a session agree on each other, the host
\* streams only to a key it trusts, and a client that believes it was accepted is served.
THEOREM EndsAgree == Spec => []SessionAgreement
<1>1. IInv => SessionAgreement
  <2>. SUFFICES ASSUME IInv, NEW c \in Clients, NEW h \in Hosts, link[<<c, h>>].up
                PROVE  /\ peer[h] = c /\ target[c] = h
                       /\ hpc[h] \in {"saving", "streaming"} => key[c] \in db[h]
                       /\ cpc[c] \in {"saving_key", "saving_cert", "streaming"}
                             => hpc[h] \in {"saving", "streaming"}
    BY DEF SessionAgreement
  <2>1. /\ peer[h] = c /\ target[c] = h
        /\ AgreeAs(cpc[c], key[c], hpc[h], db[h], link[<<c, h>>])
    BY DEF IInv, Agrees
  <2>2. cpc[c] \in ClientPlaces
    BY ClientData
  <2>. QED
    BY <2>1, <2>2 DEF AgreeAs, Accepted, ClientPlaces
<1>. QED
  BY <1>1, Invariance, PTL

\* Saving the trust database never drops a key that the file held, because what was read
\* from a file that parses is in memory until the host stops (save_trust_db_if_possible).
THEOREM TrustIsKept == Spec => TrustKept
<1>. DEFINE Kept == \A h \in Hosts : file[h].parses => file[h].keys \subseteq file'[h].keys
<1>1. IInv /\ [Next]_vars => Kept
  <2>. SUFFICES ASSUME IInv, [Next]_vars PROVE Kept
    OBVIOUS
  <2>1. ASSUME file' = file PROVE Kept
    BY <2>1
  <2>2. ASSUME NEW g \in Hosts, SaveTrust(g) PROVE Kept
    <3>1. file[g].parses => file[g].keys \subseteq db[g]
      BY <2>2, HostData DEF SaveTrust, Running
    <3>2. file \in [Hosts -> Files]
      BY DEF IInv, Typed, TypeOK, Files
    <3>. QED
      BY <2>2, <3>1, <3>2 DEF SaveTrust, Files
  <2>3. ASSUME NEW g \in Hosts, HostStops(g) PROVE Kept
    <3>1. file \in [Hosts -> Files]
      BY DEF IInv, Typed, TypeOK, Files
    <3>. QED
      BY <2>3, <3>1 DEF HostStops, Files
  <2>4. ASSUME NEW g \in Hosts, HostStep(g) \/ HostStart(g) \/ HostStops(g) \/ StreamEnds(g)
        PROVE  Kept
    BY <2>1, <2>2, <2>3, <2>4
       DEF HostStep, HostStart, StreamEnds, RecvHello, RecvPairingRequest, AcceptPairing,
           RejectPairing, AcceptAuth, RejectAuth, HostHangsUp
  <2>5. ASSUME NEW c \in Clients, ClientStep(c) \/ EnterPin(c) \/ ClientStops(c)
        PROVE  Kept
    BY <2>1, <2>5
       DEF ClientStep, EnterPin, ClientStops, RecvPairingResponse, RecvPairingResult,
           SaveKey, SaveCert, RecvAuthChallenge, RecvAuthResult, ClientHangsUp, host
  <2>6. ASSUME NEW c \in Clients, NEW h \in Hosts,
               \/ ConnectToPair(c, h) \/ ConnectToAuth(c, h) \/ ConnectWithoutKey(c, h)
               \/ LoseConnection(c, h)
        PROVE  Kept
    BY <2>1, <2>6 DEF ConnectToPair, ConnectToAuth, ConnectWithoutKey, Connect,
       LoseConnection, host
  <2>7. CASE UNCHANGED vars
    BY <2>1, <2>7 DEF vars, host
  <2>. QED
    BY <2>4, <2>5, <2>6, <2>7 DEF Next
<1>. HIDE DEF Kept
<1>2. IInv /\ [Next]_vars => [Kept]_vars
  BY <1>1
<1>3. Spec => [][Kept]_vars
  BY <1>2, Invariance, PTL DEF Spec
<1>. QED
  BY <1>3 DEF TrustKept, Kept

\* While their connection is up the two ends never wait for each other: a client in the
\* middle of pairing, authenticating or negotiating has its answer on the way, or a host that is about
\* to read what it sent (host_pairing, host_auth_challenge and their client sides).
THEOREM EndsNeverBothWait == Spec => []NeverBothWait
<1>1. IInv => NeverBothWait
  <2>. SUFFICES ASSUME IInv, NEW c \in Clients, NEW h \in Hosts, link[<<c, h>>].up,
                       cpc[c] \in Awaiting,
                       link[<<c, h>>].to_client = <<>>
                PROVE  /\ hpc[h] \in {"hello", "pairing", "confirming", "auth"}
                       /\ link[<<c, h>>].to_host # <<>>
    BY DEF NeverBothWait
  <2>1. AgreeAs(cpc[c], key[c], hpc[h], db[h], link[<<c, h>>])
    BY DEF IInv, Agrees
  <2>2. Len(<<>>) = 0
    OBVIOUS
  <2>. QED
    BY <2>1, <2>2 DEF AgreeAs, Awaiting
<1>. QED
  BY <1>1, Invariance, PTL
-----------------------------------------------------------------------------
(***************************************************************************)
(* A certificate that a client saved stands for the start of the host that *)
(* presented it.  While that start lasts, the key that the client had when *)
(* it was accepted is in the host's memory: keys are only added to it, and *)
(* a host that is started again has another certificate.  What a client    *)
(* that waits for the result of pairing may still hear, on a connection    *)
(* that is up or not, is true of the host in this sense.                   *)
(***************************************************************************)
Tells(c) == Own(c).to_client # <<>> /\ Head(Own(c).to_client).good

Holds(c) ==
    hpc[target[c]] # "down" /\ cert[target[c]] = peer_cert[c] => key[c] \in db[target[c]]

Certified(c) ==
    /\ certfile[c][target[c]] <= peer_cert[c] /\ peer_cert[c] <= cert[target[c]]
    /\ cpc[c] = "confirmed" /\ Tells(c) => Holds(c)
    /\ cpc[c] \in {"saving_key", "saving_cert"} => Holds(c)
    /\ cpc[c] = "saving_cert" => keyfile[c] = key[c]

CertInv ==
    /\ \A h \in Hosts : hpc[h] # "down" => cert[h] # NoCert
    /\ \A c \in Clients, h \in Hosts : certfile[c][h] <= cert[h]
    /\ \A c \in Clients : cpc[c] # "off" => Certified(c)

LEMMA InitCertInv == Init => CertInv
  BY DEF Init, CertInv, NoCert

LEMMA TargetFacts ==
    ASSUME IInv, NEW c \in Clients, cpc[c] # "off"
    PROVE  target[c] \in Hosts /\ <<c, target[c]>> \in Clients \X Hosts
  BY DEF IInv, Typed, TypeOK

\* What a connection that is dropped leaves for the client to read.
LEMMA DroppedTells ==
    ASSUME NEW l \in Ends, NEW m \in Dropped(l) \cup HostDrops(l)
    PROVE  m.to_client = l.to_client \/ m.to_client = <<>>
<1>1. <<>> \in Seq(Msgs)
  OBVIOUS
<1>2. /\ [l EXCEPT !.up = FALSE].to_client = l.to_client
      /\ [l EXCEPT !.to_host = <<>>] \in Ends
      /\ [l EXCEPT !.to_host = <<>>].to_client = l.to_client
  BY <1>1 DEF Ends
<1>. DEFINE k == [l EXCEPT !.to_host = <<>>]
<1>3. k \in Ends /\ k.to_client = l.to_client /\ HostDrops(l) = Dropped(k)
  BY <1>2 DEF HostDrops
<1>. HIDE DEF k
<1>4. [k EXCEPT !.up = FALSE].to_client = l.to_client
  BY <1>3, ChangedEnds, EndsFacts
<1>. QED
  BY <1>2, <1>3, <1>4, NoLinkFacts DEF Dropped
-----------------------------------------------------------------------------
(* The steps of a host *)

\* A step of a host that goes on running, or stops: it may only tell what is true.
TellsTrue(c) == cpc[c] = "confirmed" /\ Tells(c)' => Tells(c) \/ Holds(c)'

LEMMA HostKeeps ==
    ASSUME IInv, CertInv, UNCHANGED <<cert, client>>,
           \A h \in Hosts : hpc'[h] # "down" => hpc[h] # "down" /\ db[h] \subseteq db'[h],
           \A c \in Clients : cpc[c] # "off" => TellsTrue(c)
    PROVE  CertInv'
<1>1. /\ cpc' = cpc /\ target' = target /\ key' = key /\ peer_cert' = peer_cert
      /\ keyfile' = keyfile /\ certfile' = certfile /\ cert' = cert
  BY DEF client
<1>2. ASSUME NEW c \in Clients, cpc[c] # "off"
      PROVE  Certified(c)'
  <2>1. target[c] \in Hosts /\ Certified(c) /\ TellsTrue(c)
    BY <1>2, TargetFacts DEF CertInv
  <2>2. Holds(c) => Holds(c)'
    BY <1>1, <2>1 DEF Holds
  <2>. QED
    BY <1>1, <2>1, <2>2 DEF Certified, TellsTrue
<1>. QED
  BY <1>1, <1>2 DEF CertInv

\* The link of another client, or of the same one with another host, stays as it is.
LEMMA OtherTells ==
    ASSUME IInv, NEW h \in Hosts, LinkMoves(peer[h], h), UNCHANGED client,
           NEW c \in Clients, cpc[c] # "off", c # peer[h] \/ target[c] # h
    PROVE  TellsTrue(c)
<1>1. target[c] \in Hosts /\ target' = target
  BY TargetFacts DEF client
<1>2. link'[<<c, target[c]>>] = link[<<c, target[c]>>]
  BY <1>1 DEF LinkMoves
<1>. QED
  BY <1>1, <1>2 DEF TellsTrue, Tells, Own

\* The client that h serves hears what the connection, now l, still holds.
SaysNoMore(h, q) ==
    \/ q = <<>> \/ ~ Head(q).good
    \/ Served(h).to_client # <<>> /\ Head(q) = Head(Served(h).to_client)

LEMMA ServedTells ==
    ASSUME IInv, NEW h \in Hosts, NEW b \in Clients, b = peer[h], LinkMoves(b, h),
           UNCHANGED client, NEW l, link'[<<b, h>>] = l,
           \/ SaysNoMore(h, l.to_client)
           \/ cpc[b] = "confirmed" /\ target[b] = h => Holds(b)'
    PROVE  \A c \in Clients : cpc[c] # "off" => TellsTrue(c)
<1>1. SUFFICES ASSUME cpc[b] = "confirmed", target[b] = h, Tells(b)'
               PROVE  Tells(b) \/ Holds(b)'
  BY OtherTells DEF TellsTrue
<1>2. target' = target
  BY DEF client
<1>3. Own(b)' = l /\ Own(b) = Served(h)
  BY <1>1, <1>2 DEF Own, Served
<1>. QED
  BY <1>1, <1>3 DEF Tells, SaysNoMore

\* The host at x that a client with a confirmation waits for: only one that has its
\* confirmation answers it.
LEMMA ConfirmedFacts ==
    ASSUME IInv, NEW h \in Hosts, Running(h), Served(h).up, cpc[peer[h]] = "confirmed",
           hpc[h] \notin {"saving", "streaming"}
    PROVE  /\ hpc[h] = "confirming" /\ Served(h).to_client = <<>>
           /\ Head(Served(h).to_host).key = key[peer[h]]
  BY ServedFacts DEF AgreeAs, Accepted

\* The connection is dropped, with or without a refusal on it.
LEMMA DoneTells ==
    ASSUME IInv, NEW h \in Hosts, Running(h), UNCHANGED client, NEW l \in Ends,
           Links(peer[h], h, HostDrops(l)), SaysNoMore(h, l.to_client)
    PROVE  \A c \in Clients : cpc[c] # "off" => TellsTrue(c)
<1>1. peer[h] \in Clients /\ HostDrops(l) \in SUBSET Ends
      /\ link \in [Clients \X Hosts -> Ends]
  BY ServedFacts, HostDropsFacts DEF IInv, Typed
<1>2. PICK b \in Clients : b = peer[h]
  BY <1>1
<1>3. LinkMoves(b, h) /\ link'[<<b, h>>] \in HostDrops(l)
  BY <1>1, <1>2, LinkChanged
<1>4. \/ link'[<<b, h>>].to_client = l.to_client
      \/ link'[<<b, h>>].to_client = <<>>
  BY <1>3, DroppedTells
<1>5. SaysNoMore(h, link'[<<b, h>>].to_client)
  BY <1>4 DEF SaysNoMore
<1>. QED
  BY <1>2, <1>3, <1>5, ServedTells

\* An answer of a host: to the client's confirmation only if it trusts the key.
LEMMA ReplyTells ==
    ASSUME IInv, NEW h \in Hosts, Running(h), HasMsg(h), UNCHANGED client, NEW m \in Msgs,
           NEW next, Reply(h, Rest(h), m, next), hpc[h] \notin {"saving", "streaming"},
           hpc[h] = "confirming" => Heard(h).key \in db'[h]
    PROVE  \A c \in Clients : cpc[c] # "off" => TellsTrue(c)
<1>1. /\ Rest(h) \in Ends /\ (Rest(h).up <=> Served(h).up)
      /\ Rest(h).to_client = Served(h).to_client
      /\ Heard(h) = Head(Served(h).to_host) /\ peer[h] \in Clients
  BY RestFacts, ServedFacts
<1>2. CASE ~ Rest(h).up
  BY <1>1, <1>2, DoneTells DEF Reply, HostDone, SaysNoMore
<1>3. CASE Rest(h).up
  <2>. DEFINE k == [Rest(h) EXCEPT !.to_client = Append(@, m)]
  <2>1. k \in Ends
    BY <1>1, EndsFacts, QueueFacts DEF Ends
  <2>2. {k} \in SUBSET Ends /\ Links(peer[h], h, {k})
    BY <1>3, <2>1 DEF Reply
  <2>. HIDE DEF k
  <2>3. PICK b \in Clients : b = peer[h]
    BY <1>1
  <2>4. LinkMoves(b, h) /\ link'[<<b, h>>] = k
    <3>1. link \in [Clients \X Hosts -> Ends]
      BY DEF IInv, Typed
    <3>. QED
      BY <2>2, <2>3, <3>1, LinkChanged
  <2>5. ASSUME cpc[b] = "confirmed", target[b] = h
        PROVE  Holds(b)'
    <3>1. key[b] \in db'[h]
      BY <1>1, <1>3, <2>3, <2>5, ConfirmedFacts
    <3>. QED
      BY <2>5, <3>1 DEF Holds, client
  <2>. QED
    BY <2>3, <2>4, <2>5, ServedTells
<1>. QED
  BY <1>2, <1>3

\* A refusal comes after what is there already, or is not good news.
LEMMA RefuseTells ==
    ASSUME IInv, NEW h \in Hosts, Running(h), HasMsg(h), UNCHANGED client, NEW m \in Msgs,
           ~ m.good, Refuse(h, Rest(h), m)
    PROVE  \A c \in Clients : cpc[c] # "off" => TellsTrue(c)
<1>1. /\ Rest(h) \in Ends /\ Rest(h).to_client = Served(h).to_client
      /\ Rest(h).to_client \in Seq(Msgs)
  BY RestFacts
<1>. DEFINE q == Append(Rest(h).to_client, m)
            k == [Rest(h) EXCEPT !.to_client = q]
<1>2. q \in Seq(Msgs) /\ SaysNoMore(h, q) /\ SaysNoMore(h, Rest(h).to_client)
  BY <1>1, QueueFacts DEF SaysNoMore
<1>. HIDE DEF q
<1>3. k \in Ends /\ k.to_client = q
  BY <1>1, <1>2 DEF Ends
<1>4. HostDone(h, k) \/ HostDone(h, Rest(h))
  BY DEF Refuse, q
<1>. HIDE DEF k
<1>. QED
  BY <1>1, <1>2, <1>3, <1>4, DoneTells DEF HostDone

\* What is left for HostKeeps: h does not start, and trusts what it trusted.
LEMMA HostRuns ==
    ASSUME IInv, NEW h \in Hosts, hpc[h] # "down", NEW x, NEW d,
           hpc' = [hpc EXCEPT ![h] = x], db' = [db EXCEPT ![h] = d],
           x = "down" \/ db[h] \subseteq d
    PROVE  \A g \in Hosts : hpc'[g] # "down" => hpc[g] # "down" /\ db[g] \subseteq db'[g]
<1>1. hpc \in [Hosts -> HostPlaces] /\ db \in [Hosts -> SUBSET Key]
  BY DEF IInv, Typed, TypeOK, HostPlaces
<1>. QED
  BY <1>1

LEMMA HostCertInv ==
    ASSUME IInv, CertInv, NEW h \in Hosts, HostStep(h) \/ HostStops(h) \/ StreamEnds(h)
    PROVE  CertInv'
<1>. DEFINE NewsIsTrue == \A c \in Clients : cpc[c] # "off" => TellsTrue(c)
<1>1. ASSUME NEW m \in Msgs, NEW next, next # "down", NEW d, db[h] \subseteq d, Running(h),
             HasMsg(h), Reply(h, Rest(h), m, next), db' = [db EXCEPT ![h] = d],
             hpc[h] \notin {"saving", "streaming"},
             hpc[h] = "confirming" => Heard(h).key \in d, UNCHANGED <<cert, client>>
      PROVE  CertInv'
  <2>1. NewsIsTrue
    <3>1. d = db'[h]
      BY <1>1 DEF IInv, Typed, TypeOK
    <3>. QED
      BY <1>1, <3>1, ReplyTells
  <2>2. PICK x \in {next, "accept"} : hpc' = [hpc EXCEPT ![h] = x]
    BY <1>1 DEF Reply, HostDone
  <2>3. \A g \in Hosts : hpc'[g] # "down" => hpc[g] # "down" /\ db[g] \subseteq db'[g]
    BY <1>1, <2>2, HostRuns DEF Running
  <2>. QED
    BY <1>1, <2>1, <2>3, HostKeeps
<1>2. ASSUME NewsIsTrue, hpc[h] # "down", UNCHANGED <<cert, db, client>>,
             \E x : hpc' = [hpc EXCEPT ![h] = x]
      PROVE  CertInv'
  <2>1. db' = [db EXCEPT ![h] = db[h]]
    BY <1>2, SameTrust
  <2>2. \A g \in Hosts : hpc'[g] # "down" => hpc[g] # "down" /\ db[g] \subseteq db'[g]
    BY <1>2, <2>1, HostRuns
  <2>. QED
    BY <1>2, <2>2, HostKeeps
<1>3. ASSUME UNCHANGED <<link, client>> PROVE NewsIsTrue
  BY <1>3 DEF TellsTrue, Tells, Own, client
<1>4. CASE RecvHello(h)
  <2>1. CASE Heard(h).type = "Pair" /\ Links(peer[h], h, {Rest(h)})
             /\ hpc' = [hpc EXCEPT ![h] = "pairing"]
    <3>1. Running(h) /\ HasMsg(h) /\ UNCHANGED <<cert, db, client>>
      BY <1>4 DEF RecvHello, Running
    <3>2. Rest(h) \in Ends /\ Rest(h).to_client = Served(h).to_client
          /\ link \in [Clients \X Hosts -> Ends] /\ peer[h] \in Clients
      BY <3>1, RestFacts, ServedFacts DEF IInv, Typed
    <3>3. PICK b \in Clients : b = peer[h]
      BY <3>2
    <3>4. LinkMoves(b, h) /\ link'[<<b, h>>] = Rest(h)
      BY <2>1, <3>2, <3>3, LinkChanged
    <3>5. NewsIsTrue
      BY <3>1, <3>2, <3>3, <3>4, ServedTells DEF SaysNoMore
    <3>. QED
      BY <1>2, <2>1, <3>1, <3>5 DEF Running
  <2>2. CASE Reply(h, Rest(h), Msg("AuthChallenge", NoKey, TRUE), "auth")
    <3>1. Msg("AuthChallenge", NoKey, TRUE) \in Msgs
      BY DEF Msg, Msgs
    <3>2. Running(h) /\ HasMsg(h) /\ hpc[h] = "hello" /\ UNCHANGED <<cert, client>>
          /\ db' = [db EXCEPT ![h] = db[h]]
      BY <1>4, SameTrust DEF RecvHello, Running
    <3>. QED
      BY <1>1, <2>2, <3>1, <3>2
  <2>3. CASE HostDone(h, Rest(h))
    <3>1. Running(h) /\ HasMsg(h) /\ hpc[h] = "hello" /\ UNCHANGED <<cert, db, client>>
      BY <1>4 DEF RecvHello, Running
    <3>2. Rest(h) \in Ends /\ SaysNoMore(h, Rest(h).to_client)
      BY <3>1, RestFacts DEF SaysNoMore
    <3>3. NewsIsTrue
      BY <2>3, <3>1, <3>2, DoneTells DEF HostDone
    <3>. QED
      BY <1>2, <2>3, <3>1, <3>3 DEF HostDone, Running
  <2>. QED
    BY <1>4, <2>1, <2>2, <2>3 DEF RecvHello
<1>5. CASE RecvPairingRequest(h)
  <2>1. Msg("PairingResponse", NoKey, TRUE) \in Msgs
    BY DEF Msg, Msgs
  <2>2. Running(h) /\ HasMsg(h) /\ hpc[h] = "pairing" /\ UNCHANGED <<cert, client>>
        /\ db' = [db EXCEPT ![h] = db[h]]
        /\ Reply(h, Rest(h), Msg("PairingResponse", NoKey, TRUE), "confirming")
    BY <1>5, SameTrust DEF RecvPairingRequest, Running
  <2>. QED
    BY <1>1, <2>1, <2>2
<1>6. CASE AcceptPairing(h)
  <2>1. Msg("PairingResult", NoKey, TRUE) \in Msgs
    BY DEF Msg, Msgs
  <2>2. /\ Running(h) /\ HasMsg(h) /\ hpc[h] = "confirming" /\ UNCHANGED <<cert, client>>
        /\ db' = [db EXCEPT ![h] = db[h] \cup {Heard(h).key}]
        /\ Reply(h, Rest(h), Msg("PairingResult", NoKey, TRUE), "saving")
    BY <1>6 DEF AcceptPairing, Running, add_client
  <2>. QED
    BY <1>1, <2>1, <2>2
<1>7. CASE AcceptAuth(h)
  <2>1. Msg("AuthResult", NoKey, TRUE) \in Msgs
    BY DEF Msg, Msgs
  <2>2. /\ Running(h) /\ HasMsg(h) /\ hpc[h] = "auth" /\ UNCHANGED <<cert, client>>
        /\ db' = [db EXCEPT ![h] = db[h]]
        /\ Reply(h, Rest(h), Msg("AuthResult", NoKey, TRUE), "saving")
    BY <1>7, SameTrust DEF AcceptAuth, Running
  <2>. QED
    BY <1>1, <2>1, <2>2
<1>8. CASE RejectPairing(h) \/ RejectAuth(h)
  <2>1. PICK m \in Msgs : ~ m.good /\ Refuse(h, Rest(h), m)
    <3>1. /\ Msg("PairingResult", NoKey, FALSE) \in Msgs
          /\ Msg("AuthResult", NoKey, FALSE) \in Msgs
          /\ ~ Msg("PairingResult", NoKey, FALSE).good
          /\ ~ Msg("AuthResult", NoKey, FALSE).good
      BY DEF Msg, Msgs
    <3>. QED
      BY <1>8, <3>1 DEF RejectPairing, RejectAuth
  <2>2. Running(h) /\ HasMsg(h) /\ UNCHANGED <<cert, db, client>>
    BY <1>8 DEF RejectPairing, RejectAuth, Running
  <2>3. NewsIsTrue
    BY <2>1, <2>2, RefuseTells
  <2>. QED
    BY <1>2, <2>1, <2>2, <2>3 DEF Refuse, HostDone, Running
<1>9. CASE SaveTrust(h)
  BY <1>2, <1>3, <1>9 DEF SaveTrust
<1>10. CASE HostHangsUp(h) \/ StreamEnds(h)
  <2>1. Running(h) /\ HostDone(h, Served(h)) /\ UNCHANGED <<cert, db, client>>
    BY <1>10 DEF HostHangsUp, StreamEnds, Running
  <2>2. Served(h) \in Ends
    BY <2>1, ServedFacts
  <2>3. NewsIsTrue
    BY <2>1, <2>2, DoneTells DEF HostDone, SaysNoMore
  <2>. QED
    BY <1>2, <2>1, <2>3 DEF HostDone, Running
<1>11. CASE HostStops(h)
  <2>1. UNCHANGED <<cert, client>> /\ hpc[h] # "down"
        /\ hpc' = [hpc EXCEPT ![h] = "down"] /\ db' = [db EXCEPT ![h] = {}]
    BY <1>11 DEF HostStops
  <2>2. \A g \in Hosts : hpc'[g] # "down" => hpc[g] # "down" /\ db[g] \subseteq db'[g]
    BY <2>1, HostRuns
  <2>3. CASE peer[h] = Nobody
    <3>1. NewsIsTrue
      BY <1>3, <1>11, <2>3 DEF HostStops
    <3>. QED
      BY <2>1, <2>2, <3>1, HostKeeps
  <2>4. CASE peer[h] # Nobody
    <3>1. Running(h)
      BY <2>4 DEF Running, IInv, Typed, TypeOK
    <3>2. Links(peer[h], h, HostDrops(Served(h))) /\ Served(h) \in Ends
          /\ SaysNoMore(h, Served(h).to_client)
      BY <1>11, <2>4, <3>1, ServedFacts DEF HostStops, SaysNoMore
    <3>3. NewsIsTrue
      BY <2>1, <3>1, <3>2, DoneTells
    <3>. QED
      BY <2>1, <2>2, <3>3, HostKeeps
  <2>. QED
    BY <2>3, <2>4
<1>. QED
  BY <1>4, <1>5, <1>6, <1>7, <1>8, <1>9, <1>10, <1>11 DEF HostStep

\* A host that is started again has a certificate that nobody has seen.
LEMMA HostStartCertInv ==
    ASSUME IInv, CertInv, NEW h \in Hosts, HostStart(h) PROVE CertInv'
<1>1. /\ cert \in [Hosts -> Nat] /\ cert'[h] = cert[h] + 1
      /\ \A g \in Hosts : g # h => cert'[g] = cert[g] /\ hpc'[g] = hpc[g] /\ db'[g] = db[g]
      /\ cert' \in [Hosts -> Nat]
  BY DEF HostStart, make_server_config, IInv, Typed, TypeOK
<1>2. /\ cpc' = cpc /\ target' = target /\ key' = key /\ peer_cert' = peer_cert
      /\ keyfile' = keyfile /\ certfile' = certfile /\ link' = link
  BY DEF HostStart, client
<1>3. ASSUME NEW c \in Clients, cpc[c] # "off"
      PROVE  Certified(c)'
  <2>1. target[c] \in Hosts /\ Certified(c) /\ peer_cert[c] \in Nat
        /\ certfile[c][target[c]] \in Nat
    BY <1>3, TargetFacts, ClientData DEF CertInv
  <2>2. cert[target[c]] \in Nat /\ cert'[target[c]] \in Nat
        /\ cert[target[c]] <= cert'[target[c]] /\ peer_cert[c] <= cert'[target[c]]
    BY <1>1, <2>1 DEF Certified
  <2>3. Holds(c) => Holds(c)'
    BY <1>1, <1>2, <2>1 DEF Holds, Certified
  <2>4. Tells(c)' <=> Tells(c)
    BY <1>2 DEF Tells, Own
  <2>. QED
    BY <1>2, <2>1, <2>2, <2>3, <2>4 DEF Certified
<1>4. \A g \in Hosts : hpc'[g] # "down" => cert'[g] # NoCert
  BY <1>1 DEF CertInv, NoCert
<1>5. \A c \in Clients, g \in Hosts : certfile'[c][g] <= cert'[g]
  <2>. SUFFICES ASSUME NEW c \in Clients, NEW g \in Hosts
                PROVE  certfile[c][g] <= cert'[g]
    BY <1>2
  <2>1. certfile[c][g] \in Nat /\ certfile[c][g] <= cert[g]
    BY ClientData DEF CertInv
  <2>. QED
    BY <1>1, <2>1
<1>. QED
  BY <1>2, <1>3, <1>4, <1>5 DEF CertInv
-----------------------------------------------------------------------------
(* The steps of a client, and of the network *)

\* A step of client c: what others know stays true.
LEMMA ClientKeeps ==
    ASSUME IInv, CertInv, NEW c \in Clients, NEW h \in Hosts, LinkMoves(c, h),
           UNCHANGED <<cert, db>>,
           \A g \in Hosts : hpc'[g] # "down" => hpc[g] # "down",
           \A b \in Clients :
               b # c => /\ cpc'[b] = cpc[b] /\ target'[b] = target[b] /\ key'[b] = key[b]
                        /\ peer_cert'[b] = peer_cert[b] /\ keyfile'[b] = keyfile[b]
                        /\ certfile'[b] = certfile[b],
           \A g \in Hosts : certfile'[c][g] <= cert[g],
           cpc'[c] # "off" => Certified(c)'
    PROVE  CertInv'
<1>1. ASSUME NEW b \in Clients, b # c, cpc[b] # "off" PROVE Certified(b)'
  <2>1. target[b] \in Hosts /\ Certified(b)
    BY <1>1, TargetFacts DEF CertInv
  <2>2. link'[<<b, target[b]>>] = link[<<b, target[b]>>]
    BY <1>1, <2>1 DEF LinkMoves
  <2>3. Tells(b)' <=> Tells(b)
    BY <1>1, <2>2 DEF Tells, Own
  <2>4. Holds(b) => Holds(b)'
    BY <1>1, <2>1 DEF Holds
  <2>. QED
    BY <1>1, <2>1, <2>3, <2>4 DEF Certified
<1>2. \A b \in Clients, g \in Hosts : certfile'[b][g] <= cert'[g]
  BY DEF CertInv
<1>3. \A b \in Clients : cpc'[b] # "off" => Certified(b)'
  BY <1>1
<1>. QED
  BY <1>2, <1>3 DEF CertInv

\* c connects: it has heard nothing, and its certificate is what h has now.
LEMMA ConnectCertInv ==
    ASSUME IInv, CertInv, NEW c \in Clients, NEW h \in Hosts, NEW trusted, NEW k,
           NEW m \in Msgs, NEW next \in {"prompting", "challenged", "negotiating"},
           Connect(c, h, trusted, k, m, next)
    PROVE  CertInv'
<1>. DEFINE l == [NoLink EXCEPT !.up = TRUE, !.to_host = <<m>>]
<1>1. LinkMoves(c, h)
  <2>1. {l} \in SUBSET Ends
    BY NewLink
  <2>2. Links(c, h, {l}) /\ link \in [Clients \X Hosts -> Ends]
    BY DEF Connect, IInv, Typed
  <2>. QED
    BY <2>1, <2>2, LinkChanged
<1>. HIDE DEF l
<1>2. /\ cert' = cert /\ db' = db /\ keyfile' = keyfile /\ certfile' = certfile
      /\ hpc[h] = "accept" /\ hpc' = [hpc EXCEPT ![h] = "hello"]
      /\ Become(c, next, h, k, cert[h])
  BY DEF Connect
<1>3. \A g \in Hosts : hpc'[g] # "down" => hpc[g] # "down"
  BY <1>2 DEF IInv, Typed, TypeOK
<1>4. /\ cpc'[c] = next /\ target'[c] = h /\ peer_cert'[c] = cert[h]
      /\ \A b \in Clients :
            b # c => /\ cpc'[b] = cpc[b] /\ target'[b] = target[b] /\ key'[b] = key[b]
                     /\ peer_cert'[b] = peer_cert[b]
  BY <1>2 DEF Become, IInv, Typed, TypeOK
<1>5. Certified(c)'
  <2>1. cert[h] \in Nat /\ certfile[c][h] <= cert[h]
    BY HostData DEF CertInv
  <2>. QED
    BY <1>2, <1>4, <2>1 DEF Certified
<1>. QED
  BY <1>1, <1>2, <1>3, <1>4, <1>5, ClientKeeps DEF CertInv

LEMMA LoseCertInv ==
    ASSUME IInv, CertInv, NEW c \in Clients, NEW h \in Hosts, LoseConnection(c, h)
    PROVE  CertInv'
<1>1. link \in [Clients \X Hosts -> Ends] /\ link[<<c, h>>] \in Ends
  BY LinkTyped DEF IInv, Typed
<1>2. LinkMoves(c, h) /\ link'[<<c, h>>] \in Dropped(link[<<c, h>>])
  <2>1. Dropped(link[<<c, h>>]) \in SUBSET Ends
    BY <1>1, DroppedFacts
  <2>. QED
    BY <1>1, <2>1, LinkChanged DEF LoseConnection
<1>3. \/ link'[<<c, h>>].to_client = link[<<c, h>>].to_client
      \/ link'[<<c, h>>].to_client = <<>>
  BY <1>1, <1>2, DroppedTells
<1>4. /\ hpc' = hpc /\ cert' = cert /\ db' = db
      /\ cpc' = cpc /\ target' = target /\ key' = key /\ peer_cert' = peer_cert
      /\ keyfile' = keyfile /\ certfile' = certfile
  BY DEF LoseConnection, host, client
<1>5. cpc'[c] # "off" => Certified(c)'
  <2>. SUFFICES ASSUME cpc[c] # "off" PROVE Certified(c)'
    BY <1>4
  <2>1. target[c] \in Hosts /\ Certified(c)
    BY TargetFacts DEF CertInv
  <2>2. \/ link'[<<c, target[c]>>] = link[<<c, target[c]>>]
        \/ link'[<<c, target[c]>>].to_client = link[<<c, target[c]>>].to_client
        \/ link'[<<c, target[c]>>].to_client = <<>>
    BY <1>2, <1>3, <2>1 DEF LinkMoves
  <2>3. Tells(c)' => Tells(c)
    BY <1>4, <2>2 DEF Tells, Own
  <2>. QED
    BY <1>4, <2>1, <2>3 DEF Certified, Holds
<1>. QED
  BY <1>2, <1>4, <1>5, ClientKeeps DEF CertInv

\* A step of a client that leaves the hosts alone, with the files as it leaves them.
ClientWrites(c) ==
    /\ UNCHANGED host
    /\ \A b \in Clients : b # c => keyfile'[b] = keyfile[b] /\ certfile'[b] = certfile[b]
    /\ \A g \in Hosts : certfile'[c][g] <= cert[g]

LEMMA WritesNothing ==
    ASSUME IInv, CertInv, NEW c \in Clients, UNCHANGED host, UNCHANGED <<keyfile, certfile>>
    PROVE  ClientWrites(c)
  BY DEF ClientWrites, CertInv

LEMMA ClientGoneCertInv ==
    ASSUME IInv, CertInv, NEW c \in Clients, cpc[c] # "off", NEW l \in Ends,
           ClientDone(c, l), ClientWrites(c)
    PROVE  CertInv'
<1>1. target[c] \in Hosts /\ ClientDrops(l) \in SUBSET Ends
      /\ link \in [Clients \X Hosts -> Ends]
  BY TargetFacts, ClientDropsFacts DEF IInv, Typed
<1>2. LinkMoves(c, target[c])
  BY <1>1, LinkChanged DEF ClientDone
<1>3. /\ cpc'[c] = "off"
      /\ \A b \in Clients :
            b # c => /\ cpc'[b] = cpc[b] /\ target'[b] = target[b] /\ key'[b] = key[b]
                     /\ peer_cert'[b] = peer_cert[b]
  BY DEF ClientDone, Become, IInv, Typed, TypeOK
<1>4. cert' = cert /\ db' = db /\ hpc' = hpc
  BY DEF ClientWrites, host
<1>. QED
  BY <1>1, <1>2, <1>3, <1>4, ClientKeeps DEF ClientWrites

\* What must be true of a client that goes on at next with key k and connection r.
Earned(c, k, next, r) ==
    LET held == hpc[target[c]] # "down" /\ cert[target[c]] = peer_cert[c]
                    => k \in db[target[c]]
    IN  /\ next = "confirmed" => r.to_client = <<>>
        /\ next \in {"saving_key", "saving_cert"} => held
        /\ next = "saving_cert" => keyfile'[c] = k

LEMMA ClientGoesOnCertInv ==
    ASSUME IInv, CertInv, NEW c \in Clients, cpc[c] # "off", NEW k, NEW next,
           Step(c, k, next), LinkMoves(c, target[c]), ClientWrites(c),
           certfile'[c][target[c]] <= peer_cert[c],
           Earned(c, k, next, link'[<<c, target[c]>>])
    PROVE  CertInv'
<1>1. target[c] \in Hosts /\ peer_cert[c] <= cert[target[c]]
  BY TargetFacts DEF CertInv, Certified
<1>2. /\ cpc'[c] = next /\ target'[c] = target[c] /\ key'[c] = k
      /\ peer_cert'[c] = peer_cert[c]
      /\ \A b \in Clients :
            b # c => /\ cpc'[b] = cpc[b] /\ target'[b] = target[b] /\ key'[b] = key[b]
                     /\ peer_cert'[b] = peer_cert[b]
  BY DEF Step, Become, IInv, Typed, TypeOK
<1>3. cert' = cert /\ db' = db /\ hpc' = hpc
  BY DEF ClientWrites, host
<1>4. Own(c)' = link'[<<c, target[c]>>]
  BY <1>2 DEF Own
<1>5. Certified(c)'
  BY <1>1, <1>2, <1>3, <1>4 DEF Certified, Earned, Holds, Tells
<1>. QED
  BY <1>1, <1>2, <1>3, <1>5, ClientKeeps DEF ClientWrites

\* The same after an answer, or after a message was read.
LEMMA AnswerCertInv ==
    ASSUME IInv, CertInv, NEW c \in Clients, cpc[c] # "off", NEW l \in Ends, NEW m \in Msgs,
           NEW k, NEW next \in {"requested", "confirmed", "responded"},
           Answer(c, l, m, k, next), UNCHANGED host, UNCHANGED <<keyfile, certfile>>,
           l.up /\ next = "confirmed" => l.to_client = <<>>
    PROVE  CertInv'
<1>1. ClientWrites(c) /\ certfile'[c][target[c]] <= peer_cert[c]
  BY WritesNothing DEF CertInv, Certified
<1>2. CASE ~ l.up
  BY <1>1, <1>2, ClientGoneCertInv DEF Answer
<1>3. CASE l.up
  <2>. DEFINE q == Append(l.to_host, m)
              r == [l EXCEPT !.to_host = q]
  <2>1. q \in Seq(Msgs)
    BY EndsFacts, QueueFacts
  <2>2. Step(c, k, next) /\ Links(c, target[c], {r})
    BY <1>3 DEF Answer
  <2>. HIDE DEF q
  <2>3. r \in Ends /\ r.to_client = l.to_client
    BY <2>1 DEF Ends
  <2>. HIDE DEF r
  <2>4. LinkMoves(c, target[c]) /\ link'[<<c, target[c]>>] = r
    <3>1. {r} \in SUBSET Ends /\ target[c] \in Hosts /\ link \in [Clients \X Hosts -> Ends]
      BY <2>3, TargetFacts DEF IInv, Typed
    <3>. QED
      BY <2>2, <3>1, LinkChanged
  <2>5. Earned(c, k, next, r)
    BY <1>3, <2>3 DEF Earned
  <2>. QED
    BY <1>1, <2>2, <2>4, <2>5, ClientGoesOnCertInv
<1>. QED
  BY <1>2, <1>3

LEMMA ClientCertInv ==
    ASSUME IInv, CertInv, NEW c \in Clients, ClientStep(c) \/ EnterPin(c) \/ ClientStops(c)
    PROVE  CertInv'
<1>1. CASE EnterPin(c)
  <2>1. cpc[c] # "off" /\ UNCHANGED host /\ UNCHANGED <<keyfile, certfile>>
        /\ Answer(c, Own(c), Msg("PairingRequest", NoKey, TRUE), keys', "requested")
    BY <1>1 DEF EnterPin
  <2>2. Own(c) \in Ends /\ Msg("PairingRequest", NoKey, TRUE) \in Msgs
    BY <2>1, OwnFacts DEF Msg, Msgs
  <2>. QED
    BY <2>1, <2>2, AnswerCertInv
<1>2. CASE RecvPairingResponse(c)
  <2>. DEFINE m == Msg("PairingConfirm", key[c], key[c] \in typed[target[c]])
  <2>1. cpc[c] = "requested" /\ cpc[c] # "off" /\ CHasMsg(c) /\ UNCHANGED host
        /\ UNCHANGED <<keyfile, certfile>> /\ Answer(c, CRest(c), m, key[c], "confirmed")
    BY <1>2 DEF RecvPairingResponse
  <2>2. CRest(c) \in Ends /\ m \in Msgs
    <3>1. key[c] \in Key \cup {NoKey} /\ (key[c] \in typed[target[c]]) \in BOOLEAN
      BY ClientData
    <3>. QED
      BY <2>1, <3>1, CRestFacts DEF Msg, Msgs
  <2>. HIDE DEF m
  <2>3. CRest(c).up => CRest(c).to_client = <<>>
    <3>1. /\ CRest(c).up = Own(c).up /\ Own(c).to_client # <<>>
          /\ CRest(c).to_client \in Seq(Msgs)
          /\ Len(CRest(c).to_client) = Len(Own(c).to_client) - 1
      BY <2>1, <2>2, CRestFacts, EndsFacts
    <3>2. CRest(c).up => Len(CRest(c).to_client) = 0
      <4>. SUFFICES ASSUME Own(c).up PROVE Len(Own(c).to_client) = 1
        BY <3>1
      <4>1. AgreeAs("requested", key[c], hpc[target[c]], db[target[c]], Own(c))
        BY <2>1, OwnFacts
      <4>. QED
        BY <3>1, <4>1 DEF AgreeAs
    <3>3. Len(CRest(c).to_client) = 0 => CRest(c).to_client = <<>>
      BY <3>1, QueueFacts
    <3>. QED
      BY <3>2, <3>3
  <2>. QED
    BY <2>1, <2>2, <2>3, AnswerCertInv
<1>3. CASE RecvAuthChallenge(c)
  <2>1. cpc[c] # "off" /\ CHasMsg(c) /\ UNCHANGED host /\ UNCHANGED <<keyfile, certfile>>
        /\ Answer(c, CRest(c), Msg("AuthResponse", key[c], TRUE), key[c], "responded")
    BY <1>3 DEF RecvAuthChallenge
  <2>2. CRest(c) \in Ends /\ Msg("AuthResponse", key[c], TRUE) \in Msgs
    BY <2>1, CRestFacts, ClientData DEF Msg, Msgs
  <2>. QED
    BY <2>1, <2>2, AnswerCertInv
<1>4. CASE RecvPairingResult(c) \/ RecvAuthResult(c)
  <2>1. cpc[c] # "off" /\ CHasMsg(c) /\ UNCHANGED host /\ ClientWrites(c)
        /\ UNCHANGED <<keyfile, certfile>>
    BY <1>4, WritesNothing DEF RecvPairingResult, RecvAuthResult
  <2>2. CRest(c) \in Ends /\ Own(c).to_client # <<>> /\ Certified(c)
        /\ certfile'[c][target[c]] <= peer_cert[c]
    BY <2>1, CRestFacts DEF CertInv, Certified
  <2>3. CASE ClientDone(c, CRest(c))
    BY <2>1, <2>2, <2>3, ClientGoneCertInv
  <2>4. ASSUME NEW next \in {"saving_key", "streaming"}, Step(c, key[c], next),
               Links(c, target[c], {CRest(c)}),
               next = "saving_key" => cpc[c] = "confirmed" /\ CHeard(c).good
        PROVE  CertInv'
    <3>1. LinkMoves(c, target[c])
      <4>1. {CRest(c)} \in SUBSET Ends /\ target[c] \in Hosts
            /\ link \in [Clients \X Hosts -> Ends]
        BY <2>1, <2>2, TargetFacts DEF IInv, Typed
      <4>. QED
        BY <2>4, <4>1, LinkChanged
    <3>2. next = "saving_key" => Holds(c)
      BY <2>2, <2>4 DEF Certified, Tells, CHeard
    <3>3. Earned(c, key[c], next, link'[<<c, target[c]>>])
      BY <3>2 DEF Earned, Holds
    <3>. QED
      BY <2>1, <2>2, <2>4, <3>1, <3>3, ClientGoesOnCertInv
  <2>. QED
    BY <1>4, <2>3, <2>4 DEF RecvPairingResult, RecvAuthResult
<1>5. CASE SaveKey(c)
  <2>1. cpc[c] = "saving_key" /\ Step(c, key[c], "saving_cert") /\ UNCHANGED host
        /\ keyfile' = [keyfile EXCEPT ![c] = key[c]] /\ UNCHANGED <<certfile, link>>
    BY <1>5 DEF SaveKey
  <2>2. keyfile'[c] = key[c] /\ \A b \in Clients : b # c => keyfile'[b] = keyfile[b]
    BY <2>1, ClientData
  <2>3. ClientWrites(c) /\ LinkMoves(c, target[c])
    BY <2>1, <2>2, LinkUnchanged DEF ClientWrites, CertInv, IInv, Typed
  <2>4. Certified(c)
    BY <2>1 DEF CertInv
  <2>5. Earned(c, key[c], "saving_cert", link'[<<c, target[c]>>])
    BY <2>1, <2>2, <2>4 DEF Earned, Certified, Holds
  <2>. QED
    BY <2>1, <2>3, <2>4, <2>5, ClientGoesOnCertInv DEF Certified
<1>6. CASE SaveCert(c)
  <2>1. cpc[c] = "saving_cert" /\ Step(c, key[c], "streaming") /\ UNCHANGED host
        /\ certfile' = [certfile EXCEPT ![c][target[c]] = peer_cert[c]]
        /\ UNCHANGED <<keyfile, link>>
    BY <1>6 DEF SaveCert
  <2>2. target[c] \in Hosts /\ Certified(c) /\ peer_cert[c] \in Nat
    BY <2>1, TargetFacts, ClientData DEF CertInv
  <2>3. /\ certfile'[c][target[c]] = peer_cert[c]
        /\ \A g \in Hosts : g # target[c] => certfile'[c][g] = certfile[c][g]
        /\ \A b \in Clients : b # c => certfile'[b] = certfile[b]
    BY <2>1, <2>2, ClientData
  <2>4. ClientWrites(c) /\ LinkMoves(c, target[c])
    BY <2>1, <2>2, <2>3, LinkUnchanged DEF ClientWrites, CertInv, Certified, IInv, Typed
  <2>5. Earned(c, key[c], "streaming", link'[<<c, target[c]>>])
    BY DEF Earned
  <2>. QED
    BY <2>1, <2>2, <2>3, <2>4, <2>5, ClientGoesOnCertInv
<1>7. CASE ClientHangsUp(c) \/ ClientStops(c)
  <2>1. cpc[c] # "off" /\ ClientDone(c, Own(c)) /\ UNCHANGED host
    BY <1>7 DEF ClientHangsUp, ClientStops, Awaiting
  <2>2. Own(c) \in Ends
    BY <2>1, OwnFacts
  <2>3. \A b \in Clients : b # c => keyfile'[b] = keyfile[b] /\ certfile'[b] = certfile[b]
    BY <1>7 DEF ClientHangsUp, ClientStops, IInv, Typed, TypeOK
  <2>4. ASSUME NEW g \in Hosts PROVE certfile'[c][g] <= cert[g]
    <3>1. certfile'[c][g] = certfile[c][g] \/ certfile'[c][g] = NoCert
      BY <1>7, ClientData DEF ClientHangsUp, ClientStops
    <3>. QED
      BY <3>1, HostData DEF CertInv, NoCert
  <2>5. ClientWrites(c)
    BY <2>1, <2>3, <2>4 DEF ClientWrites
  <2>. QED
    BY <2>1, <2>2, <2>5, ClientGoneCertInv
<1>. QED
  BY <1>1, <1>2, <1>3, <1>4, <1>5, <1>6, <1>7 DEF ClientStep

LEMMA NextCertInv == IInv /\ CertInv /\ [Next]_vars => CertInv'
<1>. SUFFICES ASSUME IInv, CertInv, [Next]_vars PROVE CertInv'
  OBVIOUS
<1>1. ASSUME NEW h \in Hosts, HostStep(h) \/ HostStart(h) \/ HostStops(h) \/ StreamEnds(h)
      PROVE  CertInv'
  BY <1>1, HostCertInv, HostStartCertInv
<1>2. ASSUME NEW c \in Clients, ClientStep(c) \/ EnterPin(c) \/ ClientStops(c)
      PROVE  CertInv'
  BY <1>2, ClientCertInv
<1>3. ASSUME NEW c \in Clients, NEW h \in Hosts,
             ConnectToPair(c, h) \/ ConnectToAuth(c, h) \/ ConnectWithoutKey(c, h)
      PROVE  CertInv'
  <2>1. /\ Msg("Pair", NoKey, TRUE) \in Msgs /\ Msg("Auth", NoKey, TRUE) \in Msgs
        /\ Msg("HandshakeRequest", NoKey, TRUE) \in Msgs
    BY DEF Msg, Msgs
  <2>. QED
    <3>1. CASE ConnectToPair(c, h)
      BY <2>1, <3>1, ConnectCertInv DEF ConnectToPair
    <3>2. CASE ConnectToAuth(c, h)
      BY <2>1, <3>2, ConnectCertInv DEF ConnectToAuth
    <3>3. CASE ConnectWithoutKey(c, h)
      BY <2>1, <3>3, ConnectCertInv DEF ConnectWithoutKey
    <3>. QED
      BY <1>3, <3>1, <3>2, <3>3
<1>4. CASE UNCHANGED vars
  BY <1>4 DEF vars, host, client, CertInv, Certified, Holds, Tells, Own
<1>. QED
  BY <1>1, <1>2, <1>3, <1>4, LoseCertInv DEF Next
-----------------------------------------------------------------------------
(* A key that is saved was made for the host whose certificate is saved with it *)

\* No key counts twice: the one that a client is about to save, or has saved, was made for
\* one pairing, and no host but the one of that pairing knows of it.
MadeFor(c) ==
    /\ keyfile[c] \in Key => keyfile[c] <= keys
    /\ key[c] <= keys
    /\ cpc[c] \in {"requested", "confirmed", "saving_key"}
          => \A g \in Hosts : g # target[c] => key[c] \notin typed[g]

FreshKeys ==
    /\ \A h \in Hosts : \A k \in typed[h] : k <= keys
    /\ \A c \in Clients : MadeFor(c)

\* A PIN that is typed makes one new key known, to the host that showed it at most.
LEMMA TypedGrows ==
    ASSUME IInv, NEW c \in Clients, EnterPin(c)
    PROVE  /\ keys' = keys + 1 /\ UNCHANGED <<keyfile, certfile>>
           /\ \A h \in Hosts : h # target[c] => typed'[h] = typed[h]
           /\ \A h \in Hosts : typed'[h] \subseteq typed[h] \cup {keys'}
<1>1. typed \in [Hosts -> SUBSET Key]
  BY ClientData
<1>2. keys' = keys + 1 /\ UNCHANGED <<keyfile, certfile>>
  BY DEF EnterPin
<1>3. \/ UNCHANGED typed
      \/ typed' = [typed EXCEPT ![target[c]] = @ \cup {keys'}]
  BY DEF EnterPin
<1>. QED
  BY <1>1, <1>2, <1>3

LEMMA FreshKeysKept == IInv /\ FreshKeys /\ [Next]_vars => FreshKeys'
<1>. SUFFICES ASSUME IInv, FreshKeys, [Next]_vars PROVE FreshKeys'
  OBVIOUS
<1>1. keys \in Nat /\ NoKey \in Nat /\ NoKey <= keys /\ BadKey \notin Key
  BY PairingAssumption DEF IInv, Typed, TypeOK, NoKey, BadKey, Key
<1>2. ASSUME UNCHANGED <<client, keys, typed>> PROVE FreshKeys'
  BY <1>2 DEF FreshKeys, MadeFor, client
<1>3. ASSUME NEW h \in Hosts, HostStep(h) \/ HostStart(h) \/ HostStops(h) \/ StreamEnds(h)
      PROVE  FreshKeys'
  BY <1>2, <1>3 DEF HostStep, HostStart, HostStops, StreamEnds, RecvHello,
     RecvPairingRequest, AcceptPairing, RejectPairing, AcceptAuth, RejectAuth, SaveTrust,
     HostHangsUp
\* c goes on, where it went with the same key and host, or with a saved key or none.
<1>4. ASSUME NEW c \in Clients, NEW x, NEW h, NEW k, NEW n, Become(c, x, h, k, n),
             UNCHANGED <<keys, typed>>,
             \A b \in Clients : b # c => keyfile'[b] = keyfile[b],
             keyfile'[c] \in {keyfile[c], BadKey, key[c]},
             k \in {key[c], keyfile[c], NoKey}, k \in Key \cup {NoKey},
             x \in {"requested", "confirmed", "saving_key"} =>
                 /\ k = key[c] /\ h = target[c]
                 /\ cpc[c] \in {"requested", "confirmed", "saving_key"}
      PROVE  FreshKeys'
  <2>1. /\ cpc'[c] = x /\ target'[c] = h /\ key'[c] = k
        /\ \A b \in Clients : b # c => /\ cpc'[b] = cpc[b] /\ target'[b] = target[b]
                                      /\ key'[b] = key[b]
    BY <1>4 DEF Become, IInv, Typed, TypeOK
  <2>2. MadeFor(c)
    BY DEF FreshKeys
  <2>3. MadeFor(c)'
    <3>1. (keyfile'[c] \in Key => keyfile'[c] <= keys') /\ key'[c] <= keys'
      <4>1. keyfile[c] \in Key \/ keyfile[c] \in {NoKey, BadKey}
        BY ClientData
      <4>. QED
        BY <1>1, <1>4, <2>1, <2>2, <4>1 DEF MadeFor
    <3>2. ASSUME cpc'[c] \in {"requested", "confirmed", "saving_key"}, NEW g \in Hosts,
                 g # target'[c]
          PROVE  key'[c] \notin typed'[g]
      BY <1>4, <2>1, <2>2, <3>2 DEF MadeFor
    <3>. QED
      BY <3>1, <3>2 DEF MadeFor
  <2>4. \A b \in Clients : b # c => /\ cpc'[b] = cpc[b] /\ target'[b] = target[b]
                                   /\ key'[b] = key[b] /\ keyfile'[b] = keyfile[b]
    BY <1>4, <2>1
  <2>5. UNCHANGED <<keys, typed>>
    BY <1>4
  <2>6. ASSUME NEW b \in Clients PROVE MadeFor(b)'
    <3>1. CASE b = c
      BY <2>3, <3>1
    <3>2. CASE b # c
      BY <2>4, <2>5, <3>2 DEF FreshKeys, MadeFor
    <3>. QED
      BY <3>1, <3>2
  <2>. QED
    BY <2>5, <2>6 DEF FreshKeys
<1>5. ASSUME NEW c \in Clients, EnterPin(c) PROVE FreshKeys'
  <2>1. keys' = keys + 1 /\ UNCHANGED keyfile
        /\ cpc[c] = "prompting" /\ target[c] \in Hosts
    BY <1>5, TargetFacts DEF EnterPin
  <2>2. /\ \A g \in Hosts : g # target[c] => typed'[g] = typed[g]
        /\ \A g \in Hosts : typed'[g] \subseteq typed[g] \cup {keys'}
    BY <1>5, TypedGrows
  <2>3. \/ Become(c, "requested", target[c], keys', peer_cert[c])
        \/ Become(c, "off", Nobody, NoKey, NoCert)
    BY <1>5 DEF EnterPin, Answer, Step, ClientDone
  <2>4. /\ \A b \in Clients : b # c => /\ cpc'[b] = cpc[b] /\ target'[b] = target[b]
                                       /\ key'[b] = key[b]
        /\ \/ cpc'[c] = "requested" /\ target'[c] = target[c] /\ key'[c] = keys'
           \/ cpc'[c] = "off" /\ key'[c] = NoKey
    BY <2>3 DEF Become, IInv, Typed, TypeOK
  <2>5. \A h \in Hosts : \A k \in typed[h] : k <= keys /\ k \in Nat
    BY DEF FreshKeys, IInv, Typed, TypeOK, Key
  <2>6. \A b \in Clients :
          /\ MadeFor(b) /\ key[b] \in Nat /\ key[b] <= keys
          /\ (keyfile[b] \in Key => keyfile[b] \in Nat /\ keyfile[b] <= keys)
    <3>1. \A b \in Clients : MadeFor(b)
      BY DEF FreshKeys
    <3>2. \A b \in Clients : key[b] \in Key \cup {NoKey}
      BY ClientData
    <3>. QED
      BY <3>1, <3>2 DEF MadeFor, Key, NoKey
  <2>7. \A h \in Hosts : \A k \in typed'[h] : k <= keys'
    BY <1>1, <2>1, <2>2, <2>5
  <2>8. ASSUME NEW b \in Clients
        PROVE  (keyfile'[b] \in Key => keyfile'[b] <= keys') /\ key'[b] <= keys'
    BY <1>1, <2>1, <2>4, <2>6
  <2>9. ASSUME NEW b \in Clients, cpc'[b] \in {"requested", "confirmed", "saving_key"},
               NEW g \in Hosts, g # target'[b]
        PROVE  key'[b] \notin typed'[g]
    <3>1. CASE b = c
      <4>1. key'[b] = keys + 1 /\ typed'[g] = typed[g]
        BY <2>1, <2>2, <2>4, <2>9, <3>1
      <4>. QED
        BY <1>1, <2>5, <4>1
    <3>2. CASE b # c
      <4>1. key[b] \notin typed[g] /\ key[b] # keys'
        BY <1>1, <2>1, <2>4, <2>6, <2>9, <3>2 DEF MadeFor
      <4>. QED
        BY <2>2, <2>4, <3>2, <4>1
    <3>. QED
      BY <3>1, <3>2
  <2>. QED
    BY <2>7, <2>8, <2>9 DEF FreshKeys, MadeFor
<1>6. ASSUME NEW c \in Clients, ClientStep(c) PROVE FreshKeys'
  <2>1. UNCHANGED <<keys, typed>>
    BY <1>6 DEF ClientStep, RecvPairingResponse, RecvPairingResult, SaveKey, SaveCert,
       RecvAuthChallenge, RecvAuthResult, ClientHangsUp
  <2>2. /\ \A b \in Clients : b # c => keyfile'[b] = keyfile[b]
        /\ keyfile'[c] \in {keyfile[c], key[c]}
    BY <1>6, ClientData DEF ClientStep, RecvPairingResponse, RecvPairingResult, SaveKey,
       SaveCert, RecvAuthChallenge, RecvAuthResult, ClientHangsUp
  <2>0. key[c] \in Key \cup {NoKey}
    BY ClientData
  <2>. DEFINE Goes(x) == Become(c, x, target[c], key[c], peer_cert[c])
  <2>3. \/ Become(c, "off", Nobody, NoKey, NoCert)
        \/ cpc[c] = "requested" /\ Goes("confirmed")
        \/ cpc[c] = "confirmed" /\ Goes("saving_key")
        \/ Goes("saving_cert") \/ Goes("responded") \/ Goes("streaming")
    BY <1>6 DEF ClientStep, RecvPairingResponse, RecvPairingResult, SaveKey, SaveCert,
       RecvAuthChallenge, RecvAuthResult, ClientHangsUp, Answer, Step, ClientDone
  <2>4. CASE Become(c, "off", Nobody, NoKey, NoCert)
    BY <1>4, <2>0, <2>1, <2>2, <2>4
  <2>5. CASE Goes("confirmed") /\ cpc[c] = "requested"
    BY <1>4, <2>0, <2>1, <2>2, <2>5
  <2>6. CASE Goes("saving_key") /\ cpc[c] = "confirmed"
    BY <1>4, <2>0, <2>1, <2>2, <2>6
  <2>7. CASE Goes("saving_cert") \/ Goes("responded") \/ Goes("streaming")
    BY <1>4, <2>0, <2>1, <2>2, <2>7
  <2>. QED
    BY <2>3, <2>4, <2>5, <2>6, <2>7
<1>7. ASSUME NEW c \in Clients, ClientStops(c) PROVE FreshKeys'
  <2>1. /\ Become(c, "off", Nobody, NoKey, NoCert) /\ UNCHANGED <<keys, typed>>
        /\ \A b \in Clients : b # c => keyfile'[b] = keyfile[b]
        /\ keyfile'[c] \in {keyfile[c], BadKey}
    BY <1>7, ClientData DEF ClientStops, ClientDone
  <2>. QED
    BY <1>4, <2>1
<1>8. ASSUME NEW c \in Clients, NEW h \in Hosts,
             ConnectToPair(c, h) \/ ConnectToAuth(c, h) \/ ConnectWithoutKey(c, h)
      PROVE  FreshKeys'
  <2>1. UNCHANGED <<keyfile, keys, typed>>
    BY <1>8 DEF ConnectToPair, ConnectToAuth, ConnectWithoutKey, Connect
  <2>2. \/ Become(c, "prompting", h, NoKey, cert[h])
        \/ /\ Become(c, "challenged", h, keyfile[c], cert[h])
           /\ keyfile[c] \in Key \cup {NoKey}
        \/ Become(c, "negotiating", h, NoKey, cert[h])
    BY <1>8, ClientData
       DEF ConnectToPair, ConnectToAuth, ConnectWithoutKey, Connect, load_client_key
  <2>. QED
    BY <1>4, <2>1, <2>2
<1>9. ASSUME NEW c \in Clients, NEW h \in Hosts, LoseConnection(c, h) PROVE FreshKeys'
  BY <1>2, <1>9 DEF LoseConnection
<1>10. CASE UNCHANGED vars
  BY <1>2, <1>10 DEF vars
<1>. QED
  BY <1>3, <1>5, <1>6, <1>7, <1>8, <1>9, <1>10 DEF Next

\* A host that runs on still trusts whom it trusted.
LEMMA HostTrusts ==
    ASSUME IInv, NEW h \in Hosts, HostStep(h) \/ HostStops(h) \/ StreamEnds(h)
    PROVE  \A g \in Hosts : hpc'[g] # "down" => hpc[g] # "down" /\ db[g] \subseteq db'[g]
<1>1. UNCHANGED db => db' = [db EXCEPT ![h] = db[h]]
  BY SameTrust
<1>2. CASE HostStops(h)
  BY <1>2, HostRuns DEF HostStops
<1>3. CASE AcceptPairing(h)
  <2>1. PICK x : hpc' = [hpc EXCEPT ![h] = x]
    BY <1>3 DEF AcceptPairing, Reply, HostDone
  <2>. QED
    BY <1>3, <2>1, HostRuns DEF AcceptPairing, add_client
<1>4. ASSUME UNCHANGED db, hpc[h] # "down", \E x : hpc' = [hpc EXCEPT ![h] = x]
      PROVE  \A g \in Hosts : hpc'[g] # "down" => hpc[g] # "down" /\ db[g] \subseteq db'[g]
  BY <1>1, <1>4, HostRuns
<1>. QED
  BY <1>2, <1>3, <1>4
     DEF HostStep, RecvHello, RecvPairingRequest, RejectPairing, AcceptAuth, RejectAuth,
         SaveTrust, HostHangsUp, StreamEnds, Refuse, Reply, HostDone

LEMMA NextPairedKey ==
    ASSUME IInv, CertInv, FreshKeys, PairedKeyIsGood, [Next]_vars
    PROVE  PairedKeyIsGood'
<1>. DEFINE Means(c, h) ==
                hpc[h] # "down" /\ certfile[c][h] = cert[h] /\ keyfile[c] \in typed[h]
                    => keyfile[c] \in db[h]
<1>1. SUFFICES ASSUME NEW c \in Clients, NEW h \in Hosts PROVE Means(c, h)'
  BY DEF PairedKeyIsGood
<1>2. Means(c, h)
  BY DEF PairedKeyIsGood
<1>3. ASSUME UNCHANGED <<keyfile, certfile, cert, typed>>,
             hpc'[h] # "down" => hpc[h] # "down" /\ db[h] \subseteq db'[h]
      PROVE  Means(c, h)'
  BY <1>2, <1>3
<1>4. ASSUME HostStart(h) PROVE Means(c, h)'
  <2>1. certfile'[c][h] \in Nat /\ certfile'[c][h] <= cert[h]
    BY <1>4, ClientData DEF HostStart, client, CertInv
  <2>2. cert[h] \in Nat /\ cert'[h] = cert[h] + 1
    BY <1>4, HostData DEF HostStart, make_server_config
  <2>. QED
    BY <2>1, <2>2
<1>5. ASSUME NEW g \in Hosts, HostStep(g) \/ HostStart(g) \/ HostStops(g) \/ StreamEnds(g)
      PROVE  Means(c, h)'
  <2>1. CASE HostStart(g)
    <3>1. CASE g = h
      BY <1>4, <2>1, <3>1
    <3>2. CASE g # h
      <4>1. /\ hpc'[h] = hpc[h] /\ cert'[h] = cert[h] /\ db'[h] = db[h]
            /\ UNCHANGED <<keyfile, certfile, typed>>
        BY <2>1, <3>2 DEF HostStart, client, IInv, Typed, TypeOK
      <4>. QED
        BY <1>2, <4>1
    <3>. QED
      BY <3>1, <3>2
  <2>2. CASE HostStep(g) \/ HostStops(g) \/ StreamEnds(g)
    <3>1. UNCHANGED <<cert, client, typed>>
      BY <2>2 DEF HostStep, HostStops, StreamEnds, RecvHello, RecvPairingRequest,
         AcceptPairing, RejectPairing, AcceptAuth, RejectAuth, SaveTrust, HostHangsUp
    <3>. QED
      BY <1>3, <2>2, <3>1, HostTrusts DEF client
  <2>. QED
    BY <1>5, <2>1, <2>2
<1>6. ASSUME NEW b \in Clients, SaveKey(b) PROVE Means(c, h)'
  <2>1. cpc[b] = "saving_key" /\ cpc[b] # "off" /\ keyfile' = [keyfile EXCEPT ![b] = key[b]]
        /\ UNCHANGED <<host, certfile>>
    BY <1>6 DEF SaveKey
  <2>2. target[b] \in Hosts /\ Certified(b) /\ UNCHANGED typed
    BY <1>6, <2>1, TargetFacts DEF CertInv, SaveKey
  <2>3. CASE b = c /\ target[b] = h
    <3>1. certfile[c][h] = cert[h] => peer_cert[c] = cert[h]
      <4>1. cert[h] \in Nat /\ peer_cert[c] \in Nat
        BY HostData, ClientData
      <4>. QED
        BY <2>2, <2>3, <4>1 DEF Certified
    <3>2. Holds(c)
      BY <2>1, <2>2, <2>3 DEF Certified
    <3>3. keyfile'[c] = key[c]
      BY <2>1, <2>3, ClientData
    <3>. QED
      BY <2>1, <2>2, <2>3, <3>1, <3>2, <3>3 DEF host, Holds
  <2>4. CASE b # c
    BY <1>2, <2>1, <2>2, <2>4 DEF host
  <2>5. CASE b = c /\ target[b] # h
    <3>1. keyfile'[c] = key[c] /\ key[c] \notin typed[h]
      BY <2>1, <2>5, ClientData DEF FreshKeys, MadeFor
    <3>. QED
      BY <2>2, <3>1
  <2>. QED
    BY <2>3, <2>4, <2>5
<1>7. ASSUME NEW b \in Clients, SaveCert(b) PROVE Means(c, h)'
  <2>1. cpc[b] = "saving_cert" /\ cpc[b] # "off" /\ UNCHANGED <<host, keyfile>>
        /\ certfile' = [certfile EXCEPT ![b][target[b]] = peer_cert[b]]
    BY <1>7 DEF SaveCert
  <2>2. target[b] \in Hosts /\ Certified(b) /\ UNCHANGED typed
    BY <1>7, <2>1, TargetFacts DEF CertInv, SaveCert
  <2>3. CASE b = c /\ target[b] = h
    <3>1. certfile'[c][h] = peer_cert[c]
      BY <2>1, <2>2, <2>3, ClientData
    <3>. QED
      BY <2>1, <2>2, <2>3, <3>1 DEF host, Certified, Holds
  <2>4. CASE b # c \/ target[b] # h
    <3>1. certfile'[c][h] = certfile[c][h]
      BY <2>1, <2>2, <2>4, ClientData
    <3>. QED
      BY <1>2, <2>1, <2>2, <3>1 DEF host
  <2>. QED
    BY <2>3, <2>4
<1>8. ASSUME NEW b \in Clients, ClientStops(b) PROVE Means(c, h)'
  <2>1. UNCHANGED <<host, typed>> /\ BadKey \notin typed[h]
    BY <1>8, ClientData, PairingAssumption DEF ClientStops, Key, BadKey
  <2>2. /\ keyfile'[c] = keyfile[c] \/ keyfile'[c] = BadKey
        /\ certfile'[c][h] = certfile[c][h] \/ certfile'[c][h] = NoCert
    BY <1>8, ClientData DEF ClientStops
  <2>3. hpc[h] # "down" => cert[h] # NoCert
    BY DEF CertInv
  <2>. QED
    BY <1>2, <2>1, <2>2, <2>3 DEF host
<1>9. ASSUME NEW b \in Clients, EnterPin(b) PROVE Means(c, h)'
  <2>1. UNCHANGED <<host, keyfile, certfile>> /\ keys' = keys + 1
    BY <1>9 DEF EnterPin
  <2>2. typed'[h] \subseteq typed[h] \cup {keys'}
    BY <1>9, TypedGrows
  <2>3. keyfile[c] # keys'
    <3>1. keys' \in Key /\ keys \in Nat /\ (keyfile[c] \in Key => keyfile[c] <= keys)
      BY <1>9, PairingAssumption, ClientData DEF EnterPin, FreshKeys, MadeFor, Key
    <3>. QED
      BY <2>1, <3>1
  <2>. QED
    BY <1>2, <2>1, <2>2, <2>3 DEF host
<1>10. ASSUME NEW b \in Clients, ClientStep(b) \/ EnterPin(b) \/ ClientStops(b)
       PROVE  Means(c, h)'
  BY <1>3, <1>6, <1>7, <1>8, <1>9, <1>10
     DEF ClientStep, RecvPairingResponse, RecvPairingResult, RecvAuthChallenge,
         RecvAuthResult, ClientHangsUp, host
<1>11. ASSUME NEW b \in Clients, NEW g \in Hosts,
              \/ ConnectToPair(b, g) \/ ConnectToAuth(b, g) \/ ConnectWithoutKey(b, g)
              \/ LoseConnection(b, g)
       PROVE  Means(c, h)'
  <2>1. UNCHANGED <<keyfile, certfile, cert, db, typed>>
    BY <1>11 DEF ConnectToPair, ConnectToAuth, ConnectWithoutKey, Connect, LoseConnection,
       host, client
  <2>2. hpc'[h] # "down" => hpc[h] # "down"
    BY <1>11 DEF ConnectToPair, ConnectToAuth, ConnectWithoutKey, Connect, LoseConnection,
       host, IInv, Typed, TypeOK
  <2>. QED
    BY <1>3, <2>1, <2>2
<1>12. CASE UNCHANGED vars
  BY <1>3, <1>12 DEF vars, host, client
<1>. QED
  BY <1>5, <1>10, <1>11, <1>12 DEF Next

\* A client that holds the certificate which a running host has now, and a key made to pair
\* with this host, is trusted by it, for any hosts and clients, through restarts, crashes in
\* the middle of a save and lost connections (client_pairing, save_client_key,
\* ServerCertStore and TrustDatabase together).
THEOREM PairedKeysAreGood == Spec => []PairedKeyIsGood
<1>1. Init => FreshKeys /\ PairedKeyIsGood
  BY DEF Init, FreshKeys, MadeFor, PairedKeyIsGood, NoKey
<1>2. PairedKeyIsGood /\ IInv /\ CertInv /\ FreshKeys /\ [Next]_vars => PairedKeyIsGood'
  BY NextPairedKey
<1>. QED
  BY <1>1, <1>2, InitCertInv, NextCertInv, FreshKeysKept, Invariance, PTL DEF Spec
-----------------------------------------------------------------------------
(***************************************************************************)
(* Pairing implements the hosts of HostTrust.  A step changes what at most *)
(* one host lets in: that host's own steps, and those of the client and    *)
(* the network on the one connection that they touch.                      *)
(***************************************************************************)
Runs     == [h \in Hosts |-> hpc[h] # "down"]
Admitted == [h \in Hosts |-> AdmittedKey(h)]

HoldsPromise == [Promise!TrustNext]_(Promise!trustVars)

LEMMA OthersAdmitted ==
    ASSUME IInv, NEW c, NEW h \in Hosts, LinkMoves(c, h),
           \A g \in Hosts : g # h => hpc'[g] = hpc[g] /\ peer'[g] = peer[g],
           \A b \in Clients :
               key'[b] = key[b] \/ (b = c /\ (cpc[b] = "off" \/ target[b] = h))
    PROVE  \A g \in Hosts : g # h => AdmittedKey(g)' = AdmittedKey(g)
<1>. SUFFICES ASSUME NEW g \in Hosts, g # h, hpc[g] \in {"saving", "streaming"}
              PROVE  AdmittedKey(g)' = AdmittedKey(g)
  BY DEF AdmittedKey
<1>1. Running(g) /\ peer[g] \in Clients /\ hpc'[g] = hpc[g] /\ peer'[g] = peer[g]
  BY ServedFacts DEF Running
<1>2. Served(g)' = Served(g)
  BY <1>1 DEF LinkMoves, Served
<1>3. Served(g).up => key'[peer[g]] = key[peer[g]]
  BY <1>1, ServedFacts DEF AgreeAs
<1>. QED
  BY <1>1, <1>2, <1>3 DEF AdmittedKey

\* A step that at most ends a session.
LEMMA OnlyLeaves ==
    ASSUME NEW h \in Hosts, UNCHANGED <<db, file, typed>>, Runs' = Runs,
           \A g \in Hosts : g # h => AdmittedKey(g)' = AdmittedKey(g),
           AdmittedKey(h)' \in {AdmittedKey(h), NoKey}
    PROVE  HoldsPromise
<1>1. CASE AdmittedKey(h)' = AdmittedKey(h)
  <2>1. Admitted' = Admitted
    BY <1>1 DEF Admitted
  <2>. QED
    BY <2>1 DEF HoldsPromise, Promise!trustVars, Runs, Admitted
<1>2. CASE AdmittedKey(h)' # AdmittedKey(h)
  <2>1. Admitted' = [Admitted EXCEPT ![h] = NoKey] /\ Admitted[h] # NoKey
    BY <1>2 DEF Admitted
  <2>2. Promise!Leave(h)
    BY <2>1 DEF Promise!Leave, Runs, Admitted
  <2>. QED
    BY <2>2 DEF HoldsPromise, Promise!TrustNext
<1>. QED
  BY <1>1, <1>2

\* A host that is not yet in a session lets nobody in.
LEMMA NotInSession ==
    ASSUME NEW h, hpc[h] \notin {"saving", "streaming"} PROVE AdmittedKey(h) = NoKey
  BY DEF AdmittedKey

LEMMA HostGoesTo ==
    ASSUME IInv, NEW h \in Hosts, hpc[h] # "down", NEW x, x # "down",
           hpc' = [hpc EXCEPT ![h] = x]
    PROVE  Runs' = Runs /\ hpc'[h] = x /\ \A g \in Hosts : g # h => hpc'[g] = hpc[g]
<1>1. hpc \in [Hosts -> HostPlaces]
  BY DEF IInv, Typed, TypeOK, HostPlaces
<1>. QED
  BY <1>1 DEF Runs

\* The end of what the host does with a client.
LEMMA DoneAdmits ==
    ASSUME IInv, NEW h \in Hosts, Running(h), NEW l \in Ends, HostDone(h, l),
           UNCHANGED client
    PROVE  /\ Runs' = Runs /\ AdmittedKey(h)' = NoKey
           /\ \A g \in Hosts : g # h => AdmittedKey(g)' = AdmittedKey(g)
<1>1. Runs' = Runs /\ hpc'[h] = "accept" /\ \A g \in Hosts : g # h => hpc'[g] = hpc[g]
  BY HostGoesTo DEF HostDone, Running
<1>2. \A g \in Hosts : g # h => peer'[g] = peer[g]
  BY DEF HostDone, IInv, Typed, TypeOK
<1>3. LinkMoves(peer[h], h)
  <2>1. peer[h] \in Clients /\ HostDrops(l) \in SUBSET Ends
        /\ link \in [Clients \X Hosts -> Ends]
    BY ServedFacts, HostDropsFacts DEF IInv, Typed
  <2>. QED
    BY <2>1, LinkChanged DEF HostDone
<1>4. key' = key
  BY DEF client
<1>. QED
  BY <1>1, <1>2, <1>3, <1>4, OthersAdmitted DEF AdmittedKey

\* An answer of the host: only the last one of the protocol lets its client in.
LEMMA ReplyAdmits ==
    ASSUME IInv, NEW h \in Hosts, Running(h), HasMsg(h), NEW m \in Msgs,
           NEW next \in {"confirming", "auth", "saving"}, Reply(h, Rest(h), m, next),
           UNCHANGED client
    PROVE  /\ Runs' = Runs
           /\ \A g \in Hosts : g # h => AdmittedKey(g)' = AdmittedKey(g)
           /\ \/ AdmittedKey(h)' = NoKey
              \/ next = "saving" /\ Served(h).up /\ AdmittedKey(h)' = key[peer[h]]
<1>1. Rest(h) \in Ends /\ Rest(h).up = Served(h).up /\ Rest(h).to_client \in Seq(Msgs)
      /\ peer[h] \in Clients /\ link \in [Clients \X Hosts -> Ends]
  BY RestFacts, ServedFacts DEF IInv, Typed
<1>2. CASE ~ Rest(h).up
  BY <1>1, <1>2, DoneAdmits DEF Reply
<1>3. CASE Rest(h).up
  <2>. DEFINE q == Append(Rest(h).to_client, m)
              k == [Rest(h) EXCEPT !.to_client = q]
  <2>1. q \in Seq(Msgs)
    BY <1>1, QueueFacts
  <2>2. hpc' = [hpc EXCEPT ![h] = next] /\ peer' = peer /\ Links(peer[h], h, {k})
    BY <1>3 DEF Reply
  <2>. HIDE DEF q
  <2>3. k \in Ends
    BY <1>1, <2>1 DEF Ends
  <2>. HIDE DEF k
  <2>4. LinkMoves(peer[h], h)
    <3>1. {k} \in SUBSET Ends
      BY <2>3
    <3>. QED
      BY <1>1, <2>2, <3>1, LinkChanged
  <2>5. Runs' = Runs /\ hpc'[h] = next /\ \A g \in Hosts : g # h => hpc'[g] = hpc[g]
    BY <2>2, HostGoesTo DEF Running
  <2>6. key' = key
    BY DEF client
  <2>7. \A g \in Hosts : g # h => AdmittedKey(g)' = AdmittedKey(g)
    BY <2>2, <2>4, <2>5, <2>6, OthersAdmitted
  <2>. QED
    BY <1>1, <1>3, <2>2, <2>5, <2>6, <2>7 DEF AdmittedKey
<1>. QED
  BY <1>2, <1>3

\* The key in a confirmation that verifies, or in an answer to the challenge, is the
\* key of the client that the host talks to, while their connection is up.
LEMMA HeardFromPeer ==
    ASSUME IInv, NEW h \in Hosts, hpc[h] \in {"confirming", "auth"}, HasMsg(h), Served(h).up
    PROVE  Heard(h).key = key[peer[h]]
<1>1. /\ Running(h) /\ peer[h] \in Clients
      /\ AgreeAs(cpc[peer[h]], key[peer[h]], hpc[h], db[h], Served(h))
  BY ServedFacts DEF Running
<1>2. cpc[peer[h]] \in ClientPlaces
  BY <1>1, ClientData
<1>3. Heard(h) = Head(Served(h).to_host) /\ Served(h).to_host # <<>>
  BY <1>1, RestFacts
<1>. QED
  BY <1>1, <1>2, <1>3 DEF AgreeAs, Accepted, ClientPlaces

\* The last answer of either protocol: h lets in the key that it has just heard.
LEMMA AcceptPairingTrusts ==
    ASSUME IInv, NEW h \in Hosts, AcceptPairing(h) PROVE HoldsPromise
<1>1. hpc[h] = "confirming" /\ Running(h) /\ HasMsg(h) /\ Heard(h).good
      /\ UNCHANGED <<file, client, typed>>
      /\ Reply(h, Rest(h), Msg("PairingResult", NoKey, TRUE), "saving")
      /\ db' = [db EXCEPT ![h] = @ \cup {Heard(h).key}]
  BY DEF AcceptPairing, Running, Verified, add_client
<1>2. Heard(h).key \in typed[h]
  BY <1>1, ServedFacts, RestFacts DEF HearsAs
<1>3. Heard(h).key \in Key
  BY <1>2 DEF IInv, Typed, TypeOK
<1>4. Msg("PairingResult", NoKey, TRUE) \in Msgs /\ "saving" \in {"confirming", "auth", "saving"}
  BY DEF Msg, Msgs
<1>5. /\ Runs' = Runs
      /\ \A g \in Hosts : g # h => AdmittedKey(g)' = AdmittedKey(g)
      /\ AdmittedKey(h)' = NoKey \/ AdmittedKey(h)' = Heard(h).key
  BY <1>1, <1>4, ReplyAdmits, HeardFromPeer
<1>6. AdmittedKey(h) = NoKey
  BY <1>1, NotInSession
<1>7. Admitted' \in {Admitted, [Admitted EXCEPT ![h] = Heard(h).key]}
  BY <1>5, <1>6 DEF Admitted
<1>8. Runs[h] /\ Admitted[h] = NoKey
  BY <1>1, <1>6 DEF Runs, Admitted
<1>9. Promise!Trust(h, Heard(h).key)
  BY <1>1, <1>2, <1>5, <1>7, <1>8 DEF Promise!Trust, Runs, Admitted
<1>. QED
  BY <1>3, <1>9 DEF HoldsPromise, Promise!TrustNext

LEMMA AcceptAuthAdmits ==
    ASSUME IInv, NEW h \in Hosts, AcceptAuth(h) PROVE HoldsPromise
<1>1. hpc[h] = "auth" /\ Running(h) /\ HasMsg(h) /\ Heard(h).key \in db[h]
      /\ UNCHANGED <<db, file, client, typed>>
      /\ Reply(h, Rest(h), Msg("AuthResult", NoKey, TRUE), "saving")
  BY DEF AcceptAuth, Running, is_trusted
<1>2. Heard(h).key \in Key
  BY <1>1 DEF IInv, Typed, TypeOK
<1>3. Msg("AuthResult", NoKey, TRUE) \in Msgs /\ "saving" \in {"confirming", "auth", "saving"}
  BY DEF Msg, Msgs
<1>4. /\ Runs' = Runs
      /\ \A g \in Hosts : g # h => AdmittedKey(g)' = AdmittedKey(g)
      /\ AdmittedKey(h)' = NoKey \/ AdmittedKey(h)' = Heard(h).key
  BY <1>1, <1>3, ReplyAdmits, HeardFromPeer
<1>5. AdmittedKey(h) = NoKey
  BY <1>1, NotInSession
<1>6. CASE AdmittedKey(h)' = NoKey
  BY <1>1, <1>4, <1>5, <1>6, OnlyLeaves
<1>7. CASE AdmittedKey(h)' = Heard(h).key
  <2>1. Admitted' = [Admitted EXCEPT ![h] = Heard(h).key] /\ Runs[h] /\ Admitted[h] = NoKey
    BY <1>1, <1>4, <1>5, <1>7 DEF Admitted, Runs
  <2>2. Promise!Admit(h, Heard(h).key)
    BY <1>1, <1>4, <2>1 DEF Promise!Admit, Runs, Admitted
  <2>. QED
    BY <1>2, <2>2 DEF HoldsPromise, Promise!TrustNext
<1>. QED
  BY <1>4, <1>6, <1>7

\* A connection that is over admits nobody; one that is not yet made, neither.
LEMMA HostEndsLeaves ==
    ASSUME IInv, NEW h \in Hosts,
           RejectPairing(h) \/ RejectAuth(h) \/ HostHangsUp(h) \/ StreamEnds(h)
    PROVE  HoldsPromise
<1>1. Running(h) /\ UNCHANGED <<db, file, client, typed>>
  BY DEF RejectPairing, RejectAuth, HostHangsUp, StreamEnds, Running
<1>2. PICK l \in Ends : HostDone(h, l)
  <2>1. CASE HostHangsUp(h) \/ StreamEnds(h)
    BY <1>1, <2>1, ServedFacts DEF HostHangsUp, StreamEnds
  <2>2. CASE RejectPairing(h) \/ RejectAuth(h)
    <3>1. PICK m \in Msgs : Refuse(h, Rest(h), m)
      <4>1. /\ Msg("PairingResult", NoKey, FALSE) \in Msgs
            /\ Msg("AuthResult", NoKey, FALSE) \in Msgs
        BY DEF Msg, Msgs
      <4>. QED
        BY <2>2, <4>1 DEF RejectPairing, RejectAuth
    <3>2. Rest(h) \in Ends /\ Rest(h).to_client \in Seq(Msgs)
      BY <1>1, <2>2, RestFacts DEF RejectPairing, RejectAuth
    <3>3. [Rest(h) EXCEPT !.to_client = Append(@, m)] \in Ends
      <4>1. Append(Rest(h).to_client, m) \in Seq(Msgs)
        BY <3>2
      <4>. QED
        BY <3>2, <4>1 DEF Ends
    <3>. QED
      BY <3>1, <3>2, <3>3 DEF Refuse
  <2>. QED
    BY <2>1, <2>2
<1>. QED
  BY <1>1, <1>2, DoneAdmits, OnlyLeaves

LEMMA RecvHelloLeaves == ASSUME IInv, NEW h \in Hosts, RecvHello(h) PROVE HoldsPromise
<1>1. Running(h) /\ HasMsg(h) /\ hpc[h] = "hello" /\ UNCHANGED <<db, file, client, typed>>
  BY DEF RecvHello, Running
<1>2. CASE hpc' = [hpc EXCEPT ![h] = "pairing"] /\ UNCHANGED peer
           /\ Links(peer[h], h, {Rest(h)})
  <2>1. Runs' = Runs /\ hpc'[h] = "pairing" /\ \A g \in Hosts : g # h => hpc'[g] = hpc[g]
    BY <1>1, <1>2, HostGoesTo DEF Running
  <2>2. LinkMoves(peer[h], h)
    <3>1. peer[h] \in Clients /\ {Rest(h)} \in SUBSET Ends
          /\ link \in [Clients \X Hosts -> Ends]
      BY <1>1, RestFacts, ServedFacts DEF IInv, Typed
    <3>. QED
      BY <1>2, <3>1, LinkChanged
  <2>3. \A g \in Hosts : g # h => AdmittedKey(g)' = AdmittedKey(g)
    BY <1>1, <1>2, <2>1, <2>2, OthersAdmitted DEF client
  <2>4. AdmittedKey(h)' = NoKey
    BY <2>1 DEF AdmittedKey
  <2>. QED
    BY <1>1, <2>1, <2>3, <2>4, OnlyLeaves
<1>3. CASE Reply(h, Rest(h), Msg("AuthChallenge", NoKey, TRUE), "auth")
  <2>1. Msg("AuthChallenge", NoKey, TRUE) \in Msgs
    BY DEF Msg, Msgs
  <2>. QED
    BY <1>1, <1>3, <2>1, ReplyAdmits, OnlyLeaves
<1>4. CASE HostDone(h, Rest(h))
  BY <1>1, <1>4, RestFacts, DoneAdmits, OnlyLeaves
<1>. QED
  BY <1>2, <1>3, <1>4 DEF RecvHello

LEMMA RecvRequestLeaves ==
    ASSUME IInv, NEW h \in Hosts, RecvPairingRequest(h) PROVE HoldsPromise
<1>1. Running(h) /\ HasMsg(h) /\ UNCHANGED <<db, file, client, typed>>
      /\ Reply(h, Rest(h), Msg("PairingResponse", NoKey, TRUE), "confirming")
  BY DEF RecvPairingRequest, Running
<1>2. Msg("PairingResponse", NoKey, TRUE) \in Msgs
  BY DEF Msg, Msgs
<1>. QED
  BY <1>1, <1>2, ReplyAdmits, OnlyLeaves

LEMMA SaveTrustSaves == ASSUME IInv, NEW h \in Hosts, SaveTrust(h) PROVE HoldsPromise
<1>1. hpc[h] = "saving" /\ hpc' = [hpc EXCEPT ![h] = "streaming"]
      /\ UNCHANGED <<peer, db, client, link, typed>>
  BY DEF SaveTrust
<1>2. Runs' = Runs /\ hpc'[h] = "streaming" /\ \A g \in Hosts : g # h => hpc'[g] = hpc[g]
  BY <1>1, HostGoesTo
<1>3. \A g \in Hosts : AdmittedKey(g)' = AdmittedKey(g)
  BY <1>1, <1>2 DEF AdmittedKey, Served, client
<1>4. Admitted' = Admitted /\ Runs[h]
  BY <1>1, <1>3 DEF Admitted, Runs
<1>5. CASE UNCHANGED file
  BY <1>1, <1>2, <1>3, <1>5, OnlyLeaves
<1>6. CASE ~ UNCHANGED file
  <2>1. Promise!Save(h)
    BY <1>1, <1>2, <1>4, <1>6 DEF SaveTrust, Promise!Save, Promise!Torn, Runs, Admitted
  <2>. QED
    BY <2>1 DEF HoldsPromise, Promise!TrustNext
<1>. QED
  BY <1>5, <1>6

LEMMA HostStartStarts == ASSUME IInv, NEW h \in Hosts, HostStart(h) PROVE HoldsPromise
<1>1. /\ hpc[h] = "down" /\ hpc' = [hpc EXCEPT ![h] = "accept"]
      /\ db' = [db EXCEPT ![h] = IF file[h].parses THEN file[h].keys ELSE {}]
      /\ UNCHANGED <<peer, file, client, link, typed>>
  BY DEF HostStart, load_trust_db
<1>2. hpc'[h] = "accept" /\ \A g \in Hosts : g # h => hpc'[g] = hpc[g]
  BY <1>1 DEF IInv, Typed, TypeOK
<1>3. \A g \in Hosts : AdmittedKey(g)' = AdmittedKey(g)
  BY <1>1, <1>2 DEF AdmittedKey, Served, client
<1>4. Admitted' = Admitted /\ ~ Runs[h] /\ Runs' = [Runs EXCEPT ![h] = TRUE]
  BY <1>1, <1>2, <1>3 DEF Admitted, Runs
<1>5. Promise!Start(h)
  BY <1>1, <1>4 DEF Promise!Start, Runs, Admitted
<1>. QED
  BY <1>5 DEF HoldsPromise, Promise!TrustNext

LEMMA HostStopsStops == ASSUME IInv, NEW h \in Hosts, HostStops(h) PROVE HoldsPromise
<1>1. /\ hpc[h] # "down" /\ hpc' = [hpc EXCEPT ![h] = "down"]
      /\ peer' = [peer EXCEPT ![h] = Nobody] /\ db' = [db EXCEPT ![h] = {}]
      /\ file' \in {file, [file EXCEPT ![h].parses = FALSE]} /\ UNCHANGED <<client, typed>>
  BY DEF HostStops
<1>2. hpc'[h] = "down" /\ \A g \in Hosts : g # h => hpc'[g] = hpc[g] /\ peer'[g] = peer[g]
  BY <1>1 DEF IInv, Typed, TypeOK
<1>3. LinkMoves(peer[h], h)
  <2>1. link \in [Clients \X Hosts -> Ends]
    BY DEF IInv, Typed
  <2>2. CASE peer[h] = Nobody
    BY <2>1, <2>2, LinkUnchanged DEF HostStops
  <2>3. CASE peer[h] # Nobody
    <3>1. Running(h)
      BY <2>3 DEF Running, IInv, Typed, TypeOK
    <3>2. peer[h] \in Clients /\ HostDrops(Served(h)) \in SUBSET Ends
      BY <3>1, ServedFacts, HostDropsFacts
    <3>. QED
      BY <2>1, <2>3, <3>2, LinkChanged DEF HostStops
  <2>. QED
    BY <2>2, <2>3
<1>4. \A g \in Hosts : g # h => AdmittedKey(g)' = AdmittedKey(g)
  BY <1>1, <1>2, <1>3, OthersAdmitted DEF client
<1>5. AdmittedKey(h)' = NoKey
  BY <1>2 DEF AdmittedKey
<1>6. Admitted' = [Admitted EXCEPT ![h] = NoKey] /\ Runs[h]
      /\ Runs' = [Runs EXCEPT ![h] = FALSE]
  BY <1>1, <1>2, <1>4, <1>5 DEF Admitted, Runs
<1>7. Promise!Stop(h)
  BY <1>1, <1>6 DEF Promise!Stop, Promise!Torn, Runs, Admitted
<1>. QED
  BY <1>7 DEF HoldsPromise, Promise!TrustNext

\* A step of client c on its connection, which is no more up than it was: as long as the
\* host is in a session with it, it keeps its key.
LEMMA ClientLeaves ==
    ASSUME IInv, NEW c \in Clients, NEW h \in Hosts, h = target[c], LinkMoves(c, h),
           cpc[c] # "off", UNCHANGED <<host, typed>>,
           \A b \in Clients : b # c => key'[b] = key[b],
           link'[<<c, h>>].up => Own(c).up,
           Own(c).up /\ link'[<<c, h>>].up /\ hpc[h] \in {"saving", "streaming"}
               => key'[c] = key[c]
    PROVE  HoldsPromise
<1>1. hpc' = hpc /\ peer' = peer /\ db' = db /\ file' = file /\ Runs' = Runs
  BY DEF host, Runs
<1>2. \A g \in Hosts : g # h => AdmittedKey(g)' = AdmittedKey(g)
  BY <1>1, OthersAdmitted
<1>3. AdmittedKey(h)' \in {AdmittedKey(h), NoKey}
  <2>. SUFFICES ASSUME hpc[h] \in {"saving", "streaming"}
                PROVE  AdmittedKey(h)' \in {AdmittedKey(h), NoKey}
    BY <1>1 DEF AdmittedKey
  <2>1. peer[h] \in Clients
    BY ServedFacts DEF Running
  <2>2. CASE peer[h] = c
    BY <1>1, <2>2 DEF AdmittedKey, Served, Own
  <2>3. CASE peer[h] # c
    <3>1. link'[<<peer[h], h>>] = link[<<peer[h], h>>] /\ key'[peer[h]] = key[peer[h]]
      BY <2>1, <2>3 DEF LinkMoves
    <3>. QED
      BY <1>1, <3>1 DEF AdmittedKey, Served
  <2>. QED
    BY <2>2, <2>3
<1>. QED
  BY <1>1, <1>2, <1>3, OnlyLeaves

\* The process goes on with the key it has, or ends.
LEMMA ClientKeepsKey ==
    ASSUME IInv, NEW c \in Clients, cpc[c] # "off", NEW ls \in SUBSET Ends,
           \A l \in ls : l.up => Own(c).up, NEW next, NEW g, NEW k, NEW n,
           Become(c, next, g, k, n), Links(c, target[c], ls), UNCHANGED <<host, typed>>,
           k = key[c] \/ \A l \in ls : ~ l.up
    PROVE  HoldsPromise
<1>1. target[c] \in Hosts /\ link \in [Clients \X Hosts -> Ends]
  BY TargetFacts DEF IInv, Typed
<1>2. LinkMoves(c, target[c]) /\ link'[<<c, target[c]>>] \in ls
  BY <1>1, LinkChanged
<1>3. key'[c] = k /\ \A b \in Clients : b # c => key'[b] = key[b]
  BY DEF Become, IInv, Typed, TypeOK
<1>. QED
  BY <1>1, <1>2, <1>3, ClientLeaves

LEMMA ClientGoneLeaves ==
    ASSUME IInv, NEW c \in Clients, cpc[c] # "off", NEW l \in Ends, ClientDone(c, l),
           UNCHANGED <<host, typed>>
    PROVE  HoldsPromise
<1>1. ClientDrops(l) \in SUBSET Ends /\ \A m \in ClientDrops(l) : ~ m.up
  BY ClientDropsFacts
<1>. QED
  BY <1>1, ClientKeepsKey DEF ClientDone

\* What an answer, or the failure to send it, changes.
LEMMA AnswerMoves ==
    ASSUME IInv, NEW c \in Clients, cpc[c] # "off", NEW l \in Ends, NEW m \in Msgs,
           NEW k, NEW next, Answer(c, l, m, k, next)
    PROVE  /\ LinkMoves(c, target[c])
           /\ link'[<<c, target[c]>>].up => l.up /\ key'[c] = k
           /\ \A b \in Clients : b # c => key'[b] = key[b]
<1>1. target[c] \in Hosts /\ link \in [Clients \X Hosts -> Ends]
      /\ key \in [Clients -> Key \cup {NoKey}]
  BY TargetFacts DEF IInv, Typed, TypeOK
<1>2. CASE ~ l.up
  <2>1. ClientDrops(l) \in SUBSET Ends /\ \A r \in ClientDrops(l) : ~ r.up
    BY ClientDropsFacts
  <2>2. ClientDone(c, l)
    BY <1>2 DEF Answer
  <2>. QED
    BY <1>1, <2>1, <2>2, LinkChanged DEF ClientDone, Become
<1>3. CASE l.up
  <2>. DEFINE q == Append(l.to_host, m)
              r == [l EXCEPT !.to_host = q]
  <2>1. q \in Seq(Msgs)
    BY EndsFacts, QueueFacts
  <2>2. key' = [key EXCEPT ![c] = k] /\ Links(c, target[c], {r})
    BY <1>3 DEF Answer, Step, Become
  <2>. HIDE DEF q
  <2>3. r \in Ends
    BY <2>1 DEF Ends
  <2>. HIDE DEF r
  <2>4. {r} \in SUBSET Ends
    BY <2>3
  <2>. QED
    BY <1>1, <1>3, <2>2, <2>4, LinkChanged
<1>. QED
  BY <1>2, <1>3

LEMMA AnswerLeaves ==
    ASSUME IInv, NEW c \in Clients, cpc[c] # "off", NEW l \in Ends, l.up => Own(c).up,
           NEW m \in Msgs, NEW next, Answer(c, l, m, key[c], next), UNCHANGED <<host, typed>>
    PROVE  HoldsPromise
<1>1. PICK h \in Hosts : h = target[c]
  BY TargetFacts
<1>2. /\ LinkMoves(c, h) /\ (link'[<<c, h>>].up => l.up /\ key'[c] = key[c])
      /\ \A b \in Clients : b # c => key'[b] = key[b]
  BY <1>1, AnswerMoves
<1>. QED
  BY <1>1, <1>2, ClientLeaves

\* A client that has a PIN to type is not in a session, and neither is its host with it.
LEMMA EnterPinPins == ASSUME IInv, NEW c \in Clients, EnterPin(c) PROVE HoldsPromise
<1>0. PICK h \in Hosts : h = target[c]
  BY TargetFacts DEF EnterPin
<1>1. /\ cpc[c] = "prompting" /\ cpc[c] # "off" /\ UNCHANGED host /\ keys < MaxKeys
      /\ keys' = keys + 1
      /\ Answer(c, Own(c), Msg("PairingRequest", NoKey, TRUE), keys', "requested")
  BY DEF EnterPin
<1>2. Own(c) \in Ends
      /\ (Own(c).up => hpc[h] \in {"hello", "pairing"})
  BY <1>0, <1>1, OwnFacts DEF AgreeAs
<1>3. Msg("PairingRequest", NoKey, TRUE) \in Msgs
  BY DEF Msg, Msgs
<1>4. LinkMoves(c, h) /\ (link'[<<c, h>>].up => Own(c).up)
      /\ \A b \in Clients : b # c => key'[b] = key[b]
  BY <1>0, <1>1, <1>2, <1>3, AnswerMoves
<1>5. CASE UNCHANGED typed
  BY <1>0, <1>1, <1>2, <1>4, <1>5, ClientLeaves
<1>6. CASE hpc[h] = "pairing" /\ typed' = [typed EXCEPT ![h] = @ \cup {keys'}]
  <2>1. keys' \in Key
    <3>1. keys \in 0..MaxKeys /\ MaxKeys \in Nat
      BY ClientData, PairingAssumption
    <3>. QED
      BY <1>1, <3>1 DEF Key
  <2>2. hpc' = hpc /\ peer' = peer /\ db' = db /\ file' = file /\ Runs' = Runs
    BY <1>1 DEF host, Runs
  <2>3. \A g \in Hosts : g # h => AdmittedKey(g)' = AdmittedKey(g)
    BY <1>0, <1>4, <2>2, OthersAdmitted
  <2>4. AdmittedKey(h)' = NoKey /\ AdmittedKey(h) = NoKey
    BY <1>6, <2>2 DEF AdmittedKey
  <2>5. Admitted' = Admitted /\ Runs[h] /\ Admitted[h] = NoKey
    BY <1>2, <1>6, <2>3, <2>4 DEF Admitted, Runs
  <2>6. Promise!Pin(h, keys')
    BY <1>6, <2>2, <2>5 DEF Promise!Pin, Runs, Admitted
  <2>. QED
    BY <1>2, <2>1, <2>6 DEF HoldsPromise, Promise!TrustNext
<1>. QED
  BY <1>0, <1>5, <1>6 DEF EnterPin

\* The other steps of a client's process, none of which gives it another key.
LEMMA ClientStepLeaves == ASSUME IInv, NEW c \in Clients, ClientStep(c) PROVE HoldsPromise
<1>1. CASE RecvPairingResponse(c) \/ RecvAuthChallenge(c)
  <2>1. cpc[c] # "off" /\ CHasMsg(c) /\ UNCHANGED <<host, typed>>
    BY <1>1 DEF RecvPairingResponse, RecvAuthChallenge
  <2>2. /\ Msg("PairingConfirm", key[c], key[c] \in typed[target[c]]) \in Msgs
        /\ Msg("AuthResponse", key[c], TRUE) \in Msgs
    BY ClientData DEF Msg, Msgs
  <2>3. PICK m \in Msgs : \E next : Answer(c, CRest(c), m, key[c], next)
    BY <1>1, <2>2 DEF RecvPairingResponse, RecvAuthChallenge
  <2>4. CRest(c) \in Ends /\ CRest(c).up = Own(c).up
    BY <2>1, CRestFacts
  <2>. QED
    BY <2>1, <2>3, <2>4, AnswerLeaves
<1>2. CASE RecvPairingResult(c) \/ RecvAuthResult(c)
  <2>1. cpc[c] # "off" /\ CHasMsg(c) /\ UNCHANGED <<host, typed>>
    BY <1>2 DEF RecvPairingResult, RecvAuthResult
  <2>2. CRest(c) \in Ends /\ CRest(c).up = Own(c).up
    BY <2>1, CRestFacts
  <2>3. CASE ClientDone(c, CRest(c))
    BY <2>1, <2>2, <2>3, ClientGoneLeaves
  <2>4. ASSUME NEW next, Step(c, key[c], next), Links(c, target[c], {CRest(c)})
        PROVE  HoldsPromise
    <3>1. {CRest(c)} \in SUBSET Ends /\ \A l \in {CRest(c)} : l.up => Own(c).up
      BY <2>2
    <3>. QED
      BY <2>1, <2>4, <3>1, ClientKeepsKey DEF Step
  <2>. QED
    BY <1>2, <2>3, <2>4 DEF RecvPairingResult, RecvAuthResult
<1>3. CASE SaveKey(c) \/ SaveCert(c)
  <2>1. UNCHANGED <<host, link, typed>> /\ \E next : Step(c, key[c], next)
    BY <1>3 DEF SaveKey, SaveCert
  <2>2. key' = key
    BY <2>1 DEF Step, Become, IInv, Typed, TypeOK
  <2>3. Admitted' = Admitted /\ Runs' = Runs
    BY <2>1, <2>2 DEF Admitted, AdmittedKey, Served, Runs, host
  <2>. QED
    BY <2>1, <2>3 DEF host, HoldsPromise, Promise!trustVars, Runs, Admitted
<1>4. CASE ClientHangsUp(c)
  BY <1>4, OwnFacts, ClientGoneLeaves DEF ClientHangsUp, Awaiting
<1>. QED
  BY <1>1, <1>2, <1>3, <1>4 DEF ClientStep

LEMMA ClientStopsLeaves == ASSUME IInv, NEW c \in Clients, ClientStops(c) PROVE HoldsPromise
  BY OwnFacts, ClientGoneLeaves DEF ClientStops

\* A connection that is new lets nobody in yet, and one that is lost nobody any more.
LEMMA ConnectLeaves ==
    ASSUME IInv, NEW c \in Clients, NEW h \in Hosts, NEW trusted, NEW k, NEW m \in Msgs,
           NEW next, Connect(c, h, trusted, k, m, next)
    PROVE  HoldsPromise
<1>. DEFINE l == [NoLink EXCEPT !.up = TRUE, !.to_host = <<m>>]
<1>1. /\ cpc[c] = "off" /\ hpc[h] = "accept" /\ hpc' = [hpc EXCEPT ![h] = "hello"]
      /\ peer' = [peer EXCEPT ![h] = c] /\ key' = [key EXCEPT ![c] = k]
      /\ Links(c, h, {l}) /\ UNCHANGED <<db, file, typed>>
  BY DEF Connect, Become
<1>2. l \in Ends
  BY NewLink
<1>. HIDE DEF l
<1>3. LinkMoves(c, h)
  <2>1. {l} \in SUBSET Ends /\ link \in [Clients \X Hosts -> Ends]
    BY <1>2 DEF IInv, Typed
  <2>. QED
    BY <1>1, <2>1, LinkChanged
<1>4. Runs' = Runs /\ hpc'[h] = "hello" /\ \A g \in Hosts : g # h => hpc'[g] = hpc[g]
  BY <1>1, HostGoesTo
<1>5. \A g \in Hosts : g # h => peer'[g] = peer[g]
  BY <1>1 DEF IInv, Typed, TypeOK
<1>6. \A b \in Clients : b # c => key'[b] = key[b]
  BY <1>1 DEF IInv, Typed, TypeOK
<1>7. \A g \in Hosts : g # h => AdmittedKey(g)' = AdmittedKey(g)
  BY <1>1, <1>3, <1>4, <1>5, <1>6, OthersAdmitted
<1>8. AdmittedKey(h)' = NoKey
  BY <1>4 DEF AdmittedKey
<1>. QED
  BY <1>1, <1>4, <1>7, <1>8, OnlyLeaves

LEMMA LoseLeaves ==
    ASSUME IInv, NEW c \in Clients, NEW h \in Hosts, LoseConnection(c, h)
    PROVE  HoldsPromise
<1>1. hpc' = hpc /\ peer' = peer /\ key' = key /\ Runs' = Runs /\ UNCHANGED <<db, file, typed>>
      /\ Links(c, h, Dropped(link[<<c, h>>]))
  BY DEF LoseConnection, host, client, Runs
<1>2. LinkMoves(c, h) /\ ~ link'[<<c, h>>].up
  <2>1. link \in [Clients \X Hosts -> Ends] /\ link[<<c, h>>] \in Ends
    BY LinkTyped DEF IInv, Typed
  <2>2. /\ Dropped(link[<<c, h>>]) \in SUBSET Ends
        /\ \A l \in Dropped(link[<<c, h>>]) : ~ l.up
    BY <2>1, DroppedFacts
  <2>. QED
    BY <1>1, <2>1, <2>2, LinkChanged
<1>3. \A g \in Hosts : g # h => AdmittedKey(g)' = AdmittedKey(g)
  BY <1>1, <1>2, OthersAdmitted
<1>4. AdmittedKey(h)' \in {AdmittedKey(h), NoKey}
  <2>. SUFFICES ASSUME hpc[h] \in {"saving", "streaming"}
                PROVE  AdmittedKey(h)' \in {AdmittedKey(h), NoKey}
    BY <1>1 DEF AdmittedKey
  <2>1. peer[h] \in Clients
    BY ServedFacts DEF Running
  <2>2. CASE peer[h] = c
    BY <1>1, <1>2, <2>2 DEF AdmittedKey, Served
  <2>3. CASE peer[h] # c
    <3>1. link'[<<peer[h], h>>] = link[<<peer[h], h>>]
      BY <1>2, <2>1, <2>3 DEF LinkMoves
    <3>. QED
      BY <1>1, <3>1 DEF AdmittedKey, Served
  <2>. QED
    BY <2>2, <2>3
<1>. QED
  BY <1>1, <1>3, <1>4, OnlyLeaves

LEMMA NextPromise == IInv /\ [Next]_vars => HoldsPromise
<1>. SUFFICES ASSUME IInv, [Next]_vars PROVE HoldsPromise
  OBVIOUS
<1>1. ASSUME NEW h \in Hosts, HostStep(h) \/ HostStart(h) \/ HostStops(h) \/ StreamEnds(h)
      PROVE  HoldsPromise
  BY <1>1, RecvHelloLeaves, RecvRequestLeaves, AcceptPairingTrusts, AcceptAuthAdmits,
     HostEndsLeaves, SaveTrustSaves, HostStartStarts, HostStopsStops DEF HostStep
<1>2. ASSUME NEW c \in Clients, ClientStep(c) \/ EnterPin(c) \/ ClientStops(c)
      PROVE  HoldsPromise
  BY <1>2, ClientStepLeaves, EnterPinPins, ClientStopsLeaves
<1>3. ASSUME NEW c \in Clients, NEW h \in Hosts,
             \/ ConnectToPair(c, h) \/ ConnectToAuth(c, h) \/ ConnectWithoutKey(c, h)
             \/ LoseConnection(c, h)
      PROVE  HoldsPromise
  <2>1. /\ Msg("Pair", NoKey, TRUE) \in Msgs /\ Msg("Auth", NoKey, TRUE) \in Msgs
        /\ Msg("HandshakeRequest", NoKey, TRUE) \in Msgs
    BY DEF Msg, Msgs
  <2>. QED
    BY <1>3, <2>1, ConnectLeaves, LoseLeaves
       DEF ConnectToPair, ConnectToAuth, ConnectWithoutKey
<1>4. CASE UNCHANGED vars
  <2>1. Admitted' = Admitted /\ Runs' = Runs
    BY <1>4 DEF Admitted, AdmittedKey, Served, Runs, vars, host, client
  <2>. QED
    BY <1>4, <2>1 DEF vars, host, HoldsPromise, Promise!trustVars, Runs, Admitted
<1>. QED
  BY <1>1, <1>2, <1>3, <1>4 DEF Next

LEMMA InitPromise == Init => Promise!TrustInit
<1>. SUFFICES ASSUME Init PROVE Promise!TrustInit
  OBVIOUS
<1>1. \A h \in Hosts : hpc[h] = "down" /\ AdmittedKey(h) = NoKey
  BY DEF Init, AdmittedKey
<1>. QED
  BY <1>1 DEF Init, Promise!TrustInit

\* Pairing and authentication, with their connections lost, processes restarted and saves
\* cut short, implement the abstract hosts: a session belongs to one trusted key from its
\* first to its last moment, and trust comes from a PIN or a file that was saved whole
\* (host_pairing, host_auth_challenge, TrustDatabase, save_trust_db_if_possible).
THEOREM ImplementsHostTrust == Spec => RefinesHostTrust
<1>1. IInv /\ [Next]_vars => [Promise!TrustNext]_(Promise!trustVars)
  BY NextPromise DEF HoldsPromise
<1>. QED
  BY <1>1, InitPromise, Invariance, PTL DEF Spec, RefinesHostTrust, Promise!TrustSpec
=============================================================================
