------------------------------- MODULE IkeV1 --------------------------------
(***************************************************************************)
(* IKEv1 as its drivers run it: ikev1/client.rs (Client::connect:          *)
(* Aggressive Mode, then Quick Mode, one blocking receive per exchange)    *)
(* against ikev1/server.rs (Server::handle_one), over the network of       *)
(* UdpNet.  Message n of Aggressive and Quick Mode is AMn and QMn below.   *)
(*                                                                         *)
(* Cryptography is symbolic, as in Handshake: one draw <<owner, n>> stands *)
(* for everything its owner takes from the entropy source in one step.     *)
(* AES-CBC under a wrong key or IV garbles the HASH payload, so it counts  *)
(* as a failed decryption.  The offered transform is the same for all.     *)
(* Loss and failed sends are treated as in Handshake.                      *)
(***************************************************************************)
EXTENDS EspOps, UdpNet

CONSTANTS
    Clients,        \* the Client values, each with its own socket
    Server,         \* the server's address, and the identity it asserts
    Psk,            \* Psk[c]: the pre-shared key in c's InitiatorConfig
    ServerPsk,      \* the one in the server's Phase1Config
    MaxAttempts,    \* bound: connect calls each client makes
    ReadTimeout     \* whether set_read_timeout was called on the clients

ASSUME IkeV1Assumption ==
    /\ Server \notin Clients
    /\ MaxAttempts \in [Clients -> Nat]
    /\ ReadTimeout \in BOOLEAN

VARIABLES
    client,     \* client[c]: where c's connect call stands and what it holds
    returned,   \* <<cky_i, child>> for every connect that returned Established
    sessions,   \* Server.sessions, keyed by the initiator cookie
    children,   \* Server.children, same keys
    events,     \* the ServerEvents returned so far, with the cookies they concern
    draws       \* how often the server has drawn from its entropy source

vars == <<client, returned, sessions, children, events, draws, net, dups>>

None == [none |-> TRUE]

ZeroCookie == <<Server, 0>>

-----------------------------------------------------------------------------
(* Key schedule (crypto1.rs) *)

\* Mutant: the PSK does not enter SKEYID.
MutSkeyidWithoutPsk(psk, ni, nr) == [psk |-> None, ni |-> ni, nr |-> nr]

\* skeyid_psk, and SKEYID_d/a/e with the cipher key derived from them.
Skeyid(psk, ni, nr) == [psk |-> psk, ni |-> ni, nr |-> nr]

SkeyidKeys(skeyid, gxy, cky_i, cky_r) ==
    [skeyid |-> skeyid, gxy |-> gxy, cky_i |-> cky_i, cky_r |-> cky_r]

HashR(skeyid, gxr, gxi, cky_r, cky_i, id) ==
    [by |-> "R", skeyid |-> skeyid, gxr |-> gxr, gxi |-> gxi, cky_r |-> cky_r, cky_i |-> cky_i, id |-> id]

HashI(skeyid, gxi, gxr, cky_i, cky_r, id) ==
    [by |-> "I", skeyid |-> skeyid, gxr |-> gxr, gxi |-> gxi, cky_r |-> cky_r, cky_i |-> cky_i, id |-> id]

DhShared(x, y) == {x, y}

\* Phase1State, from whichever side: phase1_iv hashes the two DH publics.
Phase1State(psk, cky_i, cky_r, gxi, gxr, ni, nr, id_i) ==
    LET skeyid == Skeyid(psk, ni, nr) IN
    [cky_i |-> cky_i, cky_r |-> cky_r,
     keys |-> SkeyidKeys(skeyid, DhShared(gxi, gxr), cky_i, cky_r),
     phase1_iv |-> <<gxi, gxr>>,
     hash_i |-> HashI(skeyid, gxi, gxr, cky_i, cky_r, id_i)]

\* keymat depends on the SPI of the receiving SA; derive_child is symmetric.
Keymat(keys, spi, ni, nr) == [skeyid_d |-> keys, spi |-> spi, ni |-> ni, nr |-> nr]

DeriveChild(keys, ni, nr, local_spi, peer_spi) ==
    [outbound |-> EspSa(peer_spi, Keymat(keys, peer_spi, ni, nr)),
     inbound |-> EspSa(local_spi, Keymat(keys, local_spi, ni, nr))]

-----------------------------------------------------------------------------
(* Messages *)

AM1(c, local) ==
    [exchange |-> "AGGRESSIVE", first |-> "SA", cky_i |-> local, cky_r |-> ZeroCookie,
     ke |-> local, nonce |-> local, id |-> c]

AM2(m, local) ==
    [exchange |-> "AGGRESSIVE", first |-> "SA", cky_i |-> m.cky_i, cky_r |-> local,
     ke |-> local, nonce |-> local, id |-> Server,
     hash |-> HashR(Skeyid(ServerPsk, m.nonce, local), local, m.ke, local, m.cky_i, Server)]

AM3(st) ==
    [exchange |-> "AGGRESSIVE", first |-> "HASH", cky_i |-> st.cky_i, cky_r |-> st.cky_r,
     hash |-> st.hash_i]

\* A Quick-Mode message: AES-CBC under the cipher key, with the exchange's IV
\* chained from message to message.
Encrypted(st, msgid, iv, plain) ==
    [exchange |-> "QUICK", cky_i |-> st.cky_i, cky_r |-> st.cky_r, msgid |-> msgid,
     key |-> st.keys, iv |-> iv, plain |-> plain]

Phase2Iv(st, msgid) == <<"iv0", st.phase1_iv, msgid>>

NextIv(m) == <<"last block", m.iv, m.plain>>

Decrypts(m, key, iv) == m.exchange = "QUICK" /\ m.key = key /\ m.iv = iv

Hash1(keys, msgid, spi, nonce) ==
    [n |-> 1, skeyid_a |-> keys, msgid |-> msgid, spi |-> spi, nonce |-> nonce]

Hash2(keys, msgid, ni, spi, nonce) ==
    [n |-> 2, skeyid_a |-> keys, msgid |-> msgid, ni |-> ni, spi |-> spi, nonce |-> nonce]

Hash3(keys, msgid, ni, nr) ==
    [n |-> 3, skeyid_a |-> keys, msgid |-> msgid, ni |-> ni, nr |-> nr]

\* initiate_quick: fresh SPI, message id and nonce.
QM1(st, local) ==
    Encrypted(st, local, Phase2Iv(st, local),
        [spi |-> local, nonce |-> local, hash |-> Hash1(st.keys, local, local, local)])

\* respond_quick's answer.
QM2(st, m, local) ==
    Encrypted(st, m.msgid, NextIv(m),
        [spi |-> local, nonce |-> local, hash |-> Hash2(st.keys, m.msgid, m.plain.nonce, local, local)])

QM3(st, msgid, iv, ni, nr) ==
    Encrypted(st, msgid, iv, [hash |-> Hash3(st.keys, msgid, ni, nr)])

-----------------------------------------------------------------------------
(* Client::connect *)

Waiting == {"aggressive", "quick"}

Local(c) == <<c, client[c].attempt>>

\* initiate_aggressive, up to the first recv_from.
Connect(c) ==
    /\ client[c].pc \notin Waiting
    /\ client[c].attempt < MaxAttempts[c]
    /\ LET n == client[c].attempt + 1 IN
        /\ client' = [client EXCEPT ![c] =
                        [pc |-> "aggressive", attempt |-> n, phase1 |-> None, child |-> None]]
        /\ Send({Datagram(c, Server, AM1(c, <<c, n>>))})
    /\ UNCHANGED <<returned, sessions, children, events, draws>>

\* AggressiveInitiator::complete returns Ok: m is an Aggressive-Mode message
\* whose HASH_R verifies under our PSK, cookie and nonce.
VerifiesHashR(c, m) ==
    /\ m.exchange = "AGGRESSIVE"
    /\ m.hash = HashR(Skeyid(Psk[c], Local(c), m.nonce), m.ke, Local(c), m.cky_r, Local(c), m.id)

\* AM3 goes out, then QM1 after the 200 ms pause: the network may reorder them.
ClientAM2(c, d) ==
    /\ client[c].pc = "aggressive"
    /\ d.to = c
    /\ VerifiesHashR(c, d.data)
    /\ LET m == d.data
           l == Local(c)
           st == Phase1State(Psk[c], l, m.cky_r, l, m.ke, l, m.nonce, c)
       IN  /\ client' = [client EXCEPT ![c].pc = "quick", ![c].phase1 = st]
           /\ Receive(d, {Datagram(c, Server, AM3(st)), Datagram(c, Server, QM1(st, l))})
    /\ UNCHANGED <<returned, sessions, children, events, draws>>

\* QuickInitiator::complete returns Ok: the IV continues QM1's and HASH(2) holds.
VerifiesQM2(c, m) ==
    LET st == client[c].phase1
        l == Local(c)
    IN  /\ Decrypts(m, st.keys, NextIv(QM1(st, l)))
        /\ m.plain.hash = Hash2(st.keys, l, l, m.plain.spi, m.plain.nonce)

\* connect sends QM3 and returns without waiting for anything more.
ClientQM2(c, d) ==
    /\ client[c].pc = "quick"
    /\ d.to = c
    /\ VerifiesQM2(c, d.data)
    /\ LET st == client[c].phase1
           l == Local(c)
           p == d.data.plain
           child == DeriveChild(st.keys, l, p.nonce, l, p.spi)
       IN  /\ client' = [client EXCEPT ![c].pc = "established", ![c].child = child]
           /\ returned' = returned \cup {<<l, child>>}
           /\ Receive(d, {Datagram(c, Server, QM3(st, l, NextIv(d.data), l, p.nonce))})
    /\ UNCHANGED <<sessions, children, events, draws>>

\* Any other datagram read while waiting is an Err that ends connect.
ClientError(c, d) ==
    /\ d.to = c
    /\ \/ client[c].pc = "aggressive" /\ ~VerifiesHashR(c, d.data)
       \/ client[c].pc = "quick" /\ ~VerifiesQM2(c, d.data)
    /\ client' = [client EXCEPT ![c].pc = "failed"]
    /\ Receive(d, {})
    /\ UNCHANGED <<returned, sessions, children, events, draws>>

ClientTimeout(c) ==
    /\ ReadTimeout
    /\ client[c].pc \in Waiting
    /\ client' = [client EXCEPT ![c].pc = "failed"]
    /\ UNCHANGED <<returned, sessions, children, events, draws, net, dups>>

-----------------------------------------------------------------------------
(* Server::handle_one *)

Event(kind, st, child) ==
    [kind |-> kind, cky_i |-> st.cky_i, cky_r |-> st.cky_r, child |-> child]

\* Mutant: the session is filed under the responder's cookie.
MutServerAM1KeysByResponder(d) ==
    /\ d.to = Server
    /\ d.data.exchange = "AGGRESSIVE" /\ d.data.first = "SA"
    /\ LET m == d.data
           local == <<Server, draws + 1>>
           st == Phase1State(ServerPsk, m.cky_i, local, m.ke, local, m.nonce, local, m.id)
       IN  /\ Receive(d, {Datagram(Server, d.from, AM2(m, local))})
           /\ sessions' = Put(sessions, local, [phase1 |-> st, quick |-> None])
           /\ events' = events \cup {Event("Phase1SaInit", st, None)}
    /\ draws' = draws + 1
    /\ UNCHANGED <<client, returned, children>>

\* AGGRESSIVE with an SA payload: a session with fresh secrets replaces
\* whatever was kept under this initiator cookie, Quick-Mode state included.
ServerAM1(d) ==
    /\ d.to = Server
    /\ d.data.exchange = "AGGRESSIVE" /\ d.data.first = "SA"
    /\ LET m == d.data
           local == <<Server, draws + 1>>
           st == Phase1State(ServerPsk, m.cky_i, local, m.ke, local, m.nonce, local, m.id)
       IN  /\ Receive(d, {Datagram(Server, d.from, AM2(m, local))})
           /\ sessions' = Put(sessions, m.cky_i, [phase1 |-> st, quick |-> None])
           /\ events' = events \cup {Event("Phase1SaInit", st, None)}
    /\ draws' = draws + 1
    /\ UNCHANGED <<client, returned, children>>

\* Mutant: the session is removed from the map when message 3 arrives.
MutServerAM3RemovesSession(d) ==
    /\ d.to = Server
    /\ d.data.exchange = "AGGRESSIVE" /\ d.data.first = "HASH"
    /\ sessions' = [k \in DOMAIN sessions \ {d.data.cky_i} |-> sessions[k]]
    /\ Receive(d, {})
    /\ UNCHANGED <<client, returned, children, events, draws>>

\* verify_hash_i returns Ok.
VerifiesHashI(st, m) == m.hash = st.hash_i

\* AGGRESSIVE with a HASH payload: HASH_I is verified and reported; the session
\* keeps no trace of it.
ServerAM3(d) ==
    /\ d.to = Server
    /\ d.data.exchange = "AGGRESSIVE" /\ d.data.first = "HASH"
    /\ LET m == d.data
           known == m.cky_i \in DOMAIN sessions
       IN  events' = IF known /\ VerifiesHashI(sessions[m.cky_i].phase1, m)
                     THEN events \cup {Event("Phase1Established", sessions[m.cky_i].phase1, None)}
                     ELSE events
    /\ Receive(d, {})
    /\ UNCHANGED <<client, returned, sessions, children, draws>>

\* respond_quick returns Ok.
VerifiesQM1(st, m) ==
    /\ Decrypts(m, st.keys, Phase2Iv(st, m.msgid))
    /\ m.plain.hash = Hash1(st.keys, m.msgid, m.plain.spi, m.plain.nonce)

\* Mutant: HASH(3) is not verified.
MutVerifiesAnyQM3(qr, m) == m.exchange = "QUICK"

\* QuickResponder::complete returns Ok.
VerifiesQM3(qr, m) ==
    /\ Decrypts(m, qr.keys, qr.iv2)
    /\ m.plain.hash = Hash3(qr.keys, qr.msgid, qr.ni, qr.nr)

\* QUICK for a session without Quick-Mode state: taken as message 1.  The event is
\* noted with the CHILD SA that message 3 is to complete.
ServerQM1(d) ==
    /\ d.to = Server
    /\ d.data.exchange = "QUICK"
    /\ d.data.cky_i \in DOMAIN sessions
    /\ sessions[d.data.cky_i].quick = None
    /\ LET m == d.data
           st == sessions[m.cky_i].phase1
           local == <<Server, draws + 1>>
           qm2 == QM2(st, m, local)
           qr == [keys |-> st.keys, msgid |-> m.msgid, local_spi |-> local,
                  peer_spi |-> m.plain.spi, ni |-> m.plain.nonce, nr |-> local, iv2 |-> NextIv(qm2)]
       IN  /\ VerifiesQM1(st, m)
           /\ Receive(d, {Datagram(Server, d.from, qm2)})
           /\ sessions' = [sessions EXCEPT ![m.cky_i].quick = qr]
           /\ events' = events \cup {Event("QuickSaInit", st,
                    DeriveChild(st.keys, m.plain.nonce, local, local, m.plain.spi))}
    /\ draws' = draws + 1
    /\ UNCHANGED <<client, returned, children>>

\* Mutant: the Quick-Mode state stays in the session after message 3.
MutServerQM3KeepsState(d) ==
    /\ d.to = Server
    /\ d.data.exchange = "QUICK"
    /\ d.data.cky_i \in DOMAIN sessions
    /\ sessions[d.data.cky_i].quick # None
    /\ LET m == d.data
           s == sessions[m.cky_i]
           qr == s.quick
           child == DeriveChild(qr.keys, qr.ni, qr.nr, qr.local_spi, qr.peer_spi)
       IN  IF VerifiesQM3(qr, m)
           THEN /\ children' = Put(children, m.cky_i, child)
                /\ events' = events \cup {Event("ChildSaEstablished", s.phase1, child)}
           ELSE UNCHANGED <<children, events>>
    /\ Receive(d, {})
    /\ UNCHANGED <<client, returned, sessions, draws>>

\* QUICK for a session with Quick-Mode state: taken as message 3.  The state is
\* taken out of the session before the message is verified.
ServerQM3(d) ==
    /\ d.to = Server
    /\ d.data.exchange = "QUICK"
    /\ d.data.cky_i \in DOMAIN sessions
    /\ sessions[d.data.cky_i].quick # None
    /\ LET m == d.data
           s == sessions[m.cky_i]
           qr == s.quick
           child == DeriveChild(qr.keys, qr.ni, qr.nr, qr.local_spi, qr.peer_spi)
       IN  /\ sessions' = [sessions EXCEPT ![m.cky_i].quick = None]
           /\ IF VerifiesQM3(qr, m)
              THEN /\ children' = Put(children, m.cky_i, child)
                   /\ events' = events \cup {Event("ChildSaEstablished", s.phase1, child)}
              ELSE UNCHANGED <<children, events>>
    /\ Receive(d, {})
    /\ UNCHANGED <<client, returned, draws>>

\* QUICK that is ignored (unknown cookie) or fails as message 1.
ServerDrops(d) ==
    /\ d.to = Server
    /\ d.data.exchange = "QUICK"
    /\ d.data.cky_i \in DOMAIN sessions =>
        /\ sessions[d.data.cky_i].quick = None
        /\ ~VerifiesQM1(sessions[d.data.cky_i].phase1, d.data)
    /\ Receive(d, {})
    /\ UNCHANGED <<client, returned, sessions, children, events, draws>>

\* Server::take_child hands the CHILD SA to the data plane.
TakeChild(cky_i) ==
    /\ cky_i \in DOMAIN children
    /\ children' = [k \in DOMAIN children \ {cky_i} |-> children[k]]
    /\ UNCHANGED <<client, returned, sessions, events, draws, net, dups>>

-----------------------------------------------------------------------------
Init ==
    /\ client = [c \in Clients |->
                    [pc |-> "idle", attempt |-> 0, phase1 |-> None, child |-> None]]
    /\ returned = {}
    /\ sessions = [k \in {} |-> None]
    /\ children = [k \in {} |-> None]
    /\ events = {}
    /\ draws = 0
    /\ NetInit

ClientReceive(c) ==
    \E d \in net : ClientAM2(c, d) \/ ClientQM2(c, d) \/ ClientError(c, d)

ClientNext(c) == Connect(c) \/ ClientReceive(c) \/ ClientTimeout(c)

ServerNext ==
    \E d \in net :
        ServerAM1(d) \/ ServerAM3(d) \/ ServerQM1(d) \/ ServerQM3(d) \/ ServerDrops(d)

Next ==
    \/ \E c \in Clients : ClientNext(c)
    \/ ServerNext
    \/ \E k \in DOMAIN children : TakeChild(k)

Spec == Init /\ [][Next]_vars

\* Both drivers loop on their sockets, and UDP delivers what it does not lose.
FairSpec ==
    Spec /\ WF_vars(ServerNext) /\ \A c \in Clients : WF_vars(ClientReceive(c))

-----------------------------------------------------------------------------
(* Properties *)

\* The shape of the state: known pcs, bounded attempts, sessions filed under
\* the cookie of their Phase-1 state.
TypeOK ==
    /\ \A c \in Clients :
        /\ client[c].pc \in {"idle", "aggressive", "quick", "established", "failed"}
        /\ client[c].attempt \in 0..MaxAttempts[c]
    /\ draws \in Nat
    /\ dups \in 0..MaxDup
    /\ \A k \in DOMAIN sessions : sessions[k].phase1.cky_i = k

ChildEvents == {e \in events : e.kind = "ChildSaEstablished"}

\* When the server reports ChildSaEstablished, the initiator that owns the
\* cookie has already returned from that very connect call, holding the other
\* end of the CHILD SA: no duplicated, late or misread Quick-Mode message makes
\* the responder complete alone.
ServerChildHasPeer ==
    \A e \in ChildEvents :
        \E r \in returned : r[1] = e.cky_i /\ Mirror(r[2], e.child)

\* connect returns only if the PSKs are the same, and only after the server has
\* answered Quick-Mode message 1 of a Phase 1 with this attempt's cookie.
ReturnedAuthentic ==
    \A r \in returned :
        /\ Psk[r[1][1]] = ServerPsk
        /\ \E e \in events : e.kind = "QuickSaInit" /\ e.cky_i = r[1]

\* A CHILD SA put into Server.children never has a key of a CHILD SA the server
\* established before, so its fresh sequence counter repeats no nonce: message 3
\* consumes the Quick-Mode state, and message 1 draws a new SPI and nonce.
ChildKeysFresh ==
    [][\A k \in DOMAIN children' :
        (k \in DOMAIN children => children'[k] # children[k]) =>
            \A e \in ChildEvents : children'[k].outbound.key # e.child.outbound.key]_vars

\* Quick Mode is answered only once HASH_I of its Phase 1 has been verified.
QuickAfterPhase1 ==
    \A e \in events : e.kind = "QuickSaInit" =>
        \E f \in events : f.kind = "Phase1Established" /\ f.cky_r = e.cky_r

\* On a network that neither loses nor duplicates (but may reorder message 3
\* of Aggressive Mode and message 1 of Quick Mode), and without read timeouts,
\* every connect call with the right PSK returns and the server ends up with
\* the other end of the CHILD SA.
ConnectSucceeds ==
    \A c \in Clients : Psk[c] = ServerPsk =>
        (client[c].pc = "aggressive" ~>
            \E e \in ChildEvents : client[c].pc = "established" /\ Mirror(client[c].child, e.child))

(* The service of module TunnelService again: answering Quick-Mode message 1 *)
(* is the grant, for connect returns before message 3 arrives.               *)

SamePsk == {c \in Clients : Psk[c] = ServerPsk}
GrantOf(e) == [to |-> e.cky_i[1], call |-> e.cky_i[2], child |-> e.child]

Made == [c \in Clients |-> client[c].attempt]
Grants == {GrantOf(e) : e \in {f \in events : f.kind = "QuickSaInit"}}
Holds == [c \in Clients |-> IF client[c].pc = "established" THEN {client[c].child} ELSE {}]

Service == INSTANCE TunnelService WITH
    Admitted <- SamePsk, Trusting <- SamePsk, calls <- Made, grants <- Grants, holds <- Holds

\* Every behaviour is one of the service: although sessions are filed under the
\* initiator's cookie alone and replaced by a repeated message 1, no call returns with
\* anything but the other end of a grant to it, and no SPI is granted twice.
ProvidesService == Service!Spec

-----------------------------------------------------------------------------
(* The inductive invariant behind these properties.  Every session, event,  *)
(* datagram and result is determined by the draws it was made from: l of a   *)
(* connect call, s of the server's AM2, t of the server's QM2.               *)

Calls == UNION {{<<c, n>> : n \in 1..client[c].attempt} : c \in Clients}
Drawn == {<<Server, m>> : m \in 1..draws}

Phase1Of(l, s) == Phase1State(ServerPsk, l, s, l, s, l, s, l[1])
QM1Of(l, s) == QM1(Phase1Of(l, s), l)
QM2Of(l, s, t) == QM2(Phase1Of(l, s), QM1Of(l, s), t)
QM3Of(l, s, t) == QM3(Phase1Of(l, s), l, NextIv(QM2Of(l, s, t)), l, t)
QuickOf(l, s, t) ==
    [keys |-> Phase1Of(l, s).keys, msgid |-> l, local_spi |-> t, peer_spi |-> l,
     ni |-> l, nr |-> t, iv2 |-> NextIv(QM2Of(l, s, t))]
ServerChild(l, s, t) == DeriveChild(Phase1Of(l, s).keys, l, t, t, l)
ClientChild(l, s, t) == DeriveChild(Phase1Of(l, s).keys, l, t, l, t)

\* The server answered Quick-Mode message 1 with t.
Answered(l, s, t) ==
    \E e \in events : e.kind = "QuickSaInit" /\ e.cky_i = l /\ e.child = ServerChild(l, s, t)

\* Quick-Mode state, while it is there, belongs to no CHILD SA reported already.
SessionOrigin(k) ==
    /\ k \in Calls
    /\ sessions[k] = [phase1 |-> sessions[k].phase1, quick |-> sessions[k].quick]
    /\ \E s \in Drawn :
        /\ sessions[k].phase1 = Phase1Of(k, s)
        /\ \/ sessions[k].quick = None
           \/ \E t \in Drawn : /\ sessions[k].quick = QuickOf(k, s, t)
                               /\ \A e \in ChildEvents : e.child # ServerChild(k, s, t)

EventOrigin(e) ==
    /\ e.kind = "QuickSaInit" => \E l \in Calls, s, t \in Drawn :
        Psk[l[1]] = ServerPsk /\ e.cky_i = l /\ e.child = ServerChild(l, s, t)
    /\ e.kind = "ChildSaEstablished" => \E l \in Calls, s, t \in Drawn :
        e.cky_i = l /\ e.child = ServerChild(l, s, t) /\ <<l, ClientChild(l, s, t)>> \in returned

IsAM1(d) == \E l \in Calls : d = Datagram(l[1], Server, AM1(l[1], l))
IsAM2(d) == \E l \in Calls, s \in Drawn : d = Datagram(Server, l[1], AM2(AM1(l[1], l), s))
IsAM3(d) == \E l \in Calls, s \in Drawn : d = Datagram(l[1], Server, AM3(Phase1Of(l, s)))
IsQM1(d) == \E l \in Calls, s \in Drawn :
    d = Datagram(l[1], Server, QM1Of(l, s)) /\ Psk[l[1]] = ServerPsk
IsQM2(d) == \E l \in Calls, s, t \in Drawn :
    d = Datagram(Server, l[1], QM2Of(l, s, t)) /\ Answered(l, s, t)
IsQM3(d) == \E l \in Calls, s, t \in Drawn :
    d = Datagram(l[1], Server, QM3Of(l, s, t)) /\ <<l, ClientChild(l, s, t)>> \in returned

NetOrigin(d) == IsAM1(d) \/ IsAM2(d) \/ IsAM3(d) \/ IsQM1(d) \/ IsQM2(d) \/ IsQM3(d)

\* HASH_R has verified, so the PSKs are the same and Phase 1 is the server's.
ClientOrigin(c) ==
    /\ client[c].pc \in Waiting => client[c].attempt > 0
    /\ client[c].pc = "quick" =>
        Psk[c] = ServerPsk /\ \E s \in Drawn : client[c].phase1 = Phase1Of(Local(c), s)

IInv ==
    /\ TypeOK
    /\ client = [c \in Clients |-> [pc |-> client[c].pc, attempt |-> client[c].attempt,
                                    phase1 |-> client[c].phase1, child |-> client[c].child]]
    /\ \A k \in DOMAIN sessions : SessionOrigin(k)
    /\ \A e \in events : EventOrigin(e)
    /\ ReturnedAuthentic
    /\ \A d \in net : NetOrigin(d)
    /\ \A c \in Clients : ClientOrigin(c)
=============================================================================
