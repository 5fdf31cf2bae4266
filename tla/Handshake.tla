----------------------------- MODULE Handshake ------------------------------
(***************************************************************************)
(* The IKEv2 handshake as the two drivers run it: ikev2/client.rs          *)
(* (Client::connect, one blocking receive per exchange, no retransmission) *)
(* against ikev2/server.rs (Server::handle_one, one datagram at a time),   *)
(* over a UDP network that loses, duplicates, delays and reorders.         *)
(*                                                                         *)
(* Cryptography is symbolic.  One draw of LocalSecret stands for the DH    *)
(* private value, the nonce and the SPI taken together; draws are fresh.   *)
(* A client's draw is <<client, attempt>>, the server's <<Server, n>>.     *)
(* An SK{} payload opens under exactly the key it was sealed with, and an  *)
(* AUTH value verifies for exactly the octets it was computed over.        *)
(* A send_to that fails needs no action: the server then returns before it *)
(* inserts anything, as if the request had been lost, and a client's       *)
(* connect fails, as if the datagram had been lost and the read timed out. *)
(***************************************************************************)
EXTENDS EspOps, UdpNet, FiniteSets

CONSTANTS
    Clients,        \* the Client values, each with its own socket
    Server,         \* the server's address
    LocalAuth,      \* LocalAuth[c]: the credential c proves itself with
    PeerAuth,       \* PeerAuth[c]: the credentials c accepts from the server
    ServerAuth,     \* the credential the server proves itself with
    ServerPeerAuth, \* the credentials the server accepts from clients
    MaxAttempts,    \* bound: connect calls each client makes
    ReadTimeout     \* whether set_read_timeout was called on the clients

ASSUME HandshakeAssumption ==
    /\ Server \notin Clients
    /\ MaxAttempts \in [Clients -> Nat]
    /\ ReadTimeout \in BOOLEAN

VARIABLES
    client,      \* client[c]: where c's connect call stands and what it holds
    sessions,    \* Server.sessions, keyed by <<spi_i, spi_r>>
    children,    \* Server.children, same keys
    events,      \* the ServerEvent::Established values returned so far, each
                 \* with the CHILD SA derived for it
    draws        \* the server's draws from its entropy source that were put
                 \* to use; those of a rejected IKE_AUTH are discarded

vars == <<client, sessions, children, events, draws, net, dups>>

None == [none |-> TRUE]

\* The responder SPI of a first request: zero, which no draw yields.
ZeroSpi == <<Server, 0>>

-----------------------------------------------------------------------------
(* Messages and key derivation *)

\* DhGroup::shared: the unordered pair of private values.  Every offer is the
\* default one, so the groups agree.
DhShared(x, y) == {x, y}

\* derive_session_keys: SK_* of one IKE SA from the DH shared secret, the nonces
\* and the SPIs.
SessionKeys(shared, ni, nr, spi_i, spi_r) ==
    [shared |-> shared, ni |-> ni, nr |-> nr, spi_i |-> spi_i, spi_r |-> spi_r]

\* initiator_request / build_sa_init, from one LocalSecret.
SaInitRequest(local) ==
    [exchange |-> "IKE_SA_INIT", spi_i |-> local, spi_r |-> ZeroSpi, ke |-> local, nonce |-> local]

SaInitResponse(request, local) ==
    [exchange |-> "IKE_SA_INIT", spi_i |-> request.spi_i, spi_r |-> local,
     ke |-> local, nonce |-> local]

\* responder_respond: the responder's CompletedSaInit.
ResponderRespond(request, local) ==
    [spi_i |-> request.spi_i, spi_r |-> local,
     keys |-> SessionKeys(DhShared(local, request.ke), request.nonce, local, request.spi_i, local),
     ni |-> request.nonce, nr |-> local,
     init_message |-> request, resp_message |-> SaInitResponse(request, local)]

\* initiator_complete: SPIi is the initiator's own, SPIr is the header's; the
\* header's SPIi is not compared with the request's.
InitiatorComplete(local, response) ==
    [spi_i |-> local, spi_r |-> response.spi_r,
     keys |-> SessionKeys(DhShared(local, response.ke), local, response.nonce, local, response.spi_r),
     ni |-> local, nr |-> response.nonce,
     init_message |-> SaInitRequest(local), resp_message |-> response]

\* signed_octets: RealMessage | the peer's nonce | prf(SK_p, ID).
InitiatorSignedOctets(sa, id) ==
    [message |-> sa.init_message, nonce |-> sa.nr, sk_p |-> <<"pi", sa.keys>>, id |-> id]

ResponderSignedOctets(sa, id) ==
    [message |-> sa.resp_message, nonce |-> sa.ni, sk_p |-> <<"pr", sa.keys>>, id |-> id]

\* psk_auth, or the signature over the octets: bound to the credential.
Auth(cred, octets) == [cred |-> cred, octets |-> octets]

\* Mutant: the AUTH value is recomputed but the credential is not checked.
MutVerifyAnyCredential(accepted, auth, octets) == auth.octets = octets

\* verify_peer_auth: a PSK must be the same secret; a certificate must be one
\* that validates under the verifier's CAs, name and clock.
VerifyPeerAuth(accepted, auth, octets) == auth.cred \in accepted /\ auth.octets = octets

AuthMessage(sa, sk, id, auth, child_spi) ==
    [exchange |-> "IKE_AUTH", spi_i |-> sa.spi_i, spi_r |-> sa.spi_r,
     sk |-> sk, id |-> id, auth |-> auth, child_spi |-> child_spi]

InitiatorAuthRequest(sa, c, child_spi) ==
    AuthMessage(sa, <<"ei", sa.keys>>, c,
                Auth(LocalAuth[c], InitiatorSignedOctets(sa, c)), child_spi)

ResponderAuthResponse(sa, child_spi) ==
    AuthMessage(sa, <<"er", sa.keys>>, Server,
                Auth(ServerAuth, ResponderSignedOctets(sa, Server)), child_spi)

\* open_encrypted_gcm succeeds: an SK{} payload, sealed under this key.
OpensSk(m, sk) == m.exchange = "IKE_AUTH" /\ m.sk = sk

\* responder_process_auth returns Ok.
ResponderAccepts(sa, m) ==
    /\ OpensSk(m, <<"ei", sa.keys>>)
    /\ VerifyPeerAuth(ServerPeerAuth, m.auth, InitiatorSignedOctets(sa, m.id))

\* Mutant: any IKE_AUTH response from an accepted credential is taken, whichever
\* IKE SA it belongs to.
MutAcceptsAnyAuth(c, sa, m) == m.exchange = "IKE_AUTH" /\ m.auth.cred \in PeerAuth[c]

\* initiator_verify_auth returns Ok.
InitiatorAccepts(c, sa, m) ==
    /\ OpensSk(m, <<"er", sa.keys>>)
    /\ VerifyPeerAuth(PeerAuth[c], m.auth, ResponderSignedOctets(sa, m.id))

-----------------------------------------------------------------------------
(* Client::connect.  A Client owns one socket for all its connect calls, so *)
(* a late answer to an earlier call is read by a later one.                 *)

Waiting == {"sa_init", "ike_auth"}

\* Mutant: LocalSecret::generate is called once and its result reused.
MutConnectReusesSecret(c) ==
    /\ client[c].pc \notin Waiting
    /\ client[c].attempt < MaxAttempts[c]
    /\ client' = [client EXCEPT ![c] =
                    [pc |-> "sa_init", attempt |-> 1, sa |-> None, child |-> None]]
    /\ Send({Datagram(c, Server, SaInitRequest(<<c, 1>>))})
    /\ UNCHANGED <<sessions, children, events, draws>>

\* sa_init up to its recv_from.
Connect(c) ==
    /\ client[c].pc \notin Waiting
    /\ client[c].attempt < MaxAttempts[c]
    /\ LET n == client[c].attempt + 1 IN
        /\ client' = [client EXCEPT ![c] =
                        [pc |-> "sa_init", attempt |-> n, sa |-> None, child |-> None]]
        /\ Send({Datagram(c, Server, SaInitRequest(<<c, n>>))})
    /\ UNCHANGED <<sessions, children, events, draws>>

\* The ESP SPI the caller hands to connect, one per call.
ChildSpi(c) == <<c, client[c].attempt>>

\* initiator_complete, then authenticate up to its recv_from.
ClientSaInitResponse(c, d) ==
    /\ client[c].pc = "sa_init"
    /\ d.to = c
    /\ d.data.exchange = "IKE_SA_INIT"
    /\ LET sa == InitiatorComplete(<<c, client[c].attempt>>, d.data) IN
        /\ client' = [client EXCEPT ![c].pc = "ike_auth", ![c].sa = sa]
        /\ Receive(d, {Datagram(c, Server, InitiatorAuthRequest(sa, c, ChildSpi(c)))})
    /\ UNCHANGED <<sessions, children, events, draws>>

\* initiator_verify_auth succeeds and connect derives the CHILD SA.
ClientAuthResponse(c, d) ==
    /\ client[c].pc = "ike_auth"
    /\ d.to = c
    /\ InitiatorAccepts(c, client[c].sa, d.data)
    /\ LET sa == client[c].sa IN
        client' = [client EXCEPT ![c].pc = "established", ![c].child =
            ChildSa(sa.keys, sa.ni, sa.nr, "Initiator", ChildSpi(c), d.data.child_spi)]
    /\ Receive(d, {})
    /\ UNCHANGED <<sessions, children, events, draws>>

\* Any other datagram read while waiting is an Err that ends connect.
ClientError(c, d) ==
    /\ d.to = c
    /\ \/ client[c].pc = "sa_init" /\ d.data.exchange # "IKE_SA_INIT"
       \/ client[c].pc = "ike_auth" /\ ~InitiatorAccepts(c, client[c].sa, d.data)
    /\ client' = [client EXCEPT ![c].pc = "failed"]
    /\ Receive(d, {})
    /\ UNCHANGED <<sessions, children, events, draws>>

\* recv_from returns a timeout error.
ClientTimeout(c) ==
    /\ ReadTimeout
    /\ client[c].pc \in Waiting
    /\ client' = [client EXCEPT ![c].pc = "failed"]
    /\ UNCHANGED <<sessions, children, events, draws, net, dups>>

-----------------------------------------------------------------------------
(* Server::handle_one *)

\* Mutant: the two SPIs swapped on lookup.
MutSessionKeySwapped(m) == <<m.spi_r, m.spi_i>>

SessionKey(m) == <<m.spi_i, m.spi_r>>

\* Mutant: sessions are keyed by the initiator's SPI alone.
MutServerSaInitKeysByInitiator(d) ==
    /\ d.to = Server
    /\ d.data.exchange = "IKE_SA_INIT"
    /\ LET local == <<Server, draws + 1>>
           sa == ResponderRespond(d.data, local)
       IN  /\ Receive(d, {Datagram(Server, d.from, sa.resp_message)})
           /\ sessions' = Put(sessions, <<sa.spi_i, ZeroSpi>>, sa)
           /\ draws' = draws + 1
    /\ UNCHANGED <<client, children, events>>

\* The IKE_SA_INIT arm: every request, repeated or not, gets fresh secrets and
\* a session of its own.
ServerSaInit(d) ==
    /\ d.to = Server
    /\ d.data.exchange = "IKE_SA_INIT"
    /\ LET local == <<Server, draws + 1>>
           sa == ResponderRespond(d.data, local)
       IN  /\ Receive(d, {Datagram(Server, d.from, sa.resp_message)})
           /\ sessions' = Put(sessions, <<sa.spi_i, sa.spi_r>>, sa)
           /\ draws' = draws + 1
    /\ UNCHANGED <<client, children, events>>

\* The session exists and responder_process_auth returns Ok for it.
ServerAccepts(m) ==
    SessionKey(m) \in DOMAIN sessions /\ ResponderAccepts(sessions[SessionKey(m)], m)

\* Mutant: the child SPI is drawn once for the response and again for the SA.
MutServerAuthDrawsTwice(d) ==
    /\ d.to = Server
    /\ d.data.exchange = "IKE_AUTH"
    /\ ServerAccepts(d.data)
    /\ LET key == SessionKey(d.data)
           sa == sessions[key]
           child == ChildSa(sa.keys, sa.ni, sa.nr, "Responder",
                            <<Server, draws + 2>>, d.data.child_spi)
       IN  /\ Receive(d, {Datagram(Server, d.from,
                                   ResponderAuthResponse(sa, <<Server, draws + 1>>))})
           /\ children' = Put(children, key, child)
           /\ events' = events \cup {[key |-> key, peer_id |-> d.data.id, child |-> child]}
           /\ draws' = draws + 2
    /\ UNCHANGED <<client, sessions>>

\* The IKE_AUTH arm for a known SPI pair whose AUTH verifies.
ServerAuthRequest(d) ==
    /\ d.to = Server
    /\ d.data.exchange = "IKE_AUTH"
    /\ ServerAccepts(d.data)
    /\ LET key == SessionKey(d.data)
           sa == sessions[key]
           child_spi == <<Server, draws + 1>>
           child == ChildSa(sa.keys, sa.ni, sa.nr, "Responder", child_spi, d.data.child_spi)
       IN  /\ Receive(d, {Datagram(Server, d.from, ResponderAuthResponse(sa, child_spi))})
           /\ children' = Put(children, key, child)
           /\ events' = events \cup {[key |-> key, peer_id |-> d.data.id, child |-> child]}
           /\ draws' = draws + 1
    /\ UNCHANGED <<client, sessions>>

\* ServerEvent::Ignored for an unknown SPI pair, Err when the AUTH does not
\* verify: no answer and no change to the maps.
ServerDrops(d) ==
    /\ d.to = Server
    /\ d.data.exchange = "IKE_AUTH"
    /\ ~ServerAccepts(d.data)
    /\ Receive(d, {})
    /\ UNCHANGED <<client, sessions, children, events, draws>>

-----------------------------------------------------------------------------
Init ==
    /\ client = [c \in Clients |->
                    [pc |-> "idle", attempt |-> 0, sa |-> None, child |-> None]]
    /\ sessions = [k \in {} |-> None]
    /\ children = [k \in {} |-> None]
    /\ events = {}
    /\ draws = 0
    /\ NetInit

ClientReceive(c) ==
    \E d \in net : ClientSaInitResponse(c, d) \/ ClientAuthResponse(c, d) \/ ClientError(c, d)

ClientNext(c) == Connect(c) \/ ClientReceive(c) \/ ClientTimeout(c)

ServerNext == \E d \in net : ServerSaInit(d) \/ ServerAuthRequest(d) \/ ServerDrops(d)

Next ==
    \/ \E c \in Clients : ClientNext(c)
    \/ ServerNext

Spec == Init /\ [][Next]_vars

\* Both drivers loop on their sockets, and UDP delivers what it does not lose.
\* Nothing obliges an application to call connect.
FairSpec ==
    Spec /\ WF_vars(ServerNext) /\ \A c \in Clients : WF_vars(ClientReceive(c))

-----------------------------------------------------------------------------
(* Properties *)

Pcs == {"idle", "sa_init", "ike_auth", "established", "failed"}

\* Every variable keeps its shape: a client record has its four fields with a
\* known pc and a bounded attempt number, a session is filed under its own SPI
\* pair, and there is no CHILD SA without a session.
TypeOK ==
    /\ client = [c \in Clients |-> client[c]]
    /\ \A c \in Clients :
        client[c] \in [pc : Pcs, attempt : 0..MaxAttempts[c],
                       sa : {client[c].sa}, child : {client[c].child}]
    /\ draws \in Nat
    /\ dups \in 0..MaxDup
    /\ \A k \in DOMAIN sessions : k = <<sessions[k].spi_i, sessions[k].spi_r>>
    /\ DOMAIN children \subseteq DOMAIN sessions

Established(c) == client[c].pc = "established"

\* The IKE SA a client's connect returns is, field by field (SPIs, keys,
\* nonces, both SA_INIT messages), the one the server holds under that SPI
\* pair, and it is the SA of this connect call: a late or duplicated answer to
\* an earlier call never gets mixed into it (initiator_complete does not
\* compare the header's SPIi, so this rests on IKE_AUTH).
SaAgreement ==
    \A c \in Clients : Established(c) =>
        LET sa == client[c].sa
            key == <<sa.spi_i, sa.spi_r>>
        IN  /\ sa.spi_i = <<c, client[c].attempt>>
            /\ key \in DOMAIN sessions
            /\ sessions[key] = sa

\* Mutual authentication: the server reports Established only for a client
\* whose credential it accepts and that opened this very attempt, and connect
\* returns only when each side accepts the other's credential.
Authenticated ==
    /\ \A e \in events :
        /\ e.peer_id \in Clients
        /\ LocalAuth[e.peer_id] \in ServerPeerAuth
        /\ \E n \in 1..client[e.peer_id].attempt : e.key[1] = <<e.peer_id, n>>
    /\ \A c \in Clients : Established(c) =>
        /\ ServerAuth \in PeerAuth[c]
        /\ LocalAuth[c] \in ServerPeerAuth

\* When connect returns, the server has already reported Established for the
\* same SPI pair and client, with a CHILD SA that is the other end of the
\* client's: same keys and crossed SPIs.
ChildAgreement ==
    \A c \in Clients : Established(c) =>
        \E e \in events :
            /\ e.key = <<client[c].sa.spi_i, client[c].sa.spi_r>>
            /\ e.peer_id = c
            /\ Mirror(client[c].child, e.child)

\* ... and it is the CHILD SA that Server::child still returns for that pair:
\* "a packet carries the SPI of the SA that receives it" (esp.rs).
ChildInStep ==
    \A c \in Clients : Established(c) =>
        LET key == <<client[c].sa.spi_i, client[c].sa.spi_r>> IN
            key \in DOMAIN children /\ Mirror(client[c].child, children[key])

\* One connect call leads to at most one CHILD SA on the server.
OneChildPerConnect ==
    \A e, f \in events : e.key[1] = f.key[1] => e = f

\* A session, once inserted, is never replaced or changed: handling another
\* datagram (a repeated SA_INIT request included) cannot disturb a half-open or
\* established IKE SA.
SessionsStable ==
    [][\A k \in DOMAIN sessions : k \in DOMAIN sessions' /\ sessions'[k] = sessions[k]]_vars

\* On a network that neither loses nor duplicates, and without read timeouts,
\* every connect call of a client whose credentials match the server's returns
\* with a CHILD SA in step with the server's, whatever the other clients do.
ConnectSucceeds ==
    \A c \in Clients :
        (LocalAuth[c] \in ServerPeerAuth /\ ServerAuth \in PeerAuth[c])
            => (client[c].pc = "sa_init" ~> (Established(c) /\ ChildInStep))

(* The service of module TunnelService, seen in the state: an Established    *)
(* event is a grant, and what connect returns is held.                      *)

Admitted == {c \in Clients : LocalAuth[c] \in ServerPeerAuth}
Trusting == {c \in Clients : ServerAuth \in PeerAuth[c]}
GrantOf(e) == [to |-> e.peer_id, call |-> e.key[1][2], child |-> e.child]

Calls == [c \in Clients |-> client[c].attempt]
Grants == {GrantOf(e) : e \in events}
Holds == [c \in Clients |-> IF Established(c) THEN {client[c].child} ELSE {}]

Service == INSTANCE TunnelService WITH calls <- Calls, grants <- Grants, holds <- Holds

\* Every behaviour of the handshake is one of the service: no step, in whatever order
\* datagrams arrive, grants to a client or call that did not ask, grants an SPI twice,
\* or lets a call return with anything but the other end of a grant to it.
ProvidesService == Service!Spec

-----------------------------------------------------------------------------
(* The inductive invariant behind SaAgreement, Authenticated and            *)
(* ChildAgreement: where everything in flight or in a map came from.        *)

\* What attempt n of c makes of the SA_INIT response of session k, which may
\* be the answer to another attempt.
SaFrom(c, n, k) == InitiatorComplete(<<c, n>>, sessions[k].resp_message)

\* A session answers a request that some attempt really sent.
SessionOrigin(k) ==
    \E c \in Clients : \E n \in 1..client[c].attempt, m \in 1..draws :
        /\ k = <<<<c, n>>, <<Server, m>>>>
        /\ sessions[k] = ResponderRespond(SaInitRequest(<<c, n>>), <<Server, m>>)

IsSaInitRequest(d) ==
    \E c \in Clients : \E n \in 1..client[c].attempt :
        d = Datagram(c, Server, SaInitRequest(<<c, n>>))

IsSaInitResponse(d) ==
    \E c \in Clients, k \in DOMAIN sessions : d = Datagram(Server, c, sessions[k].resp_message)

IsAuthRequest(d) ==
    \E c \in Clients, k \in DOMAIN sessions : \E n \in 1..client[c].attempt :
        d = Datagram(c, Server, InitiatorAuthRequest(SaFrom(c, n, k), c, <<c, n>>))

IsAuthResponse(d) ==
    \E c \in Clients, e \in events :
        d = Datagram(Server, c, ResponderAuthResponse(sessions[e.key], e.child.inbound.spi))

NetOrigin(d) ==
    IsSaInitRequest(d) \/ IsSaInitResponse(d) \/ IsAuthRequest(d) \/ IsAuthResponse(d)

\* An Established event answers an attempt that proved an accepted credential.
EventOrigin(e) ==
    \E c \in Clients : \E n \in 1..client[c].attempt :
        /\ e.key \in DOMAIN sessions /\ e.key[1] = <<c, n>>
        /\ e.peer_id = c /\ LocalAuth[c] \in ServerPeerAuth
        /\ LET sa == sessions[e.key] IN
            e.child = ChildSa(sa.keys, sa.ni, sa.nr, "Responder", e.child.inbound.spi, <<c, n>>)

\* What a waiting client holds.
ClientOrigin(c) ==
    /\ client[c].pc \in Waiting => client[c].attempt > 0
    /\ client[c].pc = "ike_auth" =>
        \E k \in DOMAIN sessions : client[c].sa = SaFrom(c, client[c].attempt, k)

\* What an established client can rely on.
Agreed(c) ==
    LET sa == client[c].sa
        key == <<sa.spi_i, sa.spi_r>>
    IN  /\ sa.spi_i = <<c, client[c].attempt>>
        /\ key \in DOMAIN sessions /\ sessions[key] = sa
        /\ ServerAuth \in PeerAuth[c]
        /\ \E e \in events :
            e.key = key /\ e.peer_id = c /\ Mirror(client[c].child, e.child)

IInv ==
    /\ TypeOK
    /\ \A k \in DOMAIN sessions : SessionOrigin(k)
    /\ \A e \in events : EventOrigin(e)
    /\ \A d \in net : NetOrigin(d)
    /\ \A c \in Clients : ClientOrigin(c) /\ (Established(c) => Agreed(c))
=============================================================================
