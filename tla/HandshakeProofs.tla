-------------------------- MODULE HandshakeProofs ---------------------------
(***************************************************************************)
(* Proofs about the IKEv2 handshake, for every set of clients, every       *)
(* assignment of credentials, and any number of connect calls, losses and  *)
(* duplications.                                                           *)
(*                                                                         *)
(* First the safety invariants; then that the drivers implement the        *)
(* service of module TunnelService; then what the tunnels of module        *)
(* DataPath may rely on.                                                   *)
(*                                                                         *)
(* On any network a tunnel opens only what its peer sealed.  On a network  *)
(* that never delivers a datagram twice, one connect call also leads to at *)
(* most one CHILD SA, so that no GCM nonce is used twice and the two ends  *)
(* of a call are the two ends of one tunnel.  Without that hypothesis the  *)
(* last three are false: a repeated IKE_AUTH request is answered again.    *)
(***************************************************************************)
EXTENDS DataPath, TLAPS

-----------------------------------------------------------------------------
(* Facts about the operators *)

\* initiator_complete on the answer to its own request computes the very record
\* responder_respond stored: the two derivations take their inputs in opposite
\* order and still agree.
LEMMA BothSidesDerive ==
    ASSUME NEW x, NEW y
    PROVE  InitiatorComplete(x, SaInitResponse(SaInitRequest(x), y))
            = ResponderRespond(SaInitRequest(x), y)
BY Zenon DEF InitiatorComplete, SaInitResponse, SaInitRequest, ResponderRespond, DhShared, SessionKeys

\* ChildSa::derive called with opposite roles and crossed SPIs yields the two
\* ends of one tunnel.
LEMMA DeriveMirrors ==
    ASSUME NEW k, NEW ni, NEW nr, NEW x, NEW y
    PROVE  Mirror(ChildSa(k, ni, nr, "Initiator", x, y),
                  ChildSa(k, ni, nr, "Responder", y, x))
BY Zenon DEF Mirror, ChildSa, EspSa

\* Where a datagram goes and what it carries.
LEMMA DatagramFields ==
    ASSUME NEW from, NEW to, NEW data
    PROVE  /\ Datagram(from, to, data).from = from
           /\ Datagram(from, to, data).to = to
           /\ Datagram(from, to, data).data = data
BY Zenon DEF Datagram

\* The fields of a responder's session, used throughout.
LEMMA SessionFields ==
    ASSUME NEW x, NEW y
    PROVE  LET sa == ResponderRespond(SaInitRequest(x), y) IN
            /\ sa.spi_i = x
            /\ sa.spi_r = y
            /\ sa.nr = y
            /\ sa.keys.spi_i = x
            /\ sa.keys.spi_r = y
            /\ sa.resp_message = SaInitResponse(SaInitRequest(x), y)
            /\ sa.resp_message.spi_r = y
            /\ sa.resp_message.exchange = "IKE_SA_INIT"
BY Zenon DEF ResponderRespond, SaInitRequest, SaInitResponse, DhShared, SessionKeys

\* What a client knows of the sender of an IKE_AUTH response it accepted: same
\* keys, same SA_INIT response, an accepted credential.
LEMMA AcceptedResponse ==
    ASSUME NEW c, NEW sa, NEW s, NEW t, InitiatorAccepts(c, sa, ResponderAuthResponse(s, t))
    PROVE  /\ s.keys = sa.keys
           /\ s.resp_message = sa.resp_message
           /\ ServerAuth \in PeerAuth[c]
           /\ ResponderAuthResponse(s, t).child_spi = t
BY Zenon DEF InitiatorAccepts, OpensSk, VerifyPeerAuth, ResponderAuthResponse, AuthMessage, Auth,
       ResponderSignedOctets

\* What the server knows of the sender of an IKE_AUTH request it accepted.
LEMMA AcceptedRequest ==
    ASSUME NEW c, NEW sa, NEW s, NEW t, ResponderAccepts(sa, InitiatorAuthRequest(s, c, t))
    PROVE  LocalAuth[c] \in ServerPeerAuth
BY Zenon DEF ResponderAccepts, VerifyPeerAuth, InitiatorAuthRequest, AuthMessage, Auth

\* The header and identity fields of an IKE_AUTH request.
LEMMA AuthRequestFields ==
    ASSUME NEW c, NEW s, NEW t
    PROVE  /\ InitiatorAuthRequest(s, c, t).spi_i = s.spi_i
           /\ InitiatorAuthRequest(s, c, t).spi_r = s.spi_r
           /\ InitiatorAuthRequest(s, c, t).id = c
           /\ InitiatorAuthRequest(s, c, t).child_spi = t
BY Zenon DEF InitiatorAuthRequest, AuthMessage

-----------------------------------------------------------------------------
(* What the receiver of a datagram can tell from its header *)

\* What a client sends is addressed to the server, under the exchange type its
\* handler dispatches on.
LEMMA RequestHeader ==
    ASSUME NEW d
    PROVE  /\ IsSaInitRequest(d) => d.to = Server /\ d.data.exchange = "IKE_SA_INIT"
           /\ IsAuthRequest(d) => d.to = Server /\ d.data.exchange = "IKE_AUTH"
<1>1. ASSUME IsSaInitRequest(d) PROVE d.to = Server /\ d.data.exchange = "IKE_SA_INIT"
  <2>1. PICK x, y : d = Datagram(x, Server, SaInitRequest(y))
    BY <1>1, Zenon DEF IsSaInitRequest
  <2>2. SaInitRequest(y).exchange = "IKE_SA_INIT"
    BY Zenon DEF SaInitRequest
  <2> QED BY <2>1, <2>2, DatagramFields
<1>2. ASSUME IsAuthRequest(d) PROVE d.to = Server /\ d.data.exchange = "IKE_AUTH"
  <2>1. PICK x, s, t : d = Datagram(x, Server, InitiatorAuthRequest(s, x, t))
    BY <1>2, Zenon DEF IsAuthRequest
  <2>2. InitiatorAuthRequest(s, x, t).exchange = "IKE_AUTH"
    BY Zenon DEF InitiatorAuthRequest, AuthMessage
  <2> QED BY <2>1, <2>2, DatagramFields
<1> QED BY <1>1, <1>2, Zenon

\* What the server sends is never addressed to the server itself.
LEMMA ResponseHeader ==
    ASSUME IInv, NEW d
    PROVE  /\ IsSaInitResponse(d) => d.to # Server /\ d.data.exchange = "IKE_SA_INIT"
           /\ IsAuthResponse(d) => d.to # Server /\ d.data.exchange = "IKE_AUTH"
<1>1. ASSUME IsSaInitResponse(d) PROVE d.to # Server /\ d.data.exchange = "IKE_SA_INIT"
  <2>1. PICK x \in Clients, k \in DOMAIN sessions : d = Datagram(Server, x, sessions[k].resp_message)
    BY <1>1, Zenon DEF IsSaInitResponse
  <2>2. SessionOrigin(k)
    BY Zenon DEF IInv
  <2>3. PICK y \in Clients : \E n \in 1..client[y].attempt, m \in 1..draws :
            sessions[k] = ResponderRespond(SaInitRequest(<<y, n>>), <<Server, m>>)
    BY <2>2, Zenon DEF SessionOrigin
  <2>4. sessions[k].resp_message.exchange = "IKE_SA_INIT"
    BY <2>3, SessionFields
  <2> QED BY <2>1, <2>4, DatagramFields, HandshakeAssumption
<1>2. ASSUME IsAuthResponse(d) PROVE d.to # Server /\ d.data.exchange = "IKE_AUTH"
  <2>1. PICK x \in Clients : \E s, t : d = Datagram(Server, x, ResponderAuthResponse(s, t))
    BY <1>2, Zenon DEF IsAuthResponse
  <2>2. PICK s, t : d = Datagram(Server, x, ResponderAuthResponse(s, t))
    BY <2>1, Zenon
  <2>3. ResponderAuthResponse(s, t).exchange = "IKE_AUTH"
    BY Zenon DEF ResponderAuthResponse, AuthMessage
  <2> QED BY <2>2, <2>3, DatagramFields, HandshakeAssumption
<1> QED BY <1>1, <1>2, Zenon

\* The destination and the exchange type tell the four messages apart, as both
\* drivers rely on when they dispatch on the header.
LEMMA WhichDatagram ==
    ASSUME IInv, NEW d \in net
    PROVE  /\ d.to = Server /\ d.data.exchange = "IKE_SA_INIT" => IsSaInitRequest(d)
           /\ d.to = Server /\ d.data.exchange = "IKE_AUTH" => IsAuthRequest(d)
           /\ d.to # Server /\ d.data.exchange = "IKE_SA_INIT" => IsSaInitResponse(d)
           /\ d.to # Server /\ d.data.exchange = "IKE_AUTH" => IsAuthResponse(d)
<1>1. NetOrigin(d)
  BY Zenon DEF IInv
<1> QED BY <1>1, RequestHeader, ResponseHeader, Zenon DEF NetOrigin

-----------------------------------------------------------------------------
(* What no step undoes *)

\* Attempts, draws and events only grow, and sessions are only added to.
Grows ==
    /\ \A c \in Clients : client'[c].attempt \in Nat /\ client[c].attempt <= client'[c].attempt
    /\ \A k \in DOMAIN sessions : k \in DOMAIN sessions' /\ sessions'[k] = sessions[k]
    /\ events \subseteq events'
    /\ draws' \in Nat /\ draws <= draws'

\* The SPI the server draws next is in no session key, so inserting a session
\* never replaces one.
LEMMA NextDrawFresh ==
    ASSUME IInv, NEW x
    PROVE  <<x, <<Server, draws + 1>>>> \notin DOMAIN sessions
<1>1. SUFFICES ASSUME <<x, <<Server, draws + 1>>>> \in DOMAIN sessions PROVE FALSE
  BY Zenon
<1>2. SessionOrigin(<<x, <<Server, draws + 1>>>>)
  BY <1>1, Zenon DEF IInv
<1>3. PICK c \in Clients : \E n \in 1..client[c].attempt, m \in 1..draws :
            <<x, <<Server, draws + 1>>>> = <<<<c, n>>, <<Server, m>>>>
  BY <1>2, Zenon DEF SessionOrigin
<1>4. draws \in Nat
  BY Zenon DEF IInv, TypeOK
<1> QED BY <1>3, <1>4

\* No handler takes anything back: every step only adds sessions and events and
\* only raises the draw and attempt counters.
LEMMA StepGrows ==
    ASSUME IInv, [Next]_vars
    PROVE  Grows
<1>0. /\ draws \in Nat
      /\ \A c \in Clients : client[c].attempt \in Nat
  BY HandshakeAssumption DEF IInv, TypeOK
<1>1. ASSUME NEW c \in Clients, Connect(c) PROVE Grows
  <2>1. client = [x \in Clients |-> client[x]]
    BY Zenon DEF IInv, TypeOK
  <2> QED BY <1>0, <1>1, <2>1 DEF Grows, Connect
<1>2. ASSUME NEW c \in Clients, NEW d \in net,
             ClientSaInitResponse(c, d) \/ ClientAuthResponse(c, d) \/ ClientError(c, d)
      PROVE  Grows
  <2>1. client = [x \in Clients |-> client[x]]
    BY Zenon DEF IInv, TypeOK
  <2>2. \A x \in Clients : client'[x].attempt = client[x].attempt
    BY <1>2, <2>1 DEF IInv, TypeOK, ClientSaInitResponse, ClientAuthResponse, ClientError
  <2> QED BY <1>0, <1>2, <2>2 DEF Grows, ClientSaInitResponse, ClientAuthResponse, ClientError
<1>3. ASSUME NEW c \in Clients, ClientTimeout(c) PROVE Grows
  <2>1. client = [x \in Clients |-> client[x]]
    BY Zenon DEF IInv, TypeOK
  <2>2. \A x \in Clients : client'[x].attempt = client[x].attempt
    BY <1>3, <2>1, Zenon DEF IInv, TypeOK, ClientTimeout
  <2> QED BY <1>0, <1>3, <2>2 DEF Grows, ClientTimeout
<1>4. ASSUME NEW d \in net, ServerSaInit(d) PROVE Grows
  <2> DEFINE local == <<Server, draws + 1>>
             sa == ResponderRespond(d.data, local)
             key == <<sa.spi_i, sa.spi_r>>
  <2>1. sessions' = Put(sessions, key, sa) /\ draws' = draws + 1 /\ UNCHANGED <<client, events>>
    BY <1>4, Zenon DEF ServerSaInit
  <2>2. key \notin DOMAIN sessions
    BY NextDrawFresh, Zenon DEF ResponderRespond
  <2>3. \A k \in DOMAIN sessions : k \in DOMAIN sessions' /\ sessions'[k] = sessions[k]
    <3> HIDE DEF key, sa
    <3> QED BY <2>1, <2>2, Zenon DEF Put
  <2>4. client' = client /\ events' = events
    BY <2>1, Zenon
  <2> QED BY <1>0, <2>1, <2>3, <2>4 DEF Grows
<1>5. ASSUME NEW d \in net, ServerAuthRequest(d) \/ ServerDrops(d) PROVE Grows
  BY <1>0, <1>5 DEF Grows, ServerAuthRequest, ServerDrops
<1>6. CASE UNCHANGED vars
  BY <1>0, <1>6 DEF Grows, vars
<1> QED
  BY <1>1, <1>2, <1>3, <1>4, <1>5, <1>6, Zenon
  DEF Next, ClientNext, ClientReceive, ServerNext

-----------------------------------------------------------------------------
(* What has an origin keeps it *)

\* A session keeps the request it answers across any step.
LEMMA SessionKept ==
    ASSUME IInv, Grows, NEW k \in DOMAIN sessions
    PROVE  SessionOrigin(k)'
<1>0. SessionOrigin(k)
  BY Zenon DEF IInv
<1>1. PICK c \in Clients : \E n \in 1..client[c].attempt, m \in 1..draws :
            /\ k = <<<<c, n>>, <<Server, m>>>>
            /\ sessions[k] = ResponderRespond(SaInitRequest(<<c, n>>), <<Server, m>>)
  BY <1>0, Zenon DEF SessionOrigin
<1>2. client[c].attempt \in Nat /\ draws \in Nat
  BY HandshakeAssumption DEF IInv, TypeOK
<1>3. PICK n \in 1..client[c].attempt, m \in 1..draws :
            /\ k = <<<<c, n>>, <<Server, m>>>>
            /\ sessions[k] = ResponderRespond(SaInitRequest(<<c, n>>), <<Server, m>>)
  BY <1>1, Zenon
<1>4. n \in 1..client'[c].attempt /\ m \in 1..draws'
  BY <1>2 DEF Grows
<1>5. sessions'[k] = sessions[k]
  BY Zenon DEF Grows
<1> QED BY <1>3, <1>4, <1>5, Zenon DEF SessionOrigin

\* An attempt that a client has made stays made.
LEMMA AttemptsKept ==
    ASSUME IInv, Grows, NEW c \in Clients, NEW n \in 1..client[c].attempt
    PROVE  n \in 1..client'[c].attempt
BY HandshakeAssumption DEF IInv, TypeOK, Grows

\* An Established event keeps the attempt it answers across any step.
LEMMA EventKept ==
    ASSUME IInv, Grows, NEW e \in events
    PROVE  EventOrigin(e)'
<1>1. EventOrigin(e)
  BY Zenon DEF IInv
<1> QED BY <1>1, AttemptsKept, Zenon DEF EventOrigin, Grows

\* A datagram in flight keeps its origin across any step.
LEMMA NetKept ==
    ASSUME IInv, Grows, NEW d \in net
    PROVE  NetOrigin(d)'
<1>1. CASE IsSaInitRequest(d)
  BY <1>1, AttemptsKept, Zenon DEF NetOrigin, IsSaInitRequest
<1>2. CASE IsSaInitResponse(d)
  BY <1>2, Zenon DEF NetOrigin, IsSaInitResponse, Grows
<1>3. CASE IsAuthRequest(d)
  BY <1>3, AttemptsKept, Zenon DEF NetOrigin, IsAuthRequest, SaFrom, Grows
<1>4. CASE IsAuthResponse(d)
  <2>1. \A e \in events : e.key \in DOMAIN sessions
    BY Zenon DEF IInv, EventOrigin
  <2> QED BY <1>4, <2>1, Zenon DEF NetOrigin, IsAuthResponse, Grows
<1> QED BY <1>1, <1>2, <1>3, <1>4, Zenon DEF IInv, NetOrigin

\* A client that does not move keeps what it relies on while others move.
LEMMA ClientKept ==
    ASSUME IInv, Grows, NEW c \in Clients, client'[c] = client[c]
    PROVE  (ClientOrigin(c) /\ (Established(c) => Agreed(c)))'
<1>1. ClientOrigin(c)'
  BY Zenon DEF IInv, ClientOrigin, SaFrom, Grows
<1>2. (Established(c) => Agreed(c))'
  BY DEF IInv, Established, Agreed, Grows
<1> QED BY <1>1, <1>2, Zenon

-----------------------------------------------------------------------------
(* The inductive step, one lemma per kind of action *)

\* recv_from adds to the network at most what the handler sends.
LEMMA ReceiveFacts ==
    ASSUME NEW d, NEW out, dups \in 0..MaxDup, Receive(d, out)
    PROVE  /\ d \in net
           /\ net' \subseteq net \cup out
           /\ dups' \in 0..MaxDup
BY UdpNetAssumption DEF Receive

\* The pieces an action has to show; the rest of IInv' follows from growth.
LEMMA IInvFromParts ==
    ASSUME IInv, Grows, TypeOK',
           \A k \in DOMAIN sessions' : k \in DOMAIN sessions \/ SessionOrigin(k)',
           \A e \in events' : e \in events \/ EventOrigin(e)',
           \A d \in net' : d \in net \/ NetOrigin(d)',
           \A c \in Clients : client'[c] = client[c]
                \/ (ClientOrigin(c) /\ (Established(c) => Agreed(c)))'
    PROVE  IInv'
<1>1. \A k \in DOMAIN sessions' : SessionOrigin(k)'
  BY SessionKept, Zenon
<1>2. \A e \in events' : EventOrigin(e)'
  BY EventKept, Zenon
<1>3. \A d \in net' : NetOrigin(d)'
  BY NetKept, Zenon
<1>4. \A c \in Clients : (ClientOrigin(c) /\ (Established(c) => Agreed(c)))'
  BY ClientKept, Zenon
<1> QED BY <1>1, <1>2, <1>3, <1>4, Zenon DEF IInv

\* Starting a connect call preserves the invariant.
LEMMA ConnectStep ==
    ASSUME IInv, Grows, NEW c \in Clients, Connect(c)
    PROVE  IInv'
<1> DEFINE n == client[c].attempt + 1
           new == [pc |-> "sa_init", attempt |-> n, sa |-> None, child |-> None]
<1>1. /\ client = [x \in Clients |-> client[x]]
      /\ client[c].attempt \in 0..MaxAttempts[c] /\ MaxAttempts[c] \in Nat
  BY HandshakeAssumption, Zenon DEF IInv, TypeOK
<1>2. /\ client' = [client EXCEPT ![c] = new]
      /\ client[c].attempt < MaxAttempts[c]
      /\ net' = net \cup {Datagram(c, Server, SaInitRequest(<<c, n>>))}
      /\ dups' = dups
      /\ UNCHANGED <<sessions, children, events, draws>>
  BY Zenon DEF Connect, Send
<1>3. client'[c] = new /\ \A x \in Clients : x # c => client'[x] = client[x]
  BY <1>1, <1>2, Zenon
<1>4. n \in 1..n /\ n \in 0..MaxAttempts[c]
  BY <1>1, <1>2
<1>5. TypeOK'
  BY <1>1, <1>2, <1>3, <1>4, Zenon DEF IInv, TypeOK, Pcs
<1>6. \A d \in net' : d \in net \/ NetOrigin(d)'
  BY <1>2, <1>3, <1>4 DEF NetOrigin, IsSaInitRequest, Datagram, SaInitRequest, ZeroSpi
<1>7. (ClientOrigin(c) /\ (Established(c) => Agreed(c)))'
  BY <1>1, <1>3 DEF ClientOrigin, Established
<1> QED BY <1>2, <1>3, <1>5, <1>6, <1>7, IInvFromParts, Zenon

\* Reading an SA_INIT response, even one that answers an earlier call, preserves
\* the invariant: the request sent on carries an SA built from a real session.
LEMMA ClientSaInitResponseStep ==
    ASSUME IInv, Grows, NEW c \in Clients, NEW d \in net, ClientSaInitResponse(c, d)
    PROVE  IInv'
<1>0. PICK n, sa, out :
        /\ n = client[c].attempt
        /\ sa = InitiatorComplete(<<c, n>>, d.data)
        /\ out = Datagram(c, Server, InitiatorAuthRequest(sa, c, <<c, n>>))
  BY Zenon
<1>1. /\ client = [x \in Clients |-> client[x]]
      /\ client[c] \in [pc : Pcs, attempt : 0..MaxAttempts[c],
                        sa : {client[c].sa}, child : {client[c].child}]
      /\ MaxAttempts[c] \in Nat
      /\ dups \in 0..MaxDup
  BY HandshakeAssumption, Zenon DEF IInv, TypeOK
<1>2. /\ client[c].pc = "sa_init" /\ d.to = c /\ d.data.exchange = "IKE_SA_INIT"
      /\ client' = [client EXCEPT ![c].pc = "ike_auth", ![c].sa = sa]
      /\ Receive(d, {out})
      /\ UNCHANGED <<sessions, children, events, draws>>
  BY <1>0, Zenon DEF ClientSaInitResponse, ChildSpi
<1>3. PICK k \in DOMAIN sessions : d.data = sessions[k].resp_message
  BY <1>2, WhichDatagram, DatagramFields, HandshakeAssumption DEF IsSaInitResponse
<1>4. /\ client'[c] = [pc |-> "ike_auth", attempt |-> n, sa |-> sa, child |-> client[c].child]
      /\ \A x \in Clients : x # c => client'[x] = client[x]
  BY <1>0, <1>1, <1>2, Zenon
<1>5. n \in Nat /\ n > 0 /\ n \in 1..client'[c].attempt
  BY <1>0, <1>1, <1>2, <1>4 DEF IInv, ClientOrigin, Waiting
<1>6. sa = SaFrom(c, n, k)' /\ k \in DOMAIN sessions'
  BY <1>0, <1>2, <1>3, Zenon DEF SaFrom
<1>7. TypeOK'
  <2>1. TypeOK /\ dups' \in 0..MaxDup
    BY <1>1, <1>2, ReceiveFacts, Zenon DEF IInv
  <2> QED BY <1>0, <1>1, <1>2, <1>4, <2>1, Zenon DEF TypeOK, Pcs
<1>8. \A x \in net' : x \in net \/ NetOrigin(x)'
  <2>1. IsAuthRequest(out)'
    BY <1>0, <1>5, <1>6, Zenon DEF IsAuthRequest
  <2> QED BY <1>1, <1>2, <2>1, ReceiveFacts DEF NetOrigin
<1>9. (ClientOrigin(c) /\ (Established(c) => Agreed(c)))'
  <2>0. client'[c] = [pc |-> "ike_auth", attempt |-> n, sa |-> sa, child |-> client[c].child]
    BY <1>4, Zenon
  <2>1. client'[c].pc = "ike_auth" /\ client'[c].attempt = n /\ client'[c].sa = sa
    BY <2>0
  <2> QED BY <1>5, <1>6, <2>1, Zenon DEF ClientOrigin, Established
<1> QED BY <1>2, <1>4, <1>7, <1>8, <1>9, IInvFromParts, Zenon

\* A timeout or an error that ends connect preserves the invariant.
LEMMA ClientFailsStep ==
    ASSUME IInv, Grows, NEW c \in Clients,
           ClientTimeout(c) \/ \E d \in net : ClientError(c, d)
    PROVE  IInv'
<1>1. /\ client = [x \in Clients |-> client[x]]
      /\ client[c] \in [pc : Pcs, attempt : 0..MaxAttempts[c],
                        sa : {client[c].sa}, child : {client[c].child}]
      /\ dups \in 0..MaxDup
  BY Zenon DEF IInv, TypeOK
<1>2. /\ client' = [client EXCEPT ![c].pc = "failed"]
      /\ net' \subseteq net /\ dups' \in 0..MaxDup
      /\ UNCHANGED <<sessions, children, events, draws>>
  BY <1>1, ReceiveFacts DEF ClientTimeout, ClientError
<1>3. /\ client'[c] = [pc |-> "failed", attempt |-> client[c].attempt,
                       sa |-> client[c].sa, child |-> client[c].child]
      /\ \A x \in Clients : x # c => client'[x] = client[x]
  BY <1>1, <1>2, Zenon
<1>4. TypeOK'
  BY <1>1, <1>2, <1>3, Zenon DEF IInv, TypeOK, Pcs
<1>5. (ClientOrigin(c) /\ (Established(c) => Agreed(c)))'
  BY <1>3 DEF ClientOrigin, Established, Waiting
<1> QED BY <1>2, <1>3, <1>4, <1>5, IInvFromParts, Zenon

\* The IKE_SA_INIT arm of handle_one preserves the invariant.
LEMMA ServerSaInitStep ==
    ASSUME IInv, Grows, NEW d \in net, ServerSaInit(d)
    PROVE  IInv'
<1>0. PICK local, sa, key, out :
        /\ local = <<Server, draws + 1>>
        /\ sa = ResponderRespond(d.data, local)
        /\ key = <<sa.spi_i, sa.spi_r>>
        /\ out = Datagram(Server, d.from, sa.resp_message)
  BY Zenon
<1>1. /\ draws \in Nat /\ dups \in 0..MaxDup
      /\ d.to = Server /\ d.data.exchange = "IKE_SA_INIT"
      /\ Receive(d, {out})
      /\ sessions' = Put(sessions, key, sa)
      /\ draws' = draws + 1
      /\ UNCHANGED <<client, children, events>>
  BY <1>0, Zenon DEF IInv, TypeOK, ServerSaInit
<1>2. PICK c \in Clients : \E n \in 1..client[c].attempt :
            d = Datagram(c, Server, SaInitRequest(<<c, n>>))
  BY <1>1, WhichDatagram, Zenon DEF IsSaInitRequest
<1>3. PICK n \in 1..client[c].attempt : d = Datagram(c, Server, SaInitRequest(<<c, n>>))
  BY <1>2, Zenon
<1>4. d.from = c /\ d.data = SaInitRequest(<<c, n>>)
  BY <1>3, DatagramFields
<1>5. key = <<<<c, n>>, local>> /\ sa.spi_i = <<c, n>> /\ sa.spi_r = local
  BY <1>0, <1>4, SessionFields
<1>6. /\ DOMAIN sessions' = DOMAIN sessions \cup {key}
      /\ sessions'[key] = sa
      /\ \A k \in DOMAIN sessions : sessions'[k] = sessions[k]
  BY <1>1, Zenon DEF Put, Grows
<1>7. TypeOK'
  <2>1. TypeOK /\ dups' \in 0..MaxDup
    BY <1>1, ReceiveFacts, Zenon DEF IInv
  <2>2. draws' \in Nat /\ client' = client /\ children' = children
    BY <1>1
  <2>3. key = <<sa.spi_i, sa.spi_r>>
    BY <1>0, Zenon
  <2> QED BY <1>6, <2>1, <2>2, <2>3, Zenon DEF TypeOK
<1>8. \A k \in DOMAIN sessions' : k \in DOMAIN sessions \/ SessionOrigin(k)'
  <2>1. draws + 1 \in 1..draws' /\ client' = client
    BY <1>1
  <2>2. sa = ResponderRespond(SaInitRequest(<<c, n>>), <<Server, draws + 1>>)
    BY <1>0, <1>4, Zenon
  <2>3. PICK m \in 1..draws' : m = draws + 1
    BY <2>1, Zenon
  <2>4. SessionOrigin(key)'
    BY <1>0, <1>5, <1>6, <2>1, <2>2, <2>3, Zenon DEF SessionOrigin
  <2> QED BY <1>6, <2>4, Zenon
<1>9. \A x \in net' : x \in net \/ NetOrigin(x)'
  <2>1. IsSaInitResponse(out)'
    <3>1. key \in DOMAIN sessions' /\ out = Datagram(Server, c, sessions'[key].resp_message)
      BY <1>0, <1>4, <1>6, Zenon
    <3> QED BY <3>1, Zenon DEF IsSaInitResponse
  <2> QED BY <1>1, <2>1, ReceiveFacts DEF NetOrigin
<1> QED BY <1>1, <1>7, <1>8, <1>9, IInvFromParts, Zenon

\* The IKE_AUTH arm of handle_one preserves the invariant.
LEMMA ServerAuthRequestStep ==
    ASSUME IInv, Grows, NEW d \in net, ServerAuthRequest(d)
    PROVE  IInv'
<1>0. PICK key, sa, child_spi, child, out, e :
        /\ key = SessionKey(d.data)
        /\ sa = sessions[key]
        /\ child_spi = <<Server, draws + 1>>
        /\ child = ChildSa(sa.keys, sa.ni, sa.nr, "Responder", child_spi, d.data.child_spi)
        /\ out = Datagram(Server, d.from, ResponderAuthResponse(sa, child_spi))
        /\ e = [key |-> key, peer_id |-> d.data.id, child |-> child]
  BY Zenon
<1>1. /\ draws \in Nat /\ dups \in 0..MaxDup
      /\ d.to = Server /\ d.data.exchange = "IKE_AUTH"
      /\ key \in DOMAIN sessions /\ ResponderAccepts(sa, d.data)
      /\ Receive(d, {out})
      /\ children' = Put(children, key, child)
      /\ events' = events \cup {e}
      /\ draws' = draws + 1
      /\ UNCHANGED <<client, sessions>>
  BY <1>0, Zenon DEF IInv, TypeOK, ServerAuthRequest, ServerAccepts
<1>2. PICK c \in Clients, k \in DOMAIN sessions : \E n \in 1..client[c].attempt :
            d = Datagram(c, Server, InitiatorAuthRequest(SaFrom(c, n, k), c, <<c, n>>))
  BY <1>1, WhichDatagram, Zenon DEF IsAuthRequest
<1>3. PICK n \in 1..client[c].attempt :
            d = Datagram(c, Server, InitiatorAuthRequest(SaFrom(c, n, k), c, <<c, n>>))
  BY <1>2, Zenon
<1>4. PICK s : s = SaFrom(c, n, k)
  BY Zenon
<1>5. d.from = c /\ d.data = InitiatorAuthRequest(s, c, <<c, n>>) /\ s.spi_i = <<c, n>>
  <2>1. d.from = c /\ d.data = InitiatorAuthRequest(s, c, <<c, n>>)
    BY <1>3, <1>4, DatagramFields
  <2>2. s.spi_i = <<c, n>>
    BY <1>4, Zenon DEF SaFrom, InitiatorComplete
  <2> QED BY <2>1, <2>2, Zenon
<1>6. /\ key[1] = <<c, n>> /\ d.data.id = c /\ d.data.child_spi = <<c, n>>
      /\ LocalAuth[c] \in ServerPeerAuth
  <2>1. d.data.spi_i = <<c, n>> /\ d.data.id = c /\ d.data.child_spi = <<c, n>>
    BY <1>5, AuthRequestFields
  <2>2. LocalAuth[c] \in ServerPeerAuth
    BY <1>1, <1>5, AcceptedRequest, Zenon
  <2> QED BY <1>0, <2>1, <2>2, Zenon DEF SessionKey
<1>7. TypeOK'
  <2>1. TypeOK /\ dups' \in 0..MaxDup
    BY <1>1, ReceiveFacts, Zenon DEF IInv
  <2>2. DOMAIN children' = DOMAIN children \cup {key} /\ key \in DOMAIN sessions
    BY <1>1, Zenon DEF Put
  <2>3. draws' \in Nat /\ client' = client /\ sessions' = sessions
    BY <1>1
  <2> QED BY <2>1, <2>2, <2>3, Zenon DEF TypeOK
<1>8. child.inbound.spi = child_spi
  BY <1>0, Zenon DEF ChildSa, EspSa
<1>9. e.key = key /\ e.peer_id = c /\ e.child = child /\ sessions' = sessions /\ client' = client
  BY <1>0, <1>1, <1>6, Zenon
<1>10. \A f \in events' : f \in events \/ EventOrigin(f)'
  <2>1. e.child = ChildSa(sa.keys, sa.ni, sa.nr, "Responder", e.child.inbound.spi, <<c, n>>)
    BY <1>0, <1>6, <1>8, <1>9, Zenon
  <2>2. e.key \in DOMAIN sessions' /\ sa = sessions'[e.key] /\ n \in 1..client'[c].attempt
    BY <1>0, <1>1, <1>9, Zenon
  <2>3. e.key[1] = <<c, n>> /\ e.peer_id = c /\ LocalAuth[c] \in ServerPeerAuth
    BY <1>6, <1>9, Zenon
  <2>4. EventOrigin(e)'
    BY <2>1, <2>2, <2>3, Zenon DEF EventOrigin
  <2> QED BY <1>1, <2>4, Zenon
<1>11. \A x \in net' : x \in net \/ NetOrigin(x)'
  <2>1. IsAuthResponse(out)'
    <3>1. e \in events' /\ sessions'[e.key] = sa /\ e.child.inbound.spi = child_spi
      BY <1>0, <1>1, <1>8, <1>9, Zenon
    <3>2. out = Datagram(Server, c, ResponderAuthResponse(sa, child_spi))
      BY <1>0, <1>5, Zenon
    <3> QED BY <3>1, <3>2, Zenon DEF IsAuthResponse
  <2> QED BY <1>1, <2>1, ReceiveFacts DEF NetOrigin
<1> QED BY <1>1, <1>7, <1>10, <1>11, IInvFromParts, Zenon

\* Returning from connect preserves the invariant: the accepted response can only
\* come from the session this client holds, which is what Agreed says.
LEMMA ClientAuthResponseStep ==
    ASSUME IInv, Grows, NEW c \in Clients, NEW d \in net, ClientAuthResponse(c, d)
    PROVE  IInv'
<1>0. PICK n, sa, child :
        /\ n = client[c].attempt
        /\ sa = client[c].sa
        /\ child = ChildSa(sa.keys, sa.ni, sa.nr, "Initiator", <<c, n>>, d.data.child_spi)
  BY Zenon
<1>1. /\ client = [x \in Clients |-> client[x]]
      /\ client[c] \in [pc : Pcs, attempt : 0..MaxAttempts[c],
                        sa : {client[c].sa}, child : {client[c].child}]
      /\ dups \in 0..MaxDup
  BY Zenon DEF IInv, TypeOK
<1>2. /\ client[c].pc = "ike_auth" /\ d.to = c /\ InitiatorAccepts(c, sa, d.data)
      /\ client' = [client EXCEPT ![c].pc = "established", ![c].child = child]
      /\ Receive(d, {})
      /\ UNCHANGED <<sessions, children, events, draws>>
  BY <1>0, Zenon DEF ClientAuthResponse, ChildSpi
<1>3. /\ client'[c] = [pc |-> "established", attempt |-> n, sa |-> sa, child |-> child]
      /\ \A x \in Clients : x # c => client'[x] = client[x]
  BY <1>0, <1>1, <1>2, Zenon
<1>4. PICK k \in DOMAIN sessions : sa = SaFrom(c, n, k)
  BY <1>0, <1>2, Zenon DEF IInv, ClientOrigin
<1>5. PICK e \in events :
            d.data = ResponderAuthResponse(sessions[e.key], e.child.inbound.spi)
  <2>1. IsAuthResponse(d)
    BY <1>2, WhichDatagram, HandshakeAssumption, Zenon DEF InitiatorAccepts, OpensSk
  <2>2. PICK x \in Clients, f \in events :
            d = Datagram(Server, x, ResponderAuthResponse(sessions[f.key], f.child.inbound.spi))
    BY <2>1, Zenon DEF IsAuthResponse
  <2>3. d.data = ResponderAuthResponse(sessions[f.key], f.child.inbound.spi)
    BY <2>2, DatagramFields
  <2> QED BY <2>3, Zenon
<1>6. PICK s, t : s = sessions[e.key] /\ t = e.child.inbound.spi
  BY Zenon
<1>7. /\ s.keys = sa.keys /\ s.resp_message = sa.resp_message /\ ServerAuth \in PeerAuth[c]
      /\ d.data.child_spi = t
  BY <1>2, <1>5, <1>6, AcceptedResponse
<1>8. e.key \in DOMAIN sessions /\ e.key = <<s.spi_i, s.spi_r>>
  BY <1>6, Zenon DEF IInv, EventOrigin, TypeOK
<1>9. s = sa /\ sa.spi_i = <<c, n>>
  <2>1. sa.spi_i = <<c, n>> /\ sa.keys.spi_i = <<c, n>>
        /\ sa = InitiatorComplete(<<c, n>>, sa.resp_message)
    BY <1>4, Zenon DEF SaFrom, InitiatorComplete, DhShared, SessionKeys
  <2>2. PICK x \in Clients : \E i \in 1..client[x].attempt, m \in 1..draws :
            s = ResponderRespond(SaInitRequest(<<x, i>>), <<Server, m>>)
    <3>1. SessionOrigin(e.key)
      BY <1>8, Zenon DEF IInv
    <3> QED BY <1>6, <3>1, Zenon DEF SessionOrigin
  <2>3. PICK i, m : s = ResponderRespond(SaInitRequest(<<x, i>>), <<Server, m>>)
    BY <2>2, Zenon
  <2>4. /\ s.keys.spi_i = <<x, i>>
        /\ s.resp_message = SaInitResponse(SaInitRequest(<<x, i>>), <<Server, m>>)
    BY <2>3, SessionFields, Zenon
  <2>5. <<x, i>> = <<c, n>>
    BY <1>7, <2>1, <2>4, Zenon
  <2>6. s = InitiatorComplete(<<c, n>>, s.resp_message)
    BY <2>3, <2>4, <2>5, BothSidesDerive, Zenon
  <2> QED BY <1>7, <2>1, <2>6, Zenon
<1>10. e.peer_id = c /\ Mirror(child, e.child)
  <2>1. PICK x \in Clients : \E i \in 1..client[x].attempt :
            /\ e.key[1] = <<x, i>> /\ e.peer_id = x
            /\ e.child = ChildSa(s.keys, s.ni, s.nr, "Responder", t, <<x, i>>)
    <3>1. EventOrigin(e)
      BY Zenon DEF IInv
    <3> QED BY <1>6, <3>1, Zenon DEF EventOrigin
  <2>2. PICK i : /\ e.key[1] = <<x, i>> /\ e.peer_id = x
                 /\ e.child = ChildSa(s.keys, s.ni, s.nr, "Responder", t, <<x, i>>)
    BY <2>1, Zenon
  <2>3. <<x, i>> = <<c, n>>
    BY <1>8, <1>9, <2>2
  <2>4. e.child = ChildSa(sa.keys, sa.ni, sa.nr, "Responder", t, <<c, n>>)
    BY <1>9, <2>2, <2>3, Zenon
  <2>5. child = ChildSa(sa.keys, sa.ni, sa.nr, "Initiator", <<c, n>>, t)
    BY <1>0, <1>7, Zenon
  <2>6. e.peer_id = c
    BY <2>2, <2>3, Zenon
  <2> QED BY <2>4, <2>5, <2>6, DeriveMirrors, Zenon
<1>11. TypeOK'
  <2>1. TypeOK /\ dups' \in 0..MaxDup
    BY <1>1, <1>2, ReceiveFacts, Zenon DEF IInv
  <2>2. \A x \in Clients : client'[x] \in [pc : Pcs, attempt : 0..MaxAttempts[x],
                                         sa : {client'[x].sa}, child : {client'[x].child}]
    BY <1>0, <1>1, <1>3, <2>1, SMTT(30) DEF TypeOK, Pcs
  <2>3. client' = [x \in Clients |-> client'[x]]
    BY <1>1, <1>2, Zenon
  <2> QED BY <1>2, <2>1, <2>2, <2>3, Zenon DEF TypeOK
<1>12. (ClientOrigin(c) /\ (Established(c) => Agreed(c)))'
  <2>1. /\ client'[c].pc = "established" /\ client'[c].attempt = n
        /\ client'[c].sa = sa /\ client'[c].child = child
    BY <1>3
  <2>2. ClientOrigin(c)'
    BY <2>1, Zenon DEF ClientOrigin, Waiting
  <2>3. Agreed(c)'
    BY <1>2, <1>6, <1>7, <1>8, <1>9, <1>10, <2>1, Zenon DEF Agreed
  <2> QED BY <2>2, <2>3, Zenon
<1> QED BY <1>1, <1>2, <1>3, <1>11, <1>12, ReceiveFacts, IInvFromParts

\* A datagram the server ignores, and stuttering.
LEMMA NothingStep ==
    ASSUME IInv, Grows,
           (\E d \in net : ServerDrops(d)) \/ UNCHANGED vars
    PROVE  IInv'
<1>1. dups \in 0..MaxDup
  BY Zenon DEF IInv, TypeOK
<1>2. /\ net' \subseteq net /\ dups' \in 0..MaxDup
      /\ UNCHANGED <<client, sessions, children, events, draws>>
  BY <1>1, ReceiveFacts DEF ServerDrops, vars
<1>3. TypeOK'
  BY <1>2, Zenon DEF IInv, TypeOK
<1> QED BY <1>2, <1>3, IInvFromParts, Zenon

-----------------------------------------------------------------------------
(* The theorems *)

\* Nothing has happened yet, so everything has its origin.
LEMMA InitHolds == Init => IInv
<1> SUFFICES ASSUME Init PROVE IInv
  BY Zenon
<1>1. TypeOK
  BY HandshakeAssumption, UdpNetAssumption DEF Init, NetInit, TypeOK, Pcs
<1>2. \A c \in Clients : ClientOrigin(c) /\ ~Established(c)
  BY Zenon DEF Init, ClientOrigin, Established, Waiting
<1> QED BY <1>1, <1>2, Zenon DEF Init, NetInit, IInv

\* Every step of the drivers and of the network preserves the invariant.
LEMMA NextPreserves == IInv /\ [Next]_vars => IInv'
<1> SUFFICES ASSUME IInv, [Next]_vars PROVE IInv'
  BY Zenon
<1>1. Grows
  BY StepGrows, Zenon
<1> QED
  BY <1>1, ConnectStep, ClientSaInitResponseStep, ClientAuthResponseStep, ClientFailsStep,
     ServerSaInitStep, ServerAuthRequestStep, NothingStep, Zenon
  DEF Next, ClientNext, ClientReceive, ServerNext

\* The inductive invariant holds in every reachable state: every session,
\* event and datagram of the handshake has the origin the code gives it.
THEOREM Invariance == Spec => []IInv
BY InitHolds, NextPreserves, PTL DEF Spec

\* Type correctness of the handshake state; sessions are filed under their own
\* SPI pair and Server.children never outgrows Server.sessions.
THEOREM TypeCorrect == Spec => []TypeOK
<1>1. IInv => TypeOK
  BY Zenon DEF IInv
<1> QED BY <1>1, Invariance, PTL

\* Whatever the network reorders, repeats or loses, the IKE SA that connect
\* returns is the one the server holds, and belongs to this connect call.
THEOREM Agreement == Spec => []SaAgreement
<1>1. IInv => SaAgreement
  BY Zenon DEF IInv, SaAgreement, Agreed
<1> QED BY <1>1, Invariance, PTL

\* Mutual authentication, for every assignment of credentials.
THEOREM MutualAuthentication == Spec => []Authenticated
<1>1. ASSUME IInv PROVE Authenticated
  <2>1. \A e \in events : /\ e.peer_id \in Clients
                          /\ LocalAuth[e.peer_id] \in ServerPeerAuth
                          /\ \E n \in 1..client[e.peer_id].attempt : e.key[1] = <<e.peer_id, n>>
    BY <1>1, Zenon DEF IInv, EventOrigin
  <2>2. \A c \in Clients : Established(c) =>
            ServerAuth \in PeerAuth[c] /\ LocalAuth[c] \in ServerPeerAuth
    BY <1>1, <2>1, Zenon DEF IInv, Agreed
  <2> QED BY <2>1, <2>2, Zenon DEF Authenticated
<1> QED BY <1>1, Invariance, PTL

\* When connect returns, the server has derived the other end of its CHILD SA.
THEOREM ChildrenAgree == Spec => []ChildAgreement
<1>1. IInv => ChildAgreement
  BY Zenon DEF IInv, ChildAgreement, Agreed
<1> QED BY <1>1, Invariance, PTL

\* No datagram makes the server replace or change a session it holds.
THEOREM SessionsNeverReplaced == Spec => SessionsStable
<1>1. IInv /\ [Next]_vars =>
        [\A k \in DOMAIN sessions : k \in DOMAIN sessions' /\ sessions'[k] = sessions[k]]_vars
  BY StepGrows, Zenon DEF Grows
<1> QED BY <1>1, Invariance, PTL DEF Spec, SessionsStable

-----------------------------------------------------------------------------
(* Refinement of TunnelService *)

\* Every SPI reported in an Established event is one the server drew.
SpisDrawn ==
    /\ draws \in Nat
    /\ \A e \in events : \E m \in 1..draws : e.child.inbound.spi = <<Server, m>>

\* ChildSa::derive: the responder receives on the SPI it drew.
LEMMA InboundSpi ==
    ASSUME NEW k, NEW ni, NEW nr, NEW x, NEW y
    PROVE  ChildSa(k, ni, nr, "Responder", x, y).inbound.spi = x
BY Zenon DEF ChildSa, EspSa

\* Only the IKE_AUTH arm of handle_one reports an event, with the SPI it just drew.
LEMMA EventsStep ==
    ASSUME Next
    PROVE  \/ events' = events /\ (draws' = draws \/ draws' = draws + 1)
           \/ \E d \in net : ServerAuthRequest(d)
BY ZenonT(30) DEF Next, ClientNext, ClientReceive, ServerNext, Connect, ClientSaInitResponse, ClientAuthResponse,
       ClientError, ClientTimeout, ServerSaInit, ServerDrops

\* The IKE_AUTH arm of handle_one: one event, with the SPI drawn for it, and no client changes.
LEMMA AuthEvent ==
    ASSUME NEW d, ServerAuthRequest(d)
    PROVE  \E e : /\ events' = events \cup {e}
                  /\ e.child.inbound.spi = <<Server, draws + 1>>
                  /\ draws' = draws + 1
                  /\ client' = client
<1> DEFINE key == SessionKey(d.data)
           sa == sessions[key]
           child == ChildSa(sa.keys, sa.ni, sa.nr, "Responder", <<Server, draws + 1>>, d.data.child_spi)
           e == [key |-> key, peer_id |-> d.data.id, child |-> child]
<1>1. events' = events \cup {e} /\ draws' = draws + 1 /\ client' = client
  BY Zenon DEF ServerAuthRequest
<1>2. e.child.inbound.spi = <<Server, draws + 1>>
  BY InboundSpi
<1> QED
  BY <1>1, <1>2, Zenon

\* The SPIs in the events stay among the draws.
LEMMA SpisDrawnStep == SpisDrawn /\ [Next]_vars => SpisDrawn'
<1> SUFFICES ASSUME SpisDrawn, [Next]_vars PROVE SpisDrawn'
  BY Zenon
<1>1. CASE UNCHANGED vars
  BY <1>1, Zenon DEF SpisDrawn, vars
<1>2. CASE Next /\ events' = events /\ (draws' = draws \/ draws' = draws + 1)
  BY <1>2 DEF SpisDrawn
<1>3. ASSUME NEW d \in net, ServerAuthRequest(d) PROVE SpisDrawn'
  <2>1. PICK e : /\ events' = events \cup {e}
                 /\ e.child.inbound.spi = <<Server, draws + 1>>
                 /\ draws' = draws + 1
    BY <1>3, AuthEvent, Zenon
  <2> QED
    BY <2>1 DEF SpisDrawn
<1> QED
  BY <1>1, <1>2, <1>3, EventsStep, Zenon

\* A step that leaves the clients' attempts and results and the events alone is a
\* stuttering step of the service.
LEMMA Stutters ==
    ASSUME events' = events,
           \A c \in Clients : /\ client'[c].attempt = client[c].attempt
                              /\ Established(c)' <=> Established(c)
                              /\ Established(c) => client'[c].child = client[c].child
    PROVE  UNCHANGED Service!vars
<1>1. Calls' = Calls
  BY Zenon DEF Calls
<1>2. Grants' = Grants
  BY Zenon DEF Grants, GrantOf
<1>3. Holds' = Holds
  BY Zenon DEF Holds
<1> QED
  BY <1>1, <1>2, <1>3, Zenon DEF Service!vars

\* A connect call ends, or goes on to IKE_AUTH: nothing the service can see.
LEMMA WaitingStutters ==
    ASSUME IInv, NEW c \in Clients,
           \/ \E d \in net : ClientSaInitResponse(c, d) \/ ClientError(c, d)
           \/ ClientTimeout(c)
    PROVE  UNCHANGED Service!vars
<1>1. /\ client = [x \in Clients |-> client[x]]
      /\ client[c] \in [pc : Pcs, attempt : 0..MaxAttempts[c],
                        sa : {client[c].sa}, child : {client[c].child}]
  BY Zenon DEF IInv, TypeOK
<1>2. /\ events' = events
      /\ client[c].pc \in {"sa_init", "ike_auth"}
      /\ \/ client' = [client EXCEPT ![c].pc = "failed"]
         \/ \E sa : client' = [client EXCEPT ![c].pc = "ike_auth", ![c].sa = sa]
  BY Zenon DEF ClientSaInitResponse, ClientError, ClientTimeout, Waiting
<1>3. /\ client'[c].attempt = client[c].attempt
      /\ client'[c].pc \in {"failed", "ike_auth"}
      /\ \A x \in Clients : x # c => client'[x] = client[x]
  BY <1>1, <1>2, ZenonT(30)
<1> QED
  BY <1>2, <1>3, Stutters, Zenon DEF Established

\* sa_init starts a call of the service.
LEMMA ConnectCalls ==
    ASSUME IInv, NEW c \in Clients, Connect(c)
    PROVE  Service!Call(c)
<1>1. client = [x \in Clients |-> client[x]]
  BY Zenon DEF IInv, TypeOK
<1>2. /\ client'[c].attempt = client[c].attempt + 1
      /\ client'[c].pc = "sa_init"
      /\ \A x \in Clients : x # c => client'[x] = client[x]
      /\ events' = events
  BY <1>1, Zenon DEF Connect
<1>3. Calls' = [Calls EXCEPT ![c] = @ + 1]
  BY <1>2, Zenon DEF Calls
<1>4. Holds' = [Holds EXCEPT ![c] = {}]
  BY <1>2, Zenon DEF Holds, Established
<1>5. Grants' = Grants
  BY <1>2, Zenon DEF Grants, GrantOf
<1> QED
  BY <1>3, <1>4, <1>5, Zenon DEF Service!Call

\* authenticate returns what was granted to its own call: Agreed, after the step,
\* names the event.
LEMMA AuthResponseTakes ==
    ASSUME IInv, IInv', NEW c \in Clients, NEW d \in net, ClientAuthResponse(c, d)
    PROVE  Service!Take(c)
<1> DEFINE s == client'[c].child
<1>1. /\ client = [x \in Clients |-> client[x]]
      /\ client[c] \in [pc : Pcs, attempt : 0..MaxAttempts[c],
                        sa : {client[c].sa}, child : {client[c].child}]
  BY Zenon DEF IInv, TypeOK
<1>2. /\ events' = events
      /\ client[c].pc = "ike_auth"
      /\ \E x : client' = [client EXCEPT ![c].pc = "established", ![c].child = x]
  BY Zenon DEF ClientAuthResponse
<1>3. /\ client'[c].attempt = client[c].attempt
      /\ client'[c].pc = "established"
      /\ \A x \in Clients : x # c => client'[x] = client[x]
  BY <1>1, <1>2
<1>4. Calls' = Calls /\ Grants' = Grants
  BY <1>2, <1>3, Zenon DEF Calls, Grants, GrantOf
<1>5. Holds[c] = {} /\ Holds' = [Holds EXCEPT ![c] = {s}] /\ s \in Holds'[c]
  BY <1>2, <1>3, Zenon DEF Holds, Established
<1>6. Agreed(c)'
  BY <1>3, Zenon DEF IInv, Established
<1>7. PICK e \in events : /\ e.key[1] = <<c, client[c].attempt>>
                          /\ e.peer_id = c
                          /\ Mirror(s, e.child)
  <2>1. PICK e \in events' : /\ e.key = <<client'[c].sa.spi_i, client'[c].sa.spi_r>>
                             /\ e.peer_id = c
                             /\ Mirror(s, e.child)
    BY <1>6, Zenon DEF Agreed, Mirror
  <2>2. client'[c].sa.spi_i = <<c, client[c].attempt>>
    BY <1>3, <1>6, Zenon DEF Agreed
  <2>3. e.key[1] = <<c, client[c].attempt>>
    BY <2>1, <2>2
  <2>4. e \in events
    BY <1>2, Zenon
  <2> HIDE DEF s
  <2> QED
    BY <2>1, <2>3, <2>4, Zenon
<1>8. /\ GrantOf(e) \in Grants
      /\ GrantOf(e).to = c
      /\ GrantOf(e).call = Calls[c]
      /\ Mirror(s, GrantOf(e).child)
  BY <1>7 DEF Grants, GrantOf, Calls
<1>9. c \in Trusting
  BY <1>6, Zenon DEF Agreed, Trusting
<1> HIDE DEF s
<1> QED
  BY <1>4, <1>5, <1>8, <1>9, Zenon DEF Service!Take, Service!Mirror, Mirror

\* The IKE_AUTH arm grants the client named in the event a tunnel for the call whose
\* draw is the initiator SPI, on an SPI drawn just now.
LEMMA AuthRequestGrants ==
    ASSUME IInv, IInv', SpisDrawn, NEW d \in net, ServerAuthRequest(d)
    PROVE  \E c \in Clients : Service!Grant(c)
<1>1. PICK e : /\ events' = events \cup {e}
               /\ e.child.inbound.spi = <<Server, draws + 1>>
               /\ client' = client
  BY AuthEvent, Zenon
<1>2. EventOrigin(e)'
  BY <1>1, Zenon DEF IInv
<1>3. PICK c \in Clients : /\ \E n \in 1..client[c].attempt : e.key[1] = <<c, n>>
                           /\ e.peer_id = c
                           /\ LocalAuth[c] \in ServerPeerAuth
  BY <1>1, <1>2, Zenon DEF EventOrigin
<1>4. Calls' = Calls /\ Holds' = Holds
  BY <1>1, Zenon DEF Calls, Holds, Established
<1>5. Grants' = Grants \cup {GrantOf(e)} /\ GrantOf(e) \in Grants'
  BY <1>1, Zenon DEF Grants, GrantOf
<1>6. /\ GrantOf(e).to = c
      /\ GrantOf(e).call \in 1..Calls[c]
      /\ GrantOf(e).child = e.child
  BY <1>3 DEF GrantOf, Calls
<1>7. ASSUME NEW h \in Grants PROVE h.child.inbound.spi # GrantOf(e).child.inbound.spi
  <2>1. PICK f \in events : h.child = f.child
    BY <1>7 DEF Grants, GrantOf
  <2> QED
    BY <1>1, <1>6, <2>1 DEF SpisDrawn
<1>8. c \in Admitted
  BY <1>3, Zenon DEF Admitted
<1>9. Service!Grant(c)
  BY <1>4, <1>5, <1>6, <1>7, <1>8, Zenon DEF Service!Grant
<1> QED
  BY <1>9, Zenon

\* The other arms of handle_one change nothing a caller of either driver can see.
LEMMA ServerStutters ==
    ASSUME NEW d \in net, ServerSaInit(d) \/ ServerDrops(d)
    PROVE  UNCHANGED Service!vars
<1>1. client' = client /\ events' = events
  BY Zenon DEF ServerSaInit, ServerDrops
<1> QED
  BY <1>1, Stutters, Zenon DEF Established

\* Every step of the drivers is a step of the service or leaves it as it is.
LEMMA StepRefines ==
    ASSUME IInv, IInv', SpisDrawn, [Next]_vars
    PROVE  [Service!Next]_(Service!vars)
<1>1. ASSUME NEW c \in Clients, ClientNext(c) PROVE [Service!Next]_(Service!vars)
  BY <1>1, ConnectCalls, AuthResponseTakes, WaitingStutters, Zenon DEF ClientNext, ClientReceive, Service!Next
<1>2. ASSUME NEW d \in net, ServerSaInit(d) \/ ServerAuthRequest(d) \/ ServerDrops(d)
      PROVE  [Service!Next]_(Service!vars)
  BY <1>2, AuthRequestGrants, ServerStutters, Zenon DEF Service!Next
<1>3. CASE UNCHANGED vars
  BY <1>3, Stutters, Zenon DEF vars, Established
<1> QED
  BY <1>1, <1>2, <1>3, Zenon DEF Next, ServerNext

\* Before the first connect there are no calls, no grants and nothing held.
LEMMA InitRefines == Init => Service!Init /\ SpisDrawn
<1> SUFFICES ASSUME Init PROVE Service!Init /\ SpisDrawn
  BY Zenon
<1>1. events = {} /\ draws = 0
  BY Zenon DEF Init
<1>2. \A c \in Clients : client[c].attempt = 0 /\ client[c].pc = "idle"
  BY Zenon DEF Init
<1>3. Calls = [c \in Clients |-> 0]
  BY <1>2, Zenon DEF Calls
<1>4. Holds = [c \in Clients |-> {}]
  BY <1>2, Zenon DEF Holds, Established
<1>5. Grants = {}
  BY <1>1, Zenon DEF Grants
<1> QED
  BY <1>1, <1>3, <1>4, <1>5, Zenon DEF Service!Init, SpisDrawn

\* Client::connect and Server::handle_one provide the tunnel service: a call that
\* returns holds the other end of a CHILD SA that the server reported for that
\* very call of an admitted client, on an SPI the server never reported before.
THEOREM ServiceProvided == Spec => ProvidesService
<1>1. Init => Service!Init /\ SpisDrawn
  BY InitRefines, Zenon
<1>2. SpisDrawn /\ [Next]_vars => SpisDrawn'
  BY SpisDrawnStep, Zenon
<1>3. IInv /\ IInv' /\ SpisDrawn /\ [Next]_vars => [Service!Next]_(Service!vars)
  BY StepRefines, Zenon
<1> QED
  BY <1>1, <1>2, <1>3, Invariance, PTL DEF Spec, ProvidesService, Service!Spec

-----------------------------------------------------------------------------
(* The CHILD SA of an event, and what its keys say *)

\* ChildSa::derive: the four parts that open and seal look at.
LEMMA ChildFields ==
    ASSUME NEW k, NEW ni, NEW nr, NEW x, NEW y
    PROVE  LET ch == ChildSa(k, ni, nr, "Responder", x, y) IN
           /\ ch.outbound.spi = y /\ ch.outbound.key = ChildKey(k, ni, nr, "r")
           /\ ch.inbound.spi = x /\ ch.inbound.key = ChildKey(k, ni, nr, "i")
           /\ ChildAt(ch, 0)
BY Zenon DEF ChildSa, EspSa, ChildAt

\* derive_child_keys is injective in SK_d and in the direction.
LEMMA ChildKeyInjective ==
    ASSUME NEW k, NEW l, NEW ni, NEW nr, NEW mi, NEW mr, NEW x, NEW y,
           ChildKey(k, ni, nr, x) = ChildKey(l, mi, mr, y)
    PROVE  k = l /\ x = y
BY Zenon DEF ChildKey

\* The keys of a session name its SPI pair.
LEMMA KeysNameSession ==
    ASSUME IInv, NEW k \in DOMAIN sessions, NEW l \in DOMAIN sessions,
           sessions[k].keys = sessions[l].keys
    PROVE  k = l
<1>1. ASSUME NEW j \in DOMAIN sessions
      PROVE  j = <<sessions[j].keys.spi_i, sessions[j].keys.spi_r>>
  <2>1. SessionOrigin(j)
    BY Zenon DEF IInv
  <2>2. PICK c \in Clients : \E n \in 1..client[c].attempt, m \in 1..draws :
            /\ j = <<<<c, n>>, <<Server, m>>>>
            /\ sessions[j] = ResponderRespond(SaInitRequest(<<c, n>>), <<Server, m>>)
    BY <2>1, Zenon DEF SessionOrigin
  <2> QED
    BY <2>2 DEF ResponderRespond, SaInitRequest, SessionKeys
<1> QED
  BY <1>1, Zenon

\* The keys of an event's CHILD SA, by direction.
EventKey(e, dir) == ChildKey(sessions[e.key].keys, sessions[e.key].ni, sessions[e.key].nr, dir)

\* The CHILD SA an Established event reports: keyed by the session it came from, counters at zero.
LEMMA EventChild ==
    ASSUME IInv, NEW e \in events
    PROVE  /\ e.key \in DOMAIN sessions
           /\ e.child.outbound.key = EventKey(e, "r")
           /\ e.child.inbound.key = EventKey(e, "i")
           /\ e.child.outbound.spi = e.key[1]
           /\ ChildAt(e.child, 0)
           /\ \E c \in Clients : \E n \in 1..client[c].attempt : e.key[1] = <<c, n>>
<1> DEFINE sa == sessions[e.key]
           spi == e.child.inbound.spi
<1>1. PICK c, n :
            /\ c \in Clients /\ n \in 1..client[c].attempt
            /\ e.key \in DOMAIN sessions /\ e.key[1] = <<c, n>>
            /\ e.child = ChildSa(sa.keys, sa.ni, sa.nr, "Responder", spi, <<c, n>>)
  BY Zenon DEF IInv, EventOrigin
<1> HIDE DEF sa, spi
<1>2. /\ e.child.outbound.key = ChildKey(sa.keys, sa.ni, sa.nr, "r")
      /\ e.child.inbound.key = ChildKey(sa.keys, sa.ni, sa.nr, "i")
      /\ e.child.outbound.spi = <<c, n>>
      /\ ChildAt(e.child, 0)
  BY <1>1, ChildFields
<1> USE DEF sa
<1> QED
  BY <1>1, <1>2, Zenon DEF EventKey

\* Two events with a key in common were reported for the same session.
LEMMA SameKeySameSession ==
    ASSUME IInv, NEW e \in events, NEW f \in events, NEW x, NEW y,
           EventKey(e, x) = EventKey(f, y)
    PROVE  e.key = f.key /\ x = y
<1>1. sessions[e.key].keys = sessions[f.key].keys /\ x = y
  BY ChildKeyInjective DEF EventKey
<1> QED
  BY <1>1, EventChild, KeysNameSession, Zenon

\* The two kinds of tunnel send and receive under opposite directions.
LEMMA TunnelKeys ==
    ASSUME IInv, NEW e \in events, NEW t
    PROVE  /\ ServerEnd(t, e) => /\ tunnels[t].outbound.key = EventKey(e, "r")
                                 /\ tunnels[t].inbound.key = EventKey(e, "i")
           /\ ClientEnd(t, e) => /\ tunnels[t].outbound.key = EventKey(e, "i")
                                 /\ tunnels[t].inbound.key = EventKey(e, "r")
BY EventChild, Zenon DEF ServerEnd, ClientEnd, Mirror

-----------------------------------------------------------------------------
(* The inductive step of DPInv, one lemma per kind of action *)

\* Steps of the drivers other than the IKE_AUTH arm leave events and children alone.
LEMMA OtherStep ==
    ASSUME Next, draws \in Nat
    PROVE  \/ /\ events' = events /\ children' = children
              /\ draws' \in Nat /\ draws' >= draws
           \/ \E d \in net : ServerAuthRequest(d)
<1>1. \/ events' = events /\ children' = children /\ draws' \in {draws, draws + 1}
      \/ \E d \in net : ServerAuthRequest(d)
  <2>1. ASSUME NEW c \in Clients, ClientNext(c)
        PROVE  events' = events /\ children' = children /\ draws' = draws
    BY <2>1, Zenon DEF ClientNext, ClientReceive, Connect, ClientSaInitResponse, ClientAuthResponse,
       ClientError, ClientTimeout
  <2>2. ASSUME NEW d \in net, ServerSaInit(d) \/ ServerDrops(d)
        PROVE  events' = events /\ children' = children /\ draws' \in {draws, draws + 1}
    BY <2>2, Zenon DEF ServerSaInit, ServerDrops
  <2> QED
    BY <2>1, <2>2, Zenon DEF Next, ServerNext
<1> QED
  BY <1>1

\* A client becomes established only when authenticate returns, with an SA nobody used.
LEMMA EstablishedStep ==
    ASSUME IInv, Next, NEW c \in Clients, Established(c)',
           Established(c) => ChildAt(client[c].child, 0)
    PROVE  ChildAt(client'[c].child, 0)
<1>0. client = [x \in Clients |-> client[x]]
  BY Zenon DEF IInv, TypeOK
<1>1. CASE client'[c] = client[c]
  BY <1>1, Zenon DEF Established
<1>2. ASSUME client'[c] # client[c] PROVE ChildAt(client'[c].child, 0)
  <2>1. ClientNext(c)
    <3>1. ASSUME NEW x \in Clients, x # c, ClientNext(x) PROVE client'[c] = client[c]
      BY <1>0, <3>1, Zenon DEF ClientNext, ClientReceive, Connect, ClientSaInitResponse,
         ClientAuthResponse, ClientError, ClientTimeout
    <3>2. ASSUME ServerNext PROVE client'[c] = client[c]
      BY <3>2, Zenon DEF ServerNext, ServerSaInit, ServerAuthRequest, ServerDrops
    <3> QED
      BY <1>2, <3>1, <3>2, Zenon DEF Next
  <2>2. ASSUME \A d \in net : ~ClientAuthResponse(c, d) PROVE FALSE
    <3>1. client'[c].pc \in {"sa_init", "ike_auth", "failed"}
      <4>1. client[c] = [pc |-> client[c].pc, attempt |-> client[c].attempt,
                         sa |-> client[c].sa, child |-> client[c].child]
        BY Zenon DEF IInv, TypeOK
      <4>2. CASE Connect(c)
        BY <1>0, <4>2, Zenon DEF Connect
      <4>3. CASE ClientTimeout(c) \/ \E d \in net : ClientError(c, d)
        BY <1>0, <4>1, <4>3, Zenon DEF ClientTimeout, ClientError
      <4>4. CASE \E d \in net : ClientSaInitResponse(c, d)
        BY <1>0, <4>1, <4>4 DEF ClientSaInitResponse
      <4> QED
        BY <2>1, <2>2, <4>2, <4>3, <4>4, Zenon DEF ClientNext, ClientReceive
    <3> QED
      BY <3>1, Zenon DEF Established
  <2>3. PICK d \in net : ClientAuthResponse(c, d)
    BY <2>2, Zenon
  <2>4. \E k, ni, nr, x, y : client'[c].child = ChildSa(k, ni, nr, "Initiator", x, y)
    <3>1. client[c] = [pc |-> client[c].pc, attempt |-> client[c].attempt,
                       sa |-> client[c].sa, child |-> client[c].child]
      BY Zenon DEF IInv, TypeOK
    <3> QED
      BY <1>0, <2>3, <3>1, Zenon DEF ClientAuthResponse
  <2> QED
    BY <2>4 DEF ChildSa, EspSa, ChildAt
<1> QED
  BY <1>1, <1>2, Zenon

\* The IKE_AUTH arm reports the CHILD SA it files, under a new SPI.
LEMMA AuthFiles ==
    ASSUME NEW d, ServerAuthRequest(d)
    PROVE  \E e : /\ events' = events \cup {e}
                  /\ children' = Put(children, e.key, e.child)
                  /\ e.key = SessionKey(d.data)
                  /\ e.child.inbound.spi = <<Server, draws + 1>>
                  /\ draws' = draws + 1
<1> DEFINE key == SessionKey(d.data)
           sa == sessions[key]
           child == ChildSa(sa.keys, sa.ni, sa.nr, "Responder", <<Server, draws + 1>>, d.data.child_spi)
           e == [key |-> key, peer_id |-> d.data.id, child |-> child]
<1>1. /\ events' = events \cup {e} /\ children' = Put(children, key, child)
      /\ draws' = draws + 1
  BY ZenonT(30) DEF ServerAuthRequest
<1>2. e.child.inbound.spi = <<Server, draws + 1>>
  BY InboundSpi
<1> HIDE DEF child, key
<1>3. e.key = key /\ e.child = child
  BY Zenon
<1> QED
  BY <1>1, <1>2, <1>3, Zenon DEF key

\* A tunnel is not on an SPI the server has yet to draw.
LEMMA FreshSpiFree ==
    ASSUME DPInv
    PROVE  /\ <<Server, draws + 1>> \notin DOMAIN tunnels
           /\ \A e \in events : e.child.inbound.spi # <<Server, draws + 1>>
<1>1. draws \in Nat
  BY Zenon DEF DPInv, IInv, TypeOK
<1>2. \A e \in events : e.child.inbound.spi # <<Server, draws + 1>>
  BY <1>1 DEF DPInv
<1>3. ASSUME <<Server, draws + 1>> \in DOMAIN tunnels PROVE FALSE
  <2>1. PICK e \in events : ServerEnd(<<Server, draws + 1>>, e) \/ ClientEnd(<<Server, draws + 1>>, e)
    BY <1>3, Zenon DEF DPInv, TunnelOrigin
  <2>2. \E c \in Clients : \E n \in 1..client[c].attempt : e.key[1] = <<c, n>>
    BY EventChild, Zenon DEF DPInv
  <2> QED
    BY <1>2, <2>1, <2>2, HandshakeAssumption DEF ServerEnd, ClientEnd
<1> QED
  BY <1>2, <1>3, Zenon

\* While the tunnels are left alone and the events only grow, every tunnel and
\* every packet keeps its origin.
LEMMA TunnelsKept ==
    ASSUME DPInv, UNCHANGED <<tunnels, esp>>, events \subseteq events'
    PROVE  /\ \A t \in DOMAIN tunnels' : TunnelOrigin(t)'
           /\ \A p \in esp' : PacketOrigin(p)'
           /\ (\A p, q \in esp : p.inner[1] = q.inner[1] /\ p.iv = q.iv => p = q)'
<1>1. \A t \in DOMAIN tunnels' : TunnelOrigin(t)'
  BY Zenon DEF DPInv, TunnelOrigin, ServerEnd, ClientEnd
<1>2. \A p \in esp' : PacketOrigin(p)'
  BY Zenon DEF DPInv, PacketOrigin
<1>3. (\A p, q \in esp : p.inner[1] = q.inner[1] /\ p.iv = q.iv => p = q)'
  BY Zenon DEF DPInv
<1> QED
  BY <1>1, <1>2, <1>3, Zenon

\* A step of the handshake preserves the invariant of the data path.
LEMMA HandshakeStepKeeps ==
    ASSUME DPInv, Next, UNCHANGED <<tunnels, esp>>
    PROVE  DPInv'
<1>1. IInv' /\ draws \in Nat
  BY NextPreserves, Zenon DEF DPInv, IInv, TypeOK
<1>4. \A c \in Clients : (Established(c) => ChildAt(client[c].child, 0))'
  BY EstablishedStep, Zenon DEF DPInv
<1>2. CASE events' = events /\ children' = children /\ draws' \in Nat /\ draws' >= draws
  <2>1. \A e \in events' : \E m \in 1..draws' : e.child.inbound.spi = <<Server, m>>
    BY <1>1, <1>2 DEF DPInv
  <2>2. \A key \in DOMAIN children' : ChildOrigin(key)'
    BY <1>2, Zenon DEF DPInv, ChildOrigin
  <2>3. \A e, f \in events' : e.child.inbound.spi = f.child.inbound.spi => e = f
    BY <1>2, Zenon DEF DPInv
  <2> QED
    BY <1>1, <1>2, <1>4, <2>1, <2>2, <2>3, TunnelsKept, Zenon DEF DPInv
<1>3. ASSUME NEW d \in net, ServerAuthRequest(d) PROVE DPInv'
  <2>1. PICK e : /\ events' = events \cup {e}
                 /\ children' = Put(children, e.key, e.child)
                 /\ e.child.inbound.spi = <<Server, draws + 1>>
                 /\ draws' = draws + 1
    BY <1>3, AuthFiles, Zenon
  <2>2. \A f \in events' : \E m \in 1..draws' : f.child.inbound.spi = <<Server, m>>
    BY <1>1, <2>1 DEF DPInv
  <2>3. \A f, g \in events' : f.child.inbound.spi = g.child.inbound.spi => f = g
    BY <2>1, FreshSpiFree DEF DPInv
  <2>4. \A key \in DOMAIN children' : ChildOrigin(key)'
    <3>1. /\ DOMAIN children' = DOMAIN children \cup {e.key}
          /\ children'[e.key] = e.child
          /\ \A key \in DOMAIN children : key # e.key => children'[key] = children[key]
      BY <2>1, Zenon DEF Put
    <3> QED
      BY <2>1, <3>1, FreshSpiFree DEF DPInv, ChildOrigin
  <2> QED
    BY <1>1, <1>4, <2>1, <2>2, <2>3, <2>4, TunnelsKept, Zenon DEF DPInv
<1> QED
  BY <1>1, <1>2, <1>3, OtherStep, Zenon

\* What the application does with tunnels leaves the handshake's invariant intact.
LEMMA HandshakeKept ==
    ASSUME IInv, UNCHANGED <<client, sessions, events, draws, net, dups>>,
           DOMAIN children' \subseteq DOMAIN children
    PROVE  IInv'
<1>1. TypeOK'
  BY Zenon DEF IInv, TypeOK
<1>2. Grows
  BY DEF Grows, IInv, TypeOK
<1> QED
  BY <1>1, <1>2, IInvFromParts, Zenon

\* Wrapping what connect returned: Agreed names the event it is the other end of.
LEMMA ClientTunnelKeeps ==
    ASSUME DPInv, NEW c \in Clients, ClientTunnel(c)
    PROVE  DPInv'
<1>0. PICK t, ch : t = ChildSpi(c) /\ ch = client[c].child
  BY Zenon
<1>1. /\ Established(c) /\ t \notin DOMAIN tunnels
      /\ tunnels' = Put(tunnels, t, ch)
      /\ UNCHANGED <<vars, esp>>
  BY <1>0, Zenon DEF ClientTunnel, Established
<1>2. UNCHANGED <<client, sessions, children, events, draws, net, dups>> /\ esp' = esp
  BY <1>1, Zenon DEF vars
<1>3. IInv'
  BY <1>2, HandshakeKept, Zenon DEF DPInv
<1>4. PICK e \in events : e.key[1] = t /\ Mirror(ch, e.child)
  <2>1. Agreed(c)
    BY <1>1, Zenon DEF DPInv, IInv
  <2> QED
    BY <1>0, <2>1 DEF Agreed, ChildSpi
<1>5. ChildAt(ch, 0)
  BY <1>0, <1>1, Zenon DEF DPInv
<1>6. /\ DOMAIN tunnels' = DOMAIN tunnels \cup {t}
      /\ tunnels'[t] = ch
      /\ \A x \in DOMAIN tunnels : tunnels'[x] = tunnels[x]
  BY <1>1, Zenon DEF Put
<1>7. \A x \in DOMAIN tunnels' : TunnelOrigin(x)'
  <2>1. ASSUME NEW x \in DOMAIN tunnels PROVE TunnelOrigin(x)'
    <3>1. TunnelOrigin(x)
      BY Zenon DEF DPInv
    <3> QED
      BY <1>2, <1>6, <3>1, Zenon DEF TunnelOrigin, ServerEnd, ClientEnd
  <2>2. TunnelOrigin(t)'
    BY <1>2, <1>4, <1>5, <1>6, MaxSeqAssumption DEF TunnelOrigin, ClientEnd
  <2> QED
    BY <1>6, <2>1, <2>2, Zenon
<1>8. \A p \in esp' : PacketOrigin(p)'
  BY <1>2, <1>6, Zenon DEF DPInv, PacketOrigin
<1>9. \A key \in DOMAIN children' : ChildOrigin(key)'
  <2>1. ASSUME NEW key \in DOMAIN children PROVE children[key].inbound.spi # t
    <3>1. PICK f \in events : f.child = children[key]
      BY Zenon DEF DPInv, ChildOrigin
    <3>2. PICK m \in 1..draws : f.child.inbound.spi = <<Server, m>>
      BY Zenon DEF DPInv
    <3> QED
      BY <1>0, <3>1, <3>2, HandshakeAssumption DEF ChildSpi
  <2> QED
    BY <1>2, <1>6, <2>1, Zenon DEF DPInv, ChildOrigin
<1> QED
  BY <1>2, <1>3, <1>7, <1>8, <1>9, Zenon DEF DPInv, Established

\* Server::take_child: the entry leaves the map for a tunnel on an SPI no tunnel uses.
LEMMA TakeChildKeeps ==
    ASSUME DPInv, NEW key \in DOMAIN children, TakeChild(key)
    PROVE  DPInv'
<1>0. PICK t, ch : t = ch.inbound.spi /\ ch = children[key]
  BY Zenon
<1>1. /\ tunnels' = Put(tunnels, t, ch)
      /\ children' = [k \in DOMAIN children \ {key} |-> children[k]]
      /\ UNCHANGED <<client, sessions, events, draws, net, dups, esp>>
  BY <1>0, Zenon DEF TakeChild
<1>2. IInv'
  BY <1>1, HandshakeKept, Zenon DEF DPInv
<1>3. PICK e \in events : e.key = key /\ e.child = ch
  BY <1>0, Zenon DEF DPInv, ChildOrigin
<1>4. t \notin DOMAIN tunnels /\ ChildAt(ch, 0)
  BY <1>0, <1>3, EventChild DEF DPInv, ChildOrigin
<1>5. /\ DOMAIN tunnels' = DOMAIN tunnels \cup {t}
      /\ tunnels'[t] = ch
      /\ \A x \in DOMAIN tunnels : tunnels'[x] = tunnels[x]
  BY <1>1, <1>4, Zenon DEF Put
<1>6. \A x \in DOMAIN tunnels' : TunnelOrigin(x)'
  <2>1. ASSUME NEW x \in DOMAIN tunnels PROVE TunnelOrigin(x)'
    <3>1. TunnelOrigin(x)
      BY Zenon DEF DPInv
    <3> QED
      BY <1>1, <1>5, <3>1, ZenonT(30) DEF TunnelOrigin, ServerEnd, ClientEnd
  <2>2. TunnelOrigin(t)'
    BY <1>0, <1>1, <1>3, <1>4, <1>5, MaxSeqAssumption DEF TunnelOrigin, ServerEnd
  <2> QED
    BY <1>5, <2>1, <2>2, Zenon
<1>7. \A p \in esp' : PacketOrigin(p)'
  BY <1>1, <1>5, Zenon DEF DPInv, PacketOrigin
<1>8. ASSUME NEW k \in DOMAIN children' PROVE ChildOrigin(k)'
  <2>1. k \in DOMAIN children /\ k # key /\ children'[k] = children[k]
    BY <1>1, Zenon
  <2>2. PICK f \in events : f.key = k /\ f.child = children[k]
    BY <2>1, Zenon DEF DPInv, ChildOrigin
  <2>3. children[k].inbound.spi # t
    BY <1>0, <1>3, <2>1, <2>2, Zenon DEF DPInv
  <2>4. children[k].inbound.spi \notin DOMAIN tunnels
    BY <2>1, Zenon DEF DPInv, ChildOrigin
  <2> QED
    BY <1>1, <1>5, <2>1, <2>2, <2>3, <2>4, Zenon DEF ChildOrigin
<1> QED
  BY <1>1, <1>2, <1>6, <1>7, <1>8, Zenon DEF DPInv, Established

\* Tunnel::send: the packet takes the next number of its own tunnel's counter.
LEMMA TunnelSendKeeps ==
    ASSUME DPInv, NEW t \in DOMAIN tunnels, TunnelSend(t)
    PROVE  DPInv'
<1>0. PICK sa, n, p : /\ sa = tunnels[t].outbound
                      /\ n = Cardinality({q \in esp : q.inner[1] = t})
                      /\ p = EspPacket(sa, <<t, n>>)
  BY Zenon
<1>1. /\ sa.seq < MaxSeq
      /\ esp' = esp \cup {p}
      /\ tunnels' = [tunnels EXCEPT ![t].outbound = Sealed(sa)]
      /\ UNCHANGED vars
  BY <1>0, Zenon DEF TunnelSend, CanSeal
<1>2. UNCHANGED <<client, sessions, children, events, draws, net, dups>>
  BY <1>1, Zenon DEF vars
<1>3. IInv'
  BY <1>2, HandshakeKept, Zenon DEF DPInv
<1>4. PICK seq \in 0..MaxSeq : ChildAt(tunnels[t], seq)
  BY Zenon DEF DPInv, TunnelOrigin
<1>5. /\ sa.seq = seq /\ sa = [spi |-> sa.spi, key |-> sa.key, seq |-> seq]
      /\ Sealed(sa) = [spi |-> sa.spi, key |-> sa.key, seq |-> seq + 1]
      /\ seq + 1 \in 0..MaxSeq
  BY <1>0, <1>1, <1>4, MaxSeqAssumption DEF ChildAt, Sealed
<1>6. /\ DOMAIN tunnels' = DOMAIN tunnels
      /\ tunnels'[t] = [outbound |-> Sealed(sa), inbound |-> tunnels[t].inbound]
      /\ \A x \in DOMAIN tunnels : x # t => tunnels'[x] = tunnels[x]
  BY <1>1, <1>4, Zenon DEF ChildAt
<1>7. \A x \in DOMAIN tunnels' : TunnelOrigin(x)'
  <2>1. ASSUME NEW x \in DOMAIN tunnels, x # t PROVE TunnelOrigin(x)'
    <3>1. TunnelOrigin(x)
      BY Zenon DEF DPInv
    <3> QED
      BY <1>2, <1>6, <2>1, <3>1, Zenon DEF TunnelOrigin, ServerEnd, ClientEnd
  <2>2. TunnelOrigin(t)'
    <3>1. ChildAt(tunnels[t], seq + 1)'
      BY <1>5, <1>6 DEF ChildAt
    <3>2. PICK e \in events : ServerEnd(t, e) \/ ClientEnd(t, e)
      BY Zenon DEF DPInv, TunnelOrigin
    <3>3. (ServerEnd(t, e) \/ ClientEnd(t, e))'
      BY <1>0, <1>5, <1>6, <3>2 DEF ServerEnd, ClientEnd, Mirror
    <3> QED
      BY <1>2, <1>5, <3>1, <3>3, Zenon DEF TunnelOrigin
  <2> QED
    BY <1>6, <2>1, <2>2, Zenon
<1>8. p.inner[1] = t /\ p.key = sa.key /\ p.iv = seq + 1
  BY <1>0, <1>5, Zenon DEF EspPacket
<1>9. \A q \in esp' : PacketOrigin(q)'
  <2>1. PacketOrigin(p)'
    BY <1>5, <1>6, <1>8 DEF PacketOrigin
  <2>2. ASSUME NEW q \in esp PROVE PacketOrigin(q)'
    <3>1. PacketOrigin(q)
      BY Zenon DEF DPInv
    <3>2. CASE q.inner[1] # t
      BY <1>6, <3>1, <3>2, Zenon DEF PacketOrigin
    <3>3. CASE q.inner[1] = t
      BY <1>0, <1>5, <1>6, <3>1, <3>3 DEF PacketOrigin
    <3> QED
      BY <3>2, <3>3, Zenon
  <2> QED
    BY <1>1, <2>1, <2>2, Zenon
<1>10. (\A q, r \in esp : q.inner[1] = r.inner[1] /\ q.iv = r.iv => q = r)'
  <2>1. \A q \in esp : q.inner[1] = t => q.iv \in 1..seq
    BY <1>0, <1>5, Zenon DEF DPInv, PacketOrigin
  <2>2. \A q \in esp : q.inner[1] = p.inner[1] => q.iv # p.iv
    BY <1>8, <2>1
  <2> QED
    BY <1>1, <2>2, Zenon DEF DPInv
<1>11. \A key \in DOMAIN children' : ChildOrigin(key)'
  BY <1>2, <1>6, Zenon DEF DPInv, ChildOrigin
<1> QED
  BY <1>2, <1>3, <1>7, <1>9, <1>10, <1>11, Zenon DEF DPInv, Established

\* Nothing has happened yet.
LEMMA DPInitHolds == DPInit => DPInv
<1> SUFFICES ASSUME DPInit PROVE DPInv
  BY Zenon
<1>1. IInv
  BY InitHolds, Zenon DEF DPInit
<1>2. events = {} /\ DOMAIN children = {} /\ DOMAIN tunnels = {} /\ esp = {}
  BY Zenon DEF DPInit, Init
<1>3. \A c \in Clients : ~Established(c)
  BY Zenon DEF DPInit, Init, Established
<1> QED
  BY <1>1, <1>2, <1>3, Zenon DEF DPInv

\* Every step of the drivers, the network and the applications preserves DPInv.
LEMMA DPNextPreserves == DPInv /\ [DPNext]_dpVars => DPInv'
<1> SUFFICES ASSUME DPInv, [DPNext]_dpVars PROVE DPInv'
  BY Zenon
<1>1. CASE UNCHANGED dpVars
  <2>1. UNCHANGED <<client, sessions, children, events, draws, net, dups, tunnels, esp>>
    BY <1>1, Zenon DEF dpVars, vars
  <2>2. IInv'
    BY <2>1, HandshakeKept, Zenon DEF DPInv
  <2>3. \A key \in DOMAIN children' : ChildOrigin(key)'
    BY <2>1, Zenon DEF DPInv, ChildOrigin
  <2> QED
    BY <2>1, <2>2, <2>3, TunnelsKept, Zenon DEF DPInv, Established
<1> QED
  BY <1>1, HandshakeStepKeeps, ClientTunnelKeeps, TakeChildKeeps, TunnelSendKeeps, Zenon
  DEF DPNext, DataNext

-----------------------------------------------------------------------------
(* Delivered at most once, each IKE_AUTH request is answered at most once *)

\* With no copies kept back, recv_from takes the datagram out of the network.
LEMMA Consumes ==
    ASSUME MaxDup = 0, dups \in 0..MaxDup, NEW d, NEW out, Receive(d, out)
    PROVE  net' = (net \ {d}) \cup out
BY DEF Receive

\* Only requests that a connect call sent are IKE_AUTH datagrams to the server.
LEMMA AuthFromCall ==
    ASSUME IInv, NEW d \in net, d.to = Server, d.data.exchange = "IKE_AUTH"
    PROVE  \E c \in Clients : \E n \in 1..client[c].attempt : d.data.spi_i = <<c, n>>
<1>1. PICK c \in Clients, k \in DOMAIN sessions : \E n \in 1..client[c].attempt :
            d = Datagram(c, Server, InitiatorAuthRequest(SaFrom(c, n, k), c, <<c, n>>))
  BY WhichDatagram, Zenon DEF IsAuthRequest
<1>2. PICK n \in 1..client[c].attempt :
            d = Datagram(c, Server, InitiatorAuthRequest(SaFrom(c, n, k), c, <<c, n>>))
  BY <1>1, Zenon
<1>3. PICK s : s = SaFrom(c, n, k)
  BY Zenon
<1>4. d.data = InitiatorAuthRequest(s, c, <<c, n>>)
  BY <1>2, <1>3, DatagramFields
<1>5. s.spi_i = <<c, n>>
  BY <1>3, Zenon DEF SaFrom, InitiatorComplete
<1> QED
  BY <1>4, <1>5, AuthRequestFields

\* A step that adds no IKE_AUTH request and no event, and lets no client wait
\* for an SA_INIT answer anew, keeps the invariant.
LEMMA OnceKept ==
    ASSUME OnceInv, events' = events,
           \A d \in net' : d \in net \/ \A x : ~AuthInFlight(d, x),
           \A c \in Clients : client'[c].pc = "sa_init" => client'[c] = client[c]
    PROVE  OnceInv'
<1>1. \A d, x : AuthInFlight(d, x)' <=> AuthInFlight(d, x)
  BY Zenon DEF AuthInFlight
<1>2. OneChildPerConnect'
  BY Zenon DEF OnceInv, OneChildPerConnect
<1>3. \A d \in net', e \in events' : ~AuthInFlight(d, e.key[1])
  BY Zenon DEF OnceInv
<1>4. \A d, x \in net' : AuthInFlight(d, x.data.spi_i) /\ AuthInFlight(x, x.data.spi_i) => d = x
  BY Zenon DEF OnceInv
<1>5. \A c \in Clients : client'[c].pc = "sa_init" =>
        /\ \A d \in net' : ~AuthInFlight(d, ChildSpi(c)')
        /\ \A e \in events' : e.key[1] # ChildSpi(c)'
  BY Zenon DEF OnceInv, ChildSpi
<1> QED
  BY <1>1, <1>2, <1>3, <1>4, <1>5, Zenon DEF OnceInv

\* A new connect call draws a secret that no request and no event mentions.
LEMMA ConnectOnce ==
    ASSUME IInv, OnceInv, NEW c \in Clients, Connect(c)
    PROVE  OnceInv'
<1>0. PICK n, out : /\ n = client[c].attempt + 1
                    /\ out = Datagram(c, Server, SaInitRequest(<<c, n>>))
  BY Zenon
<1>1. /\ client = [x \in Clients |-> client[x]]
      /\ client[c].attempt \in Nat
  BY HandshakeAssumption DEF IInv, TypeOK
<1>2. /\ client'[c].pc = "sa_init" /\ client'[c].attempt = n
      /\ \A x \in Clients : x # c => client'[x] = client[x]
      /\ net' = net \cup {out} /\ events' = events
  BY <1>0, <1>1, Zenon DEF Connect, Send
<1>3. \A x : ~AuthInFlight(out, x)
  BY <1>0, Zenon DEF AuthInFlight, Datagram, SaInitRequest
<1>4. \A d \in net : ~AuthInFlight(d, <<c, n>>)
  <2>1. ASSUME NEW d \in net, AuthInFlight(d, <<c, n>>) PROVE FALSE
    BY <1>0, <1>1, <2>1, AuthFromCall DEF AuthInFlight
  <2> QED
    BY <2>1, Zenon
<1>5. \A e \in events : e.key[1] # <<c, n>>
  BY <1>0, <1>1, EventChild
<1>6. OneChildPerConnect'
  BY <1>2, Zenon DEF OnceInv, OneChildPerConnect
<1>7. \A d, x : AuthInFlight(d, x)' <=> AuthInFlight(d, x)
  BY Zenon DEF AuthInFlight
<1>8. \A d \in net', e \in events' : ~AuthInFlight(d, e.key[1])
  BY <1>2, <1>3, Zenon DEF OnceInv
<1>9. \A d, x \in net' : AuthInFlight(d, x.data.spi_i) /\ AuthInFlight(x, x.data.spi_i) => d = x
  BY <1>2, <1>3 DEF OnceInv
<1>10. ASSUME NEW x \in Clients, client'[x].pc = "sa_init"
       PROVE  /\ \A d \in net' : ~AuthInFlight(d, ChildSpi(x)')
              /\ \A e \in events' : e.key[1] # ChildSpi(x)'
  <2>1. CASE x = c
    BY <1>2, <1>3, <1>4, <1>5, <2>1, Zenon DEF ChildSpi
  <2>2. CASE x # c
    BY <1>2, <1>3, <1>10, <2>2, Zenon DEF OnceInv, ChildSpi
  <2> QED
    BY <2>1, <2>2, Zenon
<1> QED
  BY <1>6, <1>7, <1>8, <1>9, <1>10, Zenon DEF OnceInv

\* A connect call sends its IKE_AUTH request when it stops waiting for SA_INIT.
LEMMA SaInitResponseOnce ==
    ASSUME IInv, OnceInv, NEW c \in Clients, NEW d \in net, ClientSaInitResponse(c, d)
    PROVE  OnceInv'
<1>0. PICK sa, out : /\ sa = InitiatorComplete(<<c, client[c].attempt>>, d.data)
                     /\ out = Datagram(c, Server, InitiatorAuthRequest(sa, c, ChildSpi(c)))
  BY Zenon
<1>1. /\ client = [x \in Clients |-> client[x]]
      /\ client[c] = [pc |-> client[c].pc, attempt |-> client[c].attempt,
                      sa |-> client[c].sa, child |-> client[c].child]
      /\ dups \in 0..MaxDup
  BY Zenon DEF IInv, TypeOK
<1>2. /\ client[c].pc = "sa_init" /\ Receive(d, {out}) /\ events' = events
      /\ client' = [client EXCEPT ![c].pc = "ike_auth", ![c].sa = sa]
  BY <1>0, Zenon DEF ClientSaInitResponse
<1>3. /\ net' \subseteq net \cup {out}
      /\ client'[c].pc = "ike_auth"
      /\ \A x \in Clients : x # c => client'[x] = client[x]
  BY <1>1, <1>2, ReceiveFacts, ZenonT(30)
<1>4. out.data.spi_i = ChildSpi(c) /\ \A x : AuthInFlight(out, x) => x = ChildSpi(c)
  <2>1. out.data = InitiatorAuthRequest(sa, c, ChildSpi(c))
    BY <1>0, DatagramFields
  <2>2. InitiatorAuthRequest(sa, c, ChildSpi(c)).spi_i = sa.spi_i
    BY AuthRequestFields
  <2>3. sa.spi_i = ChildSpi(c)
    BY <1>0, Zenon DEF InitiatorComplete, ChildSpi
  <2> QED
    BY <2>1, <2>2, <2>3, Zenon DEF AuthInFlight
<1>5. OneChildPerConnect'
  BY <1>2, Zenon DEF OnceInv, OneChildPerConnect
<1>6. \A x, y : AuthInFlight(x, y)' <=> AuthInFlight(x, y)
  BY Zenon DEF AuthInFlight
<1>7. \A x \in net', e \in events' : ~AuthInFlight(x, e.key[1])
  BY <1>2, <1>3, <1>4, Zenon DEF OnceInv
<1>8. \A x, y \in net' : AuthInFlight(x, y.data.spi_i) /\ AuthInFlight(y, y.data.spi_i) => x = y
  <2>1. \A x \in net : ~AuthInFlight(x, ChildSpi(c))
    BY <1>2, Zenon DEF OnceInv
  <2> QED
    BY <1>3, <1>4, <2>1 DEF OnceInv, AuthInFlight
<1>9. ASSUME NEW x \in Clients, client'[x].pc = "sa_init"
      PROVE  /\ \A y \in net' : ~AuthInFlight(y, ChildSpi(x)')
             /\ \A e \in events' : e.key[1] # ChildSpi(x)'
  <2>1. x # c /\ client'[x] = client[x]
    BY <1>3, <1>9, Zenon
  <2>2. ChildSpi(x)' = ChildSpi(x) /\ ChildSpi(x) # ChildSpi(c)
    BY <2>1, Zenon DEF ChildSpi
  <2> QED
    BY <1>2, <1>3, <1>4, <1>9, <2>1, <2>2, Zenon DEF OnceInv
<1> QED
  BY <1>5, <1>6, <1>7, <1>8, <1>9, Zenon DEF OnceInv

\* The IKE_AUTH arm consumes the one request of its call.
LEMMA AuthRequestOnce ==
    ASSUME MaxDup = 0, IInv, OnceInv, NEW d \in net, ServerAuthRequest(d)
    PROVE  OnceInv'
<1>1. PICK e : events' = events \cup {e} /\ e.key = SessionKey(d.data)
  BY AuthFiles, Zenon
<1>2. PICK out : net' = (net \ {d}) \cup {out} /\ \A x : ~AuthInFlight(out, x)
  <2>1. dups \in 0..MaxDup
    BY Zenon DEF IInv, TypeOK
  <2>2. PICK m : Receive(d, {Datagram(Server, d.from, m)})
    BY Zenon DEF ServerAuthRequest
  <2>3. d.from # Server
    <3>1. IsAuthRequest(d)
      BY WhichDatagram, Zenon DEF ServerAuthRequest
    <3> QED
      BY <3>1, DatagramFields, HandshakeAssumption DEF IsAuthRequest
  <2>4. \A x : ~AuthInFlight(Datagram(Server, d.from, m), x)
    <3>1. Datagram(Server, d.from, m).to = d.from
      BY Zenon DEF Datagram
    <3> QED
      BY <2>3, <3>1, Zenon DEF AuthInFlight
  <2> QED
    BY <2>1, <2>2, <2>4, Consumes, Zenon
<1>3. e.key[1] = d.data.spi_i /\ AuthInFlight(d, e.key[1])
  BY <1>1 DEF SessionKey, AuthInFlight, ServerAuthRequest
<1>4. client' = client
  BY Zenon DEF ServerAuthRequest
<1>5. \A f \in events : f.key[1] # e.key[1]
  BY <1>3, Zenon DEF OnceInv
<1>6. OneChildPerConnect'
  BY <1>1, <1>5, Zenon DEF OnceInv, OneChildPerConnect
<1>7. \A x, y : AuthInFlight(x, y)' <=> AuthInFlight(x, y)
  BY Zenon DEF AuthInFlight
<1>8. \A x \in net', f \in events' : ~AuthInFlight(x, f.key[1])
  BY <1>1, <1>2, <1>3, Zenon DEF OnceInv
<1>9. \A x, y \in net' : AuthInFlight(x, y.data.spi_i) /\ AuthInFlight(y, y.data.spi_i) => x = y
  BY <1>2 DEF OnceInv
<1>10. \A c \in Clients : client'[c].pc = "sa_init" =>
        /\ \A x \in net' : ~AuthInFlight(x, ChildSpi(c)')
        /\ \A f \in events' : f.key[1] # ChildSpi(c)'
  BY <1>1, <1>2, <1>3, <1>4, Zenon DEF OnceInv, ChildSpi
<1> QED
  BY <1>6, <1>7, <1>8, <1>9, <1>10, Zenon DEF OnceInv

\* The remaining steps add neither a request nor an event.
LEMMA OthersOnce ==
    ASSUME IInv, OnceInv,
           \/ \E c \in Clients : \/ ClientTimeout(c)
                                 \/ \E d \in net : ClientAuthResponse(c, d) \/ ClientError(c, d)
           \/ \E d \in net : ServerSaInit(d) \/ ServerDrops(d)
    PROVE  OnceInv'
<1>0. /\ client = [x \in Clients |-> client[x]]
      /\ \A c \in Clients : client[c] = [pc |-> client[c].pc, attempt |-> client[c].attempt,
                                         sa |-> client[c].sa, child |-> client[c].child]
      /\ dups \in 0..MaxDup
  BY Zenon DEF IInv, TypeOK
<1>1. ASSUME NEW c \in Clients,
             ClientTimeout(c) \/ \E d \in net : ClientAuthResponse(c, d) \/ ClientError(c, d)
      PROVE  OnceInv'
  <2>1. events' = events /\ net' \subseteq net
    <3>1. CASE ClientTimeout(c)
      BY <3>1, Zenon DEF ClientTimeout
    <3>2. ASSUME NEW d \in net, ClientAuthResponse(c, d) \/ ClientError(c, d)
          PROVE  events' = events /\ Receive(d, {})
      BY <3>2, Zenon DEF ClientAuthResponse, ClientError
    <3> QED
      BY <1>0, <1>1, <3>1, <3>2, ReceiveFacts
  <2>2. \/ client' = [client EXCEPT ![c].pc = "failed"]
        \/ \E ch : client' = [client EXCEPT ![c].pc = "established", ![c].child = ch]
    BY <1>1, Zenon DEF ClientTimeout, ClientAuthResponse, ClientError
  <2>3. /\ client'[c].pc \in {"failed", "established"}
        /\ \A x \in Clients : x # c => client'[x] = client[x]
    BY <1>0, <2>2, Zenon
  <2> QED
    BY <2>1, <2>3, OnceKept, Zenon
<1>2. ASSUME NEW d \in net, ServerSaInit(d) \/ ServerDrops(d)
      PROVE  OnceInv'
  <2>1. events' = events /\ client' = client
    BY <1>2, Zenon DEF ServerSaInit, ServerDrops
  <2>2. CASE ServerDrops(d)
    BY <1>0, <2>1, <2>2, ReceiveFacts, OnceKept DEF ServerDrops
  <2>3. CASE ServerSaInit(d)
    <3>1. PICK m : /\ net' \subseteq net \cup {Datagram(Server, d.from, m)}
                   /\ m.exchange = "IKE_SA_INIT"
      BY <1>0, <2>3, ReceiveFacts DEF ServerSaInit, ResponderRespond, SaInitResponse
    <3>2. \A x : ~AuthInFlight(Datagram(Server, d.from, m), x)
      BY <3>1, DatagramFields DEF AuthInFlight
    <3> QED
      BY <2>1, <3>1, <3>2, OnceKept, ZenonT(30)
  <2> QED
    BY <1>2, <2>2, <2>3, Zenon
<1> QED
  BY <1>1, <1>2, Zenon

\* Every step preserves the at-most-once invariant when nothing is delivered twice.
LEMMA OncePreserved ==
    ASSUME MaxDup = 0, IInv, OnceInv, [DPNext]_dpVars
    PROVE  OnceInv'
<1>1. CASE UNCHANGED dpVars \/ DataNext
  <2>1. client' = client /\ net' = net /\ events' = events
    BY <1>1, Zenon DEF DataNext, ClientTunnel, TakeChild, TunnelSend, dpVars, vars
  <2> QED
    BY <2>1, OnceKept, Zenon
<1>2. CASE Next
  BY <1>2, ConnectOnce, SaInitResponseOnce, AuthRequestOnce, OthersOnce, Zenon
  DEF Next, ClientNext, ClientReceive, ServerNext
<1> QED
  BY <1>1, <1>2, Zenon DEF DPNext

-----------------------------------------------------------------------------
(* The theorems *)

\* The handshake's invariant, the origin of every tunnel and the account of every
\* packet hold in every reachable state, on any network.
THEOREM DataPathInvariance == DPSpec => []DPInv
BY DPInitHolds, DPNextPreserves, PTL DEF DPSpec

\* Tunnel::recv returns only what the tunnel it was negotiated with sealed, whatever
\* the network repeats, loses, delays or misdelivers and however often clients connect.
THEOREM OnlyPeersOpened == DPSpec => []OpensOnlyPeer
<1>1. ASSUME DPInv, NEW t \in DOMAIN tunnels, NEW pkt \in esp, Opens(tunnels[t].inbound, pkt)
      PROVE  Negotiated(t, pkt.inner[1]) \/ Negotiated(pkt.inner[1], t)
  <2>1. PICK u : u = pkt.inner[1] /\ u \in DOMAIN tunnels /\ tunnels[u].outbound.key = tunnels[t].inbound.key
    BY <1>1, Zenon DEF DPInv, PacketOrigin, Opens
  <2>2. PICK e \in events : ServerEnd(t, e) \/ ClientEnd(t, e)
    BY <1>1, Zenon DEF DPInv, TunnelOrigin
  <2>3. PICK f \in events : ServerEnd(u, f) \/ ClientEnd(u, f)
    BY <1>1, <2>1, Zenon DEF DPInv, TunnelOrigin
  <2>4. IInv
    BY <1>1, Zenon DEF DPInv
  <2>5. CASE ServerEnd(t, e)
    <3>1. ClientEnd(u, f) /\ e.key = f.key
      BY <2>1, <2>3, <2>4, <2>5, TunnelKeys, SameKeySameSession
    <3> QED
      BY <2>1, <2>5, <3>1, Zenon DEF ServerEnd, ClientEnd, Negotiated
  <2>6. CASE ClientEnd(t, e)
    <3>1. ServerEnd(u, f) /\ e.key = f.key
      BY <2>1, <2>3, <2>4, <2>6, TunnelKeys, SameKeySameSession
    <3> QED
      BY <2>1, <2>6, <3>1, Zenon DEF ServerEnd, ClientEnd, Negotiated
  <2> QED
    BY <2>2, <2>5, <2>6, Zenon
<1>2. DPInv => OpensOnlyPeer
  BY <1>1, Zenon DEF OpensOnlyPeer
<1> QED
  BY <1>2, DataPathInvariance, PTL

\* Nothing is in flight and nobody waits.
LEMMA OnceInitially == DPInit => OnceInv
<1> SUFFICES ASSUME DPInit PROVE OnceInv
  BY Zenon
<1>1. events = {} /\ net = {} /\ \A c \in Clients : client[c].pc = "idle"
  BY Zenon DEF DPInit, Init, NetInit
<1> QED
  BY <1>1, Zenon DEF OnceInv, OneChildPerConnect

\* The at-most-once invariant holds on a network that never delivers twice.
LEMMA OnceInvariance ==
    ASSUME MaxDup = 0
    PROVE  DPSpec => []OnceInv
<1>1. DPInv /\ OnceInv /\ [DPNext]_dpVars => OnceInv'
  BY OncePreserved, Zenon DEF DPInv
<1> QED
  BY <1>1, OnceInitially, DataPathInvariance, PTL DEF DPSpec

\* Without duplication, one connect call leads to at most one CHILD SA on the server:
\* handle_one keeps no record of answered requests, the network alone provides this.
THEOREM OneChildEach ==
    ASSUME MaxDup = 0
    PROVE  DPSpec => []OneChildPerConnect
<1>1. OnceInv => OneChildPerConnect
  BY Zenon DEF OnceInv
<1> QED
  BY <1>1, OnceInvariance, PTL

\* Two tunnels never seal under one key.
LEMMA OneTunnelPerKey ==
    ASSUME DPInv, OneChildPerConnect, NEW t \in DOMAIN tunnels, NEW u \in DOMAIN tunnels,
           tunnels[t].outbound.key = tunnels[u].outbound.key
    PROVE  t = u
<1>1. IInv
  BY Zenon DEF DPInv
<1>2. PICK e \in events : ServerEnd(t, e) \/ ClientEnd(t, e)
  BY Zenon DEF DPInv, TunnelOrigin
<1>3. PICK f \in events : ServerEnd(u, f) \/ ClientEnd(u, f)
  BY Zenon DEF DPInv, TunnelOrigin
<1>4. CASE ServerEnd(t, e)
  <2>1. ServerEnd(u, f) /\ e.key = f.key
    BY <1>1, <1>3, <1>4, TunnelKeys, SameKeySameSession
  <2>2. e = f
    BY <2>1, Zenon DEF OneChildPerConnect
  <2> QED
    BY <1>4, <2>1, <2>2, Zenon DEF ServerEnd
<1>5. CASE ClientEnd(t, e)
  <2>1. ClientEnd(u, f) /\ e.key = f.key
    BY <1>1, <1>3, <1>5, TunnelKeys, SameKeySameSession
  <2> QED
    BY <1>5, <2>1, Zenon DEF ClientEnd
<1> QED
  BY <1>2, <1>4, <1>5, Zenon

\* EspSa::seal never uses a GCM nonce twice under one key, for any number of clients,
\* connect calls and packets: each key belongs to one tunnel, whose counter only grows.
THEOREM NoncesUnique ==
    ASSUME MaxDup = 0
    PROVE  DPSpec => []NonceUnique
<1>1. ASSUME DPInv, OneChildPerConnect, NEW p \in esp, NEW q \in esp, p.key = q.key, p.iv = q.iv
      PROVE  p = q
  <2>1. p.inner[1] = q.inner[1]
    <3>1. PacketOrigin(p) /\ PacketOrigin(q)
      BY <1>1, Zenon DEF DPInv
    <3> QED
      BY <1>1, <3>1, OneTunnelPerKey, Zenon DEF PacketOrigin
  <2> QED
    BY <1>1, <2>1, Zenon DEF DPInv
<1>2. DPInv /\ OneChildPerConnect => NonceUnique
  BY <1>1, Zenon DEF NonceUnique
<1> QED
  BY <1>2, DataPathInvariance, OneChildEach, PTL

\* Without duplication, the client's and the server's tunnel of one connect call are
\* the two ends of one tunnel: ChildSa::derive on either side, taken at any time.
THEOREM EndsInStep ==
    ASSUME MaxDup = 0
    PROVE  DPSpec => []TunnelsInStep
<1>1. ASSUME DPInv, OneChildPerConnect, NEW t \in DOMAIN tunnels, NEW s \in DOMAIN tunnels,
             Negotiated(t, s)
      PROVE  Mirror(tunnels[t], tunnels[s])
  <2>1. PICK e \in events : e.key[1] = t /\ e.child.inbound.spi = s
    BY <1>1, Zenon DEF Negotiated
  <2>2. PICK c \in Clients : \E n \in 1..client[c].attempt : t = <<c, n>>
    BY <1>1, <2>1, EventChild, Zenon DEF DPInv
  <2>3. PICK m \in 1..draws : s = <<Server, m>>
    BY <1>1, <2>1, Zenon DEF DPInv
  <2>4. Mirror(tunnels[t], e.child)
    <3>1. PICK f \in events : ServerEnd(t, f) \/ ClientEnd(t, f)
      BY <1>1, Zenon DEF DPInv, TunnelOrigin
    <3>2. ~ServerEnd(t, f)
      <4>1. PICK i \in 1..draws : f.child.inbound.spi = <<Server, i>>
        BY <1>1, Zenon DEF DPInv
      <4> QED
        BY <2>2, <4>1, HandshakeAssumption DEF ServerEnd
    <3>3. ClientEnd(t, f) /\ f = e
      BY <1>1, <2>1, <3>1, <3>2, Zenon DEF ClientEnd, OneChildPerConnect
    <3> QED
      BY <3>3, Zenon DEF ClientEnd
  <2>5. ServerEnd(s, e)
    <3>1. PICK f \in events : ServerEnd(s, f) \/ ClientEnd(s, f)
      BY <1>1, Zenon DEF DPInv, TunnelOrigin
    <3>2. ~ClientEnd(s, f)
      <4>1. \E x \in Clients : \E i \in 1..client[x].attempt : f.key[1] = <<x, i>>
        BY <1>1, EventChild, Zenon DEF DPInv
      <4> QED
        BY <2>3, <4>1, HandshakeAssumption DEF ClientEnd
    <3>3. ServerEnd(s, f) /\ f = e
      BY <1>1, <2>1, <3>1, <3>2, Zenon DEF ServerEnd, DPInv
    <3> QED
      BY <3>3, Zenon
  <2> QED
    BY <2>4, <2>5, Zenon DEF ServerEnd, Mirror
<1>2. DPInv /\ OneChildPerConnect => TunnelsInStep
  BY <1>1, Zenon DEF TunnelsInStep
<1> QED
  BY <1>2, DataPathInvariance, OneChildEach, PTL
=============================================================================
