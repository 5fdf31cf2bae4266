------------------------------- MODULE SaInit -------------------------------
(***************************************************************************)
(* IKE_SA_INIT with everything that can precede the key exchange proper:   *)
(* suite negotiation (ikev2/negotiate.rs), the COOKIE challenge and        *)
(* INVALID_KE_PAYLOAD (responder_respond_natt, ikev2/exchange.rs).  The    *)
(* responder answers each request from the request alone; only a request   *)
(* that passes all three leaves a half-open SA behind.                     *)
(*                                                                         *)
(* External, modelled from how exchange.rs is meant to be used: the caller *)
(* that keeps the half-open SAs, the cookie secret it rotates and the load *)
(* that decides `required`; and the native client, which repeats its       *)
(* request as the responder asks, under the same SPI and nonce.  Its       *)
(* source address, as the responder sees it, may change (NAT).             *)
(***************************************************************************)
EXTENDS UdpNet, Sequences, FiniteSets

CONSTANTS
    Clients,        \* initiators; each one's SPI, nonce and DH private value
    Server,         \* the responder's address
    Addresses,      \* source addresses the responder can observe
    Offers,         \* the Security Associations an initiator may offer
    MaxRotations,   \* bound: rotations of the cookie secret
    MaxRebinds      \* bound: changes of a client's source address

ASSUME SaInitAssumption ==
    Server \notin Addresses /\ MaxRotations \in Nat /\ MaxRebinds \in Nat

VARIABLES
    client,     \* client[c]: pc, offer, KE group and cookie in use, result
    addr,       \* addr[c]: the source address of c's datagrams
    rebinds,    \* changes of address so far
    secret,     \* the current CookiePolicy.secret, by number
    required,   \* CookiePolicy.required
    halfOpen,   \* the CompletedSaInits the responder keeps, each with the
                \* address and the policy it was accepted under
    challenged  \* <<address, cookie>> for every challenge a client has read

vars == <<client, addr, rebinds, secret, required, halfOpen, challenged, net, dups>>

None == [none |-> TRUE]

-----------------------------------------------------------------------------
(* negotiate.rs.  A proposal lists its transforms by type; the order of the *)
(* DH transforms matters to the initiator only.  An Option is a set of at   *)
(* most one element.                                                        *)

DhPreference == <<"X25519", "MODP_2048", "MODP_1024">>

InSeq(s) == {s[i] : i \in DOMAIN s}

\* The first element of s that satisfies the test, as Iterator::find.
Find(s, Test(_)) ==
    LET hits == {i \in DOMAIN s : Test(s[i])} IN
        {s[i] : i \in {h \in hits : \A j \in hits : h <= j}}

\* select_from_proposal.
SelectFromProposal(p) ==
    LET aead == "AES_GCM_256" \in p.encr
        cbc == "AES_CBC_256" \in p.encr /\ "HMAC_SHA2_256" \in p.integ
    IN  {[num |-> p.num, dh |-> g,
          encr |-> IF aead THEN "AES_GCM_256" ELSE "AES_CBC_256",
          integ |-> IF aead THEN {} ELSE {"HMAC_SHA2_256"}] :
            g \in {h \in Find(DhPreference, LAMBDA x : x \in InSeq(p.dh)) :
                    p.protocol = "IKE" /\ "SHA2_256" \in p.prf /\ (aead \/ cbc)}}

\* Mutant: transforms are gathered from all proposals before choosing.
MutSelectMergesProposals(sa) ==
    LET all(field) == UNION {p[field] : p \in InSeq(sa)} IN
    SelectFromProposal(
        [num |-> sa[1].num, protocol |-> sa[1].protocol, encr |-> all("encr"), prf |-> all("prf"),
         integ |-> all("integ"), dh |-> sa[Len(sa)].dh])

\* select: the first proposal that is fully supported.
Select(sa) ==
    UNION {SelectFromProposal(p) : p \in Find(sa, LAMBDA q : SelectFromProposal(q) # {})}

\* ChosenSuite::to_proposal, the SA of the response.
ToProposal(suite) ==
    [num |-> suite.num, protocol |-> "IKE", encr |-> {suite.encr}, prf |-> {"SHA2_256"},
     integ |-> suite.integ, dh |-> <<suite.dh>>]

\* offer_dh_group: the first proposal's first DH transform, if implemented.
OfferDhGroup(offer) ==
    IF offer[1].dh # <<>> /\ offer[1].dh[1] \in InSeq(DhPreference)
    THEN offer[1].dh[1] ELSE "X25519"

-----------------------------------------------------------------------------
(* Messages and keys *)

\* LocalSecret::generate: one draw for DH private value, nonce and SPI.
LocalSecret(owner, n) == <<owner, n>>

\* The draw that stands for SPI zero: no LocalSecret has it.
ZeroSpi == LocalSecret(Server, 0)

Ke(group, local) == [group |-> group, public |-> local]

\* Mutant: the peer's address is left out of the hash.
MutIkeCookieWithoutPeer(s, spi_i, ni, peer) == [secret |-> s, spi_i |-> spi_i, ni |-> ni]

\* ike_cookie, as the tuple that is hashed.
IkeCookie(s, spi_i, ni, peer) == [secret |-> s, spi_i |-> spi_i, ni |-> ni, peer |-> peer]

\* initiator_request, and its repetition with a cookie or another group.
Request(c, offer, group, cookie) ==
    LET local == LocalSecret(c, 1) IN
    [kind |-> "request", spi_i |-> local, sa |-> offer, ke |-> Ke(group, local),
     nonce |-> local, cookie |-> cookie]

CookieChallenge(spi_i, cookie) ==
    [kind |-> "COOKIE", spi_i |-> spi_i, spi_r |-> ZeroSpi, cookie |-> cookie]

InvalidKe(spi_i, group) ==
    [kind |-> "INVALID_KE_PAYLOAD", spi_i |-> spi_i, spi_r |-> ZeroSpi, group |-> group]

Response(spi_i, suite, local) ==
    [kind |-> "response", spi_i |-> spi_i, spi_r |-> local,
     sa |-> <<ToProposal(suite)>>, ke |-> Ke(suite.dh, local), nonce |-> local]

\* derive_session_keys with ChosenSuite::key_lengths: the suite sets the cut.
SessionKeys(group, x, y, ni, nr, spi_i, spi_r, suite) ==
    [shared |-> <<group, {x, y}>>, ni |-> ni, nr |-> nr, spi_i |-> spi_i, spi_r |-> spi_r,
     lengths |-> <<suite.encr, suite.integ>>]

\* CompletedSaInit, without the two messages.
Completed(suite, keys) ==
    [suite |-> suite, keys |-> keys, spi_i |-> keys.spi_i, spi_r |-> keys.spi_r,
     ni |-> keys.ni, nr |-> keys.nr]

-----------------------------------------------------------------------------
(* responder_respond_inner, with NAT traversal and a CookiePolicy *)

\* The request is to be answered with a challenge.
CookieRequired(d) ==
    required /\ d.data.cookie # IkeCookie(secret, d.data.spi_i, d.data.nonce, d.from)

Challenge(d) ==
    /\ d.to = Server
    /\ CookieRequired(d)
    /\ Receive(d, {Datagram(Server, d.from,
            CookieChallenge(d.data.spi_i, IkeCookie(secret, d.data.spi_i, d.data.nonce, d.from)))})
    /\ UNCHANGED <<client, addr, rebinds, secret, required, halfOpen, challenged>>

\* Mutant: the notify names the group of the initiator's KE payload.
MutRefuseKeNamesTheirs(d) ==
    /\ d.to = Server
    /\ ~CookieRequired(d)
    /\ \E suite \in Select(d.data.sa) :
        /\ d.data.ke.group # suite.dh
        /\ Receive(d, {Datagram(Server, d.from, InvalidKe(d.data.spi_i, d.data.ke.group))})
    /\ UNCHANGED <<client, addr, rebinds, secret, required, halfOpen, challenged>>

\* SaInitResult::InvalidKe: the KE payload is for a group we did not select.
RefuseKe(d) ==
    /\ d.to = Server
    /\ ~CookieRequired(d)
    /\ \E suite \in Select(d.data.sa) :
        /\ d.data.ke.group # suite.dh
        /\ Receive(d, {Datagram(Server, d.from, InvalidKe(d.data.spi_i, suite.dh))})
    /\ UNCHANGED <<client, addr, rebinds, secret, required, halfOpen, challenged>>

\* SaInitResult::Established: a fresh LocalSecret, the keys, a half-open SA.
Accept(d) ==
    /\ d.to = Server
    /\ ~CookieRequired(d)
    /\ \E suite \in Select(d.data.sa) :
        LET m == d.data
            local == LocalSecret(Server, Cardinality(halfOpen) + 1)
            keys == SessionKeys(suite.dh, local, m.ke.public, m.nonce, local, m.spi_i, local, suite)
        IN /\ m.ke.group = suite.dh
           /\ halfOpen' = halfOpen \cup
                {[sa |-> Completed(suite, keys), from |-> d.from,
                  required |-> required, secret |-> secret]}
           /\ Receive(d, {Datagram(Server, d.from, Response(m.spi_i, suite, local))})
    /\ UNCHANGED <<client, addr, rebinds, secret, required, challenged>>

\* IkeError::NoProposalChosen: no answer.
Reject(d) ==
    /\ d.to = Server
    /\ ~CookieRequired(d)
    /\ Select(d.data.sa) = {}
    /\ Receive(d, {})
    /\ UNCHANGED <<client, addr, rebinds, secret, required, halfOpen, challenged>>

\* The caller rotates its secret, and turns the gate on and off with the load.
Rotate ==
    /\ secret < MaxRotations
    /\ secret' = secret + 1
    /\ UNCHANGED <<client, addr, rebinds, required, halfOpen, challenged, net, dups>>

LoadChanges ==
    /\ required' = ~required
    /\ UNCHANGED <<client, addr, rebinds, secret, halfOpen, challenged, net, dups>>

-----------------------------------------------------------------------------
(* The initiator *)

\* The request client record r calls for, from address a.
Asks(c, a, r) == Datagram(a, Server, Request(c, r.offer, r.group, r.cookie))

Start(c) ==
    /\ client[c].pc = "idle"
    /\ LET r == [client[c] EXCEPT !.pc = "waiting", !.group = OfferDhGroup(client[c].offer)] IN
        client' = [client EXCEPT ![c] = r] /\ Send({Asks(c, addr[c], r)})
    /\ UNCHANGED <<addr, rebinds, secret, required, halfOpen, challenged>>

\* The datagram is a response to c's exchange, read while it is waiting.
Reads(c, d, kind) ==
    /\ client[c].pc = "waiting"
    /\ d.to = addr[c]
    /\ d.data.kind = kind
    /\ d.data.spi_i = LocalSecret(c, 1)

\* The request is repeated with the cookie.
EchoCookie(c, d) ==
    /\ Reads(c, d, "COOKIE")
    /\ LET r == [client[c] EXCEPT !.cookie = d.data.cookie] IN
        client' = [client EXCEPT ![c] = r] /\ Receive(d, {Asks(c, addr[c], r)})
    /\ challenged' = challenged \cup {<<addr[c], d.data.cookie>>}
    /\ UNCHANGED <<addr, rebinds, secret, required, halfOpen>>

\* The request is repeated with a KE payload for the group that was named; a
\* second notify for the group already in use asks for nothing new.
ChangeGroup(c, d) ==
    /\ Reads(c, d, "INVALID_KE_PAYLOAD")
    /\ LET r == [client[c] EXCEPT !.group = d.data.group] IN
        /\ client' = [client EXCEPT ![c] = r]
        /\ Receive(d, IF r = client[c] THEN {} ELSE {Asks(c, addr[c], r)})
    /\ UNCHANGED <<addr, rebinds, secret, required, halfOpen, challenged>>

\* Mutant: the nonces are passed to the key derivation the other way round.
MutInitiatorCompleteSwapsNonces(c, m) ==
    LET local == LocalSecret(c, 1) IN
    {Completed(suite, SessionKeys(suite.dh, local, m.ke.public, m.nonce, local,
                                  local, m.spi_r, suite)) :
        suite \in {s \in Select(m.sa) : s.dh = m.ke.group}}

\* initiator_complete: whatever supported suite the response names is taken, as
\* long as the KE payload is for its group.
InitiatorComplete(c, m) ==
    LET local == LocalSecret(c, 1) IN
    {Completed(suite, SessionKeys(suite.dh, local, m.ke.public, local, m.nonce,
                                  local, m.spi_r, suite)) :
        suite \in {s \in Select(m.sa) : s.dh = m.ke.group}}

Complete(c, d) ==
    /\ Reads(c, d, "response")
    /\ LET sa == InitiatorComplete(c, d.data) IN
        client' = [client EXCEPT ![c].pc = IF sa = {} THEN "failed" ELSE "done", ![c].sa = sa]
    /\ Receive(d, {})
    /\ UNCHANGED <<addr, rebinds, secret, required, halfOpen, challenged>>

\* A NAT moves the client to an address no one else has; if the client is
\* waiting, its request is retransmitted from there.
Rebind(c) ==
    /\ rebinds < MaxRebinds
    /\ rebinds' = rebinds + 1
    /\ \E a \in Addresses \ {addr[x] : x \in Clients} :
        /\ addr' = [addr EXCEPT ![c] = a]
        /\ Send(IF client[c].pc = "waiting" THEN {Asks(c, a, client[c])} ELSE {})
    /\ UNCHANGED <<client, secret, required, halfOpen, challenged>>

-----------------------------------------------------------------------------
Init ==
    /\ client \in [Clients -> [pc : {"idle"}, offer : Offers, group : {"none"},
                               cookie : {None}, sa : {{}}]]
    /\ addr \in {f \in [Clients -> Addresses] : \A x, y \in Clients : f[x] = f[y] => x = y}
    /\ rebinds = 0
    /\ secret = 0
    /\ required \in BOOLEAN
    /\ halfOpen = {}
    /\ challenged = {}
    /\ NetInit

ResponderNext == \E d \in net : Challenge(d) \/ RefuseKe(d) \/ Accept(d) \/ Reject(d)

ClientReceive(c) == \E d \in net : EchoCookie(c, d) \/ ChangeGroup(c, d) \/ Complete(c, d)

Next ==
    \/ ResponderNext
    \/ Rotate
    \/ LoadChanges
    \/ \E c \in Clients : Start(c) \/ ClientReceive(c) \/ Rebind(c)

Spec == Init /\ [][Next]_vars

\* Both ends keep reading their sockets, and UDP delivers what it does not
\* lose.  The gate may go on and off for ever.
FairSpec ==
    Spec /\ WF_vars(ResponderNext) /\ \A c \in Clients : WF_vars(ClientReceive(c))

-----------------------------------------------------------------------------
(* Properties *)

\* Return routability: a half-open SA accepted while the gate is on belongs to
\* an initiator that has read, at the very address the request came from, the
\* challenge for its SPI and nonce under the secret then in force.  A cookie is
\* worth nothing from another address or after a rotation.
ReturnRoutable ==
    \A h \in halfOpen : h.required =>
        \E x \in challenged :
            /\ x[1] = h.from
            /\ x[2].spi_i = h.sa.spi_i /\ x[2].ni = h.sa.ni /\ x[2].secret = h.secret

\* initiator_complete returns an SA the responder holds too, with the same
\* suite, keys, SPIs and nonces, however many of its requests were challenged,
\* refused, repeated or answered twice.
KeysAgree ==
    \A c \in Clients : client[c].pc = "done" =>
        \E h \in halfOpen : client[c].sa = {h.sa}

\* The cipher, the integrity algorithm and the group of a negotiated suite come from
\* one and the same proposal of the initiator's offer, the one whose number is echoed.
\* The PRF is not in the suite: select requires the only one it knows.
SuiteFromOneProposal ==
    \A c \in Clients : \A sa \in client[c].sa :
        \E p \in InSeq(client[c].offer) :
            /\ p.num = sa.suite.num /\ p.protocol = "IKE"
            /\ sa.suite.encr \in p.encr /\ sa.suite.dh \in InSeq(p.dh)
            /\ sa.suite.integ \subseteq p.integ

\* An initiator with an offer the responder supports gets its SA, through
\* challenges, a wrong first guess of the group, rotations of the secret in
\* mid-exchange and changes of its own address.
NegotiationConverges ==
    \A c \in Clients :
        (client[c].pc = "waiting" /\ Select(client[c].offer) # {}) ~> client[c].pc = "done"
-----------------------------------------------------------------------------
(* The inductive invariant: where every cookie, request, answer and SA comes *)
(* from.                                                                     *)

\* A cookie in a request is none, or was read at the address it names.
CookieRead(cookie) ==
    cookie = None \/ \E x \in challenged : x[2] = cookie /\ x[1] = cookie.peer

\* The SA client c and the responder make of c's draw and the responder's.
Agreed(c, suite, local) ==
    Completed(suite, SessionKeys(suite.dh, LocalSecret(c, 1), local, LocalSecret(c, 1), local,
                                 LocalSecret(c, 1), local, suite))

\* d is a request of client c.
IsRequest(c, d) ==
    /\ d.from \in Addresses /\ d.to = Server /\ d.data.kind = "request"
    /\ d.data = Request(c, client[c].offer, d.data.ke.group, d.data.cookie)
    /\ CookieRead(d.data.cookie)

\* d is a challenge for client c, for the address it is sent to.
IsChallenge(c, d) ==
    /\ d.to \in Addresses /\ d.data.kind = "COOKIE"
    /\ d.data = CookieChallenge(LocalSecret(c, 1), d.data.cookie)
    /\ d.data.cookie.peer = d.to

\* d is an INVALID_KE_PAYLOAD for client c.
IsInvalidKe(c, d) ==
    /\ d.to \in Addresses /\ d.data.kind = "INVALID_KE_PAYLOAD"
    /\ d.data = InvalidKe(LocalSecret(c, 1), d.data.group)

\* d is the response of a half-open SA to client c's offer.
IsResponse(c, d) ==
    /\ d.to \in Addresses /\ d.data.kind = "response"
    /\ \E suite \in Select(client[c].offer) : \E h \in halfOpen :
        /\ d.data = Response(LocalSecret(c, 1), suite, d.data.spi_r)
        /\ h.sa = Agreed(c, suite, d.data.spi_r)

HasOrigin(d) ==
    \E c \in Clients :
        IsRequest(c, d) \/ IsChallenge(c, d) \/ IsInvalidKe(c, d) \/ IsResponse(c, d)

\* What client c has completed is an SA of the responder's, from c's offer.
ClientOrigin(c) ==
    /\ client[c] \in [pc : {"idle", "waiting", "failed", "done"}, offer : {client[c].offer},
                      group : {client[c].group}, cookie : {client[c].cookie}, sa : {client[c].sa}]
    /\ CookieRead(client[c].cookie)
    /\ IF client[c].pc = "done"
       THEN \E h \in halfOpen : client[c].sa = {h.sa} /\ h.sa.suite \in Select(client[c].offer)
       ELSE client[c].sa = {}

IInv ==
    /\ client = [c \in Clients |-> client[c]]
    /\ addr \in [Clients -> Addresses]
    /\ \A x \in challenged : x[2].peer = x[1]
    /\ \A d \in net : HasOrigin(d)
    /\ \A c \in Clients : ClientOrigin(c)
    /\ ReturnRoutable
=============================================================================
