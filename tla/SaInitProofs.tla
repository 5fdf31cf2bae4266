---------------------------- MODULE SaInitProofs ----------------------------
(***************************************************************************)
(* IKE_SA_INIT for every set of clients, addresses and offers, any number  *)
(* of rotations, rebindings and duplications, and a gate that goes on and  *)
(* off at will: return routability, equal SAs at both ends, and suites     *)
(* that come from one proposal.                                            *)
(*                                                                         *)
(* All rest on IInv, which says of every cookie at which address it was    *)
(* read and of every response which half-open SA it belongs to.  The       *)
(* responder keeps nothing but that SA, so the argument runs through what  *)
(* the datagrams themselves carry.                                         *)
(***************************************************************************)
EXTENDS SaInit, TLAPS

-----------------------------------------------------------------------------
(* Negotiation *)

\* select_from_proposal over a usable proposal with one implemented DH group.
LEMMA OneGroup ==
    ASSUME NEW p, NEW g \in InSeq(DhPreference), p.dh = <<g>>,
           p.protocol = "IKE", "SHA2_256" \in p.prf,
           "AES_GCM_256" \in p.encr \/ ("AES_CBC_256" \in p.encr /\ "HMAC_SHA2_256" \in p.integ)
    PROVE  SelectFromProposal(p) =
             {[num |-> p.num, dh |-> g,
               encr |-> IF "AES_GCM_256" \in p.encr THEN "AES_GCM_256" ELSE "AES_CBC_256",
               integ |-> IF "AES_GCM_256" \in p.encr THEN {} ELSE {"HMAC_SHA2_256"}]}
<1>1. DOMAIN DhPreference = 1..3
  BY DEF DhPreference
<1>2. /\ DhPreference[1] = "X25519" /\ DhPreference[2] = "MODP_2048"
      /\ DhPreference[3] = "MODP_1024"
  BY Zenon DEF DhPreference
<1>3. \A i, j \in 1..3 : DhPreference[i] = DhPreference[j] => i = j
  BY <1>2
<1>4. InSeq(p.dh) = {g}
  BY DEF InSeq
<1>5. PICK k \in 1..3 : g = DhPreference[k]
  BY <1>1, Zenon DEF InSeq
<1>6. {i \in DOMAIN DhPreference : DhPreference[i] \in InSeq(p.dh)} = {k}
  BY <1>1, <1>3, <1>4, <1>5, Zenon
<1>7. {h \in {k} : \A j \in {k} : h <= j} = {k}
  BY <1>5
<1>8. Find(DhPreference, LAMBDA x : x \in InSeq(p.dh)) = {g}
  BY <1>5, <1>6, <1>7 DEF Find
<1>9. {h \in {g} : /\ p.protocol = "IKE" /\ "SHA2_256" \in p.prf
                   /\ \/ "AES_GCM_256" \in p.encr
                      \/ "AES_CBC_256" \in p.encr /\ "HMAC_SHA2_256" \in p.integ} = {g}
  BY Zenon
<1> QED
  BY <1>8, <1>9, Zenon DEF SelectFromProposal

\* select_from_proposal takes all of a suite from the proposal it is given.
LEMMA FromProposal ==
    ASSUME NEW p, NEW suite \in SelectFromProposal(p)
    PROVE  /\ p.protocol = "IKE" /\ suite.num = p.num
           /\ suite.dh \in InSeq(p.dh) /\ suite.dh \in InSeq(DhPreference)
           /\ suite.encr \in p.encr /\ suite.integ \subseteq p.integ
           /\ suite = [num |-> suite.num, dh |-> suite.dh, encr |-> suite.encr,
                       integ |-> suite.integ]
           /\ \/ suite.encr = "AES_GCM_256" /\ suite.integ = {}
              \/ suite.encr = "AES_CBC_256" /\ suite.integ = {"HMAC_SHA2_256"}
<1>1. PICK g \in Find(DhPreference, LAMBDA x : x \in InSeq(p.dh)) :
        /\ p.protocol = "IKE"
        /\ "AES_GCM_256" \in p.encr \/ ("AES_CBC_256" \in p.encr /\ "HMAC_SHA2_256" \in p.integ)
        /\ suite = [num |-> p.num, dh |-> g,
                    encr |-> IF "AES_GCM_256" \in p.encr THEN "AES_GCM_256" ELSE "AES_CBC_256",
                    integ |-> IF "AES_GCM_256" \in p.encr THEN {} ELSE {"HMAC_SHA2_256"}]
  BY Zenon DEF SelectFromProposal
<1>2. g \in InSeq(p.dh) /\ g \in InSeq(DhPreference)
  BY Zenon DEF Find, InSeq
<1> QED
  BY <1>1, <1>2, Zenon

\* select returns a suite of one of the proposals.
LEMMA SelectFromOne ==
    ASSUME NEW sa, NEW suite \in Select(sa)
    PROVE  \E p \in InSeq(sa) : suite \in SelectFromProposal(p)
BY Zenon DEF Select, Find, InSeq

\* The proposal of a response, selected from, gives the suite it was made of.
LEMMA SelectEcho ==
    ASSUME NEW sa, NEW suite \in Select(sa)
    PROVE  Select(<<ToProposal(suite)>>) = {suite}
<1> DEFINE p == ToProposal(suite)
<1>1. /\ suite.dh \in InSeq(DhPreference)
      /\ suite = [num |-> suite.num, dh |-> suite.dh, encr |-> suite.encr,
                  integ |-> suite.integ]
      /\ \/ suite.encr = "AES_GCM_256" /\ suite.integ = {}
         \/ suite.encr = "AES_CBC_256" /\ suite.integ = {"HMAC_SHA2_256"}
  BY SelectFromOne, FromProposal, Zenon
<1>3. /\ p.num = suite.num /\ p.dh = <<suite.dh>> /\ p.protocol = "IKE" /\ "SHA2_256" \in p.prf
      /\ p.encr = {suite.encr} /\ p.integ = suite.integ
  BY Zenon DEF ToProposal
<1>4. SelectFromProposal(p) = {suite}
  <2> HIDE DEF p
  <2>1. CASE suite.encr = "AES_GCM_256" /\ suite.integ = {}
    BY <1>1, <1>3, <2>1, OneGroup, Zenon
  <2>2. CASE suite.encr = "AES_CBC_256" /\ suite.integ = {"HMAC_SHA2_256"}
    BY <1>1, <1>3, <2>2, OneGroup, ZenonT(30)
  <2> QED
    BY <1>1, <2>1, <2>2, Zenon
<1>5. Find(<<p>>, LAMBDA q : SelectFromProposal(q) # {}) = {p}
  <2> HIDE DEF p
  <2>1. {i \in DOMAIN <<p>> : SelectFromProposal(<<p>>[i]) # {}} = {1}
    BY <1>4
  <2>2. {h \in {1} : \A j \in {1} : h <= j} = {1}
    OBVIOUS
  <2> QED
    BY <2>1, <2>2 DEF Find
<1> HIDE DEF p
<1>6. Select(<<p>>) = {suite}
  BY <1>4, <1>5, Zenon DEF Select
<1> QED
  BY <1>6, Zenon DEF p
-----------------------------------------------------------------------------
(* What can be told from a datagram *)

\* The fields of a datagram.
LEMMA DatagramFields ==
    ASSUME NEW x, NEW y, NEW m
    PROVE  /\ Datagram(x, y, m).from = x
           /\ Datagram(x, y, m).to = y
           /\ Datagram(x, y, m).data = m
BY Zenon DEF Datagram

\* A draw names its owner.
LEMMA DrawInjective ==
    ASSUME NEW x, NEW y, LocalSecret(x, 1) = LocalSecret(y, 1)
    PROVE  x = y
BY Zenon DEF LocalSecret

\* What the responder reads is a client's request.
LEMMA ReadByServer ==
    ASSUME IInv, NEW d \in net, d.to = Server
    PROVE  \E c \in Clients : IsRequest(c, d)
BY SaInitAssumption, Zenon DEF IInv, HasOrigin, IsRequest, IsChallenge, IsInvalidKe, IsResponse

\* The fields of a request.
LEMMA RequestFields ==
    ASSUME NEW c, NEW d, IsRequest(c, d)
    PROVE  /\ d.data.kind = "request" /\ d.data.spi_i = LocalSecret(c, 1)
           /\ d.data.nonce = LocalSecret(c, 1) /\ d.data.ke.public = LocalSecret(c, 1)
           /\ d.data.sa = client[c].offer
BY DEF IsRequest, Request, Ke

\* A client that reads a datagram for its exchange reads one that was made for it.
LEMMA ReadByClient ==
    ASSUME IInv, NEW c \in Clients, NEW d \in net, NEW kind, Reads(c, d, kind)
    PROVE  /\ d.to = addr[c] /\ addr[c] \in Addresses
           /\ kind = "COOKIE" => IsChallenge(c, d)
           /\ kind = "INVALID_KE_PAYLOAD" => IsInvalidKe(c, d)
           /\ kind = "response" => IsResponse(c, d)
<1>1. d.to = addr[c] /\ addr[c] \in Addresses /\ addr[c] # Server
  BY SaInitAssumption, Zenon DEF IInv, Reads
<1>2. d.data.kind = kind /\ d.data.spi_i = LocalSecret(c, 1)
  BY Zenon DEF Reads
<1>3. PICK x \in Clients :
        IsRequest(x, d) \/ IsChallenge(x, d) \/ IsInvalidKe(x, d) \/ IsResponse(x, d)
  BY Zenon DEF IInv, HasOrigin
<1>4. ~IsRequest(x, d)
  BY <1>1, Zenon DEF IsRequest
<1>5. CASE IsChallenge(x, d)
  <2>1. d.data.kind = "COOKIE" /\ d.data.spi_i = LocalSecret(x, 1)
    BY <1>5 DEF IsChallenge, CookieChallenge
  <2> QED
    BY <1>1, <1>2, <1>5, <2>1, DrawInjective, Zenon
<1>6. CASE IsInvalidKe(x, d)
  <2>1. d.data.kind = "INVALID_KE_PAYLOAD" /\ d.data.spi_i = LocalSecret(x, 1)
    BY <1>6 DEF IsInvalidKe, InvalidKe
  <2> QED
    BY <1>1, <1>2, <1>6, <2>1, DrawInjective, Zenon
<1>7. CASE IsResponse(x, d)
  <2>1. d.data.kind = "response" /\ d.data.spi_i = LocalSecret(x, 1)
    BY <1>7 DEF IsResponse, Response
  <2> QED
    BY <1>1, <1>2, <1>7, <2>1, DrawInjective, Zenon
<1> QED
  BY <1>3, <1>4, <1>5, <1>6, <1>7, Zenon

\* A receiver takes a datagram of the network and adds what it sends.
LEMMA ReceiveFacts ==
    ASSUME NEW d, NEW out, Receive(d, out)
    PROVE  d \in net /\ net' \subseteq net \cup out
BY Zenon DEF Receive

-----------------------------------------------------------------------------
(* Steps *)

\* What a step may do to the records the invariant looks up: challenges and
\* half-open SAs are only added, and no client changes its offer.
Grows ==
    /\ challenged \subseteq challenged' /\ halfOpen \subseteq halfOpen'
    /\ \A c \in Clients : client'[c].offer = client[c].offer

\* A datagram keeps its origin.
LEMMA DatagramKept ==
    ASSUME Grows, NEW c \in Clients, NEW d
    PROVE  /\ IsRequest(c, d) => IsRequest(c, d)'
           /\ IsChallenge(c, d) => IsChallenge(c, d)'
           /\ IsInvalidKe(c, d) => IsInvalidKe(c, d)'
           /\ IsResponse(c, d) => IsResponse(c, d)'
<1>1. IsRequest(c, d) => IsRequest(c, d)'
  BY Zenon DEF Grows, IsRequest, CookieRead
<1>2. IsResponse(c, d) => IsResponse(c, d)'
  BY Zenon DEF Grows, IsResponse
<1> QED
  BY <1>1, <1>2, Zenon DEF IsChallenge, IsInvalidKe

\* A client that is left alone keeps its origin.
LEMMA ClientKept ==
    ASSUME Grows, NEW c \in Clients, ClientOrigin(c), client'[c] = client[c]
    PROVE  ClientOrigin(c)'
<1>1. CookieRead(client[c].cookie) => CookieRead(client[c].cookie)'
  BY Zenon DEF Grows, CookieRead
<1> QED
  BY <1>1, Zenon DEF Grows, ClientOrigin

\* The parts of the invariant a step has to re-establish.
LEMMA FromParts ==
    ASSUME IInv, Grows, \A d \in net' : d \in net \/ HasOrigin(d)',
           client' = [c \in Clients |-> client'[c]],
           addr' \in [Clients -> Addresses],
           \A x \in challenged' : x[2].peer = x[1],
           \A c \in Clients : ClientOrigin(c)',
           ReturnRoutable'
    PROVE  IInv'
<1>1. \A d \in net : HasOrigin(d)'
  <2> TAKE d \in net
  <2>1. PICK c \in Clients :
          IsRequest(c, d) \/ IsChallenge(c, d) \/ IsInvalidKe(c, d) \/ IsResponse(c, d)
    BY Zenon DEF IInv, HasOrigin
  <2>2. (IsRequest(c, d) \/ IsChallenge(c, d) \/ IsInvalidKe(c, d) \/ IsResponse(c, d))'
    BY <2>1, DatagramKept, Zenon
  <2> QED
    BY <2>2, Zenon DEF HasOrigin
<1>2. \A d \in net' : HasOrigin(d)'
  BY <1>1, Zenon
<1> QED
  BY <1>2, Zenon DEF IInv

\* A step of the responder or its caller that leaves the half-open SAs alone.
LEMMA ResponderKeeps ==
    ASSUME IInv, UNCHANGED <<client, addr, challenged, halfOpen>>,
           \A d \in net' : d \in net \/ \E c \in Clients : IsChallenge(c, d) \/ IsInvalidKe(c, d)
    PROVE  IInv'
<1>1. Grows
  BY Zenon DEF Grows
<1>2. \A d \in net' : d \in net \/ HasOrigin(d)'
  BY <1>1, DatagramKept, Zenon DEF HasOrigin
<1>3. \A c \in Clients : ClientOrigin(c)'
  BY <1>1, ClientKept, Zenon DEF IInv
<1>4. ReturnRoutable'
  BY Zenon DEF IInv, ReturnRoutable
<1> QED
  BY <1>1, <1>2, <1>3, <1>4, FromParts, Zenon DEF IInv
\* The COOKIE challenge names the address it is sent to.
LEMMA ChallengeStep ==
    ASSUME IInv, NEW d \in net, Challenge(d)
    PROVE  IInv'
<1>1. PICK c \in Clients : IsRequest(c, d)
  BY ReadByServer, Zenon DEF Challenge
<1>2. PICK out : /\ out = Datagram(Server, d.from, CookieChallenge(d.data.spi_i,
                            IkeCookie(secret, d.data.spi_i, d.data.nonce, d.from)))
                 /\ Receive(d, {out})
  BY Zenon DEF Challenge
<1>3. IsChallenge(c, out)
  <2>1. out.to = d.from /\ d.from \in Addresses
    BY <1>1, <1>2, DatagramFields DEF IsRequest
  <2>2. out.data = CookieChallenge(LocalSecret(c, 1),
                        IkeCookie(secret, d.data.spi_i, d.data.nonce, d.from))
    BY <1>1, <1>2, DatagramFields, RequestFields
  <2> QED
    BY <2>1, <2>2 DEF IsChallenge, CookieChallenge, IkeCookie
<1> QED
  BY <1>2, <1>3, ReceiveFacts, ResponderKeeps DEF Challenge

\* INVALID_KE_PAYLOAD.
LEMMA RefuseKeStep ==
    ASSUME IInv, NEW d \in net, RefuseKe(d)
    PROVE  IInv'
<1>1. PICK c \in Clients : IsRequest(c, d)
  BY ReadByServer, Zenon DEF RefuseKe
<1>2. PICK suite, out : /\ out = Datagram(Server, d.from, InvalidKe(d.data.spi_i, suite.dh))
                        /\ Receive(d, {out})
  BY Zenon DEF RefuseKe
<1>3. IsInvalidKe(c, out)
  <2>1. out.to = d.from /\ d.from \in Addresses
    BY <1>1, <1>2, DatagramFields DEF IsRequest
  <2>2. out.data = InvalidKe(LocalSecret(c, 1), suite.dh)
    BY <1>1, <1>2, DatagramFields, RequestFields
  <2> QED
    BY <2>1, <2>2 DEF IsInvalidKe, InvalidKe
<1> QED
  BY <1>2, <1>3, ReceiveFacts, ResponderKeeps, Zenon DEF RefuseKe

\* A request that passes the gate carries the cookie for its own address: it was
\* read there.
LEMMA PassesGate ==
    ASSUME NEW c \in Clients, NEW d, IsRequest(c, d), required, ~CookieRequired(d),
           \A x \in challenged : x[2].peer = x[1]
    PROVE  \E x \in challenged :
              /\ x[1] = d.from /\ x[2].spi_i = LocalSecret(c, 1)
              /\ x[2].ni = LocalSecret(c, 1) /\ x[2].secret = secret
<1>1. d.data.cookie = IkeCookie(secret, LocalSecret(c, 1), LocalSecret(c, 1), d.from)
  BY RequestFields, Zenon DEF CookieRequired
<1>2. /\ d.data.cookie.peer = d.from /\ d.data.cookie.spi_i = LocalSecret(c, 1)
      /\ d.data.cookie.ni = LocalSecret(c, 1) /\ d.data.cookie.secret = secret
  BY <1>1 DEF IkeCookie
<1>3. d.data.cookie # None
  <2>1. "peer" \in DOMAIN d.data.cookie
    BY <1>1 DEF IkeCookie
  <2>2. "peer" \notin DOMAIN None
    BY Zenon DEF None
  <2> QED
    BY <2>1, <2>2, Zenon
<1>4. PICK x \in challenged : x[2] = d.data.cookie /\ x[1] = d.data.cookie.peer
  BY <1>3, Zenon DEF IsRequest, CookieRead
<1> QED
  BY <1>2, <1>4, Zenon

\* The responder's half of the key exchange.
LEMMA AcceptStep ==
    ASSUME IInv, NEW d \in net, Accept(d)
    PROVE  IInv'
<1>1. PICK c \in Clients : IsRequest(c, d)
  BY ReadByServer, Zenon DEF Accept
<1>2. PICK suite, local, keys, h, out :
        /\ suite \in Select(d.data.sa)
        /\ keys = SessionKeys(suite.dh, local, d.data.ke.public, d.data.nonce, local,
                              d.data.spi_i, local, suite)
        /\ h = [sa |-> Completed(suite, keys), from |-> d.from,
                required |-> required, secret |-> secret]
        /\ halfOpen' = halfOpen \cup {h}
        /\ out = Datagram(Server, d.from, Response(d.data.spi_i, suite, local))
        /\ Receive(d, {out})
  BY ZenonT(30) DEF Accept
<1>3. UNCHANGED <<client, addr, challenged>> /\ ~CookieRequired(d)
  BY Zenon DEF Accept
<1>4. Grows
  BY <1>2, <1>3, Zenon DEF Grows
<1>5. suite \in Select(client[c].offer)
  BY <1>1, <1>2, RequestFields, Zenon
<1>6. h.sa = Agreed(c, suite, local)
  <2>1. keys = SessionKeys(suite.dh, local, LocalSecret(c, 1), LocalSecret(c, 1), local,
                           LocalSecret(c, 1), local, suite)
    BY <1>1, <1>2, RequestFields, Zenon
  <2>2. keys = SessionKeys(suite.dh, LocalSecret(c, 1), local, LocalSecret(c, 1), local,
                           LocalSecret(c, 1), local, suite)
    BY <2>1, Zenon DEF SessionKeys
  <2>3. h.sa = Completed(suite, keys)
    BY <1>2, Zenon
  <2> QED
    BY <2>2, <2>3, Zenon DEF Agreed
<1>7. IsResponse(c, out)'
  <2>1. out.to = d.from /\ d.from \in Addresses
    BY <1>1, <1>2, DatagramFields DEF IsRequest
  <2>2. out.data = Response(LocalSecret(c, 1), suite, local)
    BY <1>1, <1>2, DatagramFields, RequestFields
  <2>3. out.data.kind = "response" /\ out.data.spi_r = local
    BY <2>2 DEF Response
  <2>4. h \in halfOpen' /\ client' = client
    BY <1>2, <1>3, Zenon
  <2> QED
    BY <1>5, <1>6, <2>1, <2>2, <2>3, <2>4, Zenon DEF IsResponse
<1>8. ReturnRoutable'
  <2> SUFFICES ASSUME NEW x \in halfOpen', x.required
               PROVE  \E y \in challenged :
                        /\ y[1] = x.from
                        /\ y[2].spi_i = x.sa.spi_i /\ y[2].ni = x.sa.ni /\ y[2].secret = x.secret
    BY <1>3, Zenon DEF ReturnRoutable
  <2>1. CASE x \in halfOpen
    BY <2>1, Zenon DEF IInv, ReturnRoutable
  <2>2. CASE x = h
    <3>1. x.from = d.from /\ x.required = required /\ x.secret = secret /\ x.sa = h.sa
      BY <1>2, <2>2, Zenon
    <3>2. h.sa.spi_i = LocalSecret(c, 1) /\ h.sa.ni = LocalSecret(c, 1)
      BY <1>6 DEF Agreed, Completed, SessionKeys
    <3>3. \A y \in challenged : y[2].peer = y[1]
      BY Zenon DEF IInv
    <3> QED
      BY <1>1, <1>3, <3>1, <3>2, <3>3, PassesGate
  <2> QED
    BY <1>2, <2>1, <2>2, Zenon
<1>9. \A x \in Clients : ClientOrigin(x)'
  BY <1>3, <1>4, ClientKept, Zenon DEF IInv
<1>10. \A e \in net' : e \in net \/ HasOrigin(e)'
  BY <1>2, <1>7, ReceiveFacts DEF HasOrigin
<1>11. /\ client' = [x \in Clients |-> client'[x]] /\ addr' \in [Clients -> Addresses]
       /\ \A x \in challenged' : x[2].peer = x[1]
  BY <1>3, Zenon DEF IInv
<1> QED
  BY <1>4, <1>8, <1>9, <1>10, <1>11, FromParts, Zenon
\* NO_PROPOSAL_CHOSEN, a rotation of the secret and a change of load.
LEMMA SilentSteps ==
    ASSUME IInv, (\E d \in net : Reject(d)) \/ Rotate \/ LoadChanges
    PROVE  IInv'
<1>1. UNCHANGED <<client, addr, challenged, halfOpen>> /\ net' \subseteq net
  BY ReceiveFacts, Zenon DEF Reject, Rotate, LoadChanges
<1> QED
  BY <1>1, ResponderKeeps, Zenon

\* A step of client c that sends only requests of its own.
LEMMA ClientMoves ==
    ASSUME IInv, NEW c \in Clients, \A d \in net' : d \in net \/ IsRequest(c, d)',
           client' = [client EXCEPT ![c] = client'[c]],
           client'[c].offer = client[c].offer, ClientOrigin(c)',
           addr' \in [Clients -> Addresses], halfOpen' = halfOpen,
           challenged \subseteq challenged', \A x \in challenged' : x[2].peer = x[1]
    PROVE  IInv'
<1>1. client = [x \in Clients |-> client[x]]
  BY Zenon DEF IInv
<1>2. /\ client' = [x \in Clients |-> client'[x]]
      /\ \A x \in Clients \ {c} : client'[x] = client[x]
  BY <1>1, Zenon
<1>3. Grows
  BY <1>2, Zenon DEF Grows
<1>4. \A x \in Clients : ClientOrigin(x)'
  BY <1>2, <1>3, ClientKept, Zenon DEF IInv
<1>5. ReturnRoutable'
  BY Zenon DEF IInv, ReturnRoutable
<1>6. \A d \in net' : d \in net \/ HasOrigin(d)'
  BY Zenon DEF HasOrigin
<1> QED
  BY <1>2, <1>3, <1>4, <1>5, <1>6, FromParts, Zenon

\* The request a client record calls for is the client's.
LEMMA AsksRequest ==
    ASSUME NEW c \in Clients, NEW a \in Addresses, NEW r, r.offer = client'[c].offer,
           CookieRead(r.cookie)'
    PROVE  IsRequest(c, Asks(c, a, r))'
<1> DEFINE m == Request(c, r.offer, r.group, r.cookie)
<1>1. Asks(c, a, r).from = a /\ Asks(c, a, r).to = Server /\ Asks(c, a, r).data = m
  BY DatagramFields DEF Asks
<1>2. m.kind = "request" /\ m.ke.group = r.group /\ m.cookie = r.cookie
  BY Zenon DEF Request, Ke
<1> HIDE DEF m
<1>3. m = Request(c, client'[c].offer, m.ke.group, m.cookie)
  BY <1>2, Zenon DEF m
<1> QED
  BY <1>1, <1>2, <1>3, Zenon DEF IsRequest

\* What ClientOrigin says of a client that has not completed.
LEMMA ClientFacts ==
    ASSUME IInv, NEW c \in Clients
    PROVE  /\ client = [x \in Clients |-> client[x]]
           /\ addr \in [Clients -> Addresses] /\ addr[c] \in Addresses
           /\ \A x \in challenged : x[2].peer = x[1]
           /\ client[c] \in [pc : {"idle", "waiting", "failed", "done"},
                              offer : {client[c].offer}, group : {client[c].group},
                              cookie : {client[c].cookie}, sa : {client[c].sa}]
           /\ CookieRead(client[c].cookie)
           /\ client[c].pc # "done" => client[c].sa = {}
BY Zenon DEF IInv, ClientOrigin

\* The first request.
LEMMA StartStep ==
    ASSUME IInv, NEW c \in Clients, Start(c)
    PROVE  IInv'
<1>1. PICK r, out : /\ r = [client[c] EXCEPT !.pc = "waiting",
                                             !.group = OfferDhGroup(client[c].offer)]
                    /\ client' = [client EXCEPT ![c] = r]
                    /\ out = Asks(c, addr[c], r)
                    /\ Send({out})
  BY Zenon DEF Start
<1>2. UNCHANGED <<addr, halfOpen, challenged>> /\ client[c].pc = "idle"
  BY Zenon DEF Start
<1>3. /\ r \in [pc : {"waiting"}, offer : {client[c].offer}, group : {r.group},
                cookie : {client[c].cookie}, sa : {client[c].sa}]
      /\ client[c].sa = {}
  BY <1>1, <1>2, ClientFacts, ZenonT(30)
<1>4. client'[c] = r
  BY <1>1, ClientFacts, Zenon
<1>5. CookieRead(r.cookie)'
  BY <1>2, <1>3, ClientFacts DEF CookieRead
<1>6. ClientOrigin(c)'
  BY <1>3, <1>4, <1>5, Zenon DEF ClientOrigin
<1>7. IsRequest(c, out)'
  BY <1>1, <1>3, <1>4, <1>5, ClientFacts, AsksRequest, Zenon
<1>8. net' \subseteq net \cup {out}
  BY <1>1, Zenon DEF Send
<1>9. client' = [client EXCEPT ![c] = client'[c]] /\ client'[c].offer = client[c].offer
  BY <1>1, <1>3, <1>4, Zenon
<1> QED
  BY <1>2, <1>6, <1>7, <1>8, <1>9, ClientFacts, ClientMoves, Zenon
\* The request repeated with a cookie, which was read at the address it names.
LEMMA EchoCookieStep ==
    ASSUME IInv, NEW c \in Clients, NEW d \in net, EchoCookie(c, d)
    PROVE  IInv'
<1>1. PICK r, out : /\ r = [client[c] EXCEPT !.cookie = d.data.cookie]
                    /\ client' = [client EXCEPT ![c] = r]
                    /\ out = Asks(c, addr[c], r)
                    /\ Receive(d, {out})
  BY Zenon DEF EchoCookie
<1>2. /\ UNCHANGED <<addr, halfOpen>> /\ client[c].pc = "waiting"
      /\ challenged' = challenged \cup {<<addr[c], d.data.cookie>>}
  BY Zenon DEF EchoCookie, Reads
<1>3. d.data.cookie.peer = addr[c]
  BY ReadByClient, Zenon DEF EchoCookie, IsChallenge
<1>4. /\ r \in [pc : {"waiting"}, offer : {client[c].offer}, group : {client[c].group},
                cookie : {d.data.cookie}, sa : {client[c].sa}]
      /\ client[c].sa = {}
  BY <1>1, <1>2, ClientFacts
<1>5. client'[c] = r
  BY <1>1, ClientFacts, Zenon
<1>6. CookieRead(r.cookie)'
  <2>1. <<addr[c], d.data.cookie>> \in challenged'
    BY <1>2, Zenon
  <2>2. r.cookie = d.data.cookie
    BY <1>4, Zenon
  <2> QED
    BY <1>3, <2>1, <2>2, Zenon DEF CookieRead
<1>7. ClientOrigin(c)'
  BY <1>4, <1>5, <1>6, Zenon DEF ClientOrigin
<1>8. IsRequest(c, out)'
  BY <1>1, <1>4, <1>5, <1>6, ClientFacts, AsksRequest, Zenon
<1>9. \A e \in net' : e \in net \/ IsRequest(c, e)'
  BY <1>1, <1>8, ReceiveFacts
<1>10. client' = [client EXCEPT ![c] = client'[c]] /\ client'[c].offer = client[c].offer
  BY <1>1, <1>4, <1>5, Zenon
<1>11. \A x \in challenged' : x[2].peer = x[1]
  BY <1>2, <1>3, ClientFacts
<1>12. challenged \subseteq challenged' /\ halfOpen' = halfOpen
       /\ addr' \in [Clients -> Addresses]
  BY <1>2, ClientFacts, Zenon
<1> QED
  BY <1>7, <1>9, <1>10, <1>11, <1>12, ClientMoves, Zenon

\* The request repeated with another KE payload, or nothing at all.
LEMMA ChangeGroupStep ==
    ASSUME IInv, NEW c \in Clients, NEW d \in net, ChangeGroup(c, d)
    PROVE  IInv'
<1>1. PICK r, out : /\ r = [client[c] EXCEPT !.group = d.data.group]
                    /\ client' = [client EXCEPT ![c] = r]
                    /\ out = Asks(c, addr[c], r)
                    /\ Receive(d, IF r = client[c] THEN {} ELSE {out})
  BY Zenon DEF ChangeGroup
<1>2. UNCHANGED <<addr, halfOpen, challenged>> /\ client[c].pc = "waiting"
  BY Zenon DEF ChangeGroup, Reads
<1>3. /\ r \in [pc : {"waiting"}, offer : {client[c].offer}, group : {d.data.group},
                cookie : {client[c].cookie}, sa : {client[c].sa}]
      /\ client[c].sa = {}
  BY <1>1, <1>2, ClientFacts
<1>4. client'[c] = r
  BY <1>1, ClientFacts, Zenon
<1>5. CookieRead(r.cookie)'
  BY <1>2, <1>3, ClientFacts DEF CookieRead
<1>6. ClientOrigin(c)'
  BY <1>3, <1>4, <1>5, Zenon DEF ClientOrigin
<1>7. IsRequest(c, out)'
  BY <1>1, <1>3, <1>4, <1>5, ClientFacts, AsksRequest, Zenon
<1>8. \A e \in net' : e \in net \/ IsRequest(c, e)'
  BY <1>1, <1>7, ReceiveFacts
<1>9. client' = [client EXCEPT ![c] = client'[c]] /\ client'[c].offer = client[c].offer
  BY <1>1, <1>3, <1>4, Zenon
<1> QED
  BY <1>2, <1>6, <1>8, <1>9, ClientFacts, ClientMoves, Zenon

\* initiator_complete: the one suite the response names is the responder's, and so
\* are the keys, the two private values being combined either way round.
LEMMA CompletesAgreed ==
    ASSUME NEW c \in Clients, NEW d, NEW suite \in Select(client[c].offer),
           d.data = Response(LocalSecret(c, 1), suite, d.data.spi_r)
    PROVE  InitiatorComplete(c, d.data) = {Agreed(c, suite, d.data.spi_r)}
<1>1. PICK local : local = d.data.spi_r
  BY Zenon
<1>2. /\ d.data.sa = <<ToProposal(suite)>> /\ d.data.ke.group = suite.dh
      /\ d.data.ke.public = local /\ d.data.nonce = local
  BY <1>1 DEF Response, Ke
<1>3. {s \in Select(d.data.sa) : s.dh = d.data.ke.group} = {suite}
  BY <1>2, SelectEcho, Zenon
<1> QED
  BY <1>1, <1>2, <1>3, Zenon DEF InitiatorComplete, Agreed

\* The initiator's half of the key exchange.
LEMMA CompleteStep ==
    ASSUME IInv, NEW c \in Clients, NEW d \in net, Complete(c, d)
    PROVE  IInv'
<1>1. IsResponse(c, d) /\ client[c].pc = "waiting"
  BY ReadByClient, Zenon DEF Complete, Reads
<1>2. PICK suite \in Select(client[c].offer), h \in halfOpen :
        /\ d.data = Response(LocalSecret(c, 1), suite, d.data.spi_r)
        /\ h.sa = Agreed(c, suite, d.data.spi_r)
  BY <1>1, Zenon DEF IsResponse
<1>3. InitiatorComplete(c, d.data) = {h.sa}
  BY <1>2, CompletesAgreed, Zenon
<1>4. /\ client' = [client EXCEPT ![c].pc = "done", ![c].sa = {h.sa}]
      /\ UNCHANGED <<addr, halfOpen, challenged>> /\ net' \subseteq net
  <2>1. PICK sa : /\ sa = InitiatorComplete(c, d.data)
                  /\ client' = [client EXCEPT ![c].pc = IF sa = {} THEN "failed" ELSE "done",
                                              ![c].sa = sa]
                  /\ Receive(d, {})
    BY Zenon DEF Complete
  <2>2. sa # {} /\ sa = {h.sa}
    BY <1>3, <2>1, Zenon
  <2>3. client' = [client EXCEPT ![c].pc = "done", ![c].sa = {h.sa}]
    BY <2>1, <2>2, Zenon
  <2>4. UNCHANGED <<addr, halfOpen, challenged>>
    BY Zenon DEF Complete
  <2>5. net' \subseteq net
    BY <2>1, ReceiveFacts
  <2> QED
    BY <2>3, <2>4, <2>5, Zenon
<1>5. /\ client'[c] \in [pc : {"done"}, offer : {client[c].offer}, group : {client[c].group},
                         cookie : {client[c].cookie}, sa : {{h.sa}}]
      /\ client' = [client EXCEPT ![c] = client'[c]]
  BY <1>4, ClientFacts, Zenon
<1>6. h.sa.suite = suite
  BY <1>2 DEF Agreed, Completed
<1>7. CookieRead(client[c].cookie)'
  BY <1>4, <1>5, ClientFacts DEF CookieRead
<1>8. ClientOrigin(c)'
  BY <1>2, <1>4, <1>5, <1>6, <1>7, Zenon DEF ClientOrigin
<1>9. client'[c].offer = client[c].offer
  BY <1>5, Zenon
<1> QED
  BY <1>4, <1>5, <1>8, <1>9, ClientFacts, ClientMoves, Zenon

\* A new address, and the request repeated from there.
LEMMA RebindStep ==
    ASSUME IInv, NEW c \in Clients, Rebind(c)
    PROVE  IInv'
<1>1. PICK a, out :
        /\ a \in Addresses /\ addr' = [addr EXCEPT ![c] = a]
        /\ out = Asks(c, a, client[c])
        /\ Send(IF client[c].pc = "waiting" THEN {out} ELSE {})
  BY Zenon DEF Rebind
<1>2. UNCHANGED <<client, halfOpen, challenged>>
  BY Zenon DEF Rebind
<1>3. CookieRead(client[c].cookie)'
  BY <1>2, ClientFacts, Zenon DEF CookieRead
<1>4. IsRequest(c, out)'
  BY <1>1, <1>2, <1>3, AsksRequest, Zenon
<1>5. \A e \in net' : e \in net \/ IsRequest(c, e)'
  BY <1>1, <1>4, Zenon DEF Send
<1>6. ClientOrigin(c)'
  BY <1>2, ClientKept, Zenon DEF Grows, IInv
<1>7. client' = [client EXCEPT ![c] = client'[c]] /\ addr' \in [Clients -> Addresses]
  BY <1>1, <1>2, ClientFacts, Zenon
<1> QED
  BY <1>2, <1>5, <1>6, <1>7, ClientFacts, ClientMoves, Zenon

-----------------------------------------------------------------------------
(* Theorems *)

\* Every cookie, request, answer and SA of an IKE_SA_INIT has the origin the
\* inductive invariant gives it, at every step of client and responder.
THEOREM Invariance == Spec => []IInv
<1>1. Init => IInv
  <2> SUFFICES ASSUME Init PROVE IInv
    BY Zenon
  <2>1. /\ client = [c \in Clients |-> client[c]]
        /\ \A c \in Clients : client[c] \in [pc : {"idle"}, offer : Offers, group : {"none"},
                                             cookie : {None}, sa : {{}}]
    BY Zenon DEF Init
  <2>2. \A c \in Clients : ClientOrigin(c)
    BY <2>1, Zenon DEF ClientOrigin, CookieRead
  <2> QED
    BY <2>1, <2>2, Zenon DEF Init, NetInit, IInv, ReturnRoutable
<1>2. IInv /\ [Next]_vars => IInv'
  <2> SUFFICES ASSUME IInv, [Next]_vars PROVE IInv'
    BY Zenon
  <2>1. CASE ResponderNext
    <3>1. PICK d \in net : Challenge(d) \/ RefuseKe(d) \/ Accept(d) \/ Reject(d)
      BY <2>1, Zenon DEF ResponderNext
    <3> QED
      BY <3>1, ChallengeStep, RefuseKeStep, AcceptStep, SilentSteps, Zenon
  <2>2. CASE Rotate \/ LoadChanges
    BY <2>2, SilentSteps, Zenon
  <2>3. ASSUME NEW c \in Clients, Start(c) \/ ClientReceive(c) \/ Rebind(c)
        PROVE  IInv'
    BY <2>3, StartStep, EchoCookieStep, ChangeGroupStep, CompleteStep, RebindStep, Zenon
       DEF ClientReceive
  <2>4. CASE UNCHANGED vars
    <3>1. UNCHANGED <<client, addr, challenged, halfOpen>> /\ net' \subseteq net
      BY <2>4, Zenon DEF vars
    <3> QED
      BY <3>1, ResponderKeeps, Zenon
  <2> QED
    BY <2>1, <2>2, <2>3, <2>4, Zenon DEF Next
<1> QED
  BY <1>1, <1>2, PTL DEF Spec

\* Return routability of the COOKIE exchange (responder_respond_natt): while the
\* gate is on, only an initiator that has read a challenge at the very address of
\* its request, under the secret in force, gets a half-open SA.
THEOREM GateRoutable == Spec => []ReturnRoutable
<1>1. IInv => ReturnRoutable
  BY Zenon DEF IInv
<1> QED
  BY <1>1, Invariance, PTL

\* Whatever initiator_complete returns, the responder holds the same SA: suite,
\* keys, SPIs and nonces.
THEOREM EndsAgree == Spec => []KeysAgree
<1>1. IInv => KeysAgree
  BY Zenon DEF IInv, ClientOrigin, KeysAgree
<1> QED
  BY <1>1, Invariance, PTL

\* select never mixes transforms of two proposals, and what the initiator takes
\* from the response is a suite it offered.
THEOREM OneProposal == Spec => []SuiteFromOneProposal
<1>1. IInv => SuiteFromOneProposal
  <2> SUFFICES ASSUME IInv, NEW c \in Clients, NEW sa \in client[c].sa
               PROVE  \E p \in InSeq(client[c].offer) :
                        /\ p.num = sa.suite.num /\ p.protocol = "IKE"
                        /\ sa.suite.encr \in p.encr /\ sa.suite.dh \in InSeq(p.dh)
                        /\ sa.suite.integ \subseteq p.integ
    BY Zenon DEF SuiteFromOneProposal
  <2>1. sa.suite \in Select(client[c].offer)
    BY DEF IInv, ClientOrigin
  <2>2. PICK p \in InSeq(client[c].offer) : sa.suite \in SelectFromProposal(p)
    BY <2>1, SelectFromOne, Zenon
  <2> QED
    BY <2>2, FromProposal
<1> QED
  BY <1>1, Invariance, PTL
=============================================================================
