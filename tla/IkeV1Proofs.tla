---------------------------- MODULE IkeV1Proofs -----------------------------
(***************************************************************************)
(* The IKEv1 drivers for every set of clients, every assignment of         *)
(* pre-shared keys, and any number of connect calls and duplications: type *)
(* correctness, what Established and ChildSaEstablished promise, fresh     *)
(* keys for every CHILD SA, and the service of module TunnelService.       *)
(*                                                                         *)
(* All rest on IInv: whatever is in a map, an event or the network is a    *)
(* function of the connect call's draw and of the two draws the server     *)
(* made for it.  The keys, IVs and hashes of one Quick Mode name all three *)
(* draws, so a message that verifies belongs to the state it verifies for. *)
(***************************************************************************)
EXTENDS IkeV1, TLAPS

-----------------------------------------------------------------------------
(* Fields of the messages, and what can be told from them *)

\* A datagram on the network: addresses and message.
LEMMA DatagramFields ==
    ASSUME NEW x, NEW y, NEW m
    PROVE  /\ Datagram(x, y, m).from = x
           /\ Datagram(x, y, m).to = y
           /\ Datagram(x, y, m).data = m
BY Zenon DEF Datagram

\* Aggressive Mode messages 1 and 3, as initiate_aggressive builds them.
LEMMA AggressiveFields ==
    ASSUME NEW l, NEW s
    PROVE  /\ AM1(l[1], l).exchange = "AGGRESSIVE" /\ AM1(l[1], l).first = "SA"
           /\ AM1(l[1], l).cky_i = l /\ AM1(l[1], l).ke = l
           /\ AM1(l[1], l).nonce = l /\ AM1(l[1], l).id = l[1]
           /\ AM3(Phase1Of(l, s)).exchange = "AGGRESSIVE"
           /\ AM3(Phase1Of(l, s)).first = "HASH"
BY Zenon DEF AM1, AM3

\* Aggressive Mode message 2, as respond_aggressive answers message 1.
LEMMA AM2Fields ==
    ASSUME NEW l, NEW s, NEW m, m = AM2(AM1(l[1], l), s)
    PROVE  /\ m.exchange = "AGGRESSIVE"
           /\ m.cky_r = s /\ m.ke = s /\ m.nonce = s
           /\ m.hash = HashR(Skeyid(ServerPsk, l, s), s, l, s, l, Server)
           /\ m.id = Server
BY Zenon DEF AM1, AM2

\* The cookies and keys of Phase 1 name the draws it was made from.
LEMMA Phase1Fields ==
    ASSUME NEW l, NEW s
    PROVE  /\ Phase1Of(l, s).cky_i = l /\ Phase1Of(l, s).cky_r = s
           /\ Phase1Of(l, s).keys.cky_i = l /\ Phase1Of(l, s).keys.cky_r = s
BY Zenon DEF Phase1Of, Phase1State, SkeyidKeys

\* Two Phase 1 states with the same keys come from the same draws.
LEMMA Phase1Injective ==
    ASSUME NEW l, NEW s, NEW k, NEW x, Phase1Of(l, s).keys = Phase1Of(k, x).keys
    PROVE  l = k /\ s = x
BY Phase1Fields

\* Quick Mode message 1: its Message ID, key and IV name the connect call.
LEMMA QM1Fields ==
    ASSUME NEW l, NEW s
    PROVE  /\ QM1Of(l, s).exchange = "QUICK"
           /\ QM1Of(l, s).cky_i = l
           /\ QM1Of(l, s).msgid = l
           /\ QM1Of(l, s).key = Phase1Of(l, s).keys
           /\ QM1Of(l, s).iv = <<"iv0", Phase1Of(l, s).phase1_iv, l>>
           /\ QM1Of(l, s).plain.spi = l /\ QM1Of(l, s).plain.nonce = l
BY Phase1Fields, Zenon DEF QM1Of, QM1, Encrypted, Phase2Iv

\* Quick Mode message 2: the SPI and nonce are the draw the server answers with.
LEMMA QM2Fields ==
    ASSUME NEW l, NEW s, NEW t
    PROVE  /\ QM2Of(l, s, t).exchange = "QUICK"
           /\ QM2Of(l, s, t).key = Phase1Of(l, s).keys
           /\ QM2Of(l, s, t).plain.spi = t /\ QM2Of(l, s, t).plain.nonce = t
BY Zenon DEF QM2Of, QM2, Encrypted

\* A chained IV never is the first IV of an exchange, and names what it continues.
LEMMA ChainedIv ==
    ASSUME NEW m
    PROVE  NextIv(m)[1] = "last block" /\ NextIv(m)[3] = m.plain
BY Zenon DEF NextIv

\* Quick Mode message 3: its IV continues message 2.
LEMMA QM3Fields ==
    ASSUME NEW l, NEW s, NEW t
    PROVE  /\ QM3Of(l, s, t).exchange = "QUICK"
           /\ QM3Of(l, s, t).cky_i = l
           /\ QM3Of(l, s, t).key = Phase1Of(l, s).keys
           /\ QM3Of(l, s, t).iv = NextIv(QM2Of(l, s, t))
BY Phase1Fields, Zenon DEF QM3Of, QM3, Encrypted

\* What the server keeps of a Quick Mode between messages 1 and 3.
LEMMA QuickFields ==
    ASSUME NEW l, NEW s, NEW t
    PROVE  /\ QuickOf(l, s, t).keys = Phase1Of(l, s).keys
           /\ QuickOf(l, s, t).ni = l /\ QuickOf(l, s, t).nr = t
           /\ QuickOf(l, s, t).local_spi = t /\ QuickOf(l, s, t).peer_spi = l
           /\ QuickOf(l, s, t).iv2 = NextIv(QM2Of(l, s, t))
BY Zenon DEF QuickOf

\* derive_child: the server's end, whose outbound key names all three draws, and
\* its mirror image on the client.
LEMMA ChildFields ==
    ASSUME NEW l, NEW s, NEW t
    PROVE  /\ ServerChild(l, s, t).inbound.spi = t
           /\ ServerChild(l, s, t).outbound.key = Keymat(Phase1Of(l, s).keys, l, l, t)
           /\ Mirror(ClientChild(l, s, t), ServerChild(l, s, t))
BY Zenon DEF ServerChild, ClientChild, DeriveChild, EspSa, Mirror

\* The key a server end sends under determines the three draws of its Quick Mode.
LEMMA ServerChildKey ==
    ASSUME NEW l, NEW s, NEW t, NEW k, NEW x, NEW y,
           ServerChild(l, s, t).outbound.key = ServerChild(k, x, y).outbound.key
    PROVE  l = k /\ s = x /\ t = y
<1>1. Keymat(Phase1Of(l, s).keys, l, l, t) = Keymat(Phase1Of(k, x).keys, k, k, y)
  BY ChildFields
<1>2. Phase1Of(l, s).keys = Phase1Of(k, x).keys /\ t = y
  BY <1>1, Zenon DEF Keymat
<1> QED
  BY <1>2, Phase1Fields

\* connect calls are pairs of a client and a positive number.
LEMMA InCalls ==
    ASSUME NEW l
    PROVE  l \in Calls <=> \E c \in Clients : \E n \in 1..client[c].attempt : l = <<c, n>>
BY DEF Calls

\* A connect call is made by a client, never by the server.
LEMMA CallIsClients ==
    ASSUME NEW l \in Calls
    PROVE  l[1] \in Clients /\ l = <<l[1], l[2]>> /\ l[1] # Server
BY InCalls, IkeV1Assumption

\* Messages 1 and 3 of Aggressive Mode, told apart by their first payload.
LEMMA AsAM1 ==
    ASSUME NEW d, IsAM1(d)
    PROVE  d.data.exchange = "AGGRESSIVE" /\ d.data.first = "SA"
<1>1. PICK l \in Calls : d = Datagram(l[1], Server, AM1(l[1], l))
  BY Zenon DEF IsAM1
<1> QED
  BY <1>1, AggressiveFields, DatagramFields

\* Aggressive Mode message 3 starts with a HASH payload.
LEMMA AsAM3 ==
    ASSUME NEW d, IsAM3(d)
    PROVE  d.data.exchange = "AGGRESSIVE" /\ d.data.first = "HASH"
<1>1. PICK l \in Calls, s \in Drawn : d = Datagram(l[1], Server, AM3(Phase1Of(l, s)))
  BY Zenon DEF IsAM3
<1> QED
  BY <1>1, AggressiveFields, DatagramFields

\* The datagrams of Quick Mode, field by field.
LEMMA AsQM1 ==
    ASSUME NEW d, IsQM1(d)
    PROVE  /\ d.data.exchange = "QUICK"
           /\ \E l \in Calls, s \in Drawn :
                d.from = l[1] /\ d.data = QM1Of(l, s) /\ Psk[l[1]] = ServerPsk
<1>1. PICK l \in Calls, s \in Drawn : d = Datagram(l[1], Server, QM1Of(l, s)) /\ Psk[l[1]] = ServerPsk
  BY Zenon DEF IsQM1
<1> QED
  BY <1>1, QM1Fields, DatagramFields

\* Quick Mode message 2 comes with the event of the server that answered.
LEMMA AsQM2 ==
    ASSUME NEW d, IsQM2(d)
    PROVE  /\ d.data.exchange = "QUICK"
           /\ \E l \in Calls, s, t \in Drawn : d.data = QM2Of(l, s, t) /\ Answered(l, s, t)
<1>1. PICK l \in Calls, s \in Drawn, t \in Drawn :
            d = Datagram(Server, l[1], QM2Of(l, s, t)) /\ Answered(l, s, t)
  BY Zenon DEF IsQM2
<1> QED
  BY <1>1, QM2Fields, DatagramFields

\* Quick Mode message 3 is sent by a connect call that returned.
LEMMA AsQM3 ==
    ASSUME NEW d, IsQM3(d)
    PROVE  /\ d.data.exchange = "QUICK"
           /\ \E l \in Calls, s, t \in Drawn :
                d.data = QM3Of(l, s, t) /\ <<l, ClientChild(l, s, t)>> \in returned
<1>1. PICK l \in Calls, s \in Drawn, t \in Drawn :
            /\ d = Datagram(l[1], Server, QM3Of(l, s, t))
            /\ <<l, ClientChild(l, s, t)>> \in returned
  BY Zenon DEF IsQM3
<1> QED
  BY <1>1, QM3Fields, DatagramFields

\* What a datagram to the server or to a client can be.
LEMMA ToServer ==
    ASSUME IInv, NEW d \in net, d.to = Server
    PROVE  IsAM1(d) \/ IsAM3(d) \/ IsQM1(d) \/ IsQM3(d)
<1>1. ASSUME IsAM2(d) \/ IsQM2(d) PROVE FALSE
  <2>1. PICK l \in Calls : d.to = l[1]
    BY <1>1, DatagramFields DEF IsAM2, IsQM2
  <2> QED
    BY <2>1, CallIsClients, Zenon
<1> QED
  BY <1>1, Zenon DEF IInv, NetOrigin

\* What reaches a client is an answer: Aggressive Mode message 2 or Quick Mode message 2.
LEMMA ToClient ==
    ASSUME IInv, NEW d \in net, NEW c \in Clients, d.to = c
    PROVE  IsAM2(d) \/ IsQM2(d)
<1>1. ASSUME IsAM1(d) \/ IsAM3(d) \/ IsQM1(d) \/ IsQM3(d) PROVE FALSE
  <2>1. CASE IsAM1(d)
    BY <2>1, IkeV1Assumption, DatagramFields DEF IsAM1
  <2>2. CASE IsAM3(d)
    BY <2>2, IkeV1Assumption, DatagramFields DEF IsAM3
  <2>3. CASE IsQM1(d)
    BY <2>3, IkeV1Assumption, DatagramFields DEF IsQM1
  <2>4. CASE IsQM3(d)
    BY <2>4, IkeV1Assumption, DatagramFields DEF IsQM3
  <2> QED
    BY <1>1, <2>1, <2>2, <2>3, <2>4, Zenon
<1> QED
  BY <1>1, Zenon DEF IInv, NetOrigin

-----------------------------------------------------------------------------
(* What has an origin keeps it while calls, draws, events and results grow *)

Grows ==
    /\ Calls \subseteq Calls' /\ Drawn \subseteq Drawn'
    /\ events \subseteq events' /\ returned \subseteq returned'

\* Attempts and draws are counters: while they do not go down, Grows holds.
LEMMA CountersGrow ==
    ASSUME \A c \in Clients : /\ client[c].attempt \in Nat /\ client'[c].attempt \in Nat
                              /\ client[c].attempt <= client'[c].attempt,
           draws \in Nat, draws' \in Nat, draws <= draws',
           events \subseteq events', returned \subseteq returned'
    PROVE  Grows
<1>1. Calls \subseteq Calls'
  <2> SUFFICES ASSUME NEW l \in Calls PROVE l \in Calls'
    BY Zenon
  <2>1. PICK c \in Clients : \E n \in 1..client[c].attempt : l = <<c, n>>
    BY InCalls, Zenon
  <2>2. PICK n \in 1..client[c].attempt : l = <<c, n>>
    BY <2>1, Zenon
  <2>3. n \in 1..client'[c].attempt
    OBVIOUS
  <2> QED
    BY <2>2, <2>3 DEF Calls
<1>2. Drawn \subseteq Drawn'
  BY DEF Drawn
<1> QED
  BY <1>1, <1>2, Zenon DEF Grows

\* An event keeps its origin.
LEMMA EventKept ==
    ASSUME Grows, NEW e, EventOrigin(e)
    PROVE  EventOrigin(e)'
BY Zenon DEF Grows, EventOrigin

\* A Quick Mode that was answered stays answered.
LEMMA AnsweredKept ==
    ASSUME Grows, NEW l, NEW s, NEW t, Answered(l, s, t)
    PROVE  Answered(l, s, t)'
BY Zenon DEF Grows, Answered

\* A datagram keeps its origin.
LEMMA NetKept ==
    ASSUME Grows, NEW d, NetOrigin(d)
    PROVE  NetOrigin(d)'
<1>1. CASE IsAM1(d) \/ IsAM2(d) \/ IsAM3(d)
  BY <1>1, Zenon DEF Grows, NetOrigin, IsAM1, IsAM2, IsAM3
<1>2. CASE IsQM1(d)
  BY <1>2, Zenon DEF Grows, NetOrigin, IsQM1
<1>3. CASE IsQM2(d)
  BY <1>3, AnsweredKept, Zenon DEF Grows, NetOrigin, IsQM2
<1>4. CASE IsQM3(d)
  BY <1>4, Zenon DEF Grows, NetOrigin, IsQM3
<1> QED
  BY <1>1, <1>2, <1>3, <1>4, Zenon DEF NetOrigin

\* A session the step does not touch keeps its origin.
LEMMA SessionKept ==
    ASSUME Grows, ChildEvents' = ChildEvents, NEW k, sessions'[k] = sessions[k], SessionOrigin(k)
    PROVE  SessionOrigin(k)'
BY Zenon DEF Grows, SessionOrigin

\* A client the step does not touch keeps its origin.
LEMMA ClientKept ==
    ASSUME Grows, NEW c, client'[c] = client[c], ClientOrigin(c)
    PROVE  ClientOrigin(c)'
BY Zenon DEF Grows, ClientOrigin, Local

ClientShape(c) ==
    client[c] = [pc |-> client[c].pc, attempt |-> client[c].attempt,
                 phase1 |-> client[c].phase1, child |-> client[c].child]

Pcs == {"idle", "aggressive", "quick", "established", "failed"}

\* What IInv says of a client's record.
LEMMA ClientFacts ==
    ASSUME IInv
    PROVE  /\ client = [x \in Clients |-> client[x]]
           /\ \A c \in Clients : /\ client[c].pc \in Pcs
                                 /\ client[c].attempt \in Nat
                                 /\ client[c].attempt <= MaxAttempts[c]
                                 /\ ClientShape(c)
                                 /\ MaxAttempts[c] \in Nat
           /\ draws \in Nat /\ dups \in 0..MaxDup
<1>1. /\ \A c \in Clients : MaxAttempts[c] \in Nat
      /\ \A c \in Clients : client[c].pc \in Pcs /\ client[c].attempt \in 0..MaxAttempts[c]
      /\ draws \in Nat /\ dups \in 0..MaxDup
  BY IkeV1Assumption, Zenon DEF IInv, TypeOK, Pcs
<1>2. client = [c \in Clients |-> [pc |-> client[c].pc, attempt |-> client[c].attempt,
                                   phase1 |-> client[c].phase1, child |-> client[c].child]]
  BY Zenon DEF IInv
<1>3. client = [x \in Clients |-> client[x]]
  BY <1>2, Zenon
<1>4. \A c \in Clients : ClientShape(c)
  BY <1>2, Zenon DEF ClientShape
<1> QED
  BY <1>1, <1>3, <1>4

\* The pieces an action has to show; the rest of IInv' follows from growth.
LEMMA IInvFromParts ==
    ASSUME IInv, Grows, dups' \in 0..MaxDup, draws' \in Nat,
           client' = [x \in Clients |-> client'[x]],
           \A c \in Clients : \/ client'[c] = client[c]
                              \/ /\ client'[c].pc \in Pcs
                                 /\ client'[c].attempt \in 0..MaxAttempts[c]
                                 /\ ClientShape(c)' /\ ClientOrigin(c)',
           \A k \in DOMAIN sessions' :
                \/ k \in DOMAIN sessions /\ sessions'[k] = sessions[k] /\ ChildEvents' = ChildEvents
                \/ SessionOrigin(k)',
           \A e \in events' : e \in events \/ EventOrigin(e)',
           \A r \in returned' : \/ r \in returned
                                \/ /\ Psk[r[1][1]] = ServerPsk
                                   /\ \E e \in events' : e.kind = "QuickSaInit" /\ e.cky_i = r[1],
           \A d \in net' : d \in net \/ NetOrigin(d)'
    PROVE  IInv'
<1>1. \A k \in DOMAIN sessions' : SessionOrigin(k)'
  BY SessionKept, Zenon DEF IInv
<1>2. \A e \in events' : EventOrigin(e)'
  BY EventKept, Zenon DEF IInv
<1>3. \A d \in net' : NetOrigin(d)'
  BY NetKept, Zenon DEF IInv
<1>4. \A c \in Clients : ClientOrigin(c)'
  BY ClientKept, Zenon DEF IInv
<1>5. ReturnedAuthentic'
  BY Zenon DEF IInv, ReturnedAuthentic, Grows
<1>6. \A c \in Clients : client'[c].pc \in Pcs /\ client'[c].attempt \in 0..MaxAttempts[c] /\ ClientShape(c)'
  <2>1. ASSUME NEW c \in Clients, client'[c] = client[c]
        PROVE  client'[c].pc \in Pcs /\ client'[c].attempt \in 0..MaxAttempts[c] /\ ClientShape(c)'
    BY <2>1, ClientFacts DEF ClientShape
  <2> QED
    BY <2>1, Zenon
<1>7. client' = [c \in Clients |-> [pc |-> client'[c].pc, attempt |-> client'[c].attempt,
                                    phase1 |-> client'[c].phase1, child |-> client'[c].child]]
  BY <1>6, Zenon DEF ClientShape
<1>8. TypeOK'
  <2>1. \A k \in DOMAIN sessions' : sessions'[k].phase1.cky_i = k
    BY <1>1, Phase1Fields DEF SessionOrigin
  <2> QED
    BY <1>6, <2>1, Zenon DEF TypeOK, Pcs
<1> QED
  BY <1>1, <1>2, <1>3, <1>4, <1>5, <1>7, <1>8, Zenon DEF IInv

-----------------------------------------------------------------------------
(* The inductive step, one lemma per action *)

\* What recv_from takes was in the network; what remains was there or is sent in return.
LEMMA ReceiveFacts ==
    ASSUME NEW d, NEW out, dups \in 0..MaxDup, Receive(d, out)
    PROVE  d \in net /\ net' \subseteq net \cup out /\ dups' \in 0..MaxDup
BY UdpNetAssumption DEF Receive

\* initiate_aggressive.
LEMMA ConnectStep ==
    ASSUME IInv, NEW c \in Clients, Connect(c)
    PROVE  IInv'
<1>0. PICK n, out : /\ n = client[c].attempt + 1
                    /\ out = Datagram(c, Server, AM1(c, <<c, n>>))
  BY Zenon
<1>1. /\ client' = [client EXCEPT ![c] =
                        [pc |-> "aggressive", attempt |-> n, phase1 |-> None, child |-> None]]
      /\ client[c].attempt < MaxAttempts[c]
      /\ net' = net \cup {out} /\ dups' = dups
      /\ UNCHANGED <<returned, sessions, children, events, draws>>
  BY <1>0, Zenon DEF Connect, Send
<1>2. /\ client' = [x \in Clients |-> client'[x]]
      /\ client'[c] = [pc |-> "aggressive", attempt |-> n, phase1 |-> None, child |-> None]
      /\ \A x \in Clients : x # c => client'[x] = client[x]
      /\ n \in Nat /\ n > 0 /\ n \in 0..MaxAttempts[c]
  <2>1. client = [x \in Clients |-> client[x]]
    BY ClientFacts, Zenon
  <2>2. client[c].attempt \in Nat /\ MaxAttempts[c] \in Nat
    BY ClientFacts, Zenon
  <2>3. n \in Nat /\ n > 0 /\ n \in 0..MaxAttempts[c]
    BY <1>0, <1>1, <2>2
  <2> QED
    BY <1>1, <2>1, <2>3, Zenon
<1>3. Grows
  BY <1>0, <1>1, <1>2, ClientFacts, CountersGrow
<1>4. NetOrigin(out)'
  <2>1. <<c, n>> \in Calls'
    BY <1>2 DEF Calls
  <2>2. out = Datagram(<<c, n>>[1], Server, AM1(<<c, n>>[1], <<c, n>>))
    BY <1>0, Zenon
  <2> QED
    BY <2>1, <2>2, Zenon DEF NetOrigin, IsAM1
<1>5. ClientShape(c)' /\ ClientOrigin(c)'
  BY <1>2 DEF ClientShape, ClientOrigin
<1>6. ChildEvents' = ChildEvents
  BY <1>1, Zenon DEF ChildEvents
<1> QED
  BY <1>1, <1>2, <1>3, <1>4, <1>5, <1>6, ClientFacts, IInvFromParts, Zenon DEF Pcs

\* A client's step leaves attempts, events and draws alone.
LEMMA ClientGrows ==
    ASSUME IInv, NEW c \in Clients, returned \subseteq returned',
           \A x \in Clients : client'[x].attempt = client[x].attempt,
           UNCHANGED <<sessions, events, draws>>
    PROVE  Grows /\ ChildEvents' = ChildEvents
BY ClientFacts, CountersGrow DEF ChildEvents

\* HASH_R verifies: the answer was made for this very call under the same PSK, so
\* the client's Phase 1 is the server's.
LEMMA ClientAM2Step ==
    ASSUME IInv, NEW c \in Clients, NEW d \in net, ClientAM2(c, d)
    PROVE  IInv'
<1>0. PICK m, l, st, out : /\ m = d.data
                           /\ l = Local(c)
                           /\ st = Phase1State(Psk[c], l, m.cky_r, l, m.ke, l, m.nonce, c)
                           /\ out = {Datagram(c, Server, AM3(st)), Datagram(c, Server, QM1(st, l))}
  BY Zenon
<1>1. /\ client[c].pc = "aggressive" /\ d.to = c /\ VerifiesHashR(c, m)
      /\ client' = [client EXCEPT ![c].pc = "quick", ![c].phase1 = st]
      /\ Receive(d, out)
      /\ UNCHANGED <<returned, sessions, children, events, draws>>
  BY <1>0, Zenon DEF ClientAM2
<1>2. PICK k \in Calls, s \in Drawn : d = Datagram(Server, k[1], AM2(AM1(k[1], k), s))
  <2>1. ~IsQM2(d)
    <3>1. m.exchange = "AGGRESSIVE"
      BY <1>1, Zenon DEF VerifiesHashR
    <3> QED
      BY <1>0, <3>1, AsQM2, Zenon
  <2> QED
    BY <1>1, <2>1, ToClient, Zenon DEF IsAM2
<1>3. k = l /\ Psk[c] = ServerPsk /\ m.cky_r = s /\ m.ke = s /\ m.nonce = s
  <2>1. /\ m.cky_r = s /\ m.ke = s /\ m.nonce = s /\ m.id = Server
        /\ m.hash = HashR(Skeyid(ServerPsk, k, s), s, k, s, k, Server)
    BY <1>0, <1>2, AM2Fields, DatagramFields
  <2>2. m.hash = HashR(Skeyid(Psk[c], l, s), s, l, s, l, Server)
    BY <1>0, <1>1, <2>1, Zenon DEF VerifiesHashR
  <2>3. Skeyid(ServerPsk, k, s) = Skeyid(Psk[c], l, s)
    BY <2>1, <2>2 DEF HashR
  <2> QED
    BY <2>1, <2>3, Zenon DEF Skeyid
<1>4. l[1] = c /\ l \in Calls
  BY <1>0, <1>3, Zenon DEF Local
<1>5. st = Phase1Of(l, s)
  BY <1>0, <1>3, <1>4, Zenon DEF Phase1Of
<1>6. /\ client' = [x \in Clients |-> client'[x]]
      /\ client'[c] = [pc |-> "quick", attempt |-> client[c].attempt, phase1 |-> st, child |-> client[c].child]
      /\ \A x \in Clients : x # c => client'[x] = client[x]
  <2>1. /\ client = [x \in Clients |-> client[x]]
        /\ client[c] = [pc |-> client[c].pc, attempt |-> client[c].attempt,
                        phase1 |-> client[c].phase1, child |-> client[c].child]
    BY ClientFacts, Zenon DEF ClientShape
  <2> QED
    BY <1>1, <2>1, Zenon
<1>7. Grows /\ ChildEvents' = ChildEvents
  <2>1. \A x \in Clients : client'[x].attempt = client[x].attempt
    BY <1>6
  <2> QED
    BY <1>1, <2>1, ClientGrows, Zenon
<1>8. \A x \in out : NetOrigin(x)'
  <2>1. l \in Calls' /\ s \in Drawn'
    BY <1>4, <1>7, Zenon DEF Grows
  <2>2. IsAM3(Datagram(l[1], Server, AM3(Phase1Of(l, s))))'
    BY <2>1, Zenon DEF IsAM3
  <2>3. IsQM1(Datagram(l[1], Server, QM1Of(l, s)))'
    BY <1>3, <1>4, <2>1, Zenon DEF IsQM1
  <2>4. out = {Datagram(l[1], Server, AM3(Phase1Of(l, s))), Datagram(l[1], Server, QM1Of(l, s))}
    BY <1>0, <1>4, <1>5, Zenon DEF QM1Of
  <2> QED
    BY <2>2, <2>3, <2>4, Zenon DEF NetOrigin
<1>9. ClientShape(c)' /\ ClientOrigin(c)'
  <2>1. Local(c)' = l /\ client'[c].phase1 = Phase1Of(l, s)
    BY <1>0, <1>5, <1>6 DEF Local
  <2>2. client'[c].attempt > 0
    <3>1. client[c].pc \in Waiting => client[c].attempt > 0
      BY Zenon DEF IInv, ClientOrigin
    <3>2. client[c].pc \in Waiting
      BY <1>1, Zenon DEF Waiting
    <3>3. client'[c].attempt = client[c].attempt
      BY <1>6
    <3> QED
      BY <3>1, <3>2, <3>3, Zenon
  <2>3. s \in Drawn'
    BY <1>7, Zenon DEF Grows
  <2>4. ClientOrigin(c)'
    BY <1>3, <2>1, <2>2, <2>3, Zenon DEF ClientOrigin
  <2> QED
    BY <1>6, <2>4, Zenon DEF ClientShape
<1>10. dups' \in 0..MaxDup /\ net' \subseteq net \cup out
  BY <1>1, ClientFacts, ReceiveFacts, Zenon
<1>11. client'[c].pc \in Pcs /\ client'[c].attempt \in 0..MaxAttempts[c]
  BY <1>6, ClientFacts DEF Pcs
<1> QED
  BY <1>1, <1>6, <1>7, <1>8, <1>9, <1>10, <1>11, ClientFacts, IInvFromParts, Zenon

\* The IV and the key of message 2 name its call and Phase 1: a verified one is the
\* server's answer to this call's message 1.
LEMMA VerifiedQM2 ==
    ASSUME IInv, NEW c \in Clients, NEW d \in net, ClientQM2(c, d)
    PROVE  \E s, t \in Drawn :
              /\ Local(c) \in Calls /\ client[c].phase1 = Phase1Of(Local(c), s)
              /\ d.data = QM2Of(Local(c), s, t) /\ Answered(Local(c), s, t)
              /\ Psk[c] = ServerPsk
<1>1. /\ client[c].pc = "quick" /\ d.to = c
      /\ d.data.exchange = "QUICK" /\ d.data.key = client[c].phase1.keys
  BY Zenon DEF ClientQM2, VerifiesQM2, Decrypts
<1>2. Psk[c] = ServerPsk /\ \E s \in Drawn : client[c].phase1 = Phase1Of(Local(c), s)
  BY <1>1, Zenon DEF IInv, ClientOrigin
<1>3. PICK s \in Drawn : client[c].phase1 = Phase1Of(Local(c), s)
  BY <1>2, Zenon
<1>4. IsQM2(d)
  <2>1. ~IsAM2(d)
    BY <1>1, AM2Fields, DatagramFields DEF IsAM2
  <2> QED
    BY <1>1, <2>1, ToClient, Zenon
<1>5. PICK l \in Calls, x \in Drawn, t \in Drawn : d.data = QM2Of(l, x, t) /\ Answered(l, x, t)
  BY <1>4, AsQM2, Zenon
<1>6. Phase1Of(l, x).keys = Phase1Of(Local(c), s).keys
  BY <1>1, <1>3, <1>5, QM2Fields
<1>7. l = Local(c) /\ x = s
  BY <1>6, Phase1Fields
<1> QED
  BY <1>2, <1>3, <1>5, <1>7, Zenon

\* connect returns and sends message 3.
LEMMA ClientQM2Step ==
    ASSUME IInv, NEW c \in Clients, NEW d \in net, ClientQM2(c, d)
    PROVE  IInv'
<1>0. PICK l, st, child, out :
        /\ l = Local(c) /\ st = client[c].phase1
        /\ child = DeriveChild(st.keys, l, d.data.plain.nonce, l, d.data.plain.spi)
        /\ out = Datagram(c, Server, QM3(st, l, NextIv(d.data), l, d.data.plain.nonce))
  BY Zenon
<1>1. /\ client[c].pc = "quick"
      /\ client' = [client EXCEPT ![c].pc = "established", ![c].child = child]
      /\ returned' = returned \cup {<<l, child>>}
      /\ Receive(d, {out})
      /\ UNCHANGED <<sessions, children, events, draws>>
  BY <1>0, Zenon DEF ClientQM2
<1>2. PICK s \in Drawn, t \in Drawn :
        /\ l \in Calls /\ st = Phase1Of(l, s) /\ d.data = QM2Of(l, s, t) /\ Answered(l, s, t)
        /\ Psk[c] = ServerPsk
  BY <1>0, VerifiedQM2, Zenon
<1>3. l[1] = c
  BY <1>0, Zenon DEF Local
<1>4. child = ClientChild(l, s, t) /\ out = Datagram(l[1], Server, QM3Of(l, s, t))
  BY <1>0, <1>2, <1>3, QM2Fields DEF ClientChild, QM3Of
<1>5. /\ client' = [x \in Clients |-> client'[x]]
      /\ client'[c] = [pc |-> "established", attempt |-> client[c].attempt, phase1 |-> st, child |-> child]
      /\ \A x \in Clients : x # c => client'[x] = client[x]
  <2>1. /\ client = [x \in Clients |-> client[x]]
        /\ client[c] = [pc |-> client[c].pc, attempt |-> client[c].attempt,
                        phase1 |-> client[c].phase1, child |-> client[c].child]
    BY ClientFacts, Zenon DEF ClientShape
  <2> QED
    BY <1>0, <1>1, <2>1, Zenon
<1>6. Grows /\ ChildEvents' = ChildEvents
  <2>1. \A x \in Clients : client'[x].attempt = client[x].attempt
    BY <1>5
  <2> QED
    BY <1>1, <2>1, ClientGrows, Zenon
<1>7. NetOrigin(out)'
  <2>1. l \in Calls' /\ s \in Drawn' /\ t \in Drawn' /\ <<l, ClientChild(l, s, t)>> \in returned'
    BY <1>1, <1>2, <1>4, <1>6, Zenon DEF Grows
  <2> QED
    BY <1>4, <2>1, Zenon DEF NetOrigin, IsQM3
<1>8. ClientShape(c)' /\ ClientOrigin(c)' /\ client'[c].pc \in Pcs /\ client'[c].attempt \in 0..MaxAttempts[c]
  BY <1>5, ClientFacts DEF ClientShape, ClientOrigin, Waiting, Pcs
<1>9. \A r \in returned' : \/ r \in returned
                           \/ /\ Psk[r[1][1]] = ServerPsk
                              /\ \E e \in events' : e.kind = "QuickSaInit" /\ e.cky_i = r[1]
  BY <1>1, <1>2, <1>3 DEF Answered
<1>10. dups' \in 0..MaxDup /\ net' \subseteq net \cup {out}
  BY <1>1, ClientFacts, ReceiveFacts, Zenon
<1> QED
  BY <1>1, <1>5, <1>6, <1>7, <1>8, <1>9, <1>10, ClientFacts, IInvFromParts, Zenon

\* A timeout or an error that ends connect.
LEMMA ClientFailsStep ==
    ASSUME IInv, NEW c \in Clients, ClientTimeout(c) \/ \E d \in net : ClientError(c, d)
    PROVE  IInv'
<1>1. /\ client' = [client EXCEPT ![c].pc = "failed"]
      /\ net' \subseteq net /\ dups' \in 0..MaxDup
      /\ UNCHANGED <<returned, sessions, children, events, draws>>
  BY ClientFacts, ReceiveFacts DEF ClientTimeout, ClientError
<1>2. /\ client' = [x \in Clients |-> client'[x]]
      /\ client'[c] = [pc |-> "failed", attempt |-> client[c].attempt,
                       phase1 |-> client[c].phase1, child |-> client[c].child]
      /\ \A x \in Clients : x # c => client'[x] = client[x]
  <2>1. /\ client = [x \in Clients |-> client[x]]
        /\ client[c] = [pc |-> client[c].pc, attempt |-> client[c].attempt,
                        phase1 |-> client[c].phase1, child |-> client[c].child]
    BY ClientFacts, Zenon DEF ClientShape
  <2> QED
    BY <1>1, <2>1, Zenon
<1>3. Grows /\ ChildEvents' = ChildEvents
  <2>1. \A x \in Clients : client'[x].attempt = client[x].attempt
    BY <1>2
  <2> QED
    BY <1>1, <2>1, ClientGrows, Zenon
<1>4. ClientShape(c)' /\ ClientOrigin(c)' /\ client'[c].pc \in Pcs /\ client'[c].attempt \in 0..MaxAttempts[c]
  BY <1>2, ClientFacts DEF ClientShape, ClientOrigin, Waiting, Pcs
<1> QED
  BY <1>1, <1>2, <1>3, <1>4, ClientFacts, IInvFromParts, Zenon

\* A server's step that draws: calls stay as they are, and the draw is in Drawn.
LEMMA ServerGrows ==
    ASSUME IInv, UNCHANGED <<client, returned>>, events \subseteq events',
           draws' = draws \/ draws' = draws + 1
    PROVE  /\ Grows /\ draws' \in Nat
           /\ draws' = draws + 1 => <<Server, draws + 1>> \in Drawn'
<1>1. draws \in Nat /\ draws' \in Nat /\ draws <= draws' /\ (draws' = draws + 1 => draws + 1 \in 1..draws')
  BY ClientFacts
<1>2. Grows
  BY <1>1, ClientFacts, CountersGrow
<1>3. draws' = draws + 1 => <<Server, draws + 1>> \in Drawn'
  BY <1>1, Zenon DEF Drawn
<1> QED
  BY <1>1, <1>2, <1>3, Zenon

\* Message 1 of Aggressive Mode: a new session in place of any old one.
LEMMA ServerAM1Step ==
    ASSUME IInv, NEW d \in net, ServerAM1(d)
    PROVE  IInv'
<1>0. PICK m, local, st, out, e :
        /\ m = d.data /\ local = <<Server, draws + 1>>
        /\ st = Phase1State(ServerPsk, m.cky_i, local, m.ke, local, m.nonce, local, m.id)
        /\ out = Datagram(Server, d.from, AM2(m, local))
        /\ e = Event("Phase1SaInit", st, None)
  BY Zenon
<1>1. /\ d.to = Server /\ m.exchange = "AGGRESSIVE" /\ m.first = "SA"
      /\ Receive(d, {out})
      /\ sessions' = Put(sessions, m.cky_i, [phase1 |-> st, quick |-> None])
      /\ events' = events \cup {e}
      /\ draws' = draws + 1
      /\ UNCHANGED <<client, returned, children>>
  BY <1>0, Zenon DEF ServerAM1
<1>2. PICK l \in Calls : d = Datagram(l[1], Server, AM1(l[1], l))
  <2>1. ~IsAM3(d)
    BY <1>0, <1>1, AsAM3, Zenon
  <2>2. ~IsQM1(d) /\ ~IsQM3(d)
    BY <1>0, <1>1, AsQM1, AsQM3, Zenon
  <2> QED
    BY <1>1, <2>1, <2>2, ToServer, Zenon DEF IsAM1
<1>3. /\ m = AM1(l[1], l) /\ d.from = l[1]
      /\ m.cky_i = l /\ m.ke = l /\ m.nonce = l /\ m.id = l[1]
  BY <1>0, <1>2, AggressiveFields, DatagramFields
<1>4. st = Phase1Of(l, local)
  BY <1>0, <1>3, Zenon DEF Phase1Of
<1>5. e.kind = "Phase1SaInit"
  BY <1>0, Zenon DEF Event
<1>6. Grows /\ local \in Drawn' /\ draws' \in Nat
  BY <1>0, <1>1, ServerGrows, Zenon
<1>7. ChildEvents' = ChildEvents
  BY <1>1, <1>5, Zenon DEF ChildEvents
<1>8. EventOrigin(e)'
  BY <1>5, Zenon DEF EventOrigin
<1>9. NetOrigin(out)'
  <2>1. l \in Calls'
    BY <1>6, Zenon DEF Grows
  <2>2. out = Datagram(Server, l[1], AM2(AM1(l[1], l), local))
    BY <1>0, <1>3, Zenon
  <2> QED
    BY <1>6, <2>1, <2>2, Zenon DEF NetOrigin, IsAM2
<1>10. \A k \in DOMAIN sessions' :
          \/ k \in DOMAIN sessions /\ sessions'[k] = sessions[k] /\ ChildEvents' = ChildEvents
          \/ SessionOrigin(k)'
  <2>1. /\ DOMAIN sessions' = DOMAIN sessions \cup {l}
        /\ sessions'[l] = [phase1 |-> st, quick |-> None]
        /\ \A k \in DOMAIN sessions : k # l => sessions'[k] = sessions[k]
    BY <1>1, <1>3, Zenon DEF Put
  <2>2. l \in Calls'
    BY <1>6, Zenon DEF Grows
  <2>3. SessionOrigin(l)'
    BY <1>4, <1>6, <2>1, <2>2 DEF SessionOrigin
  <2> QED
    BY <1>7, <2>1, <2>3, Zenon
<1>11. dups' \in 0..MaxDup /\ net' \subseteq net \cup {out}
  BY <1>1, ClientFacts, ReceiveFacts, Zenon
<1> QED
  BY <1>1, <1>6, <1>8, <1>9, <1>10, <1>11, ClientFacts, IInvFromParts, Zenon

\* Message 3 of Aggressive Mode only reports.
LEMMA ServerAM3Step ==
    ASSUME IInv, NEW d \in net, ServerAM3(d)
    PROVE  IInv'
<1>1. /\ \/ events' = events
         \/ \E st : events' = events \cup {Event("Phase1Established", st, None)}
      /\ Receive(d, {})
      /\ UNCHANGED <<client, returned, sessions, children, draws>>
  BY Zenon DEF ServerAM3
<1>2. \A e \in events' : e \in events \/ e.kind = "Phase1Established"
  BY <1>1 DEF Event
<1>3. events \subseteq events'
  BY <1>1, Zenon
<1>4. Grows
  BY <1>1, <1>3, ServerGrows, Zenon
<1>5. ChildEvents' = ChildEvents
  BY <1>2, <1>3, Zenon DEF ChildEvents
<1>6. \A e \in events' : e \in events \/ EventOrigin(e)'
  BY <1>2, Zenon DEF EventOrigin
<1>7. dups' \in 0..MaxDup /\ net' \subseteq net
  BY <1>1, ClientFacts, ReceiveFacts
<1> QED
  BY <1>1, <1>4, <1>5, <1>6, <1>7, ClientFacts, IInvFromParts, Zenon

\* A datagram the server ignores, take_child, and stuttering.
LEMMA NothingStep ==
    ASSUME IInv,
           \/ \E d \in net : ServerDrops(d)
           \/ \E k \in DOMAIN children : TakeChild(k)
           \/ UNCHANGED vars
    PROVE  IInv'
<1>1. /\ net' \subseteq net /\ dups' \in 0..MaxDup
      /\ UNCHANGED <<client, returned, sessions, events, draws>>
  <2>0. dups \in 0..MaxDup
    BY ClientFacts, Zenon
  <2>1. ASSUME NEW d \in net, ServerDrops(d)
        PROVE  Receive(d, {}) /\ UNCHANGED <<client, returned, sessions, events, draws>>
    BY <2>1, Zenon DEF ServerDrops
  <2>2. ASSUME (\E k \in DOMAIN children : TakeChild(k)) \/ UNCHANGED vars
        PROVE  UNCHANGED <<client, returned, sessions, events, draws, net, dups>>
    BY <2>2, Zenon DEF TakeChild, vars
  <2> QED
    BY <2>0, <2>1, <2>2, ReceiveFacts
<1>2. Grows
  BY <1>1, ServerGrows, Zenon
<1>3. ChildEvents' = ChildEvents
  BY <1>1, Zenon DEF ChildEvents
<1> QED
  BY <1>1, <1>2, <1>3, ClientFacts, IInvFromParts, Zenon

\* Message 1 of Quick Mode verifies for the Phase 1 it was made in only: the answer
\* continues the Quick Mode of the session's own call.
LEMMA ServerQM1Step ==
    ASSUME IInv, NEW d \in net, ServerQM1(d)
    PROVE  /\ IInv'
           /\ \E l \in Calls, s \in Drawn :
                /\ events' = events \cup {Event("QuickSaInit", Phase1Of(l, s),
                                                ServerChild(l, s, <<Server, draws + 1>>))}
                /\ Psk[l[1]] = ServerPsk
                /\ client' = client
<1>0. PICK m, st, local, qm2, qr, child, out, e :
        /\ m = d.data /\ st = sessions[m.cky_i].phase1 /\ local = <<Server, draws + 1>>
        /\ qm2 = QM2(st, m, local)
        /\ qr = [keys |-> st.keys, msgid |-> m.msgid, local_spi |-> local, peer_spi |-> m.plain.spi,
                 ni |-> m.plain.nonce, nr |-> local, iv2 |-> NextIv(qm2)]
        /\ child = DeriveChild(st.keys, m.plain.nonce, local, local, m.plain.spi)
        /\ out = Datagram(Server, d.from, qm2)
        /\ e = Event("QuickSaInit", st, child)
  BY Zenon
<1>1. /\ d.to = Server /\ m.exchange = "QUICK" /\ m.cky_i \in DOMAIN sessions
      /\ sessions[m.cky_i].quick = None
      /\ m.key = st.keys /\ m.iv = Phase2Iv(st, m.msgid)
      /\ Receive(d, {out})
      /\ sessions' = [sessions EXCEPT ![m.cky_i].quick = qr]
      /\ events' = events \cup {e}
      /\ draws' = draws + 1
      /\ UNCHANGED <<client, returned, children>>
  BY <1>0, Zenon DEF ServerQM1, VerifiesQM1, Decrypts
<1>2. PICK l \in Calls, s \in Drawn : d.from = l[1] /\ m = QM1Of(l, s) /\ Psk[l[1]] = ServerPsk
  <2>1. d.data.exchange = "QUICK" /\ m.iv[1] = "iv0"
    BY <1>0, <1>1 DEF Phase2Iv
  <2>2. ~IsAM1(d) /\ ~IsAM3(d)
    BY <2>1, AsAM1, AsAM3, Zenon
  <2>3. ~IsQM3(d)
    <3>1. ASSUME NEW k, NEW s, NEW t, m = QM3Of(k, s, t) PROVE FALSE
      <4>1. m.iv = NextIv(QM2Of(k, s, t))
        BY <3>1, QM3Fields
      <4>2. m.iv[1] = "last block"
        BY <4>1, ChainedIv, Zenon
      <4> QED
        BY <2>1, <4>2, Zenon
    <3> QED
      BY <1>0, <3>1, AsQM3, Zenon
  <2> QED
    BY <1>0, <1>1, <2>2, <2>3, ToServer, AsQM1, ZenonT(30)
<1>3. /\ m.cky_i = l /\ m.msgid = l /\ m.key = Phase1Of(l, s).keys
      /\ m.plain.spi = l /\ m.plain.nonce = l
  BY <1>2, QM1Fields
<1>4. SessionOrigin(l)
  BY <1>1, <1>3, Zenon DEF IInv
<1>5. st = Phase1Of(l, s)
  <2>1. PICK x \in Drawn : st = Phase1Of(l, x)
    BY <1>0, <1>3, <1>4, Zenon DEF SessionOrigin
  <2>2. x = s
    <3>1. Phase1Of(l, x).keys = Phase1Of(l, s).keys
      BY <1>1, <1>3, <2>1, Zenon
    <3> QED
      BY <3>1, Phase1Injective, Zenon
  <2> QED
    BY <2>1, <2>2, Zenon
<1>6. /\ qm2 = QM2Of(l, s, local) /\ child = ServerChild(l, s, local)
      /\ out = Datagram(Server, l[1], QM2Of(l, s, local))
  BY <1>0, <1>2, <1>3, <1>5, Zenon DEF QM2Of, ServerChild
<1>7. qr = QuickOf(l, s, local)
  BY <1>0, <1>3, <1>5, <1>6, Zenon DEF QuickOf
<1>8. e.kind = "QuickSaInit" /\ e.cky_i = l /\ e.child = ServerChild(l, s, local)
  BY <1>0, <1>5, <1>6, Phase1Fields DEF Event
<1>9. Grows /\ local \in Drawn' /\ draws' \in Nat
  BY <1>0, <1>1, ServerGrows, Zenon
<1>10. l \in Calls' /\ s \in Drawn'
  BY <1>9, Zenon DEF Grows
<1>11. ChildEvents' = ChildEvents
  BY <1>1, <1>8, Zenon DEF ChildEvents
<1>12. EventOrigin(e)'
  BY <1>2, <1>8, <1>9, <1>10, Zenon DEF EventOrigin
<1>13. NetOrigin(out)'
  <2>1. Answered(l, s, local)'
    BY <1>1, <1>8, ZenonT(30) DEF Answered
  <2> QED
    BY <1>6, <1>9, <1>10, <2>1, Zenon DEF NetOrigin, IsQM2
<1>14. local \notin Drawn
  BY <1>0, ClientFacts DEF Drawn
<1>15. \A k \in DOMAIN sessions' :
          \/ k \in DOMAIN sessions /\ sessions'[k] = sessions[k] /\ ChildEvents' = ChildEvents
          \/ SessionOrigin(k)'
  <2>1. sessions[l] = [phase1 |-> st, quick |-> sessions[l].quick]
    BY <1>0, <1>3, <1>4, Zenon DEF SessionOrigin
  <2>2. /\ DOMAIN sessions' = DOMAIN sessions
        /\ sessions'[l] = [phase1 |-> st, quick |-> qr]
        /\ \A k \in DOMAIN sessions : k # l => sessions'[k] = sessions[k]
    BY <1>1, <1>3, <2>1
  <2>3. \A f \in ChildEvents : f.child # ServerChild(l, s, local)
    <3>1. ASSUME NEW f \in ChildEvents, f.child = ServerChild(l, s, local) PROVE FALSE
      <4>1. f \in events /\ f.kind = "ChildSaEstablished"
        BY Zenon DEF ChildEvents
      <4>2. EventOrigin(f)
        BY <4>1, Zenon DEF IInv
      <4>3. PICK k \in Calls, x \in Drawn, y \in Drawn : f.child = ServerChild(k, x, y)
        BY <4>1, <4>2, Zenon DEF EventOrigin
      <4>4. ServerChild(k, x, y).outbound.key = ServerChild(l, s, local).outbound.key
        BY <3>1, <4>3, Zenon
      <4>5. y = local
        BY <4>4, ServerChildKey
      <4> QED
        BY <1>14, <4>5, Zenon
    <3> QED
      BY <3>1, Zenon
  <2>4. SessionOrigin(l)'
    BY <1>5, <1>7, <1>9, <1>10, <1>11, <2>2, <2>3 DEF SessionOrigin
  <2> QED
    BY <1>11, <2>2, <2>4, Zenon
<1>16. dups' \in 0..MaxDup /\ net' \subseteq net \cup {out}
  BY <1>1, ClientFacts, ReceiveFacts, Zenon
<1>17. IInv'
  BY <1>1, <1>9, <1>12, <1>13, <1>15, <1>16, ClientFacts, IInvFromParts, Zenon
<1>18. e = Event("QuickSaInit", Phase1Of(l, s), ServerChild(l, s, <<Server, draws + 1>>))
  BY <1>0, <1>5, <1>6, Zenon
<1> QED
  BY <1>1, <1>2, <1>17, <1>18, Zenon

\* Message 3 of Quick Mode consumes the Quick-Mode state.  It verifies only for the
\* answer it was made for, and then the client has returned.
LEMMA ServerQM3Step ==
    ASSUME IInv, NEW d \in net, ServerQM3(d)
    PROVE  /\ IInv'
           /\ \/ events' = events /\ children' = children
              \/ \E l \in Calls, s, t \in Drawn :
                    /\ children' = Put(children, l, ServerChild(l, s, t))
                    /\ \A e \in ChildEvents : e.child # ServerChild(l, s, t)
<1>0. PICK m, p1, qr, child, e :
        /\ m = d.data /\ p1 = sessions[m.cky_i].phase1 /\ qr = sessions[m.cky_i].quick
        /\ child = DeriveChild(qr.keys, qr.ni, qr.nr, qr.local_spi, qr.peer_spi)
        /\ e = Event("ChildSaEstablished", p1, child)
  BY Zenon
<1>1. /\ d.to = Server /\ m.exchange = "QUICK" /\ m.cky_i \in DOMAIN sessions
      /\ qr # None
      /\ sessions' = [sessions EXCEPT ![m.cky_i].quick = None]
      /\ \/ VerifiesQM3(qr, m) /\ children' = Put(children, m.cky_i, child) /\ events' = events \cup {e}
         \/ UNCHANGED <<children, events>>
      /\ Receive(d, {})
      /\ UNCHANGED <<client, returned, draws>>
  BY <1>0, Zenon DEF ServerQM3
<1>2. PICK l : l = m.cky_i
  BY Zenon
<1>3. SessionOrigin(l)
  BY <1>1, <1>2, Zenon DEF IInv
<1>4. PICK s \in Drawn, t \in Drawn :
        /\ p1 = Phase1Of(l, s) /\ qr = QuickOf(l, s, t)
        /\ \A f \in ChildEvents : f.child # ServerChild(l, s, t)
  BY <1>0, <1>1, <1>2, <1>3, Zenon DEF SessionOrigin
<1>5. l \in Calls /\ l \in DOMAIN sessions
  BY <1>1, <1>2, <1>3, Zenon DEF SessionOrigin
<1>6. child = ServerChild(l, s, t) /\ e.kind = "ChildSaEstablished" /\ e.cky_i = l /\ e.child = child
  BY <1>0, <1>4, QuickFields, Phase1Fields DEF ServerChild, Event
<1>7. Grows
  BY <1>1, ServerGrows, Zenon
<1>8. ASSUME VerifiesQM3(qr, m) PROVE <<l, ClientChild(l, s, t)>> \in returned
  <2>1. m.key = Phase1Of(l, s).keys /\ m.iv = NextIv(QM2Of(l, s, t))
    BY <1>4, <1>8, QuickFields DEF VerifiesQM3, Decrypts
  <2>2. IsQM3(d)
    <3>1. d.data.exchange = "QUICK" /\ m.iv[1] = "last block"
      BY <1>0, <1>1, <2>1, ChainedIv, Zenon
    <3>2. ~IsAM1(d) /\ ~IsAM3(d)
      BY <3>1, AsAM1, AsAM3, Zenon
    <3>3. ~IsQM1(d)
      <4>1. ASSUME NEW k, NEW x, m = QM1Of(k, x) PROVE m.iv[1] = "iv0"
        BY <4>1, QM1Fields
      <4> QED
        BY <1>0, <3>1, <4>1, AsQM1, Zenon
    <3> QED
      BY <1>1, <3>2, <3>3, ToServer, Zenon
  <2>3. PICK k \in Calls, x \in Drawn, y \in Drawn :
            m = QM3Of(k, x, y) /\ <<k, ClientChild(k, x, y)>> \in returned
    BY <1>0, <2>2, AsQM3, Zenon
  <2>4. k = l /\ x = s
    BY <2>1, <2>3, QM3Fields, Phase1Injective
  <2>5. y = t
    <3>1. NextIv(QM2Of(l, s, t))[3] = NextIv(QM2Of(k, x, y))[3]
      BY <2>1, <2>3, QM3Fields
    <3>2. QM2Of(l, s, t).plain = QM2Of(k, x, y).plain
      BY <3>1, ChainedIv, Zenon
    <3> QED
      BY <3>2, QM2Fields
  <2> QED
    BY <2>3, <2>4, <2>5, Zenon
<1>9. \A f \in events' : f \in events \/ EventOrigin(f)'
  <2>1. ASSUME VerifiesQM3(qr, m) PROVE EventOrigin(e)'
    <3>1. /\ l \in Calls' /\ s \in Drawn' /\ t \in Drawn'
          /\ <<l, ClientChild(l, s, t)>> \in returned'
      BY <1>5, <1>7, <1>8, <2>1, Zenon DEF Grows
    <3> QED
      BY <1>6, <3>1, Zenon DEF EventOrigin
  <2> QED
    BY <1>1, <2>1, Zenon
<1>10. ASSUME NEW k \in DOMAIN sessions' PROVE SessionOrigin(k)'
  <2>1. sessions[l] = [phase1 |-> p1, quick |-> qr]
    BY <1>0, <1>2, <1>3, Zenon DEF SessionOrigin
  <2>2. /\ DOMAIN sessions' = DOMAIN sessions
        /\ sessions'[l] = [phase1 |-> p1, quick |-> None]
        /\ \A x \in DOMAIN sessions : x # l => sessions'[x] = sessions[x]
    BY <1>1, <1>2, <2>1
  <2>3. CASE k = l
    <3>1. l \in Calls' /\ s \in Drawn'
      BY <1>5, <1>7, Zenon DEF Grows
    <3> QED
      BY <1>4, <2>2, <2>3, <3>1 DEF SessionOrigin
  <2>4. CASE k # l
    <3>1. SessionOrigin(k) /\ sessions'[k] = sessions[k]
      BY <1>10, <2>2, <2>4, Zenon DEF IInv
    <3>2. PICK x \in Drawn : /\ sessions[k].phase1 = Phase1Of(k, x)
                             /\ \/ sessions[k].quick = None
                                \/ \E y \in Drawn : /\ sessions[k].quick = QuickOf(k, x, y)
                                                    /\ \A f \in ChildEvents : f.child # ServerChild(k, x, y)
      BY <3>1, Zenon DEF SessionOrigin
    <3>3. k \in Calls' /\ x \in Drawn' /\ Drawn \subseteq Drawn'
      BY <1>7, <3>1, Zenon DEF Grows, SessionOrigin
    <3>4. \A y : (\A f \in ChildEvents : f.child # ServerChild(k, x, y))
                    => \A f \in ChildEvents' : f.child # ServerChild(k, x, y)
      <4>1. \A y : e.child # ServerChild(k, x, y)
        BY <1>6, <2>4, ServerChildKey
      <4>2. ChildEvents' \subseteq ChildEvents \cup {e}
        BY <1>1, Zenon DEF ChildEvents
      <4> QED
        BY <4>1, <4>2, Zenon
    <3> QED
      BY <3>1, <3>2, <3>3, <3>4 DEF SessionOrigin
  <2> QED
    BY <2>3, <2>4, Zenon
<1>11. dups' \in 0..MaxDup /\ net' \subseteq net /\ draws' \in Nat
  BY <1>1, ClientFacts, ReceiveFacts
<1>12. IInv'
  BY <1>1, <1>7, <1>9, <1>10, <1>11, ClientFacts, IInvFromParts, Zenon
<1> QED
  BY <1>1, <1>2, <1>4, <1>5, <1>6, <1>12

-----------------------------------------------------------------------------
(* The theorems *)

\* Nothing has happened yet, so everything has its origin.
LEMMA InitHolds == Init => IInv
<1> SUFFICES ASSUME Init PROVE IInv
  BY Zenon
<1>1. \A c \in Clients : client[c] = [pc |-> "idle", attempt |-> 0, phase1 |-> None, child |-> None]
  BY Zenon DEF Init
<1>2. TypeOK
  BY <1>1, IkeV1Assumption, UdpNetAssumption DEF Init, NetInit, TypeOK
<1>3. client = [c \in Clients |-> [pc |-> client[c].pc, attempt |-> client[c].attempt,
                                   phase1 |-> client[c].phase1, child |-> client[c].child]]
  BY <1>1, Zenon DEF Init
<1>4. \A c \in Clients : ClientOrigin(c)
  BY <1>1 DEF ClientOrigin, Waiting
<1> QED
  BY <1>2, <1>3, <1>4, Zenon DEF Init, NetInit, IInv, ReturnedAuthentic

\* Every step of the drivers and of the network preserves the invariant.
LEMMA NextPreserves == IInv /\ [Next]_vars => IInv'
BY ConnectStep, ClientAM2Step, ClientQM2Step, ClientFailsStep, ServerAM1Step, ServerAM3Step,
   ServerQM1Step, ServerQM3Step, NothingStep, Zenon
DEF Next, ClientNext, ClientReceive, ServerNext

\* Every session, event, result and datagram of IKEv1 has the origin the code gives it.
THEOREM Invariance == Spec => []IInv
BY InitHolds, NextPreserves, PTL DEF Spec

\* Type correctness; Server.sessions is filed under the cookie of its Phase-1 state.
THEOREM TypeCorrect == Spec => []TypeOK
<1>1. IInv => TypeOK
  BY Zenon DEF IInv
<1> QED
  BY <1>1, Invariance, PTL

\* QuickResponder::complete succeeds only after the initiator returned from that very
\* connect call with the other end of the CHILD SA.
THEOREM ResponderNeverAlone == Spec => []ServerChildHasPeer
<1>1. ASSUME IInv, NEW e \in ChildEvents
      PROVE  \E r \in returned : r[1] = e.cky_i /\ Mirror(r[2], e.child)
  <2>1. EventOrigin(e) /\ e.kind = "ChildSaEstablished"
    BY <1>1, Zenon DEF IInv, ChildEvents
  <2>2. PICK l \in Calls, s \in Drawn, t \in Drawn :
            /\ e.cky_i = l /\ e.child = ServerChild(l, s, t)
            /\ <<l, ClientChild(l, s, t)>> \in returned
    BY <2>1, Zenon DEF EventOrigin
  <2>3. PICK r \in returned : r = <<l, ClientChild(l, s, t)>>
    BY <2>2, Zenon
  <2> QED
    BY <2>2, <2>3, ChildFields
<1>2. IInv => ServerChildHasPeer
  BY <1>1, Zenon DEF ServerChildHasPeer
<1> QED
  BY <1>2, Invariance, PTL

\* connect returns only with the server's PSK, and only after the server answered a
\* Quick Mode of this very call.
THEOREM ReturnsAuthentic == Spec => []ReturnedAuthentic
<1>1. IInv => ReturnedAuthentic
  BY Zenon DEF IInv
<1> QED
  BY <1>1, Invariance, PTL

\* Only message 3 of Quick Mode puts anything into Server.children.
LEMMA ChildrenShrink ==
    ASSUME [Next]_vars, ~ \E d \in net : ServerQM3(d), NEW k \in DOMAIN children'
    PROVE  k \in DOMAIN children /\ children'[k] = children[k]
<1>1. CASE children' = children
  BY <1>1, Zenon
<1>2. CASE \E x \in DOMAIN children : TakeChild(x)
  BY <1>2, Zenon DEF TakeChild
<1>3. children' = children \/ \E x \in DOMAIN children : TakeChild(x)
  <2>1. ASSUME NEW c \in Clients, ClientNext(c) PROVE children' = children
    BY <2>1, Zenon DEF ClientNext, ClientReceive, Connect, ClientAM2, ClientQM2, ClientError, ClientTimeout
  <2>2. ASSUME NEW d \in net, ServerAM1(d) \/ ServerAM3(d) \/ ServerQM1(d) \/ ServerDrops(d)
        PROVE  children' = children
    BY <2>2, Zenon DEF ServerAM1, ServerAM3, ServerQM1, ServerDrops
  <2>3. CASE UNCHANGED vars
    BY <2>3, Zenon DEF vars
  <2> QED
    BY <2>1, <2>2, <2>3, Zenon DEF Next, ServerNext
<1> QED
  BY <1>1, <1>2, <1>3, Zenon

\* A CHILD SA put into Server.children never has a key the server established before:
\* its sequence counter, which starts at zero, repeats no nonce.
THEOREM ChildKeysNeverReused == Spec => ChildKeysFresh
<1>1. ASSUME IInv, [Next]_vars, NEW k \in DOMAIN children',
             k \in DOMAIN children => children'[k] # children[k], NEW e \in ChildEvents
      PROVE  children'[k].outbound.key # e.child.outbound.key
  <2>1. PICK d \in net : ServerQM3(d)
    BY <1>1, ChildrenShrink, Zenon
  <2>2. PICK l \in Calls, s \in Drawn, t \in Drawn :
            /\ children' = Put(children, l, ServerChild(l, s, t))
            /\ \A f \in ChildEvents : f.child # ServerChild(l, s, t)
    BY <1>1, <2>1, ServerQM3Step, Zenon
  <2>3. children'[k] = ServerChild(l, s, t)
    BY <1>1, <2>2, Zenon DEF Put
  <2>4. EventOrigin(e) /\ e.kind = "ChildSaEstablished"
    BY <1>1, Zenon DEF IInv, ChildEvents
  <2>5. PICK j \in Calls, x \in Drawn, y \in Drawn : e.child = ServerChild(j, x, y)
    BY <2>4, Zenon DEF EventOrigin
  <2> QED
    BY <2>2, <2>3, <2>5, ServerChildKey
<1>2. IInv /\ [Next]_vars =>
        [\A k \in DOMAIN children' :
            (k \in DOMAIN children => children'[k] # children[k]) =>
                \A e \in ChildEvents : children'[k].outbound.key # e.child.outbound.key]_vars
  BY <1>1, Zenon
<1> QED
  BY <1>2, Invariance, PTL DEF Spec, ChildKeysFresh

-----------------------------------------------------------------------------
(* The refinement of TunnelService *)

QuickEvents == {f \in events : f.kind = "QuickSaInit"}

\* A step that leaves attempts, results and answered Quick Modes alone stutters.
LEMMA Stutters ==
    ASSUME QuickEvents' = QuickEvents,
           \A c \in Clients :
                /\ client'[c].attempt = client[c].attempt
                /\ client'[c].pc = "established" <=> client[c].pc = "established"
                /\ client[c].pc = "established" => client'[c].child = client[c].child
    PROVE  UNCHANGED Service!vars
<1>1. Made' = Made
  BY Zenon DEF Made
<1>2. Grants' = Grants
  BY Zenon DEF Grants, GrantOf, QuickEvents
<1>3. Holds' = Holds
  BY Zenon DEF Holds
<1> QED
  BY <1>1, <1>2, <1>3, Zenon DEF Service!vars

\* A step of the server other than answering Quick-Mode message 1.
LEMMA ServerStutters ==
    ASSUME client' = client, QuickEvents' = QuickEvents
    PROVE  UNCHANGED Service!vars
BY Stutters, Zenon

\* The handlers that neither return to a caller nor grant are stuttering steps of the service.
LEMMA SilentServer ==
    ASSUME IInv,
           \/ \E d \in net : ServerAM1(d) \/ ServerAM3(d) \/ ServerQM3(d) \/ ServerDrops(d)
           \/ \E k \in DOMAIN children : TakeChild(k)
           \/ UNCHANGED vars
    PROVE  UNCHANGED Service!vars
<1>1. ASSUME NEW d \in net, ServerAM1(d)
      PROVE  client' = client /\ \E e : events' = events \cup {e} /\ e.kind # "QuickSaInit"
  <2>1. client' = client /\ \E p : events' = events \cup {Event("Phase1SaInit", p, None)}
    BY <1>1, Zenon DEF ServerAM1
  <2>2. \A p : Event("Phase1SaInit", p, None).kind # "QuickSaInit"
    BY Zenon DEF Event
  <2> QED
    BY <2>1, <2>2, Zenon
<1>2. ASSUME NEW d \in net, ServerAM3(d)
      PROVE  client' = client /\ \/ events' = events
                                 \/ \E e : events' = events \cup {e} /\ e.kind # "QuickSaInit"
  <2>1. /\ client' = client
        /\ \/ events' = events
           \/ \E p : events' = events \cup {Event("Phase1Established", p, None)}
    BY <1>2, Zenon DEF ServerAM3
  <2>2. \A p : Event("Phase1Established", p, None).kind # "QuickSaInit"
    BY Zenon DEF Event
  <2> QED
    BY <2>1, <2>2, Zenon
<1>3. ASSUME NEW d \in net, ServerQM3(d)
      PROVE  client' = client /\ \/ events' = events
                                 \/ \E e : events' = events \cup {e} /\ e.kind # "QuickSaInit"
  <2>1. /\ client' = client
        /\ \/ events' = events
           \/ \E p, ch : events' = events \cup {Event("ChildSaEstablished", p, ch)}
    BY <1>3, Zenon DEF ServerQM3
  <2>2. \A p, ch : Event("ChildSaEstablished", p, ch).kind # "QuickSaInit"
    BY Zenon DEF Event
  <2> QED
    BY <2>1, <2>2, Zenon
<1>4. ASSUME \/ \E d \in net : ServerDrops(d)
             \/ \E k \in DOMAIN children : TakeChild(k)
             \/ UNCHANGED vars
      PROVE  client' = client /\ events' = events
  BY <1>4, Zenon DEF ServerDrops, TakeChild, vars
<1>5. client' = client /\ QuickEvents' = QuickEvents
  BY <1>1, <1>2, <1>3, <1>4, Zenon DEF QuickEvents
<1> QED
  BY <1>5, ServerStutters, Zenon

\* initiate_aggressive starts a call of the service.
LEMMA ConnectCalls ==
    ASSUME IInv, NEW c \in Clients, Connect(c)
    PROVE  Service!Call(c)
<1>1. client = [x \in Clients |-> client[x]]
  BY ClientFacts, Zenon
<1>2. /\ client'[c].attempt = client[c].attempt + 1
      /\ client'[c].pc = "aggressive"
      /\ \A x \in Clients : x # c => client'[x] = client[x]
      /\ events' = events
  BY <1>1, Zenon DEF Connect
<1>3. Made' = [Made EXCEPT ![c] = @ + 1]
  BY <1>2, Zenon DEF Made
<1>4. Holds' = [Holds EXCEPT ![c] = {}]
  BY <1>2, Zenon DEF Holds
<1>5. Grants' = Grants
  BY <1>2, Zenon DEF Grants, GrantOf
<1> QED
  BY <1>3, <1>4, <1>5, Zenon DEF Service!Call

\* Message 2 of Aggressive Mode, errors and timeouts are invisible to the service.
LEMMA WaitingStutters ==
    ASSUME IInv, NEW c \in Clients,
           ClientTimeout(c) \/ \E d \in net : ClientAM2(c, d) \/ ClientError(c, d)
    PROVE  UNCHANGED Service!vars
<1>1. /\ client = [x \in Clients |-> client[x]]
      /\ client[c] = [pc |-> client[c].pc, attempt |-> client[c].attempt,
                      phase1 |-> client[c].phase1, child |-> client[c].child]
  BY ClientFacts, Zenon DEF ClientShape
<1>2. /\ events' = events
      /\ client[c].pc \in {"aggressive", "quick"}
      /\ \/ client' = [client EXCEPT ![c].pc = "failed"]
         \/ \E st : client' = [client EXCEPT ![c].pc = "quick", ![c].phase1 = st]
  BY ZenonT(30) DEF ClientAM2, ClientError, ClientTimeout, Waiting
<1>3. /\ client'[c].attempt = client[c].attempt
      /\ client'[c].pc \in {"failed", "quick"}
      /\ \A x \in Clients : x # c => client'[x] = client[x]
  BY <1>1, <1>2, ZenonT(30)
<1>4. QuickEvents' = QuickEvents
  BY <1>2, Zenon DEF QuickEvents
<1> QED
  BY <1>2, <1>3, <1>4, Stutters, Zenon

\* connect returns with the other end of what was granted to this call.
LEMMA QM2Takes ==
    ASSUME IInv, NEW c \in Clients, NEW d \in net, ClientQM2(c, d)
    PROVE  Service!Take(c)
<1>1. PICK s \in Drawn, t \in Drawn :
        /\ client[c].phase1 = Phase1Of(Local(c), s)
        /\ d.data = QM2Of(Local(c), s, t) /\ Answered(Local(c), s, t)
        /\ Psk[c] = ServerPsk
  BY VerifiedQM2, Zenon
<1>2. PICK ch : ch = ClientChild(Local(c), s, t)
  BY Zenon
<1>3. /\ client[c].pc = "quick" /\ events' = events
      /\ client' = [client EXCEPT ![c].pc = "established", ![c].child = ch]
  <2>1. PICK x : /\ x = DeriveChild(client[c].phase1.keys, Local(c), d.data.plain.nonce,
                                     Local(c), d.data.plain.spi)
                 /\ client[c].pc = "quick" /\ events' = events
                 /\ client' = [client EXCEPT ![c].pc = "established", ![c].child = x]
    BY Zenon DEF ClientQM2
  <2>2. x = ch
    BY <1>1, <1>2, <2>1, QM2Fields DEF ClientChild
  <2> QED
    BY <2>1, <2>2, Zenon
<1>4. /\ client = [x \in Clients |-> client[x]]
      /\ client[c] = [pc |-> client[c].pc, attempt |-> client[c].attempt,
                      phase1 |-> client[c].phase1, child |-> client[c].child]
  BY ClientFacts, Zenon DEF ClientShape
<1>5. /\ client'[c].attempt = client[c].attempt
      /\ client'[c].pc = "established" /\ client'[c].child = ch
      /\ \A x \in Clients : x # c => client'[x] = client[x]
  BY <1>3, <1>4, Zenon
<1>6. Made' = Made /\ Grants' = Grants
  <2>1. \A x \in Clients : client'[x].attempt = client[x].attempt
    BY <1>5, Zenon
  <2>2. Made' = Made
    BY <2>1, Zenon DEF Made
  <2>3. Grants' = Grants
    BY <1>3, Zenon DEF Grants, GrantOf
  <2> QED
    BY <2>2, <2>3, Zenon
<1>7. Holds[c] = {} /\ Holds' = [Holds EXCEPT ![c] = {ch}] /\ ch \in Holds'[c]
  BY <1>3, <1>5, Zenon DEF Holds
<1>8. PICK e \in events : /\ e.kind = "QuickSaInit" /\ e.cky_i = Local(c)
                          /\ e.child = ServerChild(Local(c), s, t)
  BY <1>1, Zenon DEF Answered
<1>9. PICK g : g = GrantOf(e)
  BY Zenon
<1>10. g \in Grants /\ g.to = c /\ g.call = Made[c] /\ g.child = ServerChild(Local(c), s, t)
  BY <1>8, <1>9 DEF Grants, GrantOf, Made, Local
<1>11. Mirror(ch, g.child)
  BY <1>2, <1>10, ChildFields
<1>12. c \in SamePsk
  BY <1>1, Zenon DEF SamePsk
<1> QED
  BY <1>6, <1>7, <1>10, <1>11, <1>12, Zenon DEF Service!Take, Service!Mirror, Mirror

\* Answering message 1 of Quick Mode grants its call a tunnel on a new SPI.
LEMMA QM1Grants ==
    ASSUME IInv, NEW d \in net, ServerQM1(d)
    PROVE  \E c \in Clients : Service!Grant(c)
<1>1. PICK l \in Calls, s \in Drawn :
        /\ events' = events \cup {Event("QuickSaInit", Phase1Of(l, s),
                                        ServerChild(l, s, <<Server, draws + 1>>))}
        /\ Psk[l[1]] = ServerPsk
        /\ client' = client
  BY ServerQM1Step, Zenon
<1>2. PICK t, e, g : /\ t = <<Server, draws + 1>>
                     /\ e = Event("QuickSaInit", Phase1Of(l, s), ServerChild(l, s, t))
                     /\ g = GrantOf(e)
  BY Zenon
<1>3. e.kind = "QuickSaInit" /\ e.cky_i = l /\ e.child = ServerChild(l, s, t) /\ events' = events \cup {e}
  BY <1>1, <1>2, Phase1Fields, Zenon DEF Event
<1>4. Made' = Made /\ Holds' = Holds
  BY <1>1, Zenon DEF Made, Holds
<1>5. Grants' = Grants \cup {g} /\ g \in Grants'
  BY <1>2, <1>3, ZenonT(30) DEF Grants, GrantOf
<1>6. PICK c \in Clients : \E n \in 1..client[c].attempt : l = <<c, n>>
  BY InCalls, Zenon
<1>7. g.to = c /\ g.call \in 1..Made[c] /\ g.child.inbound.spi = t
  BY <1>2, <1>3, <1>6, ChildFields DEF GrantOf, Made
<1>8. ASSUME NEW h \in Grants PROVE h.child.inbound.spi # t
  <2>1. PICK f \in events : f.kind = "QuickSaInit" /\ h.child = f.child
    BY DEF Grants, GrantOf
  <2>2. EventOrigin(f)
    BY Zenon DEF IInv
  <2>3. PICK k \in Calls, x \in Drawn, y \in Drawn : f.child = ServerChild(k, x, y)
    BY <2>1, <2>2, Zenon DEF EventOrigin
  <2>4. h.child.inbound.spi \in Drawn
    BY <2>1, <2>3, ChildFields
  <2>5. t \notin Drawn
    BY <1>2, ClientFacts DEF Drawn
  <2> QED
    BY <2>4, <2>5, Zenon
<1>9. c \in SamePsk
  BY <1>1, <1>6 DEF SamePsk
<1>10. Service!Grant(c)
  BY <1>4, <1>5, <1>7, <1>8, <1>9, Zenon DEF Service!Grant
<1> QED
  BY <1>10, Zenon

\* Every step of the drivers is a step of the service or leaves it as it is.
LEMMA StepRefines == IInv /\ [Next]_vars => [Service!Next]_(Service!vars)
<1> SUFFICES ASSUME IInv, [Next]_vars PROVE [Service!Next]_(Service!vars)
  BY Zenon
<1>1. ASSUME NEW c \in Clients, ClientNext(c) PROVE [Service!Next]_(Service!vars)
  BY <1>1, ConnectCalls, QM2Takes, WaitingStutters, Zenon DEF ClientNext, ClientReceive, Service!Next
<1>2. ASSUME NEW d \in net, ServerQM1(d) PROVE [Service!Next]_(Service!vars)
  BY <1>2, QM1Grants, Zenon DEF Service!Next
<1> QED
  BY <1>1, <1>2, SilentServer, Zenon DEF Next, ServerNext

\* Before the first connect call the service has granted nothing.
LEMMA InitRefines == Init => Service!Init
<1> SUFFICES ASSUME Init PROVE Service!Init
  BY Zenon
<1>1. events = {} /\ \A c \in Clients : client[c].attempt = 0 /\ client[c].pc = "idle"
  BY Zenon DEF Init
<1>2. Made = [c \in Clients |-> 0] /\ Holds = [c \in Clients |-> {}] /\ Grants = {}
  BY <1>1, Zenon DEF Made, Holds, Grants
<1> QED
  BY <1>2, Zenon DEF Service!Init

\* The IKEv1 drivers provide the tunnel service, although Server.sessions is keyed by the
\* initiator's cookie alone and a repeated message 1 replaces the session.
THEOREM ServiceProvided == Spec => ProvidesService
BY InitRefines, StepRefines, Invariance, PTL DEF Spec, ProvidesService, Service!Spec
=============================================================================
