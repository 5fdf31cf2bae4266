------------------------------- MODULE Rekey --------------------------------
(***************************************************************************)
(* Life after the handshake: CHILD SA rekey (ikev2/rekey.rs), IKE SA rekey *)
(* (ike_rekey.rs), dead-peer detection (informational.rs) and the requests *)
(* of MOBIKE (mobike.rs) over one IKE SA, made by either end, at the same  *)
(* time and under any IKE SA it holds.                                     *)
(*                                                                         *)
(* The library builds and processes messages; its caller keeps the tables. *)
(* External, modelled from how the examples use the library (rekey_probe,  *)
(* rekey_e2e, dpd_probe, retransmit_probe): each request leaves once from  *)
(* a socket of its own and is answered to it, a sender without an answer   *)
(* makes no further request (the examples exit), and the server routes a   *)
(* request by its payloads, answers a Message ID once and a repeated       *)
(* request, which is a copy the network makes, with the same bytes.  The   *)
(* initiator of an IKE SA rekey is the peer's implementation.              *)
(*                                                                         *)
(* Left to the consumer by the source, and not modelled: which address ESP *)
(* goes to after an UPDATE_SA_ADDRESSES, and the retiring of old SAs (a    *)
(* rekey adds).                                                            *)
(*                                                                         *)
(* A draw <<owner, n>> stands for nonce, SPI, DH value and socket of the   *)
(* owner's n-th request or answer.  Keys are the records of their inputs.  *)
(***************************************************************************)
EXTENDS UdpNet, EspOps

CONSTANTS
    Groups,         \* DH groups the peer may send a key share of
    MaxRequests,    \* bound: requests of both ends together
    MaxLoss         \* bound: datagrams lost

ASSUME RekeyAssumption == MaxRequests \in Nat /\ MaxLoss \in Nat

VARIABLES
    ikes,       \* ikes[p]: the IKE SAs p holds, by SPI pair
    children,   \* children[p]: the CHILD SAs p holds, with the selectors it gave
    pending,    \* pending[p]: p's unanswered request, if any
    drawn,      \* drawn[p]: draws of p so far
    requests,   \* requests made so far
    lost        \* datagrams lost so far

vars == <<ikes, children, pending, drawn, requests, lost, net, dups>>

Peers == {"I", "R"}
Other(p) == IF p = "I" THEN "R" ELSE "I"

\* The group negotiate::select picks from the offer.
SuiteGroup == "X25519"

-----------------------------------------------------------------------------
(* IKE SAs and messages *)

\* A CompletedSaInit, with the caller's Message-ID state for it: the id of our
\* next request, the id expected of the peer's, the answer last given.
IkeSa(role, keys, next, expect) ==
    [role |-> role, keys |-> keys, next |-> next, expect |-> expect, cached |-> {}]

\* Mutant: the new keys are derived and not used.
MutRekeyedKeepsKeys(old, keys) == IkeSa("Responder", old.keys, 0, 0)

\* Mutant: the role on the old IKE SA is kept.
MutRekeyedKeepsRole(old, keys) == IkeSa(old.role, keys, 0, 0)

\* The responder's side of a rekeyed IKE SA: the role is that in the exchange, and
\* Message IDs start again.
RekeyedSa(old, keys) == IkeSa("Responder", keys, 0, 0)

\* our_sk_e and peer_sk_e: by the role on the IKE SA, not in the exchange.
OurSkE(sa) == [keys |-> sa.keys, dir |-> IF sa.role = "Initiator" THEN "ei" ELSE "er"]
PeerSkE(sa) == [keys |-> sa.keys, dir |-> IF sa.role = "Initiator" THEN "er" ELSE "ei"]

\* derive_rekey_session_keys: SK_d of the old SA, the new secret, nonces, SPIs.
RekeySessionKeys(sk_d, x, y, ni, nr, spi_i, spi_r) ==
    [sk_d |-> sk_d, shared |-> {x, y}, ni |-> ni, nr |-> nr, spi_i |-> spi_i, spi_r |-> spi_r]

\* The payloads inside SK{}; an Option is a set of at most one element.
Empty == [sa |-> {}, nonce |-> {}, ke |-> {}, ts |-> {}, notify |-> {}]

FullTunnel == "any"
AssignedHost == "host"

\* build_rekey_request: full-tunnel selectors, whatever the SA to be replaced had.
ChildRekeyRequest(draw) ==
    [Empty EXCEPT !.sa = {draw}, !.nonce = {draw}, !.ts = {[i |-> FullTunnel, r |-> FullTunnel]}]

\* The peer's IKE SA rekey request: SA, Ni, KEi.
IkeRekeyRequest(draw, group) ==
    [Empty EXCEPT !.sa = {draw}, !.nonce = {draw}, !.ke = {[group |-> group, public |-> draw]}]

\* dpd_request; build_update_sa_addresses.
DpdRequest == Empty
UpdateRequest == [Empty EXCEPT !.notify = {"UPDATE_SA_ADDRESSES"}]

\* is_ike_sa_rekey.
IsIkeSaRekey(inner) == inner.ke # {} /\ inner.ts = {}

\* How the caller routes the CREATE_CHILD_SA requests that are left.
IsChildRekey(inner) == inner.sa # {} /\ ~IsIkeSaRekey(inner)

\* create_child_header, informational_header and build_encrypted_gcm.
Message(spis, sa, id, is_response, inner) ==
    [spis |-> spis, key |-> OurSkE(sa), id |-> id, response |-> is_response, inner |-> inner]

The(option) == CHOOSE x \in option : TRUE

-----------------------------------------------------------------------------
(* Requests *)

Draw(p) == <<p, drawn[p] + 1>>

\* The address p serves requests on.
Port(p) == <<p, 0>>

\* p sends a request under one of its IKE SAs, from a new socket.
Request(p, spis, inner) ==
    LET sa == ikes[p][spis]
        d == Datagram(Draw(p), Port(Other(p)), Message(spis, sa, sa.next, FALSE, inner))
    IN
    /\ pending[p] = {}
    /\ requests < MaxRequests
    /\ requests' = requests + 1
    /\ pending' = [pending EXCEPT ![p] = {d}]
    /\ ikes' = [ikes EXCEPT ![p][spis].next = @ + 1]
    /\ drawn' = [drawn EXCEPT ![p] = @ + 1]
    /\ Send({d})
    /\ UNCHANGED <<children, lost>>

RequestChildRekey(p) == \E spis \in DOMAIN ikes[p] : Request(p, spis, ChildRekeyRequest(Draw(p)))

RequestIkeRekey(p) ==
    \E spis \in DOMAIN ikes[p], g \in Groups : Request(p, spis, IkeRekeyRequest(Draw(p), g))

RequestDpd(p) == \E spis \in DOMAIN ikes[p] : Request(p, spis, DpdRequest)

\* Only the original initiator moves.
RequestUpdate == \E spis \in DOMAIN ikes["I"] : Request("I", spis, UpdateRequest)

Lose(d) ==
    /\ lost < MaxLoss
    /\ lost' = lost + 1
    /\ net' = net \ {d}
    /\ UNCHANGED <<ikes, children, pending, drawn, requests, dups>>

-----------------------------------------------------------------------------
(* Answers *)

\* open_encrypted_gcm under the key of the SA the header names.
OpensAt(p, m) == m.spis \in DOMAIN ikes[p] /\ m.key = PeerSkE(ikes[p][m.spis])

\* Mutant: every request that opens is taken for a new one.
MutIsNewAlways(q, d) == d.to = Port(q) /\ ~d.data.response /\ OpensAt(q, d.data)

\* A request the caller has not answered yet.
IsNew(q, d) ==
    /\ d.to = Port(q) /\ ~d.data.response /\ OpensAt(q, d.data)
    /\ d.data.id = ikes[q][d.data.spis].expect

\* A socket is closed when its answer has come; what is sent to it then is lost.
IsOpen(q, socket) == \E r \in pending[Other(q)] : r.from = socket

\* The answer goes out under the SA of the request and is kept for repetitions.
Answer(q, d, inner, table) ==
    LET m == d.data
        reply == Message(m.spis, table[m.spis], m.id, TRUE, inner)
    IN
    /\ ikes' = [ikes EXCEPT ![q] =
            [table EXCEPT ![m.spis].expect = m.id + 1, ![m.spis].cached = {reply}]]
    /\ Receive(d, {Datagram(Port(q), d.from, reply)})

\* assigned_ip: the responder's caller knows the initiator's address.
AssignedIp(q) == IF q = "R" THEN {AssignedHost} ELSE {}

\* The selectors of the answer: narrowed again to the assigned address, or echoed.
AnsweredSelectors(q, ts) ==
    IF AssignedIp(q) # {} THEN [i |-> The(AssignedIp(q)), r |-> FullTunnel] ELSE ts

\* The payloads of the answers: SA, Nr, TSi and TSr; SA, Nr and KEr.
ChildRekeyAnswer(draw, ts) == [Empty EXCEPT !.sa = {draw}, !.nonce = {draw}, !.ts = {ts}]
IkeRekeyAnswer(draw) ==
    [Empty EXCEPT !.sa = {draw}, !.nonce = {draw}, !.ke = {[group |-> SuiteGroup, public |-> draw]}]

\* responder_process_rekey.
AnswerChildRekey(q, d) ==
    LET inner == d.data.inner
        draw == Draw(q)
        ts == AnsweredSelectors(q, The(inner.ts))
        child == ChildSa(ikes[q][d.data.spis].keys, The(inner.nonce), draw, "Responder",
                         draw, The(inner.sa))
    IN
    /\ IsChildRekey(inner)
    /\ IsNew(q, d)
    /\ children' = [children EXCEPT ![q] = @ \cup {[sa |-> child, ts |-> {ts}, answered |-> TRUE]}]
    /\ drawn' = [drawn EXCEPT ![q] = @ + 1]
    /\ Answer(q, d, ChildRekeyAnswer(draw, ts), ikes[q])
    /\ UNCHANGED <<pending, requests, lost>>

\* responder_process_ike_rekey; the answer is protected by the old SA.
AnswerIkeRekey(q, d) ==
    LET inner == d.data.inner
        old == ikes[q][d.data.spis]
        draw == Draw(q)
        spi_i == The(inner.sa)
        keys == RekeySessionKeys(old.keys, The(inner.ke).public, draw,
                                 The(inner.nonce), draw, spi_i, draw)
    IN
    /\ IsIkeSaRekey(inner)
    /\ The(inner.ke).group = SuiteGroup
    /\ IsNew(q, d)
    /\ drawn' = [drawn EXCEPT ![q] = @ + 1]
    /\ Answer(q, d, IkeRekeyAnswer(draw), Put(ikes[q], <<spi_i, draw>>, RekeyedSa(old, keys)))
    /\ UNCHANGED <<children, pending, requests, lost>>

\* DhGroupMismatch: an error, and the caller has nothing to send.
RejectIkeRekey(q, d) ==
    /\ IsIkeSaRekey(d.data.inner)
    /\ The(d.data.inner.ke).group # SuiteGroup
    /\ IsNew(q, d)
    /\ Receive(d, {})
    /\ UNCHANGED <<ikes, children, pending, drawn, requests, lost>>

\* open_informational, and the empty response to what it returns.
AnswerInformational(q, d) ==
    /\ d.data.inner.sa = {}
    /\ IsNew(q, d)
    /\ Answer(q, d, Empty, ikes[q])
    /\ UNCHANGED <<children, pending, drawn, requests, lost>>

\* A request already answered: the same answer again, to a socket that may be closed.
AnswerAgain(q, d) ==
    /\ d.to = Port(q) /\ ~d.data.response /\ OpensAt(q, d.data)
    /\ d.data.id + 1 = ikes[q][d.data.spis].expect
    /\ Receive(d, IF IsOpen(q, d.from)
                  THEN {Datagram(Port(q), d.from, m) : m \in ikes[q][d.data.spis].cached}
                  ELSE {})
    /\ UNCHANGED <<ikes, children, pending, drawn, requests, lost>>

-----------------------------------------------------------------------------
(* Completion *)

\* d is the answer to request r of p: it arrives at r's socket and opens.
Answers(p, r, d) == r \in pending[p] /\ d.to = r.from /\ OpensAt(p, d.data)

Done(p, d) ==
    /\ pending' = [pending EXCEPT ![p] = {}]
    /\ net' = {e \in net : e.to # d.to}
    /\ UNCHANGED dups

\* Mutant: the role on the IKE SA in place of the one in the exchange.
MutCompletedChild(p, r, d) ==
    ChildSa(ikes[p][r.data.spis].keys, The(r.data.inner.nonce), The(d.data.inner.nonce),
            ikes[p][r.data.spis].role, The(r.data.inner.sa), The(d.data.inner.sa))

\* initiator_complete_rekey, with the ni and new_spi of the request.
CompletedChild(p, r, d) ==
    ChildSa(ikes[p][r.data.spis].keys, The(r.data.inner.nonce), The(d.data.inner.nonce),
            "Initiator", The(r.data.inner.sa), The(d.data.inner.sa))

\* The requester reads no selectors from the answer.
CompleteChildRekey(p, d) ==
    \E r \in pending[p] :
        /\ Answers(p, r, d)
        /\ IsChildRekey(r.data.inner)
        /\ children' = [children EXCEPT ![p] = @ \cup
                {[sa |-> CompletedChild(p, r, d), ts |-> {}, answered |-> FALSE]}]
        /\ Done(p, d)
        /\ UNCHANGED <<ikes, drawn, requests, lost>>

\* The peer's completion of an IKE SA rekey.
CompleteIkeRekey(p, d) ==
    \E r \in pending[p] :
        LET mine == The(r.data.inner.sa)
            theirs == The(d.data.inner.sa)
            keys == RekeySessionKeys(ikes[p][r.data.spis].keys, mine, The(d.data.inner.ke).public,
                                     mine, The(d.data.inner.nonce), mine, theirs)
        IN
        /\ Answers(p, r, d)
        /\ IsIkeSaRekey(r.data.inner)
        /\ ikes' = [ikes EXCEPT ![p] = Put(@, <<mine, theirs>>, IkeSa("Initiator", keys, 0, 0))]
        /\ Done(p, d)
        /\ UNCHANGED <<children, drawn, requests, lost>>

\* dpd_probe: the acknowledgement opens and is empty.
CompleteInformational(p, d) ==
    \E r \in pending[p] :
        /\ Answers(p, r, d)
        /\ r.data.inner.sa = {}
        /\ Done(p, d)
        /\ UNCHANGED <<ikes, children, drawn, requests, lost>>

-----------------------------------------------------------------------------

\* The SAs of the handshake: Message IDs 0 and 1 went to IKE_SA_INIT and IKE_AUTH.
Init ==
    LET keys == [handshake |-> TRUE]
        spis == <<<<"I", 0>>, <<"R", 0>>>>
        child(role, mine, theirs, ts) ==
            {[sa |-> ChildSa(keys, spis[1], spis[2], role, mine, theirs),
              ts |-> ts, answered |-> role = "Responder"]}
    IN
    /\ ikes = [p \in Peers |->
            Put([x \in {} |-> x], spis,
                IF p = "I" THEN IkeSa("Initiator", keys, 2, 0) ELSE IkeSa("Responder", keys, 0, 2))]
    /\ children = [p \in Peers |->
            IF p = "I"
            THEN child("Initiator", spis[1], spis[2], {})
            ELSE child("Responder", spis[2], spis[1], {[i |-> AssignedHost, r |-> FullTunnel]})]
    /\ pending = [p \in Peers |-> {}]
    /\ drawn = [p \in Peers |-> 0]
    /\ requests = 0 /\ lost = 0
    /\ NetInit

Requests(p) == RequestChildRekey(p) \/ RequestIkeRekey(p) \/ RequestDpd(p)

\* What has arrived at the port q serves, and at the sockets of p's requests.
Served(q) == {d \in net : d.to = Port(q)}
Arrived(p) == {d \in net : \E r \in pending[p] : d.to = r.from}

Serve(q) ==
    \E d \in Served(q) :
        \/ AnswerChildRekey(q, d) \/ AnswerIkeRekey(q, d) \/ RejectIkeRekey(q, d)
        \/ AnswerInformational(q, d) \/ AnswerAgain(q, d)

Complete(p) ==
    \E d \in Arrived(p) : CompleteChildRekey(p, d) \/ CompleteIkeRekey(p, d) \/ CompleteInformational(p, d)

Next ==
    \/ \E p \in Peers : Requests(p) \/ Serve(p) \/ Complete(p)
    \/ RequestUpdate
    \/ \E d \in net : Lose(d)

Spec == Init /\ [][Next]_vars

-----------------------------------------------------------------------------
(* Properties *)

\* Every CHILD SA a requester holds is the mirror image of one its peer answered with,
\* and those of the initiator were given the selectors IKE_AUTH installed: whichever
\* end asked, whatever the roles on the IKE SA it asked under.
ChildrenMirror ==
    \A p \in Peers : \A c \in children[p] :
        ~c.answered =>
            \E o \in children[Other(p)] :
                /\ o.answered /\ Mirror(c.sa, o.sa)
                /\ p = "I" => o.ts = {[i |-> AssignedHost, r |-> FullTunnel]}

\* Every IKE SA an end holds as its initiator, its peer holds as its responder with
\* the same keys, so that each opens what the other seals.
IkeSasMirror ==
    \A p \in Peers : \A spis \in DOMAIN ikes[p] :
        ikes[p][spis].role = "Initiator" =>
            /\ spis \in DOMAIN ikes[Other(p)]
            /\ OurSkE(ikes[p][spis]) = PeerSkE(ikes[Other(p)][spis])
            /\ PeerSkE(ikes[p][spis]) = OurSkE(ikes[Other(p)][spis])
            /\ OurSkE(ikes[p][spis]) # PeerSkE(ikes[p][spis])

\* No answer is given in vain: a CHILD SA derived by the answering end is mirrored
\* by the other, or the request it answers is still unanswered there.  A repeated
\* request derives nothing a second time.
NoOrphans ==
    \A q \in Peers : \A c \in children[q] :
        c.answered =>
            \/ \E o \in children[Other(q)] : Mirror(c.sa, o.sa)
            \/ \E r \in pending[Other(q)] :
                    r.data.inner.nonce = {c.sa.inbound.key.ni}

\* Nothing arrives that its receiver cannot open: a request opens at the end that
\* serves it from the moment that end holds its IKE SA, and an answer opens at the
\* socket of its request, however often either end has rekeyed since it was sealed.
ArrivalsOpen ==
    \A p \in Peers :
        /\ \A d \in Served(p) : d.data.spis \in DOMAIN ikes[p] => OpensAt(p, d.data)
        /\ \A d \in Arrived(p) : OpensAt(p, d.data)

-----------------------------------------------------------------------------
(* The inductive invariant behind the four safety properties.  Its core is   *)
(* the agreement of the two ends' Message IDs: a request is either still     *)
(* pending at its sender, or its id is below the one its receiver expects.   *)

\* The draws p has made, and those of them that are the sockets of its requests.
DrawsOf(p) == {<<p, n>> : n \in 0..drawn[p]}
Sockets(p) == {<<p, n>> : n \in 1..drawn[p]}

\* The tables and counters.  An IKE SA is named by a draw of each end.
Tables ==
    /\ DOMAIN ikes = Peers /\ DOMAIN children = Peers /\ DOMAIN pending = Peers
    /\ drawn \in [Peers -> Nat]
    /\ \A p \in Peers : \A s \in DOMAIN ikes[p] :
        /\ \E x \in Peers : s \in DrawsOf(x) \X DrawsOf(Other(x))
        /\ ikes[p][s] \in [role : {"Initiator", "Responder"}, keys : {ikes[p][s].keys},
                           next : Nat, expect : Nat, cached : {ikes[p][s].cached}]

\* What a request made with this draw may carry.
IsRequestInner(p, draw, inner) ==
    \/ inner = ChildRekeyRequest(draw)
    \/ \E g \in Groups : inner = IkeRekeyRequest(draw, g)
    \/ inner = DpdRequest
    \/ p = "I" /\ inner = UpdateRequest

\* The receiver has answered p's request r, and expects the next one.
IsAnswered(p, r) ==
    /\ r.data.spis \in DOMAIN ikes[Other(p)]
    /\ ikes[Other(p)][r.data.spis].expect = r.data.id + 1

\* The CHILD SA, and the IKE SA, its receiver derived from p's request r.
AnsweredChild(p, r, draw) ==
    [sa |-> ChildSa(ikes[Other(p)][r.data.spis].keys, r.from, draw, "Responder", draw, r.from),
     ts |-> {AnsweredSelectors(Other(p), [i |-> FullTunnel, r |-> FullTunnel])},
     answered |-> TRUE]

AnsweredKeys(p, r, draw) ==
    RekeySessionKeys(ikes[Other(p)][r.data.spis].keys, r.from, draw, r.from, draw, r.from, draw)

\* The payloads of the answer p's request r has been given, and what came with them.
IsAnswerInner(p, r, inner) ==
    \/ \E draw \in Sockets(Other(p)) :
        /\ r.data.inner = ChildRekeyRequest(r.from)
        /\ inner = ChildRekeyAnswer(draw, AnsweredSelectors(Other(p), [i |-> FullTunnel, r |-> FullTunnel]))
        /\ AnsweredChild(p, r, draw) \in children[Other(p)]
    \/ \E draw \in Sockets(Other(p)) :
        /\ IsIkeSaRekey(r.data.inner)
        /\ inner = IkeRekeyAnswer(draw)
        /\ <<r.from, draw>> \in DOMAIN ikes[Other(p)]
        /\ ikes[Other(p)][<<r.from, draw>>].role = "Responder"
        /\ ikes[Other(p)][<<r.from, draw>>].keys = AnsweredKeys(p, r, draw)
    \/ r.data.inner.sa = {}

\* The message m is sealed by p under an IKE SA it holds.
SealedBy(p, m) == m.spis \in DOMAIN ikes[p] /\ m.key = OurSkE(ikes[p][m.spis])

\* The answer its receiver keeps for p's request r is the answer to r.
AnswerKept(p, r) ==
    \E a \in ikes[Other(p)][r.data.spis].cached :
        /\ ikes[Other(p)][r.data.spis].cached = {a}
        /\ a.spis = r.data.spis /\ SealedBy(Other(p), a)
        /\ IsAnswerInner(p, r, a.inner)

\* p's pending request r: the last one under its IKE SA.
IsPending(p, r) ==
    /\ pending[p] = {r}
    /\ r.from \in Sockets(p) /\ r.to = Port(Other(p))
    /\ SealedBy(p, r.data)
    /\ r.data.id \in Nat /\ ikes[p][r.data.spis].next = r.data.id + 1
    /\ IsRequestInner(p, r.from, r.data.inner)
    /\ \A s \in DOMAIN ikes[p] : s[1] # r.from
    /\ IF r.data.spis \in DOMAIN ikes[Other(p)]
       THEN ikes[Other(p)][r.data.spis].expect \in {r.data.id, r.data.id + 1}
       ELSE r.data.id = 0
    /\ IsAnswered(p, r) => AnswerKept(p, r)

\* d is a request of p, pending or answered before.
IsRequestOf(p, d) ==
    /\ d.to = Port(Other(p)) /\ d.from \in Sockets(p) /\ SealedBy(p, d.data)
    /\ \/ d \in pending[p]
       \/ /\ d.data.spis \in DOMAIN ikes[Other(p)]
          /\ d.data.id \in Nat /\ d.data.id < ikes[Other(p)][d.data.spis].expect
          /\ \A r \in pending[p] : r.from # d.from

\* d is the answer to p's pending request.
IsAnswerTo(p, d) ==
    \E r \in pending[p] :
        d.to = r.from /\ IsAnswered(p, r) /\ d.data \in ikes[Other(p)][r.data.spis].cached

\* An IKE SA of p without a pending request of its own: its peer expects the next.
IsIdle(p, s) ==
    ikes[p][s].next = IF s \in DOMAIN ikes[Other(p)] THEN ikes[Other(p)][s].expect ELSE 0

\* An IKE SA of p its peer does not hold: the answer is on its way.
IsAlone(p, s) ==
    /\ ikes[p][s].role = "Responder" /\ ikes[p][s].expect = 0
    /\ \E r \in pending[Other(p)] :
        /\ IsIkeSaRekey(r.data.inner) /\ IsAnswered(Other(p), r)
        /\ \E a \in ikes[p][r.data.spis].cached : a.inner.sa = {s[2]}
        /\ s[1] = r.from

\* The nonce of a CHILD SA p answered with, if it is that of a pending request.
IsChildOfAnswer(p, c) ==
    /\ c.sa.inbound.key.ni \in DrawsOf(Other(p))
    /\ \A r \in pending[Other(p)] :
        r.from = c.sa.inbound.key.ni =>
            /\ IsChildRekey(r.data.inner) /\ IsAnswered(Other(p), r)
            /\ \E a \in ikes[p][r.data.spis].cached :
                \E draw \in a.inner.sa : c = AnsweredChild(Other(p), r, draw)

PendingOk == \A p \in Peers : \A r \in pending[p] : IsPending(p, r)

NetOk == \A d \in net : \E p \in Peers : IsRequestOf(p, d) \/ IsAnswerTo(p, d)

\* The two ends of an IKE SA have opposite roles, the same keys and Message IDs in step.
IsPaired(p, s) ==
    IF s \in DOMAIN ikes[Other(p)]
    THEN ikes[p][s].role # ikes[Other(p)][s].role /\ ikes[p][s].keys = ikes[Other(p)][s].keys
    ELSE IsAlone(p, s)

SasOk ==
    \A p \in Peers : \A s \in DOMAIN ikes[p] :
        IsPaired(p, s) /\ ((\A r \in pending[p] : r.data.spis # s) => IsIdle(p, s))

ChildrenOk == \A p \in Peers : \A c \in children[p] : c.answered => IsChildOfAnswer(p, c)

IInv ==
    Tables /\ PendingOk /\ NetOk /\ SasOk /\ ChildrenOk /\ ChildrenMirror /\ NoOrphans
=============================================================================
