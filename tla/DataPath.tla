------------------------------ MODULE DataPath ------------------------------
(***************************************************************************)
(* The handshake composed with the ESP data plane: the CHILD SA a client's *)
(* connect returns, and the one an application takes out of the server     *)
(* with Server::take_child, each become a Tunnel (tunnel.rs) that seals    *)
(* and opens packets while the handshake goes on around them.              *)
(*                                                                         *)
(* A tunnel is named by its inbound SPI.  An inner packet is <<tunnel, how *)
(* many it sent before>>, so no two seals are alike.  ESP packets are kept *)
(* for ever in `esp`, and any of them may reach any tunnel at any time:    *)
(* loss, duplication, delay and misdelivery are all covered.  Tunnel::recv *)
(* is EspSa::open on a shared reference, which leaves the SA as it was, so *)
(* it is the predicate Opens and not an action.                            *)
(***************************************************************************)
EXTENDS Handshake

VARIABLES
    tunnels,    \* tunnels[spi]: the ChildSa a Tunnel owns
    esp         \* ESP packets sent so far

dpVars == <<vars, tunnels, esp>>

\* connect returned; the application wraps the CHILD SA in a Tunnel.
ClientTunnel(c) ==
    /\ client[c].pc = "established"
    /\ ChildSpi(c) \notin DOMAIN tunnels
    /\ tunnels' = Put(tunnels, ChildSpi(c), client[c].child)
    /\ UNCHANGED <<vars, esp>>

\* Server::take_child removes the entry and hands it over.
TakeChild(key) ==
    /\ key \in DOMAIN children
    /\ tunnels' = Put(tunnels, children[key].inbound.spi, children[key])
    /\ children' = [k \in DOMAIN children \ {key} |-> children[k]]
    /\ UNCHANGED <<client, sessions, events, draws, net, dups, esp>>

\* Tunnel::send: seal advances the counter even if the datagram is lost; at
\* u32::MAX it is an Err that changes nothing.
TunnelSend(t) ==
    LET sa == tunnels[t].outbound IN
        /\ CanSeal(sa)
        /\ esp' = esp \cup {EspPacket(sa, <<t, Cardinality({p \in esp : p.inner[1] = t})>>)}
        /\ tunnels' = [tunnels EXCEPT ![t].outbound = Sealed(sa)]
        /\ UNCHANGED vars

DPInit ==
    /\ Init
    /\ tunnels = [t \in {} |-> None]
    /\ esp = {}

DataNext ==
    \/ \E c \in Clients : ClientTunnel(c)
    \/ \E key \in DOMAIN children : TakeChild(key)
    \/ \E t \in DOMAIN tunnels : TunnelSend(t)

DPNext ==
    \/ Next /\ UNCHANGED <<tunnels, esp>>
    \/ DataNext

DPSpec == DPInit /\ [][DPNext]_dpVars

-----------------------------------------------------------------------------
(* Properties *)

\* No two different packets are ever sealed under one key with the same GCM
\* nonce: EspSa::seal "advances the sequence number, which must never repeat
\* under one key" (esp.rs).  The counter lives in the SA, so this also needs
\* every key to belong to one SA only.
NonceUnique ==
    \A p, q \in esp : p.key = q.key /\ p.iv = q.iv => p = q

\* The server tunnel that client tunnel t was negotiated with.
Negotiated(t, s) ==
    \E e \in events : e.key[1] = t /\ e.child.inbound.spi = s

\* Tunnel::recv returns only packets sealed by the tunnel it was negotiated
\* with: not its own, and not those of another client or another connect call,
\* whichever socket they reach.
OpensOnlyPeer ==
    \A t \in DOMAIN tunnels, pkt \in esp :
        Opens(tunnels[t].inbound, pkt) =>
            Negotiated(t, pkt.inner[1]) \/ Negotiated(pkt.inner[1], t)

\* A client's tunnel and a server's tunnel that grew from the same connect call
\* are the two ends of one tunnel: each opens everything the other seals.
TunnelsInStep ==
    \A t, s \in DOMAIN tunnels : Negotiated(t, s) => Mirror(tunnels[t], tunnels[s])

-----------------------------------------------------------------------------
(* The inductive invariant behind OpensOnlyPeer, on any network: every       *)
(* tunnel is one end of the CHILD SA of an Established event, with only its  *)
(* counter moved on, and every packet is accounted for by that counter.      *)

\* What take_child handed over for event e, and what connect returned for it.
ServerEnd(t, e) ==
    /\ t = e.child.inbound.spi
    /\ tunnels[t].outbound.spi = e.child.outbound.spi
    /\ tunnels[t].outbound.key = e.child.outbound.key
    /\ tunnels[t].inbound = e.child.inbound

ClientEnd(t, e) == t = e.key[1] /\ Mirror(tunnels[t], e.child)

\* The fields of a CHILD SA whose outbound counter stands at `seq`.
ChildAt(ch, seq) ==
    /\ ch = [outbound |-> ch.outbound, inbound |-> ch.inbound]
    /\ ch.outbound = [spi |-> ch.outbound.spi, key |-> ch.outbound.key, seq |-> seq]

TunnelOrigin(t) ==
    /\ \E seq \in 0..MaxSeq : ChildAt(tunnels[t], seq)
    /\ \E e \in events : ServerEnd(t, e) \/ ClientEnd(t, e)

PacketOrigin(p) ==
    /\ p.inner[1] \in DOMAIN tunnels
    /\ p.key = tunnels[p.inner[1]].outbound.key
    /\ p.iv \in 1..tunnels[p.inner[1]].outbound.seq

\* A child not yet taken is that of an event, and no tunnel runs on its SPI.
ChildOrigin(key) ==
    /\ \E e \in events : e.key = key /\ e.child = children[key]
    /\ children[key].inbound.spi \notin DOMAIN tunnels

DPInv ==
    /\ IInv
    /\ \A e \in events : \E m \in 1..draws : e.child.inbound.spi = <<Server, m>>
    /\ \A e, f \in events : e.child.inbound.spi = f.child.inbound.spi => e = f
    /\ \A c \in Clients : Established(c) => ChildAt(client[c].child, 0)
    /\ \A key \in DOMAIN children : ChildOrigin(key)
    /\ \A t \in DOMAIN tunnels : TunnelOrigin(t)
    /\ \A p \in esp : PacketOrigin(p)
    /\ \A p, q \in esp : p.inner[1] = q.inner[1] /\ p.iv = q.iv => p = q

(* What NonceUnique, TunnelsInStep and OneChildPerConnect need besides, and  *)
(* what only a network that never delivers twice provides: the IKE_AUTH      *)
(* request of a connect call is in flight, or was answered, at most once.    *)

\* The IKE_AUTH request of the call that drew `local` is in flight as d.
AuthInFlight(d, local) ==
    d.to = Server /\ d.data.exchange = "IKE_AUTH" /\ d.data.spi_i = local

OnceInv ==
    /\ OneChildPerConnect
    /\ \A d \in net, e \in events : ~AuthInFlight(d, e.key[1])
    /\ \A d, x \in net : AuthInFlight(d, x.data.spi_i) /\ AuthInFlight(x, x.data.spi_i) => d = x
    /\ \A c \in Clients : client[c].pc = "sa_init" =>
        /\ \A d \in net : ~AuthInFlight(d, ChildSpi(c))
        /\ \A e \in events : e.key[1] # ChildSpi(c)
=============================================================================
