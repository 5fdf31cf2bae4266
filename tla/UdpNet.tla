------------------------------- MODULE UdpNet -------------------------------
(***************************************************************************)
(* The datagram network under transport.rs (UdpTransport), shared by the   *)
(* handshake modules.  A datagram stays in `net` from send_to until the    *)
(* receiver's recv_from returns it, in any order, and the network may keep *)
(* a copy back for a second delivery.  Loss needs no action: nothing ever  *)
(* obliges a receiver to take a datagram, so a lost one is one that stays  *)
(* in `net` for good.  Only the fair specifications rule that out.         *)
(***************************************************************************)
EXTENDS Naturals

CONSTANT MaxDup     \* bound: deliveries that leave a copy behind

ASSUME UdpNetAssumption == MaxDup \in Nat

VARIABLES
    net,        \* datagrams in flight or in a socket's receive buffer
    dups        \* copies kept back so far

netVars == <<net, dups>>

Datagram(from, to, data) == [from |-> from, to |-> to, data |-> data]

NetInit == net = {} /\ dups = 0

Send(out) == net' = net \cup out /\ UNCHANGED dups

\* recv_from returns d and the handler sends `out`.
Receive(d, out) ==
    /\ d \in net
    /\ \/ net' = (net \ {d}) \cup out /\ UNCHANGED dups
       \/ dups < MaxDup /\ dups' = dups + 1 /\ net' = net \cup out

\* HashMap::insert.
Put(f, k, v) == [x \in DOMAIN f \cup {k} |-> IF x = k THEN v ELSE f[x]]
=============================================================================
