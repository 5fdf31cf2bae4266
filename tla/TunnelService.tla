---------------------------- MODULE TunnelService ---------------------------
(***************************************************************************)
(* What a key-exchange driver promises its two callers, whatever messages  *)
(* it takes: a client calls connect, the responder grants tunnels, and a   *)
(* call that returns holds the other end of a tunnel granted to that very  *)
(* call.  A grant may go unused, and a call may be granted several; it     *)
(* holds at most one.                                                      *)
(***************************************************************************)
EXTENDS EspOps

CONSTANTS
    Clients,    \* the callers of connect
    Admitted,   \* the clients whose credential the responder accepts
    Trusting    \* the clients that accept the responder's credential

VARIABLES
    calls,      \* calls[c]: connect calls c has made
    grants,     \* the tunnels granted: to whom, for which call, our CHILD SA
    holds       \* holds[c]: the CHILD SA c's last call returned, if it has

vars == <<calls, grants, holds>>

Init ==
    /\ calls = [c \in Clients |-> 0]
    /\ grants = {}
    /\ holds = [c \in Clients |-> {}]

\* A new call; what the one before returned is the caller's no more.
Call(c) ==
    /\ calls' = [calls EXCEPT ![c] = @ + 1]
    /\ holds' = [holds EXCEPT ![c] = {}]
    /\ UNCHANGED grants

\* The responder grants an admitted client a tunnel for a call it made, on an SPI
\* it granted to no one before.
Grant(c) ==
    /\ c \in Admitted
    /\ \E g \in grants' :
        /\ grants' = grants \cup {g}
        /\ g.to = c /\ g.call \in 1..calls[c]
        /\ \A h \in grants : h.child.inbound.spi # g.child.inbound.spi
    /\ UNCHANGED <<calls, holds>>

\* The call returns with the other end of a tunnel granted to it.
Take(c) ==
    /\ c \in Trusting
    /\ holds[c] = {}
    /\ \E s \in holds'[c], g \in grants :
        /\ holds' = [holds EXCEPT ![c] = {s}]
        /\ g.to = c /\ g.call = calls[c]
        /\ Mirror(s, g.child)
    /\ UNCHANGED <<calls, grants>>

Next == \E c \in Clients : Call(c) \/ Grant(c) \/ Take(c)

Spec == Init /\ [][Next]_vars
=============================================================================
