---------------------------- MODULE MCHandshake -----------------------------
(* A server that proves itself by PSK and accepts the certificates of two     *)
(* clients: `a` accepts the server's PSK, `b` expects another one.            *)
EXTENDS Handshake, TLC

CONSTANTS a, b

MCLocalAuth == (a :> "cert_a") @@ (b :> "cert_b")
MCAttempts == (a :> 2) @@ (b :> 1)
MCPeerAuth == (a :> {"psk"}) @@ (b :> {"other"})
=============================================================================
