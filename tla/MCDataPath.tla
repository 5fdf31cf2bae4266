----------------------------- MODULE MCDataPath -----------------------------
(* Two clients that share the server's credential; `a` may connect twice.   *)
EXTENDS DataPath, TLC

CONSTANTS a, b

MCAuth == (a :> "psk") @@ (b :> "psk")
MCPeer == (a :> {"psk"}) @@ (b :> {"psk"})
MCAttempts == (a :> 2) @@ (b :> 1)
=============================================================================
