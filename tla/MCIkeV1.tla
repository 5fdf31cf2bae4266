------------------------------ MODULE MCIkeV1 -------------------------------
(* Client `a` shares the server's PSK and may connect twice, `b` does not.  *)
EXTENDS IkeV1, TLC

CONSTANTS a, b

MCPsk == (a :> "psk") @@ (b :> "other")
MCAttempts == (a :> 2) @@ (b :> 1)
=============================================================================
