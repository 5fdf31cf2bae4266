------------------------------ MODULE MCSaInit ------------------------------
(* Three offers: one the responder takes with another group than the        *)
(* initiator guesses, one it takes in the second proposal, and none.        *)
EXTENDS SaInit

Proposal(num, protocol, encr, integ, dh) ==
    [num |-> num, protocol |-> protocol, encr |-> encr, prf |-> {"SHA2_256"}, integ |-> integ, dh |-> dh]

\* AEAD, with the responder's preferred group second.
Gcm == Proposal(1, "IKE", {"AES_GCM_256"}, {}, <<"MODP_2048", "X25519">>)

\* An unimplemented group first: the initiator falls back to X25519 as a guess.
Cbc == Proposal(2, "IKE", {"AES_CBC_256"}, {"HMAC_SHA2_256"}, <<"ECP_256", "MODP_1024">>)

\* Not usable: CBC without integrity.
NoInteg == Proposal(1, "IKE", {"AES_CBC_256"}, {}, <<"X25519">>)

MCOffers == {<<Gcm>>, <<NoInteg, Cbc>>, <<NoInteg>>}
=============================================================================
