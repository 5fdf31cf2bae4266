------------------------------- MODULE MCEap --------------------------------
(* One account, three clients (the right password, a wrong one, an unknown  *)
(* user), and gateways that authenticate with a PSK or with each kind of    *)
(* certificate chain.                                                       *)
EXTENDS Eap, TLC

MCClients == {[user |-> "alice", password |-> "right"], [user |-> "alice", password |-> "wrong"],
              [user |-> "carol", password |-> "right"]}

MCAccounts == "alice" :> "right" @@ "bob" :> "other"

Key(alg, name) == [alg |-> alg, name |-> name]

Cert(subject, key, issuer, signer, ca, not_after, dns) ==
    [subject |-> subject, key |-> key, issuer |-> issuer, signer |-> signer, ca |-> ca,
     not_before |-> 1, not_after |-> not_after, dns |-> dns]

RootKey == Key("ecdsa", "root")
IntKey == Key("ecdsa", "int")
LeafKey == Key("ecdsa", "leaf")
RsaKey == Key("rsa", "leaf2")

Root == Cert("root", RootKey, "root", RootKey, TRUE, 9, {})
Inter == Cert("int", IntKey, "root", RootKey, TRUE, 9, {})
InterOld == Cert("int", IntKey, "root", RootKey, TRUE, 4, {})
NotCa == Cert("shop", IntKey, "root", RootKey, FALSE, 9, {"shop"})
Leaf == Cert("leaf", LeafKey, "int", IntKey, FALSE, 9, {"vpn"})
LeafRsa == Cert("leaf2", RsaKey, "int", IntKey, FALSE, 9, {"vpn"})
LeafOther == Cert("leaf", LeafKey, "int", IntKey, FALSE, 9, {"shop"})
LeafOld == Cert("leaf", LeafKey, "int", IntKey, FALSE, 4, {"vpn"})
UnderNotCa == Cert("leaf", LeafKey, "shop", IntKey, FALSE, 9, {"vpn"})
Pinned == Cert("own", LeafKey, "own", LeafKey, FALSE, 9, {"vpn"})

MCTrustedCas == <<Root, Pinned>>
MCNow == 5

CertAuth(key, chain) == [kind |-> "Cert", key |-> key, chain |-> chain]

MCServerAuths ==
    {[kind |-> "Psk", psk |-> "psk"]} \cup
    {CertAuth(LeafKey, <<Leaf, Inter>>), CertAuth(RsaKey, <<LeafRsa, NotCa, Inter>>),
     CertAuth(LeafKey, <<Leaf, InterOld, Inter>>), CertAuth(LeafKey, <<Leaf, InterOld>>),
     CertAuth(LeafKey, <<LeafOther, Inter>>), CertAuth(LeafKey, <<LeafOld, Inter>>),
     CertAuth(LeafKey, <<UnderNotCa, NotCa>>), CertAuth(RsaKey, <<Leaf, Inter>>),
     CertAuth(LeafKey, <<Pinned>>)}
=============================================================================
