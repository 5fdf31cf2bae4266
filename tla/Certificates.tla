---------------------------- MODULE Certificates ----------------------------
(***************************************************************************)
(* Certificate authentication, ikev2/sign.rs, as operators.                *)
(*                                                                         *)
(* A certificate is a record: subject and issuer names, the key pair it    *)
(* certifies (an algorithm and a name), the key pair that signed it, the   *)
(* CA flag, the validity window and the dNSNames of its SubjectAltName.    *)
(* DER and the signature algorithms are symbolic: a signature verifies     *)
(* under exactly the key that made it, over exactly the octets it covers.  *)
(***************************************************************************)
EXTENDS Integers, Sequences

InSeq(s) == {s[i] : i \in DOMAIN s}

\* verify_cert_signed_by: the signature alone.
SignedBy(cert, issuer) == cert.signer = issuer.key

\* cert_validity; within_validity, both ends of the window included.
Validity(cert) == cert.not_before..cert.not_after
WithinValidity(cert, now) == now \in Validity(cert)

\* cert_is_ca; cert_has_dns_name, names taken regardless of case.
IsCa(cert) == cert.ca
HasDnsName(cert, name) == name \in cert.dns

\* subject_dn, issuer_dn: cert names this issuer and carries its signature.
IssuedBy(cert, issuer) == issuer.subject = cert.issuer /\ SignedBy(cert, issuer)

\* Mutant: the CA flag of an intermediate is not looked at.
MutUsableIssuerIgnoresCa(cert, inter) == IssuedBy(cert, inter)

\* What the search for the next intermediate asks of a candidate.
UsableIssuer(cert, inter) == IsCa(inter) /\ IssuedBy(cert, inter)

\* The FIRST intermediate that fits, as Iterator::find: a set of at most one.
FirstIssuer(cert, intermediates) ==
    {intermediates[i] : i \in {k \in DOMAIN intermediates :
        /\ UsableIssuer(cert, intermediates[k])
        /\ \A j \in 1..(k - 1) : ~UsableIssuer(cert, intermediates[j])}}

\* One pass of the loop in validate_chain over cert: it is current, and issued by
\* an anchor or by an intermediate that passes in its turn.
ChainPass(cert, intermediates, anchors, now, next) ==
    /\ WithinValidity(cert, now)
    /\ \/ \E a \in InSeq(anchors) : IssuedBy(cert, a)
       \/ \E issuer \in FirstIssuer(cert, intermediates) : next[issuer]

\* validate_chain.  The loop runs at most Len(intermediates) + 1 times; left is the
\* number of passes still to come.
ValidateChain(leaf, intermediates, anchors, now) ==
    LET certs == {leaf} \cup InSeq(intermediates)
        pass[left \in 0..Len(intermediates)] ==
            [cert \in certs |->
                ChainPass(cert, intermediates, anchors, now,
                          IF left = 0 THEN [c \in certs |-> FALSE] ELSE pass[left - 1])]
    IN  pass[Len(intermediates)][leaf]

\* SigningKey::sign_auth_data and verify_auth_data.
Signature(key, octets) == [key |-> key, octets |-> octets]

\* verify_cert_auth: pinned or chained, named, and the signer of the octets.
VerifyCertAuth(leaf, intermediates, trusted, expected_dns, now, data, octets) ==
    /\ IF leaf \in InSeq(trusted)
       THEN WithinValidity(leaf, now)
       ELSE ValidateChain(leaf, intermediates, trusted, now)
    /\ HasDnsName(leaf, expected_dns)
    /\ data = Signature(leaf.key, octets)

-----------------------------------------------------------------------------
(* Reference definitions: what a valid path is, whoever looks for it and    *)
(* in whatever order.                                                       *)

\* certs is a path: each certificate current, each but the first a CA that
\* issued the one before it, the last issued by an anchor.
IsPath(certs, anchors, now) ==
    /\ \A i \in DOMAIN certs : WithinValidity(certs[i], now)
    /\ \A i \in 1..(Len(certs) - 1) :
            /\ IsCa(certs[i + 1])
            /\ certs[i + 1].subject = certs[i].issuer
            /\ certs[i].signer = certs[i + 1].key
    /\ \E a \in InSeq(anchors) :
            a.subject = certs[Len(certs)].issuer /\ a.key = certs[Len(certs)].signer

PathExists(leaf, intermediates, anchors, now) ==
    \E n \in 0..Len(intermediates) :
        \E up \in [1..n -> InSeq(intermediates)] : IsPath(<<leaf>> \o up, anchors, now)

\* No two intermediates have the same subject: at most one fits at each hop.
Unambiguous(intermediates) ==
    \A i, j \in DOMAIN intermediates :
        intermediates[i].subject = intermediates[j].subject => i = j
=============================================================================
