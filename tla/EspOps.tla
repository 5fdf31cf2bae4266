------------------------------- MODULE EspOps -------------------------------
(***************************************************************************)
(* The ESP security association of esp.rs as pure operators, shared by the *)
(* data-plane module and by the handshake modules that derive CHILD SAs.   *)
(*                                                                         *)
(* Key material is symbolic: a key is the record of the inputs it was      *)
(* derived from, so two keys are equal exactly when every input agrees,    *)
(* and a packet sealed under one key opens under no other.  An inner IP    *)
(* packet is an opaque value; padding and the trailer are left out, since  *)
(* sealing adds them and opening strips them again.                        *)
(***************************************************************************)
EXTENDS Naturals

CONSTANT MaxSeq    \* u32::MAX, the last sequence number an SA can use

ASSUME MaxSeqAssumption == MaxSeq \in Nat

\* EspSa::new: the sequence counter starts at 0 and the first packet carries 1.
EspSa(spi, key) == [spi |-> spi, key |-> key, seq |-> 0]

\* derive_child_keys: only SK_d and the two nonces enter, never the SPIs.
ChildKey(sk_d, ni, nr, dir) == [sk_d |-> sk_d, ni |-> ni, nr |-> nr, dir |-> dir]

\* Mutant: the role is ignored, so both ends encrypt with the initiator's key.
MutChildSaIgnoresRole(sk_d, ni, nr, role, local_spi, peer_spi) ==
    [outbound |-> EspSa(peer_spi, ChildKey(sk_d, ni, nr, "i")),
     inbound |-> EspSa(local_spi, ChildKey(sk_d, ni, nr, "r"))]

\* Mutant: both directions get our own SPI and the initiator's key.
MutChildSaOneDirection(sk_d, ni, nr, role, local_spi, peer_spi) ==
    [outbound |-> EspSa(local_spi, ChildKey(sk_d, ni, nr, "i")),
     inbound |-> EspSa(local_spi, ChildKey(sk_d, ni, nr, "i"))]

\* ChildSa::derive: outbound carries the peer's SPI, inbound our own.
ChildSa(sk_d, ni, nr, role, local_spi, peer_spi) ==
    LET encr_i == ChildKey(sk_d, ni, nr, "i")
        encr_r == ChildKey(sk_d, ni, nr, "r")
    IN  IF role = "Initiator"
        THEN [outbound |-> EspSa(peer_spi, encr_i), inbound |-> EspSa(local_spi, encr_r)]
        ELSE [outbound |-> EspSa(peer_spi, encr_r), inbound |-> EspSa(local_spi, encr_i)]

\* seq.checked_add(1) is Some: the SA can still seal.
CanSeal(sa) == sa.seq < MaxSeq

\* Mutant: wrapping_add in place of checked_add, on a counter of MaxSeq values.
MutSealedWraps(sa) == [sa EXCEPT !.seq = (sa.seq + 1) % MaxSeq]

\* The SA after EspSa::seal, and the packet it emits: IV = sequence number.
Sealed(sa) == [sa EXCEPT !.seq = sa.seq + 1]

EspPacket(sa, inner) ==
    [spi |-> sa.spi, seq |-> sa.seq + 1, iv |-> sa.seq + 1, key |-> sa.key, inner |-> inner]

\* EspSa::open succeeds: SPI equality, then the GCM tag under our key.  Nothing
\* about the sequence number is remembered or compared.
Opens(sa, pkt) == pkt.spi = sa.spi /\ pkt.key = sa.key

\* Two CHILD SAs are the two ends of one tunnel: what each stamps and encrypts
\* with is what the other receives on.
Mirror(a, b) ==
    /\ a.outbound.spi = b.inbound.spi /\ a.outbound.key = b.inbound.key
    /\ b.outbound.spi = a.inbound.spi /\ b.outbound.key = a.inbound.key
=============================================================================
