------------------------------ MODULE MCFraming -----------------------------
EXTENDS Framing

Fill(n, v) == [i \in 1..n |-> v]
Payload(type, body) == [type |-> type, body |-> body]

Transform(t, id, k) == [transform_type |-> t, transform_id |-> id, key_length |-> k]
Proposal(num, proto, spi, ts) == [num |-> num, protocol_id |-> proto, spi |-> spi, transforms |-> ts]
Sa(ps) == Payload("SA", [proposals |-> ps])
Selector(n) ==
    [ts_type |-> 7, ip_protocol |-> 0, start_port |-> 0, end_port |-> Octet * Octet - 1,
     start_addr |-> Fill(n, 0), end_addr |-> Fill(n, 15)]
NonceOf(n) == Payload("Nonce", [data |-> Fill(n, 3)])

Suite == <<Transform(1, 20, {100}), Transform(2, 5, {}), Transform(4, 31, {})>>
\* As many transforms as one octet counts, and one more.
Many(n) == [i \in 1..n |-> Transform(4, i, {})]

\* An SPI in a Notify, an SPI in a proposal, traffic selectors, and an attribute.
NotifyOf(n) == Payload("Notify", [protocol_id |-> 3, spi |-> Fill(n, 2), notify_type |-> 93, data |-> <<1>>])
OfferOf(n) == Sa(<<Proposal(1, 3, Fill(n, 9), Suite)>>)
SelectorsOf(n) == Payload("TSi", [selectors |-> Fill(n, Selector(1))])
AttrOf(type) == Payload("CP", [cfg_type |-> 2, attrs |-> <<[attr_type |-> type, value |-> Fill(4, 10)]>>])

\* CREATE_CHILD_SA, IKE_AUTH and INFORMATIONAL contents, and the edges: no payload,
\* an empty body, the longest body a 16-bit length allows and one octet more, the
\* longest SPI, the most transforms and the most selectors that one octet counts, the
\* last attribute type, and one more of each.
Singles == {
    <<>>,
    <<NonceOf(0)>>,
    <<NonceOf(251)>>,
    <<NonceOf(252)>>,
    <<NonceOf(222)>>,
    <<NonceOf(223)>>,
    <<Sa(<<Proposal(1, 1, <<>>, Suite), Proposal(2, 3, Fill(4, 9), Suite)>>), NonceOf(2),
      Payload("KE", [dh_group |-> 31, data |-> Fill(3, 7)])>>,
    <<Sa(<<Proposal(1, 1, Fill(8, 1), Many(15))>>)>>,
    <<Sa(<<Proposal(1, 1, Fill(8, 1), Many(16))>>)>>,
    <<OfferOf(15), NotifyOf(15)>>,
    <<OfferOf(16)>>,
    <<NotifyOf(16)>>,
    <<SelectorsOf(15)>>,
    <<SelectorsOf(16)>>,
    <<AttrOf(FormatTv - 1)>>,
    <<AttrOf(FormatTv)>>,
    <<Payload("IDi", [id_type |-> 2, data |-> Fill(2, 5)]),
      Payload("CERT", [encoding |-> 4, data |-> Fill(3, 8)]),
      Payload("AUTH", [method |-> 14, data |-> Fill(2, 0)]),
      Payload("TSi", [selectors |-> <<Selector(4), Selector(4)>>]),
      Payload("TSr", [selectors |-> <<Selector(4)>>])>>,
    <<Payload("CP", [cfg_type |-> 2, attrs |-> <<[attr_type |-> 1, value |-> Fill(4, 10)],
                                                 [attr_type |-> 3, value |-> <<>>]>>]),
      NotifyOf(4),
      Payload("Delete", [protocol_id |-> 3, spis |-> <<Fill(4, 1), Fill(4, 6)>>])>>,
    <<Payload("Delete", [protocol_id |-> 1, spis |-> <<>>]),
      Payload("CERTREQ", [encoding |-> 4, ca_hashes |-> <<Fill(20, 11), Fill(20, 12)>>]),
      Payload("IDr", [id_type |-> 2, data |-> <<>>])>> }

\* Alone, and two at a time for the interleavings.
MCScripts ==
    {<<ps>> : ps \in Singles}
        \cup {<<<<NonceOf(a)>>, <<NonceOf(b)>>>> : a, b \in {0, 60}}
        \cup {<<<<>>, <<NonceOf(1)>>, <<NonceOf(0)>>>>}

MCSpis == {<<0, 0, 0, 0>>, <<0, 0, 0, 1>>}
=============================================================================
