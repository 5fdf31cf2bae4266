-------------------------------- MODULE Wire --------------------------------
(***************************************************************************)
(* The IKEv2 wire format as octet strings: the payload chain               *)
(* (ikev2/message.rs) and the payload bodies (ikev2/payload.rs), each as   *)
(* the pair of what its to_bytes writes and what its parse reads back.     *)
(*                                                                         *)
(* An octet is a number below Octet (256 in the code), an `as u8` or `as   *)
(* u16` cast keeps the remainder, and a parse returns an Option: a set of  *)
(* at most one element, empty for any IkeError.  Structure sizes are those *)
(* of the code; type numbers are scaled to fit an octet.                   *)
(***************************************************************************)
EXTENDS Integers, Sequences, FiniteSetsExt

CONSTANT Octet

ASSUME OctetAssumption == Octet \in Nat /\ Octet >= 16 /\ Octet % 2 = 0

\* u8, u16 and Vec<u8>.
Octets == 0..(Octet - 1)
Words == 0..(Octet * Octet - 1)
Bytes == Seq(Octets)

U8(x) == <<x % Octet>>
U16(x) == <<(x \div Octet) % Octet, x % Octet>>
U16be(s, off) == s[off + 1] * Octet + s[off + 2]

\* s[a..b] and s[a..].
Slice(s, a, b) == SubSeq(s, a + 1, b)
From(s, a) == SubSeq(s, a + 1, Len(s))

Reserved(n) == [i \in 1..n |-> 0]

\* extend_from_slice of each part in turn.
Joined(parts) ==
    LET n == Len(parts)
        upto[i \in 0..n] == IF i = 0 THEN <<>> ELSE upto[i - 1] \o parts[i]
    IN  upto[n]

-----------------------------------------------------------------------------
(* The loops of the parsers *)

\* Read at a place, keep what was read and go on from the next place, until an end is
\* reached.  reads[p] is what is read at place p, a value and the next place, or nothing
\* for an IkeError; from[p] is what the loop returns when it goes on from p.
Loop(reads, ends, start) ==
    LET from[p \in DOMAIN reads] ==
            IF p \in ends THEN {<<>>}
            ELSE UNION {{<<r.value>> \o more : more \in from[r.next]} : r \in reads[p]}
    IN  from[start]

\* A substructure that was read, and the octets it took.
Read(value, used) == [value |-> value, used |-> used]

\* SecurityAssociation::parse and Configuration::parse: `while off < body.len()`, and
\* find_key_length: while `least` octets are left.  subs[off] is the substructure at off.
ParseWhile(subs, least, len) ==
    Loop([off \in 0..len |-> {[value |-> r.value, next |-> off + r.used] : r \in subs[off]}],
         {off \in 0..len : off + least > len}, 0)

\* `for _ in 0..n` of Proposal::parse and TrafficSelectors::parse; a place is the number
\* of substructures still to come and an offset.
ParseCount(subs, n, len) ==
    Loop([p \in (0..n) \X (0..len) |->
            {[value |-> r.value, next |-> <<p[1] - 1, p[2] + r.used>>] : r \in subs[p[2]]}],
         {0} \X (0..len), <<n, 0>>)

-----------------------------------------------------------------------------
(* Transforms and proposals *)

Transforms ==
    [transform_type : Octets, transform_id : Words, key_length : {{}} \cup {{k} : k \in Words}]

KeyLengthAttr == 14
FormatTv == (Octet * Octet) \div 2

WriteTransform(t, is_last) ==
    LET attrs == IF t.key_length = {} THEN <<>>
                 ELSE U16(FormatTv + KeyLengthAttr) \o U16(CHOOSE k \in t.key_length : TRUE)
    IN  <<IF is_last THEN 0 ELSE 3, 0>> \o U16(8 + Len(attrs)) \o <<t.transform_type, 0>>
            \o U16(t.transform_id) \o attrs

\* One attribute: a Key Length in TV form; any other is skipped.
ParseAttr(s) ==
    LET header == U16be(s, 0)
        value == U16be(s, 2)
    IN  IF header >= FormatTv
        THEN {Read(IF header = FormatTv + KeyLengthAttr THEN {value} ELSE {}, 4)}
        ELSE IF 4 + value > Len(s) THEN {} ELSE {Read({}, 4 + value)}

\* The last Key Length found.
FindKeyLength(attrs) ==
    {LET found == {i \in DOMAIN keys : keys[i] # {}} IN IF found = {} THEN {} ELSE keys[Max(found)]
        : keys \in ParseWhile([off \in 0..Len(attrs) |-> ParseAttr(From(attrs, off))], 4, Len(attrs))}

\* The declared length of a substructure with an 8-octet head, if it holds.
DeclaredLength(s) == {n \in {IF Len(s) < 8 THEN 0 ELSE U16be(s, 2)} : 8 <= n /\ n <= Len(s)}

ParseTransform(s) ==
    UNION {{Read([transform_type |-> s[5], transform_id |-> U16be(s, 6), key_length |-> k], n)
                : k \in FindKeyLength(Slice(s, 8, n))} : n \in DeclaredLength(s)}

Proposals == [num : Octets, protocol_id : Octets, spi : Bytes, transforms : Seq(Transforms)]

WriteProposal(p, is_last) ==
    LET body == Joined([i \in DOMAIN p.transforms |->
                    WriteTransform(p.transforms[i], i = Len(p.transforms))])
    IN  <<IF is_last THEN 0 ELSE 2, 0>> \o U16(8 + Len(p.spi) + Len(body)) \o <<p.num, p.protocol_id>>
            \o U8(Len(p.spi)) \o U8(Len(p.transforms)) \o p.spi \o body

ParseTransforms(n, s) ==
    ParseCount([off \in 0..Len(s) |-> ParseTransform(From(s, off))], n, Len(s))

ParseProposal(s) ==
    UNION {{Read([num |-> s[5], protocol_id |-> s[6], spi |-> Slice(s, 8, 8 + s[7]), transforms |-> ts], n)
                : ts \in ParseTransforms(s[8], Slice(s, 8 + s[7], n))}
           : n \in {m \in DeclaredLength(s) : 8 + s[7] <= m}}

-----------------------------------------------------------------------------
(* Traffic selectors and configuration attributes *)

Selectors ==
    [ts_type : Octets, ip_protocol : Octets, start_port : Words, end_port : Words,
     start_addr : Bytes, end_addr : Bytes]

WriteSelector(t) ==
    <<t.ts_type, t.ip_protocol>> \o U16(8 + Len(t.start_addr) + Len(t.end_addr))
        \o U16(t.start_port) \o U16(t.end_port) \o t.start_addr \o t.end_addr

ParseSelector(s) ==
    {LET half == (n - 8) \div 2 IN
        Read([ts_type |-> s[1], ip_protocol |-> s[2], start_port |-> U16be(s, 4), end_port |-> U16be(s, 6),
              start_addr |-> Slice(s, 8, 8 + half), end_addr |-> Slice(s, 8 + half, n)], n)
        : n \in {m \in DeclaredLength(s) : (m - 8) % 2 = 0}}

ConfigAttrs == [attr_type : Words, value : Bytes]

WriteConfigAttr(a) == U16(a.attr_type % FormatTv) \o U16(Len(a.value)) \o a.value

ParseConfigAttr(s) ==
    {Read([attr_type |-> U16be(s, 0) % FormatTv, value |-> Slice(s, 4, n)], n)
        : n \in {m \in {IF Len(s) < 4 THEN Len(s) + 1 ELSE 4 + U16be(s, 2)} : m <= Len(s)}}

-----------------------------------------------------------------------------
(* Payload bodies: the to_bytes and the parse of each *)

\* What a parse returns that first asks for n octets.
Needs(n, s, results) == IF Len(s) < n THEN {} ELSE results

WriteSa(b) ==
    Joined([i \in DOMAIN b.proposals |-> WriteProposal(b.proposals[i], i = Len(b.proposals))])
ParseSa(s) ==
    {[proposals |-> ps]
        : ps \in ParseWhile([off \in 0..Len(s) |-> ParseProposal(From(s, off))], 1, Len(s))}

WriteKe(b) == U16(b.dh_group) \o Reserved(2) \o b.data
ParseKe(s) == Needs(4, s, {[dh_group |-> U16be(s, 0), data |-> From(s, 4)]})

WriteNonce(b) == b.data
ParseNonce(s) == {[data |-> s]}

WriteId(b) == <<b.id_type>> \o Reserved(3) \o b.data
ParseId(s) == Needs(4, s, {[id_type |-> s[1], data |-> From(s, 4)]})

WriteAuth(b) == <<b.method>> \o Reserved(3) \o b.data
ParseAuth(s) == Needs(4, s, {[method |-> s[1], data |-> From(s, 4)]})

WriteSelectors(b) ==
    U8(Len(b.selectors)) \o Reserved(3)
        \o Joined([i \in DOMAIN b.selectors |-> WriteSelector(b.selectors[i])])
ParseSelectors(s) ==
    Needs(4, s,
        {[selectors |-> ts]
            : ts \in LET rest == From(s, 4) IN
                     ParseCount([off \in 0..Len(rest) |-> ParseSelector(From(rest, off))], s[1], Len(rest))})

WriteConfiguration(b) ==
    <<b.cfg_type>> \o Reserved(3) \o Joined([i \in DOMAIN b.attrs |-> WriteConfigAttr(b.attrs[i])])
ParseConfiguration(s) ==
    Needs(4, s,
        {[cfg_type |-> s[1], attrs |-> as]
            : as \in LET rest == From(s, 4) IN
                     ParseWhile([off \in 0..Len(rest) |-> ParseConfigAttr(From(rest, off))], 1, Len(rest))})

WriteNotify(b) == <<b.protocol_id>> \o U8(Len(b.spi)) \o U16(b.notify_type) \o b.spi \o b.data
ParseNotify(s) ==
    Needs(4, s, Needs(4 + s[2], s,
        {[protocol_id |-> s[1], spi |-> Slice(s, 4, 4 + s[2]), notify_type |-> U16be(s, 2),
          data |-> From(s, 4 + s[2])]}))

\* An IKE SA is deleted without an SPI, ESP SAs by SPIs of four octets.
IkeProtocol == 1
WriteDelete(b) ==
    <<b.protocol_id, IF b.protocol_id = IkeProtocol THEN 0 ELSE 4>> \o U16(Len(b.spis)) \o Joined(b.spis)
ParseDelete(s) ==
    LET num == U16be(s, 2) IN
    Needs(4, s,
        CASE s[2] = 0 -> {[protocol_id |-> s[1], spis |-> <<>>]}
          [] s[2] = 4 ->
                Needs(4 + num * 4, s,
                    {[protocol_id |-> s[1], spis |-> [i \in 1..num |-> Slice(s, 4 * i, 4 * i + 4)]]})
          [] OTHER -> {})

WriteCert(b) == <<b.encoding>> \o b.data
ParseCert(s) == Needs(1, s, {[encoding |-> s[1], data |-> From(s, 1)]})

\* Hashes of 20 octets, without a count.
WriteCertRequest(b) == <<b.encoding>> \o Joined(b.ca_hashes)
ParseCertRequest(s) ==
    LET count == (Len(s) - 1) \div 20 IN
    Needs(1, s,
        IF (Len(s) - 1) % 20 # 0 THEN {}
        ELSE {[encoding |-> s[1], ca_hashes |-> [i \in 1..count |-> Slice(s, 20 * i - 19, 20 * i + 1)]]})

\* Payload types by number; NoNext is 0.
PayloadTypes == <<"SA", "KE", "IDi", "IDr", "CERT", "CERTREQ", "AUTH", "Nonce", "Notify", "Delete",
                  "TSi", "TSr", "CP">>
ToU8(type) == CHOOSE n \in DOMAIN PayloadTypes : PayloadTypes[n] = type
FromU8(n) == IF n \in DOMAIN PayloadTypes THEN PayloadTypes[n] ELSE "Other"

\* The payloads; an SPI to delete is a u32, a hash 20 octets.
AllPayloads ==
    [type : {"SA"}, body : [proposals : Seq(Proposals)]]
        \cup [type : {"KE"}, body : [dh_group : Words, data : Bytes]]
        \cup [type : {"IDi", "IDr"}, body : [id_type : Octets, data : Bytes]]
        \cup [type : {"CERT"}, body : [encoding : Octets, data : Bytes]]
        \cup [type : {"CERTREQ"}, body : [encoding : Octets, ca_hashes : Seq([1..20 -> Octets])]]
        \cup [type : {"AUTH"}, body : [method : Octets, data : Bytes]]
        \cup [type : {"Nonce"}, body : [data : Bytes]]
        \cup [type : {"Notify"},
              body : [protocol_id : Octets, spi : Bytes, notify_type : Words, data : Bytes]]
        \cup [type : {"Delete"}, body : [protocol_id : Octets, spis : Seq([1..4 -> Octets])]]
        \cup [type : {"TSi", "TSr"}, body : [selectors : Seq(Selectors)]]
        \cup [type : {"CP"}, body : [cfg_type : Octets, attrs : Seq(ConfigAttrs)]]

\* The body as a caller hands it to the chain, already serialized.
Body(p) ==
    CASE p.type = "SA" -> WriteSa(p.body)
      [] p.type = "KE" -> WriteKe(p.body)
      [] p.type \in {"IDi", "IDr"} -> WriteId(p.body)
      [] p.type = "CERT" -> WriteCert(p.body)
      [] p.type = "CERTREQ" -> WriteCertRequest(p.body)
      [] p.type = "AUTH" -> WriteAuth(p.body)
      [] p.type = "Nonce" -> WriteNonce(p.body)
      [] p.type = "Notify" -> WriteNotify(p.body)
      [] p.type = "Delete" -> WriteDelete(p.body)
      [] p.type \in {"TSi", "TSr"} -> WriteSelectors(p.body)
      [] p.type = "CP" -> WriteConfiguration(p.body)

\* What a caller makes of the raw payload of a type.
ParseBody(type, s) ==
    CASE type = "SA" -> ParseSa(s)
      [] type = "KE" -> ParseKe(s)
      [] type \in {"IDi", "IDr"} -> ParseId(s)
      [] type = "CERT" -> ParseCert(s)
      [] type = "CERTREQ" -> ParseCertRequest(s)
      [] type = "AUTH" -> ParseAuth(s)
      [] type = "Nonce" -> ParseNonce(s)
      [] type = "Notify" -> ParseNotify(s)
      [] type = "Delete" -> ParseDelete(s)
      [] type \in {"TSi", "TSr"} -> ParseSelectors(s)
      [] type = "CP" -> ParseConfiguration(s)
      [] type = "Other" -> {[data |-> s]}

\* The wire format can carry the body: no count or length is cut by its cast, and no
\* part of it is one that the format does not tell.
BodyFits(p) ==
    /\ 4 + Len(Body(p)) < Octet * Octet
    /\ p.type = "SA" => \A i \in DOMAIN p.body.proposals :
            Len(p.body.proposals[i].spi) < Octet /\ Len(p.body.proposals[i].transforms) < Octet
    /\ p.type \in {"TSi", "TSr"} =>
            /\ Len(p.body.selectors) < Octet
            /\ \A i \in DOMAIN p.body.selectors :
                    Len(p.body.selectors[i].start_addr) = Len(p.body.selectors[i].end_addr)
    /\ p.type = "CP" => \A i \in DOMAIN p.body.attrs : p.body.attrs[i].attr_type < FormatTv
    /\ p.type = "Notify" => Len(p.body.spi) < Octet
    /\ p.type = "Delete" /\ p.body.protocol_id = IkeProtocol => p.body.spis = <<>>

-----------------------------------------------------------------------------
(* The payload chain *)

FirstPayloadType(ps) == IF ps = <<>> THEN 0 ELSE ToU8(ps[1].type)

EncodePayloadChain(ps) ==
    Joined([i \in DOMAIN ps |->
        <<FirstPayloadType(From(ps, i)), 0>> \o U16(4 + Len(Body(ps[i]))) \o Body(ps[i])])

\* PayloadIter::next, and the body parsed: the payload of type `next` at off, and the
\* type and the offset of the one after it.
PayloadAt(next, off, s) ==
    LET rest == From(s, off)
        length == IF Len(rest) < 4 THEN 0 ELSE U16be(rest, 2)
    IN  IF length < 4 \/ length > Len(rest) THEN {}
        ELSE {[value |-> [type |-> FromU8(next), body |-> b], next |-> <<rest[1], off + length>>]
                : b \in ParseBody(FromU8(next), Slice(rest, 4, length))}

\* PayloadIter; any error ends it.  Octets after the payload whose Next Payload is
\* NoNext are not looked at.
Payloads(first, s) ==
    Loop([p \in (0..(Octet - 1)) \X (0..Len(s)) |-> PayloadAt(p[1], p[2], s)],
         {0} \X (0..Len(s)), <<first, 0>>)
=============================================================================
