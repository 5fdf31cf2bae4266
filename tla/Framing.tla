------------------------------ MODULE Framing -------------------------------
(***************************************************************************)
(* Encrypted IKE messages and ESP sharing UDP port 4500: a message is      *)
(* encoded (module Wire), sealed whole in an SK payload (ikev2/sk.rs) or   *)
(* cut into SKF fragments (ikev2/fragment.rs), marked as IKE               *)
(* (ikev2/natt.rs), carried by a network that reorders and duplicates, and *)
(* told from ESP, opened, reassembled, walked and parsed at the other end. *)
(*                                                                         *)
(* External, modelled from the contracts of these functions (the examples  *)
(* draw IVs at random and wait for one kind of datagram at a time): the    *)
(* caller that numbers messages and takes their IVs from a counter, as     *)
(* build_fragments expects, and the receiver that tells IKE from ESP for   *)
(* each datagram, keeps the fragments of each Message ID in order of       *)
(* arrival without repetition and tries to reassemble them after each one. *)
(* The AEAD is symbolic: a sealed text opens under the IV, key and         *)
(* associated data it was sealed with; one key and direction only.         *)
(***************************************************************************)
EXTENDS UdpNet, Wire, Functions

CONSTANTS
    Scripts,        \* what the caller may have to send: sequences of payload lists
    ContentSizes,   \* values of content_per_fragment
    Spis,           \* SPIs of the ESP packets in between, in octets
    FirstIvs,       \* values the caller's IV counter may start from
    FragLimit,      \* 2^16 where fragments are counted
    IvLimit,        \* 2^64
    MaxEsp,         \* bound: ESP packets in between
    MaxChunks       \* bound: fragments of a message

ASSUME FramingAssumption ==
    /\ FragLimit \in Nat \ {0, 1} /\ IvLimit \in Nat \ {0}
    /\ MaxEsp \in Nat /\ MaxChunks \in Nat
    /\ FirstIvs \subseteq 0..(IvLimit - 1) /\ ContentSizes \subseteq Nat
    /\ Scripts \subseteq Seq(Seq(AllPayloads))

VARIABLES
    todo,       \* the payload lists still to be sent
    sent,       \* the messages sent, in order; a Message ID is an index
    nextIv,     \* the caller's next IV
    ivs,        \* the IVs used under the key, in order
    held,       \* held[id]: the fragments of id that have arrived
    got,        \* got[id]: what reading message id returned
    esp,        \* ESP packets sent
    espGot      \* datagrams handed to the data path

vars == <<todo, sent, nextIv, ivs, held, got, esp, espGot, net, dups>>

IvLen == 8
IcvLen == 16
SkfExtra == 4

-----------------------------------------------------------------------------
(* Sealing *)

\* The message on the wire; `gen` is the generic header of its SK or SKF payload,
\* `size` the octets that follow the IKE header.
Sealed(id, kind, gen, num, total, iv, plaintext, size) ==
    LET aad == <<id, kind, gen, num, total>> IN
    [id |-> id, kind |-> kind, gen |-> gen, num |-> num, total |-> total, iv |-> iv, size |-> size,
     ct |-> [iv |-> iv, aad |-> aad, plaintext |-> plaintext]]

\* build_encrypted_gcm: the plaintext ends in the Pad Length, 0.
BuildEncryptedGcm(id, ps, iv) ==
    LET plaintext == EncodePayloadChain(ps) \o <<0>>
        len == 4 + IvLen + Len(plaintext) + IcvLen
    IN  Sealed(id, "SK", <<FirstPayloadType(ps), U16(len)>>, 0, 0, iv, plaintext, len)

\* inner.chunks(content_per_fragment), or one empty chunk.
Chunks(inner, size) ==
    IF inner = <<>> THEN <<<<>>>>
    ELSE [i \in 1..((Len(inner) + size - 1) \div size) |->
            Slice(inner, (i - 1) * size, IF i * size < Len(inner) THEN i * size ELSE Len(inner))]

\* Mutant: every fragment is sealed under the base IV.
MutFragmentIvBase(iv_base, frag_num) == iv_base % IvLimit

FragmentIv(iv_base, frag_num) == (iv_base + frag_num) % IvLimit

\* Mutant: the type of the first payload goes with the last fragment.
MutFragmentNextLast(i, n, first) == IF i = n THEN first ELSE 0

FragmentNext(i, n, first) == IF i % FragLimit = 1 THEN first ELSE 0

\* build_fragments.
BuildFragments(id, ps, iv_base, content_per_fragment) ==
    LET chunks == Chunks(EncodePayloadChain(ps), content_per_fragment)
        total == Len(chunks) % FragLimit
        fragment(i) ==
            LET frag_num == i % FragLimit
                plaintext == chunks[i] \o <<0>>
                len == 4 + SkfExtra + IvLen + Len(plaintext) + IcvLen
            IN  Sealed(id, "SKF", <<FragmentNext(i, Len(chunks), FirstPayloadType(ps)), U16(len)>>,
                       frag_num, total, FragmentIv(iv_base, frag_num), plaintext, len)
    IN  [i \in DOMAIN chunks |-> fragment(i)]

-----------------------------------------------------------------------------
(* UDP port 4500 *)

NonEspMarker == Reserved(4)

\* wrap_ike_4500; an ESP packet starts with its SPI.
WrapIke4500(m) == [head |-> NonEspMarker, ike |-> {m}]
EspDatagram(spi) == [head |-> spi, ike |-> {}]

\* Mutant: only the first octet is looked at.
MutIsIkeFirstOctet(data) == data.head[1] = 0

IsIkeOn4500(data) == data.head = NonEspMarker

-----------------------------------------------------------------------------
(* Opening *)

\* The last octet is the Pad Length.
StripPadding(plaintext) ==
    LET pad_len == plaintext[Len(plaintext)] IN
        IF pad_len + 1 > Len(plaintext) THEN {}
        ELSE {Slice(plaintext, 0, Len(plaintext) - 1 - pad_len)}

\* gcm_open of the octets the declared length covers: all of them, or the tag fails.
GcmOpen(m, least) ==
    LET len == U16be(m.gen[2], 0) IN
        IF len < least \/ len # m.size \/ m.ct.iv # m.iv
            \/ m.ct.aad # <<m.id, m.kind, m.gen, m.num, m.total>>
        THEN {} ELSE StripPadding(m.ct.plaintext)

\* open_encrypted_gcm, and the payloads within.
OpenEncryptedGcm(m) ==
    UNION {Payloads(m.gen[1], inner) : inner \in GcmOpen(m, 4 + IvLen + IcvLen)}

OpenFragment(m) ==
    {[frag_num |-> m.num, total |-> m.total, next_payload |-> m.gen[1], content |-> c]
        : c \in GcmOpen(m, 4 + SkfExtra + IvLen + IcvLen)}

\* The fragments opened, or an error if one of them does not open.
OpenAll(messages) ==
    LET opened == [i \in DOMAIN messages |-> OpenFragment(messages[i])] IN
        IF \E i \in DOMAIN messages : opened[i] = {} THEN {}
        ELSE {[i \in DOMAIN messages |-> CHOOSE f \in opened[i] : TRUE]}

\* sort_by_key, which is stable: each fragment goes after those with a lower number and
\* after those with its own number that came before it.
Ordered(frags) ==
    LET before(i) == {j \in DOMAIN frags : \/ frags[j].frag_num < frags[i].frag_num
                                           \/ frags[j].frag_num = frags[i].frag_num /\ j < i}
    IN  [k \in DOMAIN frags |-> frags[CHOOSE i \in DOMAIN frags : Cardinality(before(i)) = k - 1]]

\* Mutant: the total is taken for the last index, counted from 0.
MutCompleteFromZero(frags) == frags # <<>> /\ Len(frags) = frags[1].total + 1

\* Every fragment states the same total, not 0, and there are that many.
Complete(frags) ==
    /\ frags # <<>>
    /\ frags[1].total # 0
    /\ \A i \in DOMAIN frags : frags[i].total = frags[1].total
    /\ Len(frags) = frags[1].total

\* reassemble, and the payloads within; the set is empty for any error.
Reassemble(messages) ==
    UNION {
        LET frags == Ordered(opened) IN
        IF Complete(opened) /\ \A i \in DOMAIN frags : frags[i].frag_num = i % FragLimit
        THEN Payloads(frags[1].next_payload, Joined([i \in DOMAIN frags |-> frags[i].content]))
        ELSE {}
        : opened \in OpenAll(messages)}

-----------------------------------------------------------------------------
(* The sender, external but for the functions it calls *)

Packets(ms) == {Datagram("A", "B", WrapIke4500(ms[i])) : i \in DOMAIN ms}

SendWhole ==
    LET ps == Head(todo) IN
    /\ todo # <<>>
    /\ todo' = Tail(todo)
    /\ sent' = Append(sent, [payloads |-> ps, fragments |-> {}])
    /\ Send(Packets(<<BuildEncryptedGcm(Len(sent) + 1, ps, nextIv)>>))
    /\ ivs' = Append(ivs, nextIv)
    /\ nextIv' = (nextIv + 1) % IvLimit
    /\ UNCHANGED <<held, got, esp, espGot>>

\* The caller sets aside an IV for each fragment; the base itself is not used.
SendFragments(size) ==
    LET ps == Head(todo)
        ms == BuildFragments(Len(sent) + 1, ps, nextIv, size)
    IN
    /\ todo # <<>>
    /\ size > 0
    /\ Len(ms) <= MaxChunks
    /\ todo' = Tail(todo)
    /\ sent' = Append(sent, [payloads |-> ps, fragments |-> {size}])
    /\ Send(Packets(ms))
    /\ ivs' = ivs \o [i \in DOMAIN ms |-> ms[i].iv]
    /\ nextIv' = (nextIv + Len(ms) + 1) % IvLimit
    /\ UNCHANGED <<held, got, esp, espGot>>

SendEsp(spi) ==
    /\ Cardinality(esp) < MaxEsp
    /\ esp' = esp \cup {spi}
    /\ Send({Datagram("A", "B", EspDatagram(spi))})
    /\ UNCHANGED <<todo, sent, nextIv, ivs, held, got, espGot>>

-----------------------------------------------------------------------------
(* The receiver, external but for the functions it calls *)

ReceiveWhole(d) ==
    \E m \in d.data.ike :
        /\ IsIkeOn4500(d.data)
        /\ m.kind = "SK"
        /\ got' = Put(got, m.id, OpenEncryptedGcm(m))
        /\ Receive(d, {})
        /\ UNCHANGED <<todo, sent, nextIv, ivs, held, esp, espGot>>

Held(id) == IF id \in DOMAIN held THEN held[id] ELSE <<>>

\* A fragment completes its message, or is kept.
ReceiveFragment(d) ==
    \E m \in d.data.ike :
        LET now == Append(Held(m.id), m)
            read == Reassemble(now)
        IN
        /\ IsIkeOn4500(d.data)
        /\ m.kind = "SKF"
        /\ m.id \notin DOMAIN got /\ m \notin Range(Held(m.id))
        /\ IF read = {} THEN held' = Put(held, m.id, now) /\ UNCHANGED got
           ELSE held' = Put(held, m.id, <<>>) /\ got' = Put(got, m.id, read)
        /\ Receive(d, {})
        /\ UNCHANGED <<todo, sent, nextIv, ivs, esp, espGot>>

\* A fragment of a message already read, or one already held, is ignored.
ReceiveFragmentAgain(d) ==
    \E m \in d.data.ike :
        /\ IsIkeOn4500(d.data)
        /\ m.kind = "SKF"
        /\ m.id \in DOMAIN got \/ m \in Range(Held(m.id))
        /\ Receive(d, {})
        /\ UNCHANGED <<todo, sent, nextIv, ivs, held, got, esp, espGot>>

\* An ESP packet whose SPI is 0 reads as IKE, and fails to parse.
ReceiveNotIke(d) ==
    /\ IsIkeOn4500(d.data)
    /\ d.data.ike = {}
    /\ Receive(d, {})
    /\ UNCHANGED <<todo, sent, nextIv, ivs, held, got, esp, espGot>>

ReceiveEsp(d) ==
    /\ ~IsIkeOn4500(d.data)
    /\ espGot' = espGot \cup {d.data}
    /\ Receive(d, {})
    /\ UNCHANGED <<todo, sent, nextIv, ivs, held, got, esp>>

ReceiveAny ==
    \E d \in net :
        \/ ReceiveWhole(d) \/ ReceiveFragment(d) \/ ReceiveFragmentAgain(d)
        \/ ReceiveNotIke(d) \/ ReceiveEsp(d)

Init ==
    /\ todo \in Scripts
    /\ sent = <<>> /\ ivs = <<>> /\ esp = {} /\ espGot = {}
    /\ nextIv \in FirstIvs
    /\ held = [id \in {} |-> <<>>]
    /\ got = [id \in {} |-> {}]
    /\ NetInit

Next ==
    \/ SendWhole
    \/ \E size \in ContentSizes : SendFragments(size)
    \/ \E spi \in Spis : SendEsp(spi)
    \/ ReceiveAny

Spec == Init /\ [][Next]_vars

\* A receiver that loops on recv_from, as every example does, and has a branch for every
\* datagram: the steps that take one from the network are those of ReceiveAny.
Delivery == \E d \in net : Receive(d, {})

FairSpec == Spec /\ WF_netVars(Delivery)

-----------------------------------------------------------------------------
(* Properties *)

\* The bodies can be carried, and no length or count of the message or of its fragments
\* is cut by its cast.
Fits(s) ==
    LET n == Len(EncodePayloadChain(s.payloads)) IN
    /\ \A i \in DOMAIN s.payloads : BodyFits(s.payloads[i])
    /\ s.fragments = {} => n + 1 + 4 + IvLen + IcvLen < Octet * Octet
    /\ \A size \in s.fragments :
            /\ (IF n < size THEN n ELSE size) + 1 + 4 + SkfExtra + IvLen + IcvLen < Octet * Octet
            /\ n <= size * (FragLimit - 1)

\* Whatever the order and the repetitions in which its datagrams arrive, and whatever
\* other messages are under way, a message is read as exactly the payloads it was
\* built from, or not at all, up to the last length that fits its field.
ReadAsSent ==
    \A id \in DOMAIN got : Fits(sent[id]) => got[id] = {sent[id].payloads}

\* No IV is used twice under the key, fragments and whole messages together, while the
\* caller sets one aside per fragment and one for the base: also where the counters wrap.
IvsUnique ==
    (\A i \in DOMAIN sent : Fits(sent[i])) /\ Len(ivs) + Len(sent) <= IvLimit => IsInjective(ivs)

\* Every message that fits is read in the end, although its fragments come in any
\* order, more than once, and between those of other messages.
EveryMessageRead ==
    []<>(\A id \in DOMAIN sent : Fits(sent[id]) => id \in DOMAIN got)

\* Every ESP packet reaches the data path in the end, unless its SPI reads as the
\* non-ESP marker.
EspReachesDataPath ==
    []<>(\A spi \in esp \ {NonEspMarker} : EspDatagram(spi) \in espGot)
=============================================================================
