---------------------------- MODULE FramingSteps ----------------------------
(***************************************************************************)
(* The inductive invariants of module Framing, for any fragment size,      *)
(* first IV, number of messages and of copies, given what the encoders and *)
(* parsers owe the rest (Codec).                                           *)
(*                                                                         *)
(* A message is read as sent because everything under way or held for its  *)
(* Message ID comes of one sealing of what was sent (Traced).  No IV is    *)
(* used twice because IVs lie at increasing positions of one count         *)
(* (Spread).                                                               *)
(***************************************************************************)
EXTENDS Framing, SequenceTheorems, FiniteSetTheorems, TLAPS

-----------------------------------------------------------------------------
(* Remainders *)

\* Division with remainder.
LEMMA DivMod ==
    ASSUME NEW a \in Nat, NEW n \in Nat \ {0}
    PROVE  /\ a \div n \in Nat /\ a % n \in 0..(n - 1)
           /\ a = (a \div n) * n + (a % n)
  OBVIOUS

\* The remainder is the only one.
LEMMA ModUnique ==
    ASSUME NEW n \in Nat \ {0}, NEW q \in Nat, NEW p \in Nat, NEW r \in 0..(n - 1), NEW s \in 0..(n - 1),
           q * n + r = p * n + s
    PROVE  r = s
<1>1. CASE q < p
  <2>1. PICK d \in Nat : p = q + 1 + d
    <3>1. p - q - 1 \in Nat /\ p = q + 1 + (p - q - 1)
      BY <1>1
    <3> QED
      BY <3>1
  <2>2. p * n = q * n + n + d * n
    BY <2>1
  <2>3. d * n \in Nat
    OBVIOUS
  <2>4. q * n \in Nat
    OBVIOUS
  <2> QED
    BY <2>2, <2>3, <2>4
<1>2. CASE p < q
  <2>1. PICK d \in Nat : q = p + 1 + d
    <3>1. q - p - 1 \in Nat /\ q = p + 1 + (q - p - 1)
      BY <1>2
    <3> QED
      BY <3>1
  <2>2. q * n = p * n + n + d * n
    BY <2>1
  <2>3. d * n \in Nat
    OBVIOUS
  <2>4. p * n \in Nat
    OBVIOUS
  <2> QED
    BY <2>2, <2>3, <2>4
<1>3. CASE p = q
  <2>1. q * n \in Nat
    OBVIOUS
  <2> QED
    BY <1>3, <2>1
<1> QED
  BY <1>1, <1>2, <1>3

\* Counting on from a counter that wraps.
LEMMA ModAdd ==
    ASSUME NEW a \in Nat, NEW b \in Nat, NEW n \in Nat \ {0}
    PROVE  ((a % n) + b) % n = (a + b) % n
<1>1. PICK q \in Nat, r \in 0..(n - 1) : a = q * n + r /\ r = a % n
  BY DivMod
<1>2. PICK p \in Nat, s \in 0..(n - 1) : r + b = p * n + s /\ s = (r + b) % n
  <2>1. r + b \in Nat
    OBVIOUS
  <2> QED
    BY <2>1, DivMod
<1>3. PICK t \in Nat, u \in 0..(n - 1) : a + b = t * n + u /\ u = (a + b) % n
  <2>1. a + b \in Nat
    OBVIOUS
  <2> QED
    BY <2>1, DivMod
<1>4. PICK k \in Nat : k = q + p
  OBVIOUS
<1>5. k * n = q * n + p * n
  BY <1>4
<1>6. k * n + s = t * n + u
  <2>1. PICK x \in Nat, y \in Nat, z \in Nat : x = q * n /\ y = p * n /\ z = t * n
    OBVIOUS
  <2>2. a = x + r /\ r + b = y + s /\ a + b = z + u /\ k * n = x + y
    BY <1>1, <1>2, <1>3, <1>5, <2>1, Zenon
  <2>3. x + y + s = z + u
    BY <2>2
  <2> QED
    BY <2>1, <2>2, <2>3, Zenon
<1>7. s = u
  BY <1>6, ModUnique
<1> QED
  BY <1>1, <1>2, <1>3, <1>7, Zenon

\* Values of a counter that wraps, less than a turn apart, are different.
LEMMA ModApart ==
    ASSUME NEW f \in Nat, NEW a \in Nat, NEW b \in Nat, NEW n \in Nat \ {0}, a < b, b - a < n
    PROVE  (f + a) % n # (f + b) % n
<1> SUFFICES ASSUME (f + a) % n = (f + b) % n PROVE FALSE
  OBVIOUS
<1>1. PICK q \in Nat, r \in 0..(n - 1) : f + a = q * n + r /\ r = (f + a) % n
  <2>1. f + a \in Nat
    OBVIOUS
  <2> QED
    BY <2>1, DivMod
<1>2. PICK p \in Nat, s \in 0..(n - 1) : f + b = p * n + s /\ s = (f + b) % n
  <2>1. f + b \in Nat
    OBVIOUS
  <2> QED
    BY <2>1, DivMod
<1>3. b - a = p * n - q * n
  <2>1. q * n \in Nat /\ p * n \in Nat
    OBVIOUS
  <2> QED
    BY <1>1, <1>2, <2>1
<1>4. p > q
  <2> SUFFICES ASSUME p <= q PROVE FALSE
    OBVIOUS
  <2>1. PICK d \in Nat : q = p + d
    <3>1. q - p \in Nat /\ q = p + (q - p)
      OBVIOUS
    <3> QED
      BY <3>1
  <2>2. q * n = p * n + d * n
    BY <2>1
  <2>3. d * n \in Nat /\ p * n \in Nat
    OBVIOUS
  <2> QED
    BY <1>3, <2>2, <2>3
<1>5. PICK d \in Nat : p = q + 1 + d
  <2>1. p - q - 1 \in Nat /\ p = q + 1 + (p - q - 1)
    BY <1>4
  <2> QED
    BY <2>1
<1>6. p * n = q * n + n + d * n
  BY <1>5
<1>7. d * n \in Nat /\ q * n \in Nat
  OBVIOUS
<1> QED
  BY <1>3, <1>6, <1>7

-----------------------------------------------------------------------------
(* What the encoders and parsers owe the rest *)

\* A fragmented message that fits.
Fragmented(ps, size) ==
    /\ ps \in Seq(AllPayloads) /\ size \in Nat \ {0}
    /\ Fits([payloads |-> ps, fragments |-> {size}])

\* How many fragments a message takes.
Pieces(ps, size) == Len(Chunks(EncodePayloadChain(ps), size))

\* now holds n of the fragments ms, none of them twice, in any order.
Distinct(now, n, ms) ==
    /\ n \in Nat \ {0} /\ DOMAIN now = 1..n
    /\ IsInjective(now)
    /\ \A j \in 1..n : \E k \in DOMAIN ms : now[j] = ms[k]

\* build_fragments makes a fragment of each piece, of which there is at least one, and of
\* a message that fits no more than a fragment number can count.
Counted(ps, size) ==
    /\ Chunks(EncodePayloadChain(ps), size) \in Seq(Bytes)
    /\ Pieces(ps, size) >= 1
    /\ Fragmented(ps, size) => Pieces(ps, size) < FragLimit

\* A whole message is read as its payloads, and so are fragments in any order, once they
\* are all there; module FramingProofs shows it of the octets.
Codec ==
    /\ \A ps \in Seq(AllPayloads) : Fits([payloads |-> ps, fragments |-> {}]) =>
            \A id, iv : OpenEncryptedGcm(BuildEncryptedGcm(id, ps, iv)) = {ps}
    /\ \A ps, size, id, iv, now, n :
            Fragmented(ps, size) /\ Distinct(now, n, BuildFragments(id, ps, iv, size)) =>
                Reassemble(now) = IF n = Pieces(ps, size) THEN {ps} ELSE {}
    /\ \A ps \in Seq(AllPayloads), size \in Nat \ {0} : Counted(ps, size)

-----------------------------------------------------------------------------
(* What is read is what was sent *)

\* The messages that carry s under Message ID id and base IV iv.
Sealings(id, s, iv) ==
    IF s.fragments = {} THEN {BuildEncryptedGcm(id, s.payloads, iv)}
    ELSE UNION {Range(BuildFragments(id, s.payloads, iv, size)) : size \in s.fragments}

Carried(packets) == UNION {d.data.ike : d \in packets}

\* Every message under way or held for id comes of one sealing of what was sent.
Traced(id, iv) ==
    /\ \A m \in Carried(net) : m.id = id => m \in Sealings(id, sent[id], iv)
    /\ Held(id) \in Seq(Sealings(id, sent[id], iv))
    /\ IsInjective(Held(id))

\* What the caller sends: a payload list, whole or in fragments of one size.
Message(s) ==
    \E ps \in Seq(AllPayloads) :
        \/ s = [payloads |-> ps, fragments |-> {}]
        \/ \E size \in Nat \ {0} : s = [payloads |-> ps, fragments |-> {size}]

FramingTypeOK ==
    /\ todo \in Seq(Seq(AllPayloads))
    /\ sent \in Seq(Range(sent)) /\ \A i \in DOMAIN sent : Message(sent[i])
    /\ nextIv \in 0..(IvLimit - 1)
    /\ DOMAIN held \subseteq DOMAIN sent /\ DOMAIN got \subseteq DOMAIN sent

ReadInv ==
    /\ FramingTypeOK
    /\ \A m \in Carried(net) : m.id \in DOMAIN sent
    /\ \A id \in DOMAIN sent : \E iv \in 0..(IvLimit - 1) : Traced(id, iv)
    /\ ReadAsSent

\* The Message ID and the kind of what Sealings holds.
LEMMA SealingFields ==
    ASSUME NEW id, NEW s, NEW iv, NEW m \in Sealings(id, s, iv)
    PROVE  /\ m.id = id
           /\ s.fragments = {} => m.kind = "SK"
           /\ s.fragments # {} => m.kind = "SKF"
<1>1. CASE s.fragments = {}
  <2>1. m = BuildEncryptedGcm(id, s.payloads, iv)
    BY <1>1, Zenon DEF Sealings
  <2> QED
    BY <1>1, <2>1, SMT DEF BuildEncryptedGcm, Sealed
<1>2. CASE s.fragments # {}
  <2>1. PICK size \in s.fragments : m \in Range(BuildFragments(id, s.payloads, iv, size))
    BY <1>2, Zenon DEF Sealings
  <2>2. PICK chunks : chunks = Chunks(EncodePayloadChain(s.payloads), size)
    BY Zenon
  <2>3. PICK k \in DOMAIN chunks : m = BuildFragments(id, s.payloads, iv, size)[k]
    BY <2>1, <2>2, Zenon DEF Range, BuildFragments
  <2>4. \E gen, num, total, v, plaintext, len : m = Sealed(id, "SKF", gen, num, total, v, plaintext, len)
    BY <2>2, <2>3, Zenon DEF BuildFragments
  <2>5. m.id = id /\ m.kind = "SKF"
    BY <2>4, SMT DEF Sealed
  <2> QED
    BY <1>2, <2>5, Zenon
<1> QED
  BY <1>1, <1>2, Zenon

\* Delivery adds nothing to what is under way.
LEMMA ReceivedCarried ==
    ASSUME NEW d, Receive(d, {})
    PROVE  d \in net /\ Carried(net') \subseteq Carried(net)
<1>1. d \in net /\ net' \subseteq net
  BY Zenon DEF Receive
<1> QED
  BY <1>1, Zenon DEF Carried

\* Sending adds the messages sent.
LEMMA PacketsCarried ==
    ASSUME NEW ms, Send(Packets(ms))
    PROVE  Carried(net') = Carried(net) \cup Range(ms)
<1>1. net' = net \cup Packets(ms)
  BY Zenon DEF Send
<1>2. Carried(net \cup Packets(ms)) = Carried(net) \cup Carried(Packets(ms))
  BY Zenon DEF Carried
<1>3. \A i \in DOMAIN ms : Datagram("A", "B", WrapIke4500(ms[i])).data.ike = {ms[i]}
  BY SMT DEF Datagram, WrapIke4500
<1>4. \A m : m \in Carried(Packets(ms)) <=> m \in Range(ms)
  <2>1. ASSUME NEW m \in Carried(Packets(ms)) PROVE m \in Range(ms)
    <3>1. PICK i \in DOMAIN ms : m \in Datagram("A", "B", WrapIke4500(ms[i])).data.ike
      BY <2>1, Zenon DEF Carried, Packets
    <3> QED
      BY <1>3, <3>1, Zenon DEF Range
  <2>2. ASSUME NEW m \in Range(ms) PROVE m \in Carried(Packets(ms))
    <3>1. PICK i \in DOMAIN ms : m = ms[i]
      BY <2>2, Zenon DEF Range
    <3>2. m \in Datagram("A", "B", WrapIke4500(ms[i])).data.ike
      BY <1>3, <3>1, Zenon
    <3> QED
      BY <3>2, Zenon DEF Carried, Packets
  <2> QED
    BY <2>1, <2>2, Zenon
<1> QED
  BY <1>1, <1>2, <1>4

\* A message that was not sent is not held.
LEMMA NoneHeld ==
    ASSUME ReadInv, NEW id, id \notin DOMAIN sent
    PROVE  Held(id) = <<>>
  BY Zenon DEF ReadInv, FramingTypeOK, Held

\* Sending: the new message has a Message ID of its own, and is traced to what was sent.
LEMMA SendReadInv ==
    ASSUME ReadInv, NEW s, Message(s), sent' = Append(sent, s), todo' \in Seq(Seq(AllPayloads)),
           nextIv' \in 0..(IvLimit - 1), UNCHANGED <<held, got>>,
           \A m \in Carried(net') : m \in Carried(net) \/ m \in Sealings(Len(sent) + 1, s, nextIv)
    PROVE  ReadInv'
<1>1. PICK S : sent \in Seq(S)
  BY Zenon DEF ReadInv, FramingTypeOK
<1>2. PICK n \in Nat : n = Len(sent) /\ DOMAIN sent = 1..n
  BY <1>1, LenProperties, Zenon
<1>3. sent \in Seq(S \cup {s})
  BY <1>1
<1>4. /\ sent' \in Seq(S \cup {s}) /\ DOMAIN sent' = 1..(n + 1)
      /\ \A i \in 1..n : sent'[i] = sent[i] /\ sent'[n + 1] = s
  BY <1>2, <1>3
<1>5. DOMAIN sent' = DOMAIN sent \cup {n + 1} /\ n + 1 \notin DOMAIN sent
  BY <1>2, <1>4
<1>6. sent'[n + 1] = s
  BY <1>2, <1>3
<1>7. \A i \in DOMAIN sent : sent'[i] = sent[i]
  BY <1>2, <1>4, Zenon
<1>8. FramingTypeOK'
  <2>1. \A i \in DOMAIN sent' : Message(sent'[i])
    BY <1>5, <1>6, <1>7, Zenon DEF ReadInv, FramingTypeOK
  <2>2. PICK T : T = Range(sent')
    BY Zenon
  <2>3. \A i \in DOMAIN sent' : sent'[i] \in T
    BY <2>2, Zenon DEF Range
  <2>4. sent' \in Seq(T)
    <3>1. sent' = [i \in 1..(n + 1) |-> sent'[i]]
      <4>1. PICK k \in Nat : DOMAIN sent' = 1..k /\ sent' \in [1..k -> S \cup {s}]
        BY <1>4, LenProperties, Zenon
      <4>2. sent' = [i \in DOMAIN sent' |-> sent'[i]]
        BY <4>1
      <4> QED
        BY <1>4, <4>2, Zenon
    <3>2. n + 1 \in Nat
      BY <1>2
    <3>3. sent' \in [1..(n + 1) -> T]
      BY <1>4, <2>3, <3>1, Zenon
    <3>4. PICK k \in Nat : k = n + 1
      BY <3>2, Zenon
    <3>5. sent' \in [1..k -> T]
      BY <3>3, <3>4, Zenon
    <3>6. PICK q : q = sent'
      BY Zenon
    <3>7. q \in [1..k -> T]
      BY <3>5, <3>6, Zenon
    <3>8. q \in Seq(T)
      BY <3>7, SeqDef
    <3> QED
      BY <3>6, <3>8, Zenon
  <2>5. DOMAIN held' \subseteq DOMAIN sent' /\ DOMAIN got' \subseteq DOMAIN sent'
    BY <1>5, Zenon DEF ReadInv, FramingTypeOK
  <2> QED
    BY <2>1, <2>2, <2>4, <2>5, Zenon DEF FramingTypeOK
<1>9. \A m \in Sealings(n + 1, s, nextIv) : m.id = n + 1
  <2>1. PICK id : id = n + 1
    BY Zenon
  <2>2. \A m \in Sealings(id, s, nextIv) : m.id = id
    BY SealingFields
  <2> QED
    BY <2>1, <2>2, Zenon
<1>10. \A m \in Carried(net') : m \in Carried(net) \/ m \in Sealings(n + 1, s, nextIv)
  BY <1>2, Zenon
<1>11. \A m \in Carried(net') : m.id \in DOMAIN sent'
  BY <1>5, <1>9, <1>10, Zenon DEF ReadInv
<1>12. ASSUME NEW id \in DOMAIN sent' PROVE \E iv \in 0..(IvLimit - 1) : Traced(id, iv)'
  <2>1. Held(id)' = Held(id)
    BY Zenon DEF Held
  <2>2. CASE id \in DOMAIN sent
    <3>1. PICK iv \in 0..(IvLimit - 1) : Traced(id, iv)
      BY <2>2, Zenon DEF ReadInv
    <3>2. \A m \in Carried(net') : m.id = id => m \in Sealings(id, sent'[id], iv)
      BY <1>5, <1>7, <1>9, <1>10, <2>2, <3>1, Zenon DEF Traced
    <3>3. Traced(id, iv)'
      BY <1>7, <2>1, <2>2, <3>1, <3>2, Zenon DEF Traced
    <3> QED
      BY <3>3, Zenon
  <2>3. CASE id = n + 1
    <3>1. \A m \in Carried(net') : m.id = id => m \in Sealings(id, sent'[id], nextIv)
      BY <1>5, <1>6, <1>10, <2>3, Zenon DEF ReadInv
    <3>2. Held(id) = <<>>
      BY <1>5, <2>3, NoneHeld, Zenon
    <3>3. Held(id) \in Seq(Sealings(id, sent'[id], nextIv)) /\ IsInjective(Held(id))
      BY <3>2 DEF IsInjective
    <3>4. PICK iv \in 0..(IvLimit - 1) : iv = nextIv
      BY Zenon DEF ReadInv, FramingTypeOK
    <3>5. Traced(id, iv)'
      BY <2>1, <3>1, <3>3, <3>4, Zenon DEF Traced
    <3> QED
      BY <3>5, Zenon
  <2> QED
    BY <1>5, <2>2, <2>3, Zenon
<1>13. ReadAsSent'
  <2>1. \A id \in DOMAIN got : id \in DOMAIN sent
    BY Zenon DEF ReadInv, FramingTypeOK
  <2>2. \A x : Fits(x)' <=> Fits(x)
    BY Zenon DEF Fits
  <2> QED
    BY <1>7, <2>1, Zenon DEF ReadInv, ReadAsSent
<1> QED
  BY <1>8, <1>11, <1>12, <1>13, Zenon DEF ReadInv

\* There is at least one fragment.
LEMMA FragmentCount ==
    ASSUME Codec, NEW ps \in Seq(AllPayloads), NEW size \in Nat \ {0}, NEW id, NEW iv
    PROVE  LET ms == BuildFragments(id, ps, iv, size)
               n == Pieces(ps, size) IN
           n \in Nat \ {0} /\ DOMAIN ms = 1..n /\ ms \in Seq(Range(ms)) /\ Len(ms) = n
<1>1. PICK chunks, n : chunks = Chunks(EncodePayloadChain(ps), size) /\ n = Pieces(ps, size)
  BY Zenon
<1>2. Counted(ps, size)
  BY Zenon DEF Codec
<1>3. chunks \in Seq(Bytes) /\ Len(chunks) >= 1
  BY <1>1, <1>2, Zenon DEF Counted, Pieces
<1>4. n = Len(chunks) /\ Len(chunks) \in Nat /\ DOMAIN chunks = 1..n
  BY <1>1, <1>3, LenProperties, Zenon DEF Pieces
<1>5. n \in Nat \ {0}
  BY <1>3, <1>4
<1>6. PICK ms : ms = BuildFragments(id, ps, iv, size)
  BY Zenon
<1>7. DOMAIN ms = 1..n /\ ms = [i \in 1..n |-> ms[i]]
  BY <1>1, <1>4, <1>6, Zenon DEF BuildFragments
<1>8. ms \in [1..n -> Range(ms)]
  BY <1>7, Zenon DEF Range
<1>9. ms \in Seq(Range(ms))
  BY <1>5, <1>8, SeqDef
<1>10. Len(ms) = n
  BY <1>5, <1>7, <1>9, LenProperties
<1> QED
  BY <1>1, <1>5, <1>6, <1>7, <1>9, <1>10, Zenon

\* Initially nothing was sent.
LEMMA InitReadInv == Init => ReadInv
<1> SUFFICES ASSUME Init PROVE ReadInv
  OBVIOUS
<1>1. DOMAIN held = {} /\ DOMAIN got = {} /\ sent = <<>> /\ DOMAIN sent = {}
  <2>1. sent = <<>> /\ held = [id \in {} |-> <<>>] /\ got = [id \in {} |-> {}]
    BY Zenon DEF Init
  <2>2. DOMAIN sent = {}
    BY <2>1
  <2> QED
    BY <2>1, <2>2, Zenon
<1>2. todo \in Seq(Seq(AllPayloads)) /\ nextIv \in 0..(IvLimit - 1)
  BY FramingAssumption, Zenon DEF Init
<1>3. FramingTypeOK
  <2>1. sent \in Seq(Range(sent))
    <3>1. PICK T : T = Range(sent)
      BY Zenon
    <3>2. sent \in Seq(T)
      BY <1>1
    <3> QED
      BY <3>1, <3>2, Zenon
  <2> QED
    BY <1>1, <1>2, <2>1, Zenon DEF FramingTypeOK
<1>4. Carried(net) = {}
  BY Zenon DEF Carried, Init, NetInit
<1> QED
  BY <1>1, <1>3, <1>4, Zenon DEF ReadInv, ReadAsSent

\* A step that sends no message and reads none.
LEMMA SameReadInv ==
    ASSUME ReadInv, UNCHANGED <<todo, sent, nextIv, held, got>>, Carried(net') \subseteq Carried(net)
    PROVE  ReadInv'
<1>1. FramingTypeOK'
  BY Zenon DEF ReadInv, FramingTypeOK
<1>2. ReadAsSent'
  BY Zenon DEF ReadInv, ReadAsSent, Fits
<1>3. ASSUME NEW id \in DOMAIN sent, NEW iv, Traced(id, iv) PROVE Traced(id, iv)'
  <2>1. Held(id)' = Held(id)
    BY Zenon DEF Held
  <2> QED
    BY <1>3, <2>1, Zenon DEF Traced
<1> QED
  BY <1>1, <1>2, <1>3, Zenon DEF ReadInv

\* A message sent whole.
LEMMA SendWholeReadInv ==
    ASSUME ReadInv, SendWhole
    PROVE  ReadInv'
<1>1. PICK ps : ps = Head(todo)
  BY Zenon
<1>2. todo # <<>> /\ todo \in Seq(Seq(AllPayloads))
  BY Zenon DEF ReadInv, FramingTypeOK, SendWhole
<1>3. ps \in Seq(AllPayloads) /\ Tail(todo) \in Seq(Seq(AllPayloads))
  <2>1. PICK T : T = Seq(AllPayloads)
    BY Zenon
  <2>2. todo \in Seq(T)
    BY <1>2, <2>1, Zenon
  <2>3. Head(todo) \in T /\ Tail(todo) \in Seq(T)
    BY <1>2, <2>2, HeadTailProperties
  <2> QED
    BY <1>1, <2>1, <2>3, Zenon
<1>4. PICK s : s = [payloads |-> ps, fragments |-> {}]
  BY Zenon
<1>5. Message(s)
  BY <1>3, <1>4, Zenon DEF Message
<1>6. sent' = Append(sent, s) /\ todo' \in Seq(Seq(AllPayloads)) /\ UNCHANGED <<held, got>>
  BY <1>1, <1>3, <1>4, Zenon DEF SendWhole
<1>7. nextIv' \in 0..(IvLimit - 1)
  <2>1. nextIv \in 0..(IvLimit - 1) /\ nextIv' = (nextIv + 1) % IvLimit
    BY Zenon DEF ReadInv, FramingTypeOK, SendWhole
  <2> QED
    BY <2>1, FramingAssumption
<1>8. PICK m : m = BuildEncryptedGcm(Len(sent) + 1, ps, nextIv)
  BY Zenon
<1>9. Carried(net') = Carried(net) \cup Range(<<m>>)
  BY <1>1, <1>8, PacketsCarried, Zenon DEF SendWhole
<1>10. Range(<<m>>) = {m}
  BY DEF Range
<1>11. m \in Sealings(Len(sent) + 1, s, nextIv)
  <2>1. s.fragments = {} /\ s.payloads = ps
    BY <1>4, Zenon
  <2> QED
    BY <1>8, <2>1, Zenon DEF Sealings
<1>12. \A x \in Carried(net') : x \in Carried(net) \/ x \in Sealings(Len(sent) + 1, s, nextIv)
  BY <1>9, <1>10, <1>11, Zenon
<1> QED
  BY <1>5, <1>6, <1>7, <1>12, SendReadInv

\* A message sent in fragments.
LEMMA SendFragmentsReadInv ==
    ASSUME Codec, ReadInv, NEW size \in ContentSizes, SendFragments(size)
    PROVE  ReadInv'
<1>1. PICK ps, ms : ps = Head(todo) /\ ms = BuildFragments(Len(sent) + 1, ps, nextIv, size)
  BY Zenon
<1>2. todo # <<>> /\ todo \in Seq(Seq(AllPayloads))
  BY Zenon DEF ReadInv, FramingTypeOK, SendFragments
<1>3. ps \in Seq(AllPayloads) /\ Tail(todo) \in Seq(Seq(AllPayloads))
  <2>1. PICK T : T = Seq(AllPayloads)
    BY Zenon
  <2>2. todo \in Seq(T)
    BY <1>2, <2>1, Zenon
  <2>3. Head(todo) \in T /\ Tail(todo) \in Seq(T)
    BY <1>2, <2>2, HeadTailProperties
  <2> QED
    BY <1>1, <2>1, <2>3, Zenon
<1>4. PICK s : s = [payloads |-> ps, fragments |-> {size}]
  BY Zenon
<1>0. size \in Nat \ {0}
  <2>1. size \in Nat /\ size > 0
    BY FramingAssumption, Zenon DEF SendFragments
  <2> QED
    BY <2>1
<1>5. Message(s)
  BY <1>0, <1>3, <1>4, Zenon DEF Message
<1>6. /\ sent' = Append(sent, s) /\ todo' \in Seq(Seq(AllPayloads)) /\ UNCHANGED <<held, got>>
      /\ Send(Packets(ms)) /\ nextIv' = (nextIv + Len(ms) + 1) % IvLimit
  BY <1>1, <1>3, <1>4, Zenon DEF SendFragments
<1>7. nextIv' \in 0..(IvLimit - 1)
  <2>1. nextIv \in 0..(IvLimit - 1)
    BY Zenon DEF ReadInv, FramingTypeOK
  <2>2. Len(ms) \in Nat
    <3>1. PICK id : id = Len(sent) + 1
      BY Zenon
    <3> QED
      BY <1>0, <1>1, <1>3, <3>1, FragmentCount
  <2> QED
    BY <1>6, <2>1, <2>2, FramingAssumption
<1>8. Carried(net') = Carried(net) \cup Range(ms)
  BY <1>6, PacketsCarried, Zenon
<1>9. Range(ms) = Sealings(Len(sent) + 1, s, nextIv)
  <2>1. s.fragments = {size} /\ s.payloads = ps
    BY <1>4, Zenon
  <2> QED
    BY <1>1, <2>1, Zenon DEF Sealings
<1>10. \A x \in Carried(net') : x \in Carried(net) \/ x \in Sealings(Len(sent) + 1, s, nextIv)
  BY <1>8, <1>9, Zenon
<1> QED
  BY <1>5, <1>6, <1>7, <1>10, SendReadInv

\* A message taken from the network: what was sent under its Message ID, and the IV.
LEMMA Origin ==
    ASSUME ReadInv, NEW d \in net, NEW m \in d.data.ike
    PROVE  /\ m.id \in DOMAIN sent /\ Message(sent[m.id])
           /\ \E iv \in 0..(IvLimit - 1) : Traced(m.id, iv) /\ m \in Sealings(m.id, sent[m.id], iv)
<1>1. m \in Carried(net)
  BY Zenon DEF Carried
<1>2. PICK id : id = m.id
  BY Zenon
<1>3. id \in DOMAIN sent /\ Message(sent[id])
  BY <1>1, <1>2, Zenon DEF ReadInv, FramingTypeOK
<1>4. PICK iv \in 0..(IvLimit - 1) : Traced(id, iv)
  BY <1>3, Zenon DEF ReadInv
<1>5. m \in Sealings(id, sent[id], iv)
  BY <1>1, <1>2, <1>4, Zenon DEF Traced
<1> QED
  BY <1>2, <1>3, <1>4, <1>5, Zenon

\* Reading one message, id, and keeping now of its fragments.
LEMMA ReadReadInv ==
    ASSUME ReadInv, UNCHANGED <<todo, sent, nextIv>>, Carried(net') \subseteq Carried(net),
           NEW id \in DOMAIN sent, NEW iv0 \in 0..(IvLimit - 1), Traced(id, iv0),
           DOMAIN held' \subseteq DOMAIN held \cup {id}, DOMAIN got' \subseteq DOMAIN got \cup {id},
           \A x \in DOMAIN sent : x # id => Held(x)' = Held(x),
           \A x \in DOMAIN got : x # id => got'[x] = got[x],
           Held(id)' \in Seq(Sealings(id, sent[id], iv0)), IsInjective(Held(id)'),
           id \in DOMAIN got' /\ Fits(sent[id]) => got'[id] = {sent[id].payloads}
    PROVE  ReadInv'
<1>1. FramingTypeOK'
  <2>1. DOMAIN held' \subseteq DOMAIN sent' /\ DOMAIN got' \subseteq DOMAIN sent'
    BY Zenon DEF ReadInv, FramingTypeOK
  <2>2. /\ todo' \in Seq(Seq(AllPayloads)) /\ nextIv' \in 0..(IvLimit - 1)
        /\ sent' \in Seq(Range(sent'))
        /\ \A i \in DOMAIN sent' : Message(sent'[i])
    <3>1. todo' = todo /\ sent' = sent /\ nextIv' = nextIv
      BY Zenon
    <3>2. /\ todo \in Seq(Seq(AllPayloads)) /\ nextIv \in 0..(IvLimit - 1)
          /\ sent \in Seq(Range(sent))
          /\ \A i \in DOMAIN sent : Message(sent[i])
      BY Zenon DEF ReadInv, FramingTypeOK
    <3> QED
      BY <3>1, <3>2
  <2> QED
    BY <2>1, <2>2, Zenon DEF FramingTypeOK
<1>2. ReadAsSent'
  <2>1. ASSUME NEW x \in DOMAIN got', Fits(sent[x]) PROVE got'[x] = {sent[x].payloads}
    <3>1. CASE x = id
      BY <2>1, <3>1, Zenon
    <3>2. CASE x # id
      <4>1. x \in DOMAIN got /\ got'[x] = got[x]
        BY <3>2, Zenon
      <4>2. got[x] = {sent[x].payloads}
        BY <2>1, <4>1, Zenon DEF ReadInv, ReadAsSent
      <4> QED
        BY <4>1, <4>2, Zenon
    <3> QED
      BY <3>1, <3>2, Zenon
  <2>2. \A x : Fits(x)' <=> Fits(x)
    BY Zenon DEF Fits
  <2> QED
    BY <2>1, <2>2, Zenon DEF ReadAsSent
<1>3. Traced(id, iv0)'
  <2>1. \A m \in Carried(net') : m.id = id => m \in Sealings(id, sent'[id], iv0)
    BY Zenon DEF Traced
  <2> QED
    BY <2>1, Zenon DEF Traced
<1>4. ASSUME NEW x \in DOMAIN sent, x # id, NEW iv, Traced(x, iv) PROVE Traced(x, iv)'
  <2>1. Held(x)' = Held(x)
    BY <1>4, Zenon
  <2>2. \A m \in Carried(net') : m.id = x => m \in Sealings(x, sent'[x], iv)
    BY <1>4, Zenon DEF Traced
  <2> QED
    BY <1>4, <2>1, <2>2, Zenon DEF Traced
<1>5. \A x \in DOMAIN sent' : \E iv \in 0..(IvLimit - 1) : Traced(x, iv)'
  <2>1. ASSUME NEW x \in DOMAIN sent PROVE \E iv \in 0..(IvLimit - 1) : Traced(x, iv)'
    <3>1. PICK iv \in 0..(IvLimit - 1) : Traced(x, iv)
      BY Zenon DEF ReadInv
    <3> QED
      BY <1>3, <1>4, <3>1, Zenon
  <2> QED
    BY <2>1, Zenon
<1>6. \A m \in Carried(net') : m.id \in DOMAIN sent'
  BY Zenon DEF ReadInv
<1> QED
  BY <1>1, <1>2, <1>5, <1>6, Zenon DEF ReadInv

\* A message is sealed whole or in fragments of one size.
LEMMA WholeSealing ==
    ASSUME Codec, NEW s, Message(s), NEW id, NEW iv, NEW m \in Sealings(id, s, iv), m.kind = "SK",
           Fits(s)
    PROVE  OpenEncryptedGcm(m) = {s.payloads}
<1>1. s.fragments = {}
  <2>1. s.fragments # {} => m.kind = "SKF"
    BY SealingFields
  <2>2. "SK" # "SKF"
    OBVIOUS
  <2> QED
    BY <2>1, <2>2, Zenon
<1>2. PICK ps \in Seq(AllPayloads) : s = [payloads |-> ps, fragments |-> {}]
  <2>1. ASSUME NEW ps, NEW size, s = [payloads |-> ps, fragments |-> {size}] PROVE FALSE
    BY <1>1, <2>1, Zenon
  <2> QED
    BY <2>1, Zenon DEF Message
<1>3. s.payloads = ps
  BY <1>2, Zenon
<1>4. m = BuildEncryptedGcm(id, ps, iv)
  BY <1>1, <1>3, Zenon DEF Sealings
<1>5. Fits([payloads |-> ps, fragments |-> {}])
  BY <1>2, Zenon
<1>6. OpenEncryptedGcm(BuildEncryptedGcm(id, ps, iv)) = {ps}
  BY <1>5, Zenon DEF Codec
<1> QED
  BY <1>3, <1>4, <1>6, Zenon

\* A whole message is read.
LEMMA ReceiveWholeReadInv ==
    ASSUME Codec, ReadInv, NEW d \in net, ReceiveWhole(d)
    PROVE  ReadInv'
<1>1. PICK m \in d.data.ike : /\ m.kind = "SK" /\ got' = Put(got, m.id, OpenEncryptedGcm(m))
                              /\ Receive(d, {}) /\ UNCHANGED <<todo, sent, nextIv, held>>
  BY Zenon DEF ReceiveWhole
<1>2. PICK id : id = m.id
  BY Zenon
<1>3. /\ id \in DOMAIN sent /\ Message(sent[id])
      /\ \E iv \in 0..(IvLimit - 1) : Traced(id, iv) /\ m \in Sealings(id, sent[id], iv)
  BY <1>2, Origin
<1>4. PICK iv \in 0..(IvLimit - 1) : Traced(id, iv) /\ m \in Sealings(id, sent[id], iv)
  BY <1>3, Zenon
<1>5. Carried(net') \subseteq Carried(net)
  BY <1>1, ReceivedCarried, Zenon
<1>6. PICK v : v = OpenEncryptedGcm(m)
  BY Zenon
<1>7. got' = Put(got, id, v)
  BY <1>1, <1>2, <1>6, Zenon
<1>8. /\ DOMAIN got' = DOMAIN got \cup {id} /\ got'[id] = v
      /\ \A x \in DOMAIN got : x # id => got'[x] = got[x]
  <2>1. PICK g : g = got'
    BY Zenon
  <2>2. /\ DOMAIN g = DOMAIN got \cup {id} /\ g[id] = v
        /\ \A x \in DOMAIN got : x # id => g[x] = got[x]
    BY <1>7, <2>1, Zenon DEF Put
  <2> QED
    BY <2>1, <2>2, Zenon
<1>9. ASSUME Fits(sent[id]) PROVE got'[id] = {sent[id].payloads}
  <2>1. PICK s : s = sent[id]
    BY Zenon
  <2>2. Message(s) /\ m \in Sealings(id, s, iv) /\ m.kind = "SK" /\ Fits(s)
    BY <1>1, <1>3, <1>4, <1>9, <2>1, Zenon
  <2>3. OpenEncryptedGcm(m) = {s.payloads}
    BY <2>2, WholeSealing
  <2> QED
    BY <1>6, <1>8, <2>1, <2>3, Zenon
<1>10. \A x : Held(x)' = Held(x)
  BY <1>1, Zenon DEF Held
<1>11. Held(id)' \in Seq(Sealings(id, sent[id], iv)) /\ IsInjective(Held(id)')
  BY <1>4, <1>10, Zenon DEF Traced
<1>12. DOMAIN held' \subseteq DOMAIN held \cup {id}
  BY <1>1, Zenon
<1> QED
  BY <1>1, <1>3, <1>4, <1>5, <1>8, <1>9, <1>10, <1>11, <1>12, ReadReadInv

\* Fragments of a message that fits, none of them twice, are read as it or as nothing.
LEMMA FragmentSealing ==
    ASSUME Codec, NEW s, Message(s), NEW id, NEW iv, NEW m \in Sealings(id, s, iv), m.kind = "SKF",
           Fits(s), NEW now \in Seq(Sealings(id, s, iv)), IsInjective(now), now # <<>>, Reassemble(now) # {}
    PROVE  Reassemble(now) = {s.payloads}
<1>1. s.fragments # {}
  <2>1. s.fragments = {} => m.kind = "SK"
    BY SealingFields
  <2>2. "SK" # "SKF"
    OBVIOUS
  <2> QED
    BY <2>1, <2>2, Zenon
<1>2. PICK ps \in Seq(AllPayloads) : \E size \in Nat \ {0} : s = [payloads |-> ps, fragments |-> {size}]
  <2>1. ASSUME NEW ps, s = [payloads |-> ps, fragments |-> {}] PROVE FALSE
    BY <1>1, <2>1, Zenon
  <2> QED
    BY <2>1, Zenon DEF Message
<1>3. PICK size \in Nat \ {0} : s = [payloads |-> ps, fragments |-> {size}]
  BY <1>2, Zenon
<1>4. s.payloads = ps /\ s.fragments = {size}
  BY <1>3, Zenon
<1>5. PICK ms : ms = BuildFragments(id, ps, iv, size)
  BY Zenon
<1>6. Sealings(id, s, iv) = Range(ms)
  BY <1>4, <1>5, Zenon DEF Sealings
<1>7. Fragmented(ps, size)
  BY <1>3, Zenon DEF Fragmented
<1>8. PICK n \in Nat : n = Len(now) /\ DOMAIN now = 1..n /\ now \in Seq(Range(ms))
  BY <1>6, LenProperties, Zenon
<1>9. n # 0
  BY <1>8
<1>10. \A j \in 1..n : now[j] \in Range(ms)
  BY <1>8
<1>11. \A j \in 1..n : \E k \in DOMAIN ms : now[j] = ms[k]
  BY <1>10, Zenon DEF Range
<1>12. n \in Nat \ {0}
  BY <1>9, Zenon
<1>13. Distinct(now, n, BuildFragments(id, ps, iv, size))
  BY <1>5, <1>8, <1>11, <1>12, Zenon DEF Distinct
<1>14. Reassemble(now) = IF n = Pieces(ps, size) THEN {ps} ELSE {}
  BY <1>7, <1>13, Zenon DEF Codec
<1> QED
  BY <1>4, <1>14, Zenon

\* Another fragment is appended without repetition.
LEMMA AppendDistinct ==
    ASSUME NEW S, NEW s \in Seq(S), IsInjective(s), NEW m \in S, m \notin Range(s)
    PROVE  Append(s, m) \in Seq(S) /\ IsInjective(Append(s, m)) /\ Append(s, m) # <<>>
<1>1. PICK n \in Nat : n = Len(s) /\ DOMAIN s = 1..n
  BY LenProperties, Zenon
<1>2. PICK t : t = Append(s, m)
  BY Zenon
<1>3. t \in Seq(S) /\ t # <<>> /\ DOMAIN t = 1..(n + 1) /\ t[n + 1] = m /\ \A i \in 1..n : t[i] = s[i]
  BY <1>1, <1>2
<1>4. \A i \in 1..(n + 1) : i \in 1..n \/ i = n + 1
  BY <1>1
<1>5. \A i \in 1..n : t[i] # m
  BY <1>1, <1>3, Zenon DEF Range
<1>6. \A i, j \in 1..n : t[i] = t[j] => i = j
  BY <1>1, <1>3, Zenon DEF IsInjective
<1>7. IsInjective(t)
  BY <1>3, <1>4, <1>5, <1>6, Zenon DEF IsInjective
<1> QED
  BY <1>2, <1>3, <1>7, Zenon

\* A fragment completes its message, or is held.
LEMMA ReceiveFragmentReadInv ==
    ASSUME Codec, ReadInv, NEW d \in net, ReceiveFragment(d)
    PROVE  ReadInv'
<1>1. PICK m \in d.data.ike :
        /\ m.kind = "SKF" /\ m.id \notin DOMAIN got /\ m \notin Range(Held(m.id))
        /\ IF Reassemble(Append(Held(m.id), m)) = {}
           THEN held' = Put(held, m.id, Append(Held(m.id), m)) /\ UNCHANGED got
           ELSE held' = Put(held, m.id, <<>>) /\ got' = Put(got, m.id, Reassemble(Append(Held(m.id), m)))
        /\ Receive(d, {}) /\ UNCHANGED <<todo, sent, nextIv>>
  BY Zenon DEF ReceiveFragment
<1>2. PICK id, now, read : id = m.id /\ now = Append(Held(id), m) /\ read = Reassemble(now)
  BY Zenon
<1>3. /\ id \in DOMAIN sent /\ Message(sent[id])
      /\ \E iv \in 0..(IvLimit - 1) : Traced(id, iv) /\ m \in Sealings(id, sent[id], iv)
  BY <1>2, Origin
<1>4. PICK iv \in 0..(IvLimit - 1) : Traced(id, iv) /\ m \in Sealings(id, sent[id], iv)
  BY <1>3, Zenon
<1>5. Carried(net') \subseteq Carried(net)
  BY <1>1, ReceivedCarried, Zenon
<1>6. PICK s, S : s = sent[id] /\ S = Sealings(id, s, iv)
  BY Zenon
<1>7. now \in Seq(S) /\ IsInjective(now) /\ now # <<>>
  <2>1. PICK h : h = Held(id)
    BY Zenon
  <2>2. h \in Seq(S) /\ IsInjective(h) /\ m \in S /\ m \notin Range(h)
    BY <1>1, <1>2, <1>4, <1>6, <2>1, Zenon DEF Traced
  <2> QED
    BY <1>2, <2>1, <2>2, AppendDistinct, Zenon
<1>8. PICK keep : /\ keep = IF read = {} THEN now ELSE <<>>
                  /\ held' = Put(held, id, keep)
  BY <1>1, <1>2, Zenon
<1>9. /\ DOMAIN held' = DOMAIN held \cup {id} /\ held'[id] = keep
      /\ \A x \in DOMAIN held : x # id => held'[x] = held[x]
  <2>1. PICK g : g = held'
    BY Zenon
  <2>2. /\ DOMAIN g = DOMAIN held \cup {id} /\ g[id] = keep
        /\ \A x \in DOMAIN held : x # id => g[x] = held[x]
    BY <1>8, <2>1, Zenon DEF Put
  <2> QED
    BY <2>1, <2>2, Zenon
<1>10. Held(id)' = keep /\ \A x \in DOMAIN sent : x # id => Held(x)' = Held(x)
  <2>1. Held(id)' = keep
    BY <1>9, Zenon DEF Held
  <2>2. ASSUME NEW x \in DOMAIN sent, x # id PROVE Held(x)' = Held(x)
    <3>1. CASE x \in DOMAIN held
      <4>1. x \in DOMAIN held' /\ held'[x] = held[x]
        BY <1>9, <2>2, <3>1, Zenon
      <4> QED
        BY <3>1, <4>1, Zenon DEF Held
    <3>2. CASE x \notin DOMAIN held
      <4>1. x \notin DOMAIN held'
        BY <1>9, <2>2, <3>2, Zenon
      <4> QED
        BY <3>2, <4>1, Zenon DEF Held
    <3> QED
      BY <3>1, <3>2, Zenon
  <2> QED
    BY <2>1, <2>2, Zenon
<1>11. keep \in Seq(S) /\ IsInjective(keep)
  <2>1. <<>> \in Seq(S) /\ IsInjective(<<>>)
    BY DEF IsInjective
  <2> QED
    BY <1>7, <1>8, <2>1, Zenon
<1>12. Held(id)' \in Seq(Sealings(id, sent[id], iv)) /\ IsInjective(Held(id)')
  BY <1>6, <1>10, <1>11, Zenon
<1>13. /\ DOMAIN got' \subseteq DOMAIN got \cup {id} /\ \A x \in DOMAIN got : x # id => got'[x] = got[x]
       /\ id \in DOMAIN got' /\ Fits(sent[id]) => got'[id] = {sent[id].payloads}
  <2>1. CASE read = {}
    <3>1. got' = got /\ id \notin DOMAIN got
      BY <1>1, <1>2, <2>1, Zenon
    <3> QED
      BY <3>1, Zenon
  <2>2. CASE read # {}
    <3>1. got' = Put(got, id, read)
      BY <1>1, <1>2, <2>2, Zenon
    <3>2. /\ DOMAIN got' = DOMAIN got \cup {id} /\ got'[id] = read
          /\ \A x \in DOMAIN got : x # id => got'[x] = got[x]
      <4>1. PICK g : g = got'
        BY Zenon
      <4>2. /\ DOMAIN g = DOMAIN got \cup {id} /\ g[id] = read
            /\ \A x \in DOMAIN got : x # id => g[x] = got[x]
        BY <3>1, <4>1, Zenon DEF Put
      <4> QED
        BY <4>1, <4>2, Zenon
    <3>3. ASSUME Fits(sent[id]) PROVE got'[id] = {sent[id].payloads}
      <4>1. Message(s) /\ m \in Sealings(id, s, iv) /\ m.kind = "SKF" /\ Fits(s)
        BY <1>1, <1>3, <1>4, <1>6, <3>3, Zenon
      <4>2. now \in Seq(Sealings(id, s, iv)) /\ Reassemble(now) # {}
        BY <1>2, <1>6, <1>7, <2>2, Zenon
      <4>3. Reassemble(now) = {s.payloads}
        BY <1>7, <4>1, <4>2, FragmentSealing
      <4> QED
        BY <1>2, <1>6, <3>2, <4>3, Zenon
    <3> QED
      BY <3>2, <3>3, Zenon
  <2> QED
    BY <2>1, <2>2, Zenon
<1>14. DOMAIN held' \subseteq DOMAIN held \cup {id}
  BY <1>9, Zenon
<1> QED
  BY <1>1, <1>3, <1>4, <1>5, <1>10, <1>12, <1>13, <1>14, ReadReadInv

\* An ESP packet carries no IKE message.
LEMMA SendEspReadInv ==
    ASSUME ReadInv, NEW spi, SendEsp(spi)
    PROVE  ReadInv'
<1>1. net' = net \cup {Datagram("A", "B", EspDatagram(spi))} /\ UNCHANGED <<todo, sent, nextIv, held, got>>
  BY Zenon DEF SendEsp, Send
<1>2. Datagram("A", "B", EspDatagram(spi)).data.ike = {}
  BY SMT DEF Datagram, EspDatagram
<1>3. Carried(net') \subseteq Carried(net)
  BY <1>1, <1>2, Zenon DEF Carried
<1> QED
  BY <1>1, <1>3, SameReadInv, Zenon

\* The deliveries that read nothing.
LEMMA ReceiveOtherReadInv ==
    ASSUME ReadInv, NEW d, ReceiveFragmentAgain(d) \/ ReceiveNotIke(d) \/ ReceiveEsp(d)
    PROVE  ReadInv'
<1>1. Receive(d, {}) /\ UNCHANGED <<todo, sent, nextIv, held, got>>
  BY Zenon DEF ReceiveFragmentAgain, ReceiveNotIke, ReceiveEsp
<1>2. Carried(net') \subseteq Carried(net)
  BY <1>1, ReceivedCarried, Zenon
<1> QED
  BY <1>1, <1>2, SameReadInv, Zenon

\* One case per action.
LEMMA NextReadInv == Codec /\ ReadInv /\ [Next]_vars => ReadInv'
<1> SUFFICES ASSUME Codec, ReadInv, [Next]_vars PROVE ReadInv'
  OBVIOUS
<1>1. CASE SendWhole
  BY <1>1, SendWholeReadInv, Zenon
<1>2. CASE \E size \in ContentSizes : SendFragments(size)
  BY <1>2, SendFragmentsReadInv, Zenon
<1>3. CASE \E spi \in Spis : SendEsp(spi)
  BY <1>3, SendEspReadInv, Zenon
<1>4. CASE ReceiveAny
  <2>1. PICK d \in net : \/ ReceiveWhole(d) \/ ReceiveFragment(d) \/ ReceiveFragmentAgain(d)
                         \/ ReceiveNotIke(d) \/ ReceiveEsp(d)
    BY <1>4, Zenon DEF ReceiveAny
  <2>2. CASE ReceiveWhole(d)
    BY <2>2, ReceiveWholeReadInv, Zenon
  <2>3. CASE ReceiveFragment(d)
    BY <2>3, ReceiveFragmentReadInv, Zenon
  <2>4. CASE ReceiveFragmentAgain(d) \/ ReceiveNotIke(d) \/ ReceiveEsp(d)
    BY <2>4, ReceiveOtherReadInv, Zenon
  <2> QED
    BY <2>1, <2>2, <2>3, <2>4, Zenon
<1>5. CASE UNCHANGED vars
  <2>1. UNCHANGED <<todo, sent, nextIv, held, got>> /\ net' = net
    BY <1>5, Zenon DEF vars
  <2>2. Carried(net') \subseteq Carried(net)
    BY <2>1, Zenon
  <2> QED
    BY <2>1, <2>2, SameReadInv, Zenon
<1> QED
  BY <1>1, <1>2, <1>3, <1>4, <1>5, Zenon DEF Next

-----------------------------------------------------------------------------
(* The IVs *)

\* The IVs `is` of n messages lie at increasing positions pos, below used, of the count from
\* first, and next follows them.
Spread(is, n, next, first, used, pos) ==
    /\ first \in Nat /\ used \in Nat /\ n \in Nat
    /\ is \in Seq(Nat) /\ pos \in [1..Len(is) -> Nat]
    /\ \A k \in 1..Len(is) : pos[k] < used /\ is[k] = (first + pos[k]) % IvLimit
    /\ \A j, k \in 1..Len(is) : j < k => pos[j] < pos[k]
    /\ next = (first + used) % IvLimit
    /\ used <= Len(is) + n

\* The m IVs of one more message, from next, or after it when next is the base of fragments.
NextIvs(new, m, next, skip) ==
    /\ new \in Seq(Nat) /\ Len(new) = m /\ m \in Nat /\ skip \in {0, 1}
    /\ \A i \in 1..m : new[i] = (next + (skip + i - 1)) % IvLimit

\* One more message moves on.
LEMMA SpreadMore ==
    ASSUME NEW is, NEW n, NEW next, NEW first, NEW used, NEW pos, Spread(is, n, next, first, used, pos),
           NEW new, NEW m, NEW skip, NextIvs(new, m, next, skip)
    PROVE  \E u, p : Spread(is \o new, n + 1, (next + (skip + m)) % IvLimit, first, u, p)
<1>1. /\ first \in Nat /\ used \in Nat /\ n \in Nat /\ is \in Seq(Nat) /\ pos \in [1..Len(is) -> Nat]
      /\ \A k \in 1..Len(is) : pos[k] < used /\ is[k] = (first + pos[k]) % IvLimit
      /\ \A j, k \in 1..Len(is) : j < k => pos[j] < pos[k]
      /\ next = (first + used) % IvLimit /\ used <= Len(is) + n
  BY Zenon DEF Spread
<1>2. /\ new \in Seq(Nat) /\ Len(new) = m /\ m \in Nat /\ skip \in {0, 1}
      /\ \A i \in 1..m : new[i] = (next + (skip + i - 1)) % IvLimit
  BY Zenon DEF NextIvs
<1>3. PICK l \in Nat : l = Len(is)
  BY <1>1, LenProperties, Zenon
<1>4. PICK all : all = is \o new
  BY Zenon
<1>5. /\ all \in Seq(Nat) /\ Len(all) = l + m
      /\ \A k \in 1..l : all[k] = is[k]
      /\ \A k \in (l + 1)..(l + m) : all[k] = new[k - l] /\ k - l \in 1..m
  <2>1. all \in Seq(Nat) /\ Len(all) = l + m
    BY <1>1, <1>2, <1>3, <1>4, ConcatProperties
  <2>2. \A k \in 1..(l + m) : all[k] = IF k <= l THEN is[k] ELSE new[k - l]
    BY <1>1, <1>2, <1>3, <1>4, ConcatProperties
  <2>3. \A k \in 1..l : all[k] = is[k]
    BY <1>2, <1>3, <2>2
  <2>4. ASSUME NEW k \in (l + 1)..(l + m) PROVE all[k] = new[k - l] /\ k - l \in 1..m
    <3>1. k \in 1..(l + m) /\ ~(k <= l) /\ k - l \in 1..m
      BY <1>2, <1>3
    <3> QED
      BY <2>2, <3>1, Zenon
  <2> QED
    BY <2>1, <2>3, <2>4, Zenon
<1>6. PICK u \in Nat : u = used + skip + m
  BY <1>1, <1>2
<1> DEFINE p == [k \in 1..(l + m) |-> IF k <= l THEN pos[k] ELSE used + skip + (k - l - 1)]
<1>7. p \in [1..(l + m) -> Nat]
  <2>1. ASSUME NEW k \in 1..(l + m) PROVE (IF k <= l THEN pos[k] ELSE used + skip + (k - l - 1)) \in Nat
    <3>1. CASE k <= l
      <4>1. k \in 1..l
        BY <3>1
      <4> QED
        BY <1>1, <1>3, <3>1, <4>1
    <3>2. CASE ~(k <= l)
      BY <1>1, <1>2, <3>2
    <3> QED
      BY <3>1, <3>2, Zenon
  <2> QED
    BY <2>1, Zenon
<1>8. \A k \in 1..l : p[k] = pos[k] /\ p[k] \in Nat /\ p[k] < used
  BY <1>1, <1>2, <1>3
<1>9. \A k \in (l + 1)..(l + m) : p[k] = used + skip + (k - l - 1)
  BY <1>2, <1>3
<1> HIDE DEF p
<1>10. \A k \in 1..(l + m) : k \in 1..l \/ k \in (l + 1)..(l + m)
  BY <1>2, <1>3
<1>11. IvLimit \in Nat \ {0}
  BY FramingAssumption, Zenon
<1>12. ASSUME NEW b \in Nat PROVE (next + b) % IvLimit = (first + (used + b)) % IvLimit
  <2>1. PICK a \in Nat : a = first + used
    BY <1>1
  <2>2. ((a % IvLimit) + b) % IvLimit = (a + b) % IvLimit
    BY <1>11, ModAdd, Zenon
  <2>3. a + b = first + (used + b)
    BY <1>1, <2>1
  <2> QED
    BY <1>1, <2>1, <2>2, <2>3, Zenon
<1>13. ASSUME NEW k \in 1..(l + m) PROVE p[k] < u /\ all[k] = (first + p[k]) % IvLimit
  <2>1. CASE k \in 1..l
    <3>1. p[k] < u
      BY <1>1, <1>2, <1>6, <1>8, <2>1
    <3> QED
      BY <1>1, <1>3, <1>5, <1>8, <2>1, <3>1, Zenon
  <2>2. CASE k \in (l + 1)..(l + m)
    <3>1. PICK i \in 1..m : i = k - l /\ all[k] = new[i]
      BY <1>5, <2>2, Zenon
    <3>2. PICK b \in Nat : b = skip + i - 1
      BY <1>2
    <3>3. all[k] = (next + b) % IvLimit
      BY <1>2, <3>1, <3>2, Zenon
    <3>4. p[k] = used + b /\ p[k] < u
      BY <1>1, <1>2, <1>3, <1>6, <1>9, <2>2, <3>1, <3>2
    <3> QED
      BY <1>12, <3>3, <3>4, Zenon
  <2> QED
    BY <1>10, <2>1, <2>2, Zenon
<1>14. ASSUME NEW j \in 1..(l + m), NEW k \in 1..(l + m), j < k PROVE p[j] < p[k]
  <2>1. CASE k \in 1..l
    <3>1. j \in 1..l
      BY <1>14, <2>1
    <3>2. pos[j] < pos[k]
      BY <1>1, <1>3, <1>14, <2>1, <3>1, Zenon
    <3> QED
      BY <1>8, <2>1, <3>1, <3>2, Zenon
  <2>2. CASE j \in 1..l /\ k \in (l + 1)..(l + m)
    <3>1. p[j] \in Nat /\ p[j] < used /\ p[k] = used + skip + (k - l - 1)
      BY <1>8, <1>9, <2>2, Zenon
    <3>2. skip \in Nat /\ k - l - 1 \in Nat
      BY <1>2, <2>2
    <3> QED
      BY <1>1, <3>1, <3>2
  <2>3. CASE j \in (l + 1)..(l + m) /\ k \in (l + 1)..(l + m)
    <3>1. p[j] = used + skip + (j - l - 1) /\ p[k] = used + skip + (k - l - 1)
      BY <1>9, <2>3, Zenon
    <3> QED
      BY <1>1, <1>2, <1>14, <3>1
  <2> QED
    BY <1>10, <2>1, <2>2, <2>3, Zenon
<1>15. u <= (l + m) + (n + 1) /\ n + 1 \in Nat
  BY <1>1, <1>2, <1>3, <1>6
<1>16. (next + (skip + m)) % IvLimit = (first + u) % IvLimit
  <2>1. PICK b \in Nat : b = skip + m
    BY <1>2
  <2>2. u = used + b
    BY <1>1, <1>2, <1>6, <2>1
  <2> QED
    BY <1>12, <2>1, <2>2, Zenon
<1>17. Spread(all, n + 1, (next + (skip + m)) % IvLimit, first, u, p)
  BY <1>1, <1>5, <1>6, <1>7, <1>13, <1>14, <1>15, <1>16, Zenon DEF Spread
<1> QED
  BY <1>4, <1>17, Zenon

\* Short of a full turn of the counter, positions apart are IVs apart.
LEMMA SpreadApart ==
    ASSUME NEW is, NEW n, NEW next, NEW first, NEW used, NEW pos, Spread(is, n, next, first, used, pos),
           Len(is) + n <= IvLimit
    PROVE  IsInjective(is)
<1>1. /\ first \in Nat /\ used \in Nat /\ n \in Nat /\ is \in Seq(Nat) /\ pos \in [1..Len(is) -> Nat]
      /\ \A k \in 1..Len(is) : pos[k] < used /\ is[k] = (first + pos[k]) % IvLimit
      /\ \A j, k \in 1..Len(is) : j < k => pos[j] < pos[k]
      /\ used <= Len(is) + n
  BY Zenon DEF Spread
<1>2. PICK l \in Nat : l = Len(is) /\ DOMAIN is = 1..l
  BY <1>1, LenProperties, Zenon
<1>3. IvLimit \in Nat \ {0}
  BY FramingAssumption, Zenon
<1>4. ASSUME NEW j \in 1..l, NEW k \in 1..l, j < k PROVE is[j] # is[k]
  <2>1. PICK a \in Nat, b \in Nat : /\ a = pos[j] /\ b = pos[k] /\ a < b /\ b < used
                                    /\ is[j] = (first + a) % IvLimit /\ is[k] = (first + b) % IvLimit
    BY <1>1, <1>2, <1>4
  <2>2. b - a < IvLimit
    BY <1>1, <1>2, <1>3, <2>1
  <2>3. (first + a) % IvLimit # (first + b) % IvLimit
    <3>1. PICK m \in Nat \ {0} : m = IvLimit
      BY <1>3, Zenon
    <3>2. first \in Nat /\ a < b /\ b - a < m
      BY <1>1, <2>1, <2>2, <3>1, Zenon
    <3>3. (first + a) % m # (first + b) % m
      BY <3>2, ModApart
    <3> QED
      BY <3>1, <3>3, Zenon
  <2> QED
    BY <2>1, <2>3, Zenon
<1>5. ASSUME NEW j \in 1..l, NEW k \in 1..l, is[j] = is[k] PROVE j = k
  <2>1. j < k \/ k < j \/ j = k
    OBVIOUS
  <2> QED
    BY <1>4, <1>5, <2>1, Zenon
<1> QED
  BY <1>2, <1>5, Zenon DEF IsInjective

\* While every message sent fits, the IVs used lie apart on the count from the first.
IvInv ==
    (\A i \in DOMAIN sent : Fits(sent[i]))
        => \E first, used, pos : Spread(ivs, Len(sent), nextIv, first, used, pos)

\* Initially none is used.
LEMMA InitIvInv == Init => IvInv
<1> SUFFICES ASSUME Init PROVE IvInv
  OBVIOUS
<1>1. sent = <<>> /\ ivs = <<>> /\ nextIv \in 0..(IvLimit - 1)
  BY FramingAssumption, Zenon DEF Init
<1>2. PICK f \in Nat : f = nextIv
  BY <1>1, FramingAssumption
<1>3. f = (f + 0) % IvLimit
  BY <1>1, <1>2, FramingAssumption
<1>4. Len(ivs) = 0 /\ Len(sent) = 0 /\ ivs \in Seq(Nat)
  BY <1>1
<1>5. PICK pos : pos = [k \in 1..0 |-> 0]
  BY Zenon
<1>6. pos \in [1..0 -> Nat]
  BY <1>5
<1>7. \A k \in 1..0 : FALSE
  OBVIOUS
<1>8. 0 \in Nat /\ 0 <= 0 + 0
  OBVIOUS
<1>9. Spread(ivs, Len(sent), nextIv, f, 0, pos)
  BY <1>2, <1>3, <1>4, <1>6, <1>7, <1>8, Zenon DEF Spread
<1> QED
  BY <1>9, Zenon DEF IvInv

\* One more message, s, sealed under the IVs new.
LEMMA SendIvInv ==
    ASSUME ReadInv, IvInv, NEW s, sent' = Append(sent, s), NEW new, NEW m, NEW skip,
           ivs \in Seq(Nat) => ivs' = ivs \o new,
           nextIv' = (nextIv + (skip + m)) % IvLimit,
           Fits(s) => NextIvs(new, m, nextIv, skip)
    PROVE  IvInv'
<1>1. PICK S : sent \in Seq(S)
  BY Zenon DEF ReadInv, FramingTypeOK
<1>2. PICK n \in Nat : n = Len(sent) /\ DOMAIN sent = 1..n
  BY <1>1, LenProperties, Zenon
<1>3. sent \in Seq(S \cup {s})
  BY <1>1
<1>4. /\ DOMAIN sent' = 1..(n + 1) /\ Len(sent') = n + 1
      /\ \A i \in 1..n : sent'[i] = sent[i] /\ sent'[n + 1] = s
  BY <1>2, <1>3
<1>5. n + 1 \in 1..(n + 1) /\ \A i \in 1..n : i \in 1..(n + 1)
  BY <1>2
<1>6. sent'[n + 1] = s
  BY <1>2, <1>3
<1>7. \A x : Fits(x)' <=> Fits(x)
  BY Zenon DEF Fits
<1> SUFFICES ASSUME \A i \in DOMAIN sent' : Fits(sent'[i])
             PROVE  \E first, used, pos : Spread(ivs', Len(sent'), nextIv', first, used, pos)
  BY <1>7, Zenon DEF IvInv
<1>8. Fits(s) /\ \A i \in DOMAIN sent : Fits(sent[i])
  BY <1>2, <1>4, <1>5, <1>6, Zenon
<1>9. PICK first, used, pos : Spread(ivs, n, nextIv, first, used, pos)
  BY <1>2, <1>8, Zenon DEF IvInv
<1>10. NextIvs(new, m, nextIv, skip)
  BY <1>8, Zenon
<1>11. \E u, p : Spread(ivs \o new, n + 1, (nextIv + (skip + m)) % IvLimit, first, u, p)
  BY <1>9, <1>10, SpreadMore
<1>12. ivs' = ivs \o new
  BY <1>9, Zenon DEF Spread
<1> QED
  BY <1>4, <1>11, <1>12, Zenon

\* A whole message takes the next IV.
LEMMA SendWholeIvInv ==
    ASSUME ReadInv, IvInv, SendWhole
    PROVE  IvInv'
<1>1. PICK s : sent' = Append(sent, s)
  BY Zenon DEF SendWhole
<1>2. nextIv \in 0..(IvLimit - 1) /\ ivs' = Append(ivs, nextIv) /\ nextIv' = (nextIv + 1) % IvLimit
  BY Zenon DEF ReadInv, FramingTypeOK, SendWhole
<1>3. PICK new : new = <<nextIv>>
  BY Zenon
<1>4. nextIv \in Nat /\ nextIv % IvLimit = nextIv
  BY <1>2, FramingAssumption
<1>5. new \in Seq(Nat) /\ Len(new) = 1 /\ new[1] = nextIv
  BY <1>3, <1>4
<1>6. NextIvs(new, 1, nextIv, 0)
  <2>1. \A i \in 1..1 : i = 1
    OBVIOUS
  <2>2. nextIv + (0 + 1 - 1) = nextIv
    BY <1>4
  <2>3. \A i \in 1..1 : new[i] = (nextIv + (0 + i - 1)) % IvLimit
    BY <1>4, <1>5, <2>1, <2>2, Zenon
  <2>4. 1 \in Nat /\ 0 \in {0, 1}
    OBVIOUS
  <2> QED
    BY <1>5, <2>3, <2>4, Zenon DEF NextIvs
<1>7. ivs \in Seq(Nat) => ivs' = ivs \o new
  BY <1>2, <1>3, <1>4, AppendIsConcat
<1>8. nextIv' = (nextIv + (0 + 1)) % IvLimit
  BY <1>2, <1>4
<1>9. PICK z, o : z = 0 /\ o = 1
  BY Zenon
<1>10. NextIvs(new, o, nextIv, z) /\ nextIv' = (nextIv + (z + o)) % IvLimit
  BY <1>6, <1>8, <1>9, Zenon
<1> QED
  BY <1>1, <1>7, <1>10, SendIvInv

\* Fragments take the IVs after the base, each its own.
LEMMA SendFragmentsIvInv ==
    ASSUME Codec, ReadInv, IvInv, NEW size \in ContentSizes, SendFragments(size)
    PROVE  IvInv'
<1>1. PICK ps, ms, id : ps = Head(todo) /\ id = Len(sent) + 1 /\ ms = BuildFragments(id, ps, nextIv, size)
  BY Zenon
<1>2. PICK s : s = [payloads |-> ps, fragments |-> {size}]
  BY Zenon
<1>3. todo # <<>> /\ todo \in Seq(Seq(AllPayloads))
  BY Zenon DEF ReadInv, FramingTypeOK, SendFragments
<1>4. ps \in Seq(AllPayloads)
  <2>1. PICK T : T = Seq(AllPayloads) /\ todo \in Seq(T)
    BY <1>3, Zenon
  <2>2. Head(todo) \in T
    BY <1>3, <2>1, HeadTailProperties
  <2> QED
    BY <1>1, <2>1, <2>2, Zenon
<1>5. size \in Nat \ {0}
  <2>1. size \in Nat /\ size > 0
    BY FramingAssumption, Zenon DEF SendFragments
  <2> QED
    BY <2>1
<1>6. PICK m \in Nat \ {0} : m = Pieces(ps, size) /\ DOMAIN ms = 1..m /\ Len(ms) = m
  BY <1>1, <1>4, <1>5, FragmentCount
<1>7. PICK new : new = [i \in 1..m |-> ms[i].iv]
  BY Zenon
<1>8. sent' = Append(sent, s) /\ ivs' = ivs \o new /\ nextIv' = (nextIv + m + 1) % IvLimit
  BY <1>1, <1>2, <1>6, <1>7, Zenon DEF SendFragments
<1>9. nextIv \in 0..(IvLimit - 1)
  BY Zenon DEF ReadInv, FramingTypeOK
<1>10. nextIv \in Nat /\ IvLimit \in Nat \ {0}
  BY <1>9, FramingAssumption
<1>11. ASSUME Fits(s) PROVE NextIvs(new, m, nextIv, 1)
  <2>1. Fragmented(ps, size)
    BY <1>2, <1>4, <1>5, <1>11, Zenon DEF Fragmented
  <2>2. Pieces(ps, size) < FragLimit
    BY <1>4, <1>5, <2>1, Zenon DEF Codec, Counted
  <2>3. m < FragLimit /\ FragLimit \in Nat \ {0, 1}
    BY <1>6, <2>2, FramingAssumption, Zenon
  <2>4. ASSUME NEW i \in 1..m PROVE new[i] = (nextIv + (1 + i - 1)) % IvLimit
    <3>1. i % FragLimit = i
      BY <1>6, <2>3
    <3>2. PICK k : k = i % FragLimit
      BY Zenon
    <3>3. PICK chunks : chunks = Chunks(EncodePayloadChain(ps), size) /\ i \in DOMAIN chunks
      <4>1. DOMAIN ms = DOMAIN Chunks(EncodePayloadChain(ps), size)
        BY <1>1, Zenon DEF BuildFragments
      <4> QED
        BY <1>6, <4>1, Zenon
    <3>4. \E gen, total, plaintext, len :
            ms[i] = Sealed(id, "SKF", gen, k, total, FragmentIv(nextIv, k), plaintext, len)
      BY <1>1, <3>2, <3>3, Zenon DEF BuildFragments
    <3>5. PICK v : v = FragmentIv(nextIv, k)
      BY Zenon
    <3>6. ms[i].iv = v
      BY <3>4, <3>5, SMT DEF Sealed
    <3>7. v = (nextIv + i) % IvLimit
      BY <3>1, <3>2, <3>5, Zenon DEF FragmentIv
    <3>8. 1 + i - 1 = i
      OBVIOUS
    <3> QED
      BY <1>7, <3>6, <3>7, <3>8, Zenon
  <2>5. \A i \in 1..m : (nextIv + (1 + i - 1)) % IvLimit \in Nat
    BY <1>6, <1>10
  <2>6. new \in [1..m -> Nat]
    BY <1>7, <2>4, <2>5, Zenon
  <2>7. new \in Seq(Nat)
    BY <1>6, <2>6, SeqDef
  <2>8. Len(new) = m
    BY <1>6, <2>6, <2>7, LenProperties
  <2>9. 1 \in {0, 1} /\ m \in Nat
    BY <1>6
  <2> QED
    BY <2>4, <2>7, <2>8, <2>9, Zenon DEF NextIvs
<1>12. nextIv' = (nextIv + (1 + m)) % IvLimit
  <2>1. nextIv + m + 1 = nextIv + (1 + m)
    BY <1>6, <1>10
  <2> QED
    BY <1>8, <2>1, Zenon
<1>13. PICK o : o = 1
  BY Zenon
<1>14. (Fits(s) => NextIvs(new, m, nextIv, o)) /\ nextIv' = (nextIv + (o + m)) % IvLimit
  BY <1>11, <1>12, <1>13, Zenon
<1> QED
  BY <1>8, <1>14, SendIvInv

\* Nothing else uses an IV.
LEMMA NextIvInv == Codec /\ ReadInv /\ IvInv /\ [Next]_vars => IvInv'
<1> SUFFICES ASSUME Codec, ReadInv, IvInv, [Next]_vars PROVE IvInv'
  OBVIOUS
<1>1. CASE SendWhole
  BY <1>1, SendWholeIvInv, Zenon
<1>2. CASE \E size \in ContentSizes : SendFragments(size)
  BY <1>2, SendFragmentsIvInv, Zenon
<1>3. CASE UNCHANGED <<sent, ivs, nextIv>>
  BY <1>3, Zenon DEF IvInv, Fits, Spread
<1>4. (\E spi \in Spis : SendEsp(spi)) \/ ReceiveAny \/ UNCHANGED vars => UNCHANGED <<sent, ivs, nextIv>>
  BY Zenon DEF SendEsp, ReceiveAny, ReceiveWhole, ReceiveFragment, ReceiveFragmentAgain, ReceiveNotIke,
               ReceiveEsp, vars
<1> QED
  BY <1>1, <1>2, <1>3, <1>4, Zenon DEF Next

-----------------------------------------------------------------------------
(* Sorting *)

\* The fragments that go before fragment i.
Before(frags, i) ==
    {j \in DOMAIN frags : \/ frags[j].frag_num < frags[i].frag_num
                          \/ frags[j].frag_num = frags[i].frag_num /\ j < i}

\* The fragments are numbered from 1 to n, in some order.
Numbered(frags, num, n) ==
    /\ n \in Nat /\ DOMAIN frags = 1..n
    /\ num \in Injection(1..n, 1..n)
    /\ \A j \in 1..n : frags[j].frag_num = num[j]

\* Before fragment k go k - 1 others.
LEMMA BeforeCount ==
    ASSUME NEW frags, NEW num, NEW n, Numbered(frags, num, n), NEW i \in 1..n
    PROVE  Cardinality(Before(frags, i)) = num[i] - 1
<1>1. /\ n \in Nat /\ DOMAIN frags = 1..n
      /\ num \in [1..n -> 1..n] /\ \A a, b \in 1..n : num[a] = num[b] => a = b
      /\ \A j \in 1..n : frags[j].frag_num = num[j]
  BY Zenon DEF Numbered, Injection, IsInjective
<1>2. PICK B : B = Before(frags, i)
  BY Zenon
<1>3. B = {j \in 1..n : num[j] < num[i]}
  <2>1. \A j \in 1..n : (frags[j].frag_num = frags[i].frag_num /\ j < i) => FALSE
    <3>1. ~(i < i)
      OBVIOUS
    <3> QED
      BY <1>1, <3>1, Zenon
  <2> QED
    BY <1>1, <1>2, <2>1, Zenon DEF Before
<1>4. PICK k \in 1..n : k = num[i]
  BY <1>1, Zenon
<1>5. IsFiniteSet(1..n) /\ Cardinality(1..n) = n
  <2>1. 1 \in Int /\ n \in Int /\ (IF 1 > n THEN 0 ELSE n - 1 + 1) = n
    BY <1>1
  <2> QED
    BY <2>1, FS_Interval, Zenon
<1>6. num \in Surjection(1..n, 1..n)
  <2>1. num \in Injection(1..n, 1..n)
    BY Zenon DEF Numbered
  <2> QED
    BY <1>5, <2>1, FS_Injection, Zenon
<1>7. \A x \in 1..n : \E j \in 1..n : num[j] = x
  BY <1>6, Zenon DEF Surjection
<1>8. PICK T : T = 1..(k - 1)
  BY Zenon
<1>9. \A x : x \in T <=> x \in 1..n /\ x < k
  <2>1. n \in Nat /\ k \in 1..n
    BY <1>1, Zenon
  <2> QED
    BY <1>8, <2>1
<1> DEFINE g == [j \in B |-> num[j]]
<1>10. g \in Injection(B, T) /\ g \in Surjection(B, T)
  <2>1. \A j \in B : j \in 1..n /\ g[j] = num[j] /\ num[j] \in T
    BY <1>1, <1>3, <1>4, <1>9, Zenon
  <2>2. g \in [B -> T]
    BY <2>1, Zenon
  <2>3. \A x \in T : \E j \in B : g[j] = x
    <3>1. ASSUME NEW x \in T PROVE \E j \in B : g[j] = x
      <4>1. x \in 1..n /\ x < k
        BY <1>9, Zenon
      <4>2. PICK j \in 1..n : num[j] = x
        BY <1>7, <4>1, Zenon
      <4>3. j \in B
        BY <1>3, <1>4, <4>1, <4>2, Zenon
      <4> QED
        BY <2>1, <4>2, <4>3, Zenon
    <3> QED
      BY <3>1, Zenon
  <2>4. \A a, b \in B : g[a] = g[b] => a = b
    BY <1>1, <2>1, Zenon
  <2>5. DOMAIN g = B
    BY Zenon
  <2> HIDE DEF g
  <2> QED
    BY <2>2, <2>3, <2>4, <2>5, Zenon DEF Injection, Surjection, IsInjective
<1>11. ExistsBijection(B, T)
  <2> HIDE DEF g
  <2> QED
    BY <1>10, Zenon DEF ExistsBijection, Bijection
<1>12. IsFiniteSet(B)
  <2>1. B \in SUBSET (1..n)
    BY <1>3, Zenon
  <2> QED
    BY <1>5, <2>1, FS_Subset, Zenon
<1>13. Cardinality(T) = Cardinality(B)
  BY <1>11, <1>12, FS_Bijection, Zenon
<1>14. Cardinality(T) = k - 1
  <2>1. PICK q \in Int : q = k - 1
    BY <1>4
  <2>2. 1 \in Int /\ (IF 1 > q THEN 0 ELSE q - 1 + 1) = k - 1
    BY <1>4, <2>1
  <2>3. Cardinality(1..q) = IF 1 > q THEN 0 ELSE q - 1 + 1
    BY <2>2, FS_Interval, Zenon
  <2> QED
    BY <1>8, <2>1, <2>2, <2>3, Zenon
<1> QED
  BY <1>2, <1>4, <1>13, <1>14, Zenon

\* Sorting puts fragment k in place k.
LEMMA Sorted ==
    ASSUME NEW frags, NEW num, NEW n, Numbered(frags, num, n), NEW k \in 1..n
    PROVE  \E j \in 1..n : num[j] = k /\ Ordered(frags)[k] = frags[j]
<1>1. n \in Nat /\ DOMAIN frags = 1..n /\ num \in Injection(1..n, 1..n)
  BY Zenon DEF Numbered
<1>2. num \in [1..n -> 1..n]
  BY <1>1, Zenon DEF Injection
<1>3. IsFiniteSet(1..n) /\ Cardinality(1..n) = n
  <2>1. 1 \in Int /\ n \in Int /\ (IF 1 > n THEN 0 ELSE n - 1 + 1) = n
    BY <1>1
  <2> QED
    BY <2>1, FS_Interval, Zenon
<1>4. num \in Surjection(1..n, 1..n)
  BY <1>1, <1>3, FS_Injection, Zenon
<1>5. PICK i \in 1..n : num[i] = k
  BY <1>4, Zenon DEF Surjection
<1>6. Cardinality(Before(frags, i)) = k - 1
  BY <1>5, BeforeCount, Zenon
<1>7. PICK j : j = CHOOSE c \in DOMAIN frags : Cardinality(Before(frags, c)) = k - 1
  BY Zenon
<1>8. j \in 1..n /\ Cardinality(Before(frags, j)) = k - 1
  BY <1>1, <1>6, <1>7, Zenon
<1>9. num[j] = k
  <2>1. num[j] - 1 = k - 1
    BY <1>8, BeforeCount, Zenon
  <2>2. num[j] \in Int /\ k \in Int
    BY <1>2, <1>8
  <2> QED
    BY <2>1, <2>2
<1>10. Ordered(frags)[k] = frags[j]
  BY <1>1, <1>7, Zenon DEF Ordered, Before
<1> QED
  BY <1>8, <1>9, <1>10, Zenon
=============================================================================
