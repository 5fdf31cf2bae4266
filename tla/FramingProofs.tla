--------------------------- MODULE FramingProofs ----------------------------
(***************************************************************************)
(* Proofs about framing, for every size of an octet, every list of         *)
(* payloads, any fragment size, first IV, number of messages and of        *)
(* copies.                                                                 *)
(*                                                                         *)
(* A whole message that fits opens as what was sealed.  The distinct       *)
(* fragments of a message, in whatever order they came, give its payloads  *)
(* when they are all there and nothing otherwise.  That is what the        *)
(* invariants of module FramingSteps need of the octets.                   *)
(***************************************************************************)
EXTENDS FramingSteps, WireProofs

\* A leaf is Zenon's, unless it names SMT for arithmetic or records.
USE Zenon

-----------------------------------------------------------------------------
(* Cutting a message *)

\* Two slices in a row make one.
LEMMA SliceJoin ==
    ASSUME NEW s \in Bytes, NEW b \in 0..Len(s), NEW a \in 0..b
    PROVE  Slice(s, 0, a) \o Slice(s, a, b) = Slice(s, 0, b)
<1>1. Len(s) \in Nat /\ a \in 0..Len(s) /\ 0 \in 0..a /\ 0 \in 0..b /\ a \in Nat /\ b \in Nat
  BY BytesType, SMT
<1>2. PICK x \in Bytes : x = Slice(s, 0, a) /\ Len(x) = a - 0 /\ \A i \in 1..(a - 0) : x[i] = s[0 + i]
  BY <1>1, SliceBytes
<1>3. PICK y \in Bytes : y = Slice(s, a, b) /\ Len(y) = b - a /\ \A i \in 1..(b - a) : y[i] = s[a + i]
  BY <1>1, SliceBytes
<1>4. PICK z \in Bytes : z = Slice(s, 0, b) /\ Len(z) = b - 0 /\ \A i \in 1..(b - 0) : z[i] = s[0 + i]
  BY <1>1, SliceBytes
<1>5. /\ x \o y \in Bytes /\ Len(x \o y) = Len(x) + Len(y)
      /\ \A i \in 1..Len(x) : (x \o y)[i] = x[i]
      /\ \A i \in 1..Len(y) : (x \o y)[Len(x) + i] = y[i]
  BY ConcatBytes
<1>6. Len(x) = a /\ Len(y) = b - a /\ Len(z) = b /\ Len(x \o y) = b
  BY <1>1, <1>2, <1>3, <1>4, <1>5, SMT
<1>7. ASSUME NEW i \in 1..b PROVE (x \o y)[i] = z[i]
  <2>1. z[i] = s[i]
    <3>1. i \in 1..(b - 0) /\ 0 + i = i
      BY <1>1, SMT
    <3> QED
      BY <1>4, <3>1
  <2>2. CASE i <= a
    <3>1. i \in 1..Len(x) /\ i \in 1..(a - 0) /\ 0 + i = i
      BY <1>1, <1>6, <2>2, SMT
    <3> QED
      BY <1>2, <1>5, <2>1, <3>1
  <2>3. CASE ~(i <= a)
    <3>1. PICK j : j = i - a
      OBVIOUS
    <3>2. j \in 1..(b - a) /\ a + j = i
      BY <1>1, <2>3, <3>1, SMT
    <3> QED
      BY <1>3, <1>5, <1>6, <2>1, <3>2
  <2> QED
    BY <2>2, <2>3
<1>8. x \o y = z
  BY <1>5, <1>6, <1>7, BytesEqual
<1> QED
  BY <1>2, <1>3, <1>4, <1>8

\* parts cut inner into pieces of at most size octets.
Cut(parts, inner, size) ==
    /\ parts \in Seq(Bytes) /\ Len(parts) >= 1
    /\ Joined(parts) = inner
    /\ \A i \in 1..Len(parts) : Len(parts[i]) <= size /\ Len(parts[i]) <= Len(inner)
    /\ \A m \in Nat \ {0} : Len(inner) <= size * m => Len(parts) <= m

\* The number of pieces: just enough.
LEMMA PieceCount ==
    ASSUME NEW len \in Nat \ {0}, NEW size \in Nat \ {0}, NEW n, n = (len + size - 1) \div size
    PROVE  /\ n \in Nat \ {0} /\ (n - 1) * size < len /\ len <= n * size
           /\ \A m \in Nat : len <= size * m => n <= m
<1>1. PICK a \in Nat : a = len + size - 1
  BY SMT
<1>2. n \in Nat /\ a % size \in 0..(size - 1) /\ a = n * size + (a % size)
  BY <1>1, DivMod
<1>3. PICK x \in Nat, r \in 0..(size - 1) : x = n * size /\ r = a % size /\ a = x + r
  BY <1>2, SMT
<1>4. len <= x /\ x - size < len
  BY <1>1, <1>3, SMT
<1>5. n # 0
  <2>1. 0 * size = 0
    BY SMT
  <2> QED
    BY <1>3, <1>4, <2>1, SMT
<1>6. (n - 1) * size = x - size
  BY <1>2, <1>3, SMT
<1>7. ASSUME NEW m \in Nat, len <= size * m PROVE n <= m
  <2> SUFFICES ASSUME m < n PROVE FALSE
    BY <1>2, SMT
  <2>1. PICK d \in Nat : n = m + 1 + d
    <3>1. n - m - 1 \in Nat /\ n = m + 1 + (n - m - 1)
      BY <1>2, SMT
    <3> QED
      BY <3>1
  <2>2. n * size = size * m + size + d * size
    BY <2>1, SMT
  <2>3. PICK y \in Nat, z \in Nat : y = size * m /\ z = d * size
    BY SMT
  <2>4. x = y + size + z /\ len <= y
    BY <1>3, <1>7, <2>2, <2>3
  <2> QED
    BY <1>4, <2>4, SMT
<1> QED
  BY <1>2, <1>3, <1>4, <1>5, <1>6, <1>7, SMT

\* Where piece i ends.
PieceEnd(inner, size, i) == IF i * size < Len(inner) THEN i * size ELSE Len(inner)

\* The pieces, joined, are the message.
LEMMA ChunksCut ==
    ASSUME NEW inner \in Bytes, NEW size \in Nat \ {0}
    PROVE  Cut(Chunks(inner, size), inner, size)
<1>1. CASE inner = <<>>
  <2>1. PICK parts : parts = <<inner>>
    OBVIOUS
  <2>2. parts \in Seq(Bytes) /\ Len(parts) = 1 /\ parts[1] = inner
    BY <2>1, SMT
  <2>3. Chunks(inner, size) = parts
    BY <1>1, <2>1 DEF Chunks
  <2>4. Joined(parts) = inner
    BY <2>1, JoinedOne
  <2>5. Len(inner) = 0
    BY <1>1, Empty
  <2>6. \A i \in 1..Len(parts) : parts[i] = inner
    <3>1. \A i \in 1..Len(parts) : i = 1
      BY <2>2, SMT
    <3> QED
      BY <2>2, <3>1
  <2>7. Len(inner) <= size /\ Len(inner) <= Len(inner) /\ Len(parts) >= 1
    BY <2>2, <2>5, SMT
  <2>8. \A m \in Nat \ {0} : Len(parts) <= m
    BY <2>2, SMT
  <2>9. Cut(parts, inner, size)
    BY <2>2, <2>4, <2>6, <2>7, <2>8 DEF Cut
  <2> QED
    BY <2>3, <2>9
<1>2. CASE inner # <<>>
  <2>1. PICK len \in Nat \ {0} : len = Len(inner)
    <3>1. Len(inner) \in Nat
      BY BytesType
    <3>2. Len(inner) # 0
      BY <1>2, EmptySeq DEF Bytes
    <3> QED
      BY <3>1, <3>2, SMT
  <2>2. PICK n : n = (len + size - 1) \div size
    OBVIOUS
  <2>3. /\ n \in Nat \ {0} /\ (n - 1) * size < len /\ len <= n * size
        /\ \A m \in Nat : len <= size * m => n <= m
    BY <2>2, PieceCount, SMT
  <2>4. PICK parts : parts = Chunks(inner, size)
    OBVIOUS
  <2> DEFINE e(i) == PieceEnd(inner, size, i)
  <2>5. /\ parts = [i \in 1..n |-> parts[i]]
        /\ \A i \in 1..n : parts[i] = Slice(inner, (i - 1) * size, e(i))
    BY <1>2, <2>1, <2>2, <2>4 DEF Chunks, PieceEnd
  <2>6. ASSUME NEW i \in 1..n
        PROVE  /\ (i - 1) * size = e(i - 1) /\ (i - 1) * size \in 0..e(i)
               /\ e(i) \in 0..len /\ e(i) - (i - 1) * size <= size
    <3>1. PICK d \in Nat : n = i + d
      <4>1. n - i \in Nat /\ n = i + (n - i)
        BY <2>3, SMT
      <4> QED
        BY <4>1, SMT
    <3>2. (n - 1) * size = (i - 1) * size + d * size
      BY <3>1, SMT
    <3>3. i * size = (i - 1) * size + size
      BY SMT
    <3>4. PICK x \in Nat, y \in Nat : x = (i - 1) * size /\ y = d * size
      <4>1. (i - 1) * size \in Nat /\ d * size \in Nat
        BY SMT
      <4> QED
        BY <4>1
    <3>5. x + y < len /\ i * size = x + size
      BY <2>3, <3>2, <3>3, <3>4
    <3>6. e(i) = IF x + size < len THEN x + size ELSE len
      BY <2>1, <3>5 DEF PieceEnd
    <3>7. e(i - 1) = IF x < len THEN x ELSE len
      BY <2>1, <3>4 DEF PieceEnd
    <3> HIDE DEF e
    <3>8. x = e(i - 1) /\ x \in 0..e(i) /\ e(i) \in 0..len /\ e(i) - x <= size
      BY <3>5, <3>6, <3>7, SMT
    <3> QED
      BY <3>4, <3>8
  <2>7. ASSUME NEW i \in 1..n
        PROVE  /\ parts[i] \in Bytes /\ Len(parts[i]) <= size /\ Len(parts[i]) <= len
               /\ parts[i] = Slice(inner, e(i - 1), e(i))
    <3>1. PICK a, b : a = (i - 1) * size /\ b = e(i)
      OBVIOUS
    <3>2. a = e(i - 1) /\ a \in 0..b /\ b \in 0..len /\ b - a <= size
      BY <2>6, <3>1
    <3>3. Slice(inner, a, b) \in Bytes /\ Len(Slice(inner, a, b)) = b - a
      BY <2>1, <3>2, SliceBytes
    <3>4. b - a <= len
      BY <3>2, SMT
    <3> HIDE DEF e
    <3> QED
      BY <2>5, <3>1, <3>2, <3>3, <3>4
  <2>8. parts \in Seq(Bytes) /\ Len(parts) = n
    BY <2>3, <2>5, <2>7, PartsSeq
  <2>9. PICK u \in [0..n -> Bytes] :
                /\ u[0] = <<>> /\ Joined(parts) = u[n]
                /\ \A i \in 1..n : u[i] = u[i - 1] \o parts[i]
    BY <2>8, JoinSteps
  <2>10. e(0) = 0 /\ e(n) = len
    <3>1. 0 * size = 0 /\ 0 < len
      BY SMT
    <3>2. ~(n * size < len)
      BY <2>3, SMT
    <3> QED
      BY <2>1, <3>1, <3>2 DEF PieceEnd
  <2> HIDE DEF e
  <2> DEFINE T == {i \in 0..n : u[i] # Slice(inner, 0, e(i))}
  <2>11. T = {}
    <3> SUFFICES ASSUME T # {} PROVE FALSE
      OBVIOUS
    <3>1. PICK i \in T : \A j \in T : i <= j
      <4>1. T \subseteq Nat
        BY <2>3, SMT
      <4> HIDE DEF T
      <4> QED
        BY <4>1, LeastNatural
    <3>2. i # 0
      <4>1. Slice(inner, 0, 0) = <<>>
        BY SMT DEF Slice
      <4> QED
        BY <2>9, <2>10, <3>1, <4>1
    <3>3. i \in 1..n /\ i - 1 \in 0..n /\ ~(i <= i - 1)
      BY <2>3, <3>1, <3>2, SMT
    <3>4. u[i - 1] = Slice(inner, 0, e(i - 1))
      BY <3>1, <3>3
    <3>5. PICK a, b : a = e(i - 1) /\ b = e(i)
      OBVIOUS
    <3>6. a \in 0..b /\ b \in 0..Len(inner)
      BY <2>1, <2>6, <3>3, <3>5
    <3>7. Slice(inner, 0, a) \o Slice(inner, a, b) = Slice(inner, 0, b)
      BY <3>6, SliceJoin
    <3>8. u[i] = Slice(inner, 0, b)
      BY <2>7, <2>9, <3>3, <3>4, <3>5, <3>7
    <3> QED
      BY <3>1, <3>5, <3>8
  <2>12. Joined(parts) = inner
    <3>1. n \in 0..n
      BY <2>3, SMT
    <3>2. u[n] = Slice(inner, 0, len)
      BY <2>10, <2>11, <3>1
    <3> QED
      BY <2>1, <2>9, <3>2, SliceAll
  <2> HIDE DEF T
  <2>13. Len(parts) >= 1
    BY <2>3, <2>8, SMT
  <2>14. \A m \in Nat \ {0} : Len(inner) <= size * m => Len(parts) <= m
    BY <2>1, <2>3, <2>8
  <2>15. Cut(parts, inner, size)
    BY <2>1, <2>7, <2>8, <2>12, <2>13, <2>14 DEF Cut
  <2> QED
    BY <2>4, <2>15
<1> QED
  BY <1>1, <1>2

-----------------------------------------------------------------------------
(* Sealing and opening *)

\* The padding that is put on comes off.
LEMMA PaddingOff ==
    ASSUME NEW c \in Bytes
    PROVE  Len(c \o <<0>>) = Len(c) + 1 /\ StripPadding(c \o <<0>>) = {c}
<1>1. PICK z \in Bytes : z = <<0>> /\ Len(z) = 1 /\ z[1] = 0
  BY ReservedOctets, Single
<1>2. PICK p : p = c \o z
  OBVIOUS
<1>3. PICK n \in Nat : n = Len(c)
  BY BytesType
<1>4. Len(p) = n + 1 /\ \A i \in 1..Len(z) : p[n + i] = z[i]
  <2>1. Len(c \o z) = Len(c) + Len(z) /\ \A i \in 1..Len(z) : (c \o z)[Len(c) + i] = z[i]
    BY ConcatBytes
  <2> QED
    BY <1>1, <1>2, <1>3, <2>1
<1>5. p[Len(p)] = 0
  <2>1. 1 \in 1..Len(z)
    BY <1>1, SMT
  <2> QED
    BY <1>1, <1>4, <2>1
<1>6. Slice(p, 0, n) = c
  <2>1. n \in 0..n /\ 0 \in 0..n
    BY SMT
  <2>2. Slice(c \o z, 0, n) = Slice(c, 0, n)
    BY <1>3, <2>1, SliceFirst
  <2> QED
    BY <1>2, <1>3, <2>2, SliceAll
<1>7. PICK len, pad : len = Len(p) /\ pad = p[len]
  OBVIOUS
<1>8. StripPadding(p) = {c}
  <2>1. StripPadding(p) = IF pad + 1 > len THEN {} ELSE {Slice(p, 0, len - 1 - pad)}
    BY <1>7 DEF StripPadding
  <2>2. len = n + 1 /\ pad = 0
    BY <1>4, <1>5, <1>7
  <2>3. ~(pad + 1 > len) /\ len - 1 - pad = n
    BY <2>2, SMT
  <2> QED
    BY <1>6, <2>1, <2>3
<1> QED
  BY <1>1, <1>2, <1>3, <1>4, <1>8

\* A length that fits its field is read back.
LEMMA LengthRead ==
    ASSUME NEW n \in Words
    PROVE  U16be(U16(n), 0) = n
<1>1. PICK a \in Octets, b \in Octets : U16(n) = <<a, b>> /\ a * Octet + b = n
  BY WordsNat, U16Octets
<1>2. U16be(<<a, b>>, 0) = a * Octet + b
  BY SMT DEF U16be
<1> QED
  BY <1>1, <1>2

\* m is sealed: its head states x and a length of size octets, which fits.
SealedAs(m, x, size, c) ==
    /\ size \in Words /\ c \in Bytes
    /\ \E id, kind, num, total, iv :
            m = Sealed(id, kind, <<x, U16(size)>>, num, total, iv, c \o <<0>>, size)

\* What was sealed comes out.
LEMMA Opens ==
    ASSUME NEW m, NEW x, NEW size, NEW c, SealedAs(m, x, size, c), NEW least, ~(size < least)
    PROVE  GcmOpen(m, least) = {c} /\ m.gen[1] = x
<1>1. size \in Words /\ c \in Bytes
  BY DEF SealedAs
<1>2. PICK id, kind, num, total, iv :
            m = Sealed(id, kind, <<x, U16(size)>>, num, total, iv, c \o <<0>>, size)
  BY DEF SealedAs
<1>3. /\ m.id = id /\ m.kind = kind /\ m.gen = <<x, U16(size)>> /\ m.num = num /\ m.total = total
      /\ m.iv = iv /\ m.size = size
      /\ m.ct = [iv |-> iv, aad |-> <<id, kind, <<x, U16(size)>>, num, total>>, plaintext |-> c \o <<0>>]
  BY <1>2 DEF Sealed
<1>4. m.gen[1] = x /\ m.gen[2] = U16(size)
  BY <1>3, SMT
<1>5. /\ m.ct.iv = m.iv /\ m.ct.aad = <<m.id, m.kind, m.gen, m.num, m.total>>
      /\ m.ct.plaintext = c \o <<0>>
  <2>1. PICK ct : ct = m.ct
    OBVIOUS
  <2>2. ct = [iv |-> iv, aad |-> <<id, kind, <<x, U16(size)>>, num, total>>, plaintext |-> c \o <<0>>]
    BY <1>3, <2>1
  <2>3. ct.iv = iv /\ ct.aad = <<id, kind, <<x, U16(size)>>, num, total>> /\ ct.plaintext = c \o <<0>>
    BY <2>2
  <2>4. <<m.id, m.kind, m.gen, m.num, m.total>> = <<id, kind, <<x, U16(size)>>, num, total>>
    BY <1>3
  <2> QED
    BY <1>3, <2>1, <2>3, <2>4
<1>6. U16be(m.gen[2], 0) = size
  BY <1>1, <1>4, LengthRead
<1>7. StripPadding(m.ct.plaintext) = {c}
  BY <1>1, <1>5, PaddingOff
<1> QED
  BY <1>3, <1>4, <1>5, <1>6, <1>7 DEF GcmOpen

\* open_encrypted_gcm of what build_encrypted_gcm sealed: a whole message that fits is read as
\* the payloads it was made from.
THEOREM WholeRead ==
    ASSUME NEW ps \in Seq(AllPayloads), NEW id, NEW iv, Fits([payloads |-> ps, fragments |-> {}])
    PROVE  OpenEncryptedGcm(BuildEncryptedGcm(id, ps, iv)) = {ps}
<1>1. PICK c \in Bytes : c = EncodePayloadChain(ps)
  BY ChainPartsType
<1>2. PICK n \in Nat : n = Len(c)
  BY BytesType
<1>3. PICK s : s = [payloads |-> ps, fragments |-> {}]
  OBVIOUS
<1>4. s.payloads = ps /\ s.fragments = {} /\ Fits(s)
  BY <1>3
<1>5. /\ \A i \in DOMAIN ps : BodyFits(ps[i])
      /\ n + 1 + 4 + IvLen + IcvLen < Octet * Octet
  BY <1>1, <1>2, <1>4 DEF Fits
<1>6. PICK size : size = 4 + IvLen + Len(c \o <<0>>) + IcvLen
  OBVIOUS
<1>7. size = n + 29
  <2>1. Len(c \o <<0>>) = n + 1
    BY <1>2, PaddingOff
  <2> QED
    BY <1>6, <2>1, SMT DEF IvLen, IcvLen
<1>8. size \in Words /\ ~(size < 4 + IvLen + IcvLen)
  BY <1>5, <1>7, WordsBig, SMT DEF Words, IvLen, IcvLen
<1>9. PICK m : m = BuildEncryptedGcm(id, ps, iv)
  OBVIOUS
<1>10. m = Sealed(id, "SK", <<FirstPayloadType(ps), U16(size)>>, 0, 0, iv, c \o <<0>>, size)
  BY <1>1, <1>6, <1>9 DEF BuildEncryptedGcm
<1>11. SealedAs(m, FirstPayloadType(ps), size, c)
  BY <1>8, <1>10 DEF SealedAs
<1>12. GcmOpen(m, 4 + IvLen + IcvLen) = {c} /\ m.gen[1] = FirstPayloadType(ps)
  BY <1>8, <1>11, Opens
<1>13. Payloads(FirstPayloadType(ps), c) = {ps}
  <2>1. \A i \in 1..Len(ps) : BodyFits(ps[i])
    BY <1>5, LenProperties
  <2> QED
    BY <1>1, <2>1, ChainRead
<1>14. OpenEncryptedGcm(m) = UNION {Payloads(m.gen[1], inner) : inner \in {c}}
  BY <1>12 DEF OpenEncryptedGcm
<1>15. OpenEncryptedGcm(m) = {ps}
  BY <1>12, <1>13, <1>14
<1> QED
  BY <1>9, <1>15

-----------------------------------------------------------------------------
(* Fragments *)

\* What a fragment opens as.
Fragment(k, total, first, content) ==
    [frag_num |-> k, total |-> total, next_payload |-> IF k = 1 THEN first ELSE 0, content |-> content]

\* What fitting means for the fragments.
LEMMA FragmentedFits ==
    ASSUME NEW ps, NEW size, Fragmented(ps, size)
    PROVE  /\ ps \in Seq(AllPayloads) /\ size \in Nat \ {0}
           /\ EncodePayloadChain(ps) \in Bytes
           /\ \A i \in 1..Len(ps) : BodyFits(ps[i])
           /\ Cut(Chunks(EncodePayloadChain(ps), size), EncodePayloadChain(ps), size)
           /\ Len(Chunks(EncodePayloadChain(ps), size)) < FragLimit
           /\ \A i \in 1..Len(Chunks(EncodePayloadChain(ps), size)) :
                    Len(Chunks(EncodePayloadChain(ps), size)[i]) + 33 \in Words
<1>1. ps \in Seq(AllPayloads) /\ size \in Nat \ {0}
  BY DEF Fragmented
<1>2. PICK c \in Bytes : c = EncodePayloadChain(ps)
  BY <1>1, ChainPartsType
<1>3. PICK n \in Nat : n = Len(c)
  BY BytesType
<1>4. PICK s : s = [payloads |-> ps, fragments |-> {size}]
  OBVIOUS
<1>5. s.payloads = ps /\ s.fragments = {size} /\ Fits(s)
  BY <1>4 DEF Fragmented
<1>6. /\ \A i \in DOMAIN ps : BodyFits(ps[i])
      /\ (IF n < size THEN n ELSE size) + 1 + 4 + SkfExtra + IvLen + IcvLen < Octet * Octet
      /\ n <= size * (FragLimit - 1)
  BY <1>2, <1>3, <1>5 DEF Fits
<1>7. \A i \in 1..Len(ps) : BodyFits(ps[i])
  BY <1>1, <1>6, LenProperties
<1>8. PICK parts : parts = Chunks(c, size) /\ Cut(parts, c, size)
  BY <1>1, ChunksCut
<1>9. parts \in Seq(Bytes) /\ Len(parts) \in Nat
  BY <1>8, LenProperties DEF Cut
<1>10. Len(parts) < FragLimit
  <2>1. FragLimit \in Nat \ {0, 1}
    BY FramingAssumption
  <2>2. PICK m \in Nat \ {0} : m = FragLimit - 1
    BY <2>1, SMT
  <2>3. Len(parts) <= m
    BY <1>3, <1>6, <1>8, <2>2 DEF Cut
  <2> QED
    BY <1>9, <2>1, <2>2, <2>3, SMT
<1>11. ASSUME NEW i \in 1..Len(parts) PROVE Len(parts[i]) + 33 \in Words
  <2>1. PICK k \in Nat : k = Len(parts[i])
    BY <1>9, ElementOfSeq, BytesType
  <2>2. k <= size /\ k <= n
    BY <1>3, <1>8, <2>1 DEF Cut
  <2>3. k + 33 < Octet * Octet
    BY <1>1, <1>6, <2>2, WordsBig, SMT DEF SkfExtra, IvLen, IcvLen
  <2>4. k + 33 \in Words
    BY <2>3, WordsBig, SMT DEF Words
  <2> QED
    BY <2>1, <2>4
<1> QED
  BY <1>1, <1>2, <1>7, <1>8, <1>10, <1>11

\* Fragment k opens as the k-th piece of the message.
PieceOpens(ms, chunks, first, k) ==
    OpenFragment(ms[k]) = {Fragment(k, Len(chunks), first, chunks[k])}

\* Every fragment of a message that fits opens as its piece.
LEMMA FragmentOpens ==
    ASSUME NEW ps, NEW size, Fragmented(ps, size), NEW id, NEW iv,
           NEW k \in 1..Len(Chunks(EncodePayloadChain(ps), size))
    PROVE  PieceOpens(BuildFragments(id, ps, iv, size), Chunks(EncodePayloadChain(ps), size),
                      FirstPayloadType(ps), k)
<1>1. PICK chunks : chunks = Chunks(EncodePayloadChain(ps), size)
  OBVIOUS
<1>2. chunks \in Seq(Bytes) /\ Len(chunks) < FragLimit /\ Len(chunks[k]) + 33 \in Words
  BY <1>1, FragmentedFits DEF Cut
<1>3. PICK total \in Nat : total = Len(chunks) /\ DOMAIN chunks = 1..total
  BY <1>2, LenProperties
<1>4. k \in 1..total /\ k \in DOMAIN chunks
  BY <1>1, <1>3
<1>5. k % FragLimit = k /\ total % FragLimit = total /\ k \in Nat
  <2>1. FragLimit \in Nat \ {0, 1} /\ total < FragLimit
    BY <1>2, <1>3, FramingAssumption
  <2> QED
    BY <1>4, <2>1, SMT
<1>6. PICK c \in Bytes : c = chunks[k]
  BY <1>2, <1>3, <1>4, ElementOfSeq
<1>7. PICK first, len : first = FirstPayloadType(ps) /\ len = 4 + SkfExtra + IvLen + Len(c \o <<0>>) + IcvLen
  OBVIOUS
<1>8. len = Len(c) + 33
  <2>1. Len(c \o <<0>>) = Len(c) + 1 /\ Len(c) \in Nat
    BY PaddingOff, BytesType
  <2> QED
    BY <1>7, <2>1, SMT DEF SkfExtra, IvLen, IcvLen
<1>9. len \in Words /\ ~(len < 4 + SkfExtra + IvLen + IcvLen)
  <2>1. Len(c) \in Nat /\ len \in Words
    BY <1>2, <1>6, <1>8, BytesType
  <2>2. ~(len < 4 + SkfExtra + IvLen + IcvLen)
    BY <1>8, <2>1, SMT DEF SkfExtra, IvLen, IcvLen
  <2> QED
    BY <2>1, <2>2
<1>10. PICK m : m = BuildFragments(id, ps, iv, size)[k]
  OBVIOUS
<1>11. m = Sealed(id, "SKF", <<FragmentNext(k, total, first), U16(len)>>, k % FragLimit,
                  total % FragLimit, FragmentIv(iv, k % FragLimit), c \o <<0>>, len)
  BY <1>1, <1>3, <1>4, <1>6, <1>7, <1>10 DEF BuildFragments
<1>12. PICK x : x = FragmentNext(k, total, first)
  OBVIOUS
<1>13. x = IF k = 1 THEN first ELSE 0
  BY <1>5, <1>12 DEF FragmentNext
<1>14. SealedAs(m, x, len, c)
  BY <1>9, <1>11, <1>12 DEF SealedAs
<1>15. GcmOpen(m, 4 + SkfExtra + IvLen + IcvLen) = {c} /\ m.gen[1] = x
  BY <1>9, <1>14, Opens
<1>16. m.num = k /\ m.total = total
  BY <1>5, <1>11 DEF Sealed
<1> DEFINE F(d) == [frag_num |-> m.num, total |-> m.total, next_payload |-> m.gen[1], content |-> d]
<1>17. OpenFragment(m) = {F(d) : d \in {c}}
  BY <1>15 DEF OpenFragment
<1>18. F(c) = Fragment(k, total, first, c)
  BY <1>13, <1>15, <1>16 DEF Fragment
<1> HIDE DEF F
<1>19. OpenFragment(m) = {Fragment(k, total, first, c)}
  BY <1>17, <1>18
<1> QED
  BY <1>1, <1>3, <1>6, <1>7, <1>10, <1>19 DEF PieceOpens

-----------------------------------------------------------------------------
(* Reassembly *)

\* opened is what they open as, num their numbers.
OpenedAs(opened, num, n, ps, size) ==
    /\ n \in Nat \ {0} /\ opened \in Seq(Range(opened)) /\ Len(opened) = n
    /\ num \in Injection(1..n, 1..Pieces(ps, size))
    /\ \A j \in 1..n : opened[j] = Fragment(num[j], Pieces(ps, size), FirstPayloadType(ps),
                                            Chunks(EncodePayloadChain(ps), size)[num[j]])

\* Fragments open, each as its piece.
LEMMA AllOpen ==
    ASSUME NEW ps, NEW size, Fragmented(ps, size), NEW id, NEW iv, NEW now, NEW n,
           Distinct(now, n, BuildFragments(id, ps, iv, size))
    PROVE  \E opened, num : OpenAll(now) = {opened} /\ OpenedAs(opened, num, n, ps, size)
<1>1. PICK ms, total, chunks, first : /\ ms = BuildFragments(id, ps, iv, size) /\ total = Pieces(ps, size)
                                      /\ chunks = Chunks(EncodePayloadChain(ps), size)
                                      /\ first = FirstPayloadType(ps)
  OBVIOUS
<1>2. total = Len(chunks) /\ total \in Nat /\ DOMAIN chunks = 1..total
  <2>1. chunks \in Seq(Bytes)
    BY <1>1, FragmentedFits DEF Cut
  <2> QED
    BY <1>1, <2>1, LenProperties DEF Pieces
<1>3. DOMAIN ms = 1..total
  BY <1>1, <1>2 DEF BuildFragments
<1>4. /\ n \in Nat \ {0} /\ DOMAIN now = 1..n
      /\ \A a, b \in 1..n : now[a] = now[b] => a = b
      /\ \A j \in 1..n : \E k \in 1..total : now[j] = ms[k]
  BY <1>1, <1>3 DEF Distinct, IsInjective
<1> DEFINE num == [j \in 1..n |-> CHOOSE k \in 1..total : now[j] = ms[k]]
<1>5. \A j \in 1..n : num[j] \in 1..total /\ now[j] = ms[num[j]]
  BY <1>4
<1>6. num \in Injection(1..n, 1..total)
  <2>1. num \in [1..n -> 1..total]
    BY <1>5
  <2>2. ASSUME NEW a \in 1..n, NEW b \in 1..n, num[a] = num[b] PROVE a = b
    <3>1. now[a] = ms[num[a]] /\ now[b] = ms[num[b]]
      BY <1>5
    <3>2. now[a] = now[b]
      BY <2>2, <3>1
    <3> QED
      BY <1>4, <3>2
  <2>3. DOMAIN num = 1..n
    OBVIOUS
  <2> HIDE DEF num
  <2> QED
    BY <2>1, <2>2, <2>3, SMT DEF Injection, IsInjective
<1> HIDE DEF num
<1> DEFINE Fr(j) == Fragment(num[j], total, first, chunks[num[j]])
           opened == [j \in 1..n |-> Fr(j)]
<1>7. \A j \in 1..n : OpenFragment(now[j]) = {Fr(j)}
  <2>1. ASSUME NEW k \in 1..Len(Chunks(EncodePayloadChain(ps), size))
        PROVE  PieceOpens(BuildFragments(id, ps, iv, size), Chunks(EncodePayloadChain(ps), size),
                          FirstPayloadType(ps), k)
    BY FragmentOpens
  <2>2. \A k \in 1..total : PieceOpens(ms, chunks, first, k)
    BY <1>1, <1>2, <2>1
  <2>3. \A k \in 1..total : OpenFragment(ms[k]) = {Fragment(k, total, first, chunks[k])}
    BY <1>2, <2>2 DEF PieceOpens
  <2> QED
    BY <1>5, <2>3
<1>8. OpenAll(now) = {opened}
  <2>1. PICK o : o = [i \in DOMAIN now |-> OpenFragment(now[i])]
    OBVIOUS
  <2> HIDE DEF Fr
  <2>2. DOMAIN now = 1..n /\ \A j \in 1..n : o[j] = {Fr(j)}
    BY <1>4, <1>7, <2>1
  <2>3. ASSUME NEW j \in 1..n PROVE o[j] # {} /\ (CHOOSE f \in o[j] : TRUE) = Fr(j)
    <3>1. PICK x, y : x = o[j] /\ y = Fr(j)
      OBVIOUS
    <3>2. x = {y}
      BY <2>2, <3>1
    <3>3. (CHOOSE f \in x : TRUE) \in x
      BY <3>2
    <3> QED
      BY <3>1, <3>2, <3>3
  <2>4. [i \in DOMAIN now |-> CHOOSE f \in o[i] : TRUE] = opened
    BY <2>2, <2>3
  <2>5. OpenAll(now) = IF \E i \in DOMAIN now : o[i] = {} THEN {}
                       ELSE {[i \in DOMAIN now |-> CHOOSE f \in o[i] : TRUE]}
    BY <2>1, SMT DEF OpenAll
  <2> HIDE DEF opened
  <2> QED
    BY <2>2, <2>3, <2>4, <2>5
<1>9. OpenedAs(opened, num, n, ps, size)
  <2> HIDE DEF Fr
  <2>1. \A j \in 1..n : opened[j] = Fr(j)
    OBVIOUS
  <2>2. DOMAIN opened = 1..n
    OBVIOUS
  <2>3. PICK S : S = Range(opened)
    OBVIOUS
  <2>4. \A j \in 1..n : opened[j] \in S
    BY <2>2, <2>3 DEF Range
  <2>5. opened \in [1..n -> S]
    BY <2>1, <2>4
  <2> HIDE DEF opened
  <2>6. opened \in Seq(S)
    BY <1>4, <2>5, SeqDef, SMT
  <2>7. Len(opened) = n
    BY <1>4, <2>2, <2>6, LenProperties, SMT
  <2>8. \A j \in 1..n : opened[j] = Fragment(num[j], total, first, chunks[num[j]])
    BY <2>1 DEF Fr
  <2> QED
    BY <1>1, <1>4, <1>6, <2>3, <2>6, <2>7, <2>8 DEF OpenedAs
<1> HIDE DEF opened
<1> QED
  BY <1>8, <1>9

\* The payloads within, once the fragments are in order.
InOrder(opened) ==
    LET frags == Ordered(opened) IN
    IF Complete(opened) /\ \A i \in DOMAIN frags : frags[i].frag_num = i % FragLimit
    THEN Payloads(frags[1].next_payload, Joined([i \in DOMAIN frags |-> frags[i].content]))
    ELSE {}

\* The fields of a fragment.
LEMMA FragmentFields ==
    ASSUME NEW k, NEW total, NEW first, NEW content, NEW f, f = Fragment(k, total, first, content)
    PROVE  /\ f.frag_num = k /\ f.total = total /\ f.content = content
           /\ k = 1 => f.next_payload = first
  BY SMT DEF Fragment

\* All the fragments, in whatever order they came, give the payloads; fewer give nothing.
LEMMA InOrderReads ==
    ASSUME NEW ps, NEW size, Fragmented(ps, size), NEW opened, NEW num, NEW n,
           OpenedAs(opened, num, n, ps, size)
    PROVE  InOrder(opened) = IF n = Pieces(ps, size) THEN {ps} ELSE {}
<1>1. PICK total, chunks, first : /\ total = Pieces(ps, size)
                                  /\ chunks = Chunks(EncodePayloadChain(ps), size)
                                  /\ first = FirstPayloadType(ps)
  OBVIOUS
<1>2. /\ chunks \in Seq(Bytes) /\ Joined(chunks) = EncodePayloadChain(ps) /\ Len(chunks) >= 1
      /\ Len(chunks) < FragLimit
  BY <1>1, FragmentedFits DEF Cut
<1>3. total = Len(chunks) /\ total \in Nat /\ DOMAIN chunks = 1..total /\ chunks = [i \in 1..total |-> chunks[i]]
  <2>1. Len(chunks) \in Nat /\ DOMAIN chunks = 1..Len(chunks) /\ chunks \in [1..Len(chunks) -> Bytes]
    BY <1>2, LenProperties
  <2>2. chunks = [i \in 1..Len(chunks) |-> chunks[i]]
    BY <2>1, SMT
  <2> QED
    BY <1>1, <2>1, <2>2 DEF Pieces
<1>4. PICK S : opened \in Seq(S)
  BY DEF OpenedAs
<1>5. n \in Nat \ {0} /\ Len(opened) = n /\ DOMAIN opened = 1..n
  BY <1>4, LenProperties DEF OpenedAs
<1>6. /\ num \in Injection(1..n, 1..total)
      /\ \A j \in 1..n : opened[j] = Fragment(num[j], total, first, chunks[num[j]])
  BY <1>1 DEF OpenedAs
<1>7. \A j \in 1..n : opened[j].frag_num = num[j] /\ opened[j].total = total
  <2>1. ASSUME NEW j \in 1..n PROVE opened[j].frag_num = num[j] /\ opened[j].total = total
    <3>1. PICK f, k, c : f = opened[j] /\ k = num[j] /\ c = chunks[num[j]]
      OBVIOUS
    <3>2. f = Fragment(k, total, first, c)
      BY <1>6, <3>1
    <3> QED
      BY <3>1, <3>2, FragmentFields, SMT
  <2> QED
    BY <2>1
<1>8. 1 \in 1..n /\ total # 0
  BY <1>2, <1>3, <1>5, SMT
<1>9. Complete(opened) <=> n = total
  <2>1. opened # <<>>
    <3>1. Len(<<>>) = 0
      BY Empty
    <3> QED
      BY <1>5, <3>1
  <2>2. opened[1].total = total
    BY <1>7, <1>8
  <2> QED
    BY <1>5, <1>7, <1>8, <2>1, <2>2 DEF Complete
<1>10. CASE n # total
  BY <1>1, <1>9, <1>10 DEF InOrder
<1>11. CASE n = total
  <2>1. Numbered(opened, num, n)
    BY <1>3, <1>5, <1>6, <1>7, <1>11 DEF Numbered
  <2>2. PICK frags : frags = Ordered(opened)
    OBVIOUS
  <2>3. DOMAIN frags = 1..n
    BY <1>5, <2>2 DEF Ordered
  <2>4. ASSUME NEW k \in 1..n PROVE frags[k] = Fragment(k, total, first, chunks[k])
    <3>1. \E j \in 1..n : num[j] = k /\ Ordered(opened)[k] = opened[j]
      BY <2>1, Sorted, SMT
    <3>2. PICK j \in 1..n : num[j] = k /\ frags[k] = opened[j]
      BY <2>2, <3>1
    <3> QED
      BY <1>6, <3>2
  <2>5. ASSUME NEW k \in 1..n
        PROVE  /\ frags[k].frag_num = k /\ frags[k].content = chunks[k]
               /\ k = 1 => frags[k].next_payload = first
    <3>1. PICK f, c : f = frags[k] /\ c = chunks[k]
      OBVIOUS
    <3>2. f = Fragment(k, total, first, c)
      BY <2>4, <3>1
    <3> QED
      BY <3>1, <3>2, FragmentFields, SMT
  <2>6. \A k \in 1..n : k % FragLimit = k
    <3>1. FragLimit \in Nat \ {0, 1} /\ n < FragLimit
      BY <1>2, <1>3, <1>11, FramingAssumption
    <3> QED
      BY <1>5, <3>1, SMT
  <2>7. \A i \in DOMAIN frags : frags[i].frag_num = i % FragLimit
    BY <2>3, <2>5, <2>6
  <2>8. frags[1].next_payload = first
    BY <1>8, <2>5
  <2>9. [i \in DOMAIN frags |-> frags[i].content] = chunks
    BY <1>3, <1>11, <2>3, <2>5
  <2>10. InOrder(opened) = Payloads(first, Joined(chunks))
    BY <1>9, <1>11, <2>2, <2>7, <2>8, <2>9 DEF InOrder
  <2>11. Payloads(FirstPayloadType(ps), EncodePayloadChain(ps)) = {ps}
    <3>1. ps \in Seq(AllPayloads) /\ \A i \in 1..Len(ps) : BodyFits(ps[i])
      BY FragmentedFits
    <3> QED
      BY <3>1, ChainRead
  <2> QED
    BY <1>1, <1>2, <1>11, <2>10, <2>11
<1> QED
  BY <1>10, <1>11

\* reassemble: whatever the order in which they arrived, all the fragments that build_fragments
\* made of a message that fits give its payloads, and fewer give nothing.
THEOREM FragmentsReadInAnyOrder ==
    ASSUME NEW ps, NEW size, Fragmented(ps, size), NEW id, NEW iv, NEW now, NEW n,
           Distinct(now, n, BuildFragments(id, ps, iv, size))
    PROVE  Reassemble(now) = IF n = Pieces(ps, size) THEN {ps} ELSE {}
<1>1. PICK opened, num : OpenAll(now) = {opened} /\ OpenedAs(opened, num, n, ps, size)
  BY AllOpen, SMT
<1>2. InOrder(opened) = IF n = Pieces(ps, size) THEN {ps} ELSE {}
  BY <1>1, InOrderReads
<1>3. Reassemble(now) = UNION {InOrder(o) : o \in OpenAll(now)}
  BY DEF Reassemble, InOrder
<1> QED
  BY <1>1, <1>2, <1>3

-----------------------------------------------------------------------------
(* Messages read as sent *)

\* What the encoders and parsers owe the rest holds of the octets.
LEMMA CodecHolds == Codec
<1>1. ASSUME NEW ps \in Seq(AllPayloads), NEW size \in Nat \ {0} PROVE Counted(ps, size)
  <2>1. EncodePayloadChain(ps) \in Bytes
    BY ChainPartsType
  <2>2. Cut(Chunks(EncodePayloadChain(ps), size), EncodePayloadChain(ps), size)
    BY <2>1, ChunksCut
  <2>3. Fragmented(ps, size) => Len(Chunks(EncodePayloadChain(ps), size)) < FragLimit
    BY FragmentedFits
  <2> QED
    BY <2>2, <2>3 DEF Counted, Pieces, Cut
<1>2. \A ps \in Seq(AllPayloads) : Fits([payloads |-> ps, fragments |-> {}]) =>
            \A id, iv : OpenEncryptedGcm(BuildEncryptedGcm(id, ps, iv)) = {ps}
  BY WholeRead
<1>3. \A ps, size, id, iv, now, n :
            Fragmented(ps, size) /\ Distinct(now, n, BuildFragments(id, ps, iv, size)) =>
                Reassemble(now) = IF n = Pieces(ps, size) THEN {ps} ELSE {}
  BY FragmentsReadInAnyOrder
<1> QED
  BY <1>1, <1>2, <1>3 DEF Codec

\* For every octet size, payload lists, fragment sizes and network, a message that fits is
\* read as exactly the payloads it was built from, or not at all.
THEOREM MessagesReadAsSent == Spec => []ReadAsSent
<1>1. ReadInv => ReadAsSent
  BY DEF ReadInv
<1>2. ReadInv /\ [Next]_vars => ReadInv'
  BY CodecHolds, NextReadInv
<1> QED
  BY <1>1, <1>2, InitReadInv, PTL DEF Spec

\* While the messages fit and the counter has not come round, no IV is used twice under the
\* key, from wherever the counter started.
THEOREM NoIvUsedTwice == Spec => []IvsUnique
<1>1. IvInv => IvsUnique
  <2> SUFFICES ASSUME IvInv, \A i \in DOMAIN sent : Fits(sent[i]), Len(ivs) + Len(sent) <= IvLimit
               PROVE  IsInjective(ivs)
    BY DEF IvsUnique
  <2>1. PICK first, used, pos : Spread(ivs, Len(sent), nextIv, first, used, pos)
    BY DEF IvInv
  <2> QED
    BY <2>1, SpreadApart, SMT
<1>2. ReadInv /\ [Next]_vars => ReadInv'
  BY CodecHolds, NextReadInv
<1>3. ReadInv /\ IvInv /\ [Next]_vars => IvInv'
  BY CodecHolds, NextIvInv
<1> QED
  BY <1>1, <1>2, <1>3, InitReadInv, InitIvInv, PTL DEF Spec
=============================================================================
