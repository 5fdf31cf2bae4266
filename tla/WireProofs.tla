----------------------------- MODULE WireProofs -----------------------------
(***************************************************************************)
(* Proofs about the codec of module Wire, for every size of an octet.      *)
(*                                                                         *)
(* What an encoder of ikev2/payload.rs writes, its parser reads, whatever  *)
(* follows it; so a chain of payloads whose bodies the format can carry    *)
(* (BodyFits) is read as the chain it was made from, and as nothing else.  *)
(* Loops are followed to the least step at which the claim would fail      *)
(* (LeastNatural); the recursive functions that stand for them exist       *)
(* because every step moves on (Terminates).                               *)
(***************************************************************************)
EXTENDS Wire, WellFoundedInduction, SequenceTheorems, TLAPS

\* A leaf is Zenon's, unless it names SMT for arithmetic or records.
USE Zenon

-----------------------------------------------------------------------------
(* Numbers *)

\* Every nonempty set of naturals has a least element.
LEMMA LeastNatural ==
    ASSUME NEW T, T \subseteq Nat, T # {}
    PROVE  \E n \in T : \A m \in T : n <= m
<1>1. PICK n \in T : \A m \in T : ~(<<m, n>> \in OpToRel(<, Nat))
  BY NatLessThanWellFounded, WFMin
<1>2. \A m \in T : ~(m < n)
  BY <1>1 DEF OpToRel
<1> QED
  BY <1>2, SMT

\* The size of an octet.
LEMMA OctetNat == Octet \in Nat /\ Octet >= 16
  BY OctetAssumption, SMT

\* The size of a 16-bit field.
LEMMA WordsBig == Octet * Octet \in Nat /\ Octet * Octet >= 16 * Octet /\ Octet * Octet >= 256
  BY OctetNat, SMT

\* Values of a 16-bit field are numbers.
LEMMA WordsNat == \A x \in Words : x \in Nat
  BY WordsBig, SMT DEF Words

\* The lengths of the fixed heads fit a 16-bit field.
LEMMA SmallWords == \A n \in 0..255 : n \in Words
  BY WordsBig, SMT DEF Words

\* U16be reads back what push_u16 wrote.
LEMMA U16Back ==
    ASSUME NEW x \in Nat, x < Octet * Octet
    PROVE  /\ (x \div Octet) % Octet \in 0..(Octet - 1)
           /\ x % Octet \in 0..(Octet - 1)
           /\ ((x \div Octet) % Octet) * Octet + (x % Octet) = x
<1>1. x \div Octet \in Nat /\ x % Octet \in 0..(Octet - 1) /\ x = Octet * (x \div Octet) + (x % Octet)
  BY OctetNat, SMT
<1>2. x \div Octet < Octet
  BY <1>1, OctetNat, SMT
<1>3. (x \div Octet) % Octet = x \div Octet
  BY <1>1, <1>2, OctetNat, SMT
<1> QED
  BY <1>1, <1>2, <1>3, OctetNat, SMT

-----------------------------------------------------------------------------
(* The loops of the parsers *)

\* What the loop returns from place p on, when f says what it returns from the places
\* after p.
FromHere(reads, ends, f, p) ==
    IF p \in ends THEN {<<>>}
    ELSE UNION {{<<r.value>> \o more : more \in f[r.next]} : r \in reads[p]}

\* f says what the loop returns from every place of S.
IsLoop(reads, ends, f, S) == f = [p \in S |-> FromHere(reads, ends, f, p)]

\* The loop makes progress: rank, at most N, falls at every step.
Falls(reads, ends, rank, N) ==
    /\ rank \in [DOMAIN reads -> Nat]
    /\ \A p \in DOMAIN reads : rank[p] <= N
    /\ \A p \in DOMAIN reads \ ends : \A r \in reads[p] :
            r.next \in DOMAIN reads /\ rank[r.next] < rank[p]

\* So it ends.
Terminates(reads, ends) == \E N \in Nat : \E rank : Falls(reads, ends, rank, N)

\* FromHere looks at f only at the next places.
LEMMA FromHereDepends ==
    ASSUME NEW reads, NEW ends, NEW f, NEW g, NEW p,
           p \notin ends => \A r \in reads[p] : f[r.next] = g[r.next]
    PROVE  FromHere(reads, ends, f, p) = FromHere(reads, ends, g, p)
<1>1. CASE p \in ends
  BY <1>1 DEF FromHere
<1>2. CASE p \notin ends
  <2> DEFINE F(r) == {<<r.value>> \o more : more \in f[r.next]}
             G(r) == {<<r.value>> \o more : more \in g[r.next]}
  <2>1. \A r \in reads[p] : F(r) = G(r)
    BY <1>2
  <2>2. {F(r) : r \in reads[p]} = {G(r) : r \in reads[p]}
    <3> HIDE DEF F, G
    <3> QED
      BY <2>1
  <2> QED
    BY <1>2, <2>2 DEF FromHere
<1> QED
  BY <1>1, <1>2

\* A loop that makes progress defines a function.
LEMMA LoopExists ==
    ASSUME NEW reads, NEW ends, Terminates(reads, ends)
    PROVE  \E f : IsLoop(reads, ends, f, DOMAIN reads)
<1>0. PICK N \in Nat : \E rank : Falls(reads, ends, rank, N)
  BY DEF Terminates
<1>00. PICK rank : Falls(reads, ends, rank, N)
  BY <1>0
<1> DEFINE S(k) == {p \in DOMAIN reads : rank[p] <= k}
           T == {n \in Nat : ~\E f : IsLoop(reads, ends, f, S(n))}
<1>1. T = {}
  <2> SUFFICES ASSUME T # {} PROVE FALSE
    OBVIOUS
  <2>1. PICK n \in T : \A m \in T : n <= m
    <3>1. T \subseteq Nat
      OBVIOUS
    <3> QED
      BY <3>1, LeastNatural
  <2>2. PICK f : IsLoop(reads, ends, f, S(n - 1))
    <3>1. CASE n = 0
      <4>1. S(n - 1) = {}
        BY <1>00, <3>1, SMT DEF Falls
      <4>2. PICK f : f = [p \in {} |-> FromHere(reads, ends, <<>>, p)]
        OBVIOUS
      <4>3. f = [p \in {} |-> FromHere(reads, ends, f, p)]
        BY <4>2, SMT
      <4> QED
        BY <4>1, <4>3 DEF IsLoop
    <3>2. CASE n # 0
      <4>1. n - 1 \in Nat /\ ~(n <= n - 1)
        BY <2>1, <3>2, SMT
      <4>2. n - 1 \notin T
        BY <2>1, <4>1
      <4> QED
        BY <4>1, <4>2
    <3> QED
      BY <3>1, <3>2
  <2>3. PICK g : g = [p \in S(n) |-> FromHere(reads, ends, f, p)]
    OBVIOUS
  <2>4. \A p \in S(n - 1) : p \in S(n) /\ g[p] = f[p]
    <3> TAKE p \in S(n - 1)
    <3>1. p \in S(n)
      BY <1>00, <2>1, SMT DEF Falls
    <3>2. f[p] = FromHere(reads, ends, f, p)
      BY <2>2 DEF IsLoop
    <3> QED
      BY <2>3, <3>1, <3>2
  <2>5. \A p \in S(n) : FromHere(reads, ends, f, p) = FromHere(reads, ends, g, p)
    <3> TAKE p \in S(n)
    <3>1. ASSUME p \notin ends, NEW r \in reads[p]
          PROVE  r.next \in S(n - 1)
      BY <1>00, <2>1, <3>1, SMT DEF Falls
    <3>2. p \notin ends => \A r \in reads[p] : f[r.next] = g[r.next]
      BY <2>4, <3>1
    <3> QED
      BY <3>2, FromHereDepends
  <2>6. IsLoop(reads, ends, g, S(n))
    BY <2>3, <2>5 DEF IsLoop
  <2> QED
    BY <2>1, <2>6
<1>2. \E f : IsLoop(reads, ends, f, S(N))
  BY <1>1
<1>3. S(N) = DOMAIN reads
  BY <1>00 DEF Falls
<1> QED
  BY <1>2, <1>3

\* Loop returns what its defining equation says.
LEMMA LoopUnfolds ==
    ASSUME NEW reads, NEW ends, NEW start, Terminates(reads, ends)
    PROVE  \E f : IsLoop(reads, ends, f, DOMAIN reads) /\ Loop(reads, ends, start) = f[start]
<1>1. \E f : IsLoop(reads, ends, f, DOMAIN reads)
  BY LoopExists
<1> QED
  BY <1>1 DEF Loop, IsLoop, FromHere

\* The values vals are what is read at the places at[0], at[1], ..., up to an end.
ReadsAt(reads, ends, vals, at) ==
    /\ at \in [0..Len(vals) -> DOMAIN reads]
    /\ at[Len(vals)] \in ends
    /\ \A i \in 1..Len(vals) :
            at[i - 1] \notin ends /\ reads[at[i - 1]] = {[value |-> vals[i], next |-> at[i]]}

\* Then the loop returns them.
LEMMA LoopReads ==
    ASSUME NEW reads, NEW ends, NEW start, Terminates(reads, ends),
           NEW S, NEW vals \in Seq(S), NEW at, ReadsAt(reads, ends, vals, at), at[0] = start
    PROVE  Loop(reads, ends, start) = {vals}
<1>1. PICK f : IsLoop(reads, ends, f, DOMAIN reads) /\ Loop(reads, ends, start) = f[start]
  BY LoopUnfolds
<1>2. PICK m \in Nat : m = Len(vals)
  BY LenProperties
<1>3. \A p \in DOMAIN reads : f[p] = FromHere(reads, ends, f, p)
  BY <1>1 DEF IsLoop
<1> DEFINE T == {k \in 0..m : f[at[m - k]] # {SubSeq(vals, m - k + 1, m)}}
<1>4. T = {}
  <2> SUFFICES ASSUME T # {} PROVE FALSE
    OBVIOUS
  <2>1. PICK k \in T : \A j \in T : k <= j
    <3>1. T \subseteq Nat
      BY <1>2, SMT
    <3> HIDE DEF T
    <3> QED
      BY <3>1, LeastNatural
  <2>2. k \in 0..m /\ m - k \in 0..m
    BY <1>2, <2>1, SMT
  <2>3. at[m - k] \in DOMAIN reads
    BY <1>2, <2>2 DEF ReadsAt
  <2>4. CASE k = 0
    <3>1. at[m - k] \in ends
      BY <1>2, <2>4, SMT DEF ReadsAt
    <3>2. SubSeq(vals, m - k + 1, m) = <<>>
      BY <1>2, <2>4, SubSeqEmpty, SMT
    <3> QED
      BY <1>3, <2>1, <2>3, <3>1, <3>2 DEF FromHere
  <2>5. CASE k # 0
    <3>1. PICK i \in 1..m : i = m - k + 1
      <4>1. m - k + 1 \in 1..m
        BY <1>2, <2>2, <2>5, SMT
      <4> QED
        BY <4>1
    <3>2. k - 1 \in 0..m /\ ~(k <= k - 1) /\ m - (k - 1) = i /\ m - k = i - 1 /\ i \in 1..Len(vals)
      BY <1>2, <2>2, <2>5, <3>1, SMT
    <3>3. f[at[i]] = {SubSeq(vals, i + 1, m)}
      BY <2>1, <3>2
    <3>4. FromHere(reads, ends, f, at[i - 1]) = {<<vals[i]>> \o SubSeq(vals, i + 1, m)}
      <4>1. at[i - 1] \notin ends /\ reads[at[i - 1]] = {[value |-> vals[i], next |-> at[i]]}
        BY <3>2 DEF ReadsAt
      <4>2. PICK r : r = [value |-> vals[i], next |-> at[i]]
        OBVIOUS
      <4>3. r.value = vals[i] /\ r.next = at[i]
        BY <4>2
      <4>4. reads[at[i - 1]] = {r} /\ f[r.next] = {SubSeq(vals, i + 1, m)}
        BY <3>3, <4>1, <4>2, <4>3
      <4> DEFINE F(x) == {<<x.value>> \o more : more \in f[x.next]}
      <4>5. F(r) = {<<vals[i]>> \o SubSeq(vals, i + 1, m)}
        BY <4>3, <4>4
      <4>6. {F(x) : x \in reads[at[i - 1]]} = {F(r)}
        <5> HIDE DEF F
        <5> QED
          BY <4>4
      <4> QED
        BY <4>1, <4>5, <4>6 DEF FromHere
    <3>5. SubSeq(vals, i, m) = <<vals[i]>> \o SubSeq(vals, i + 1, m)
      <4>1. m \in i..Len(vals)
        BY <1>2, <3>1, SMT
      <4> QED
        BY <3>2, <4>1, SubSeqRecursiveFirst
    <3> QED
      BY <1>3, <2>1, <2>3, <3>1, <3>2, <3>4, <3>5
  <2> QED
    BY <2>4, <2>5
<1>5. f[at[0]] = {SubSeq(vals, 1, m)}
  <2>1. m \in 0..m /\ m - m = 0 /\ 0 + 1 = 1
    BY <1>2, SMT
  <2> QED
    BY <1>4, <2>1
<1>6. SubSeq(vals, 1, m) = vals
  BY <1>2, SubSeqFull
<1> QED
  BY <1>1, <1>5, <1>6

-----------------------------------------------------------------------------
(* Octet strings *)

\* Strings are equal when they agree octet by octet.
LEMMA BytesEqual ==
    ASSUME NEW s \in Bytes, NEW t \in Bytes, Len(s) = Len(t), \A i \in 1..Len(s) : s[i] = t[i]
    PROVE  s = t
  BY SeqEqual DEF Bytes

\* The octets of a string.
LEMMA BytesType ==
    ASSUME NEW s \in Bytes
    PROVE  Len(s) \in Nat /\ \A i \in 1..Len(s) : s[i] \in Octets
  BY LenProperties, ElementOfSeq DEF Bytes

\* The octets of one string after another.
LEMMA ConcatBytes ==
    ASSUME NEW a \in Bytes, NEW b \in Bytes
    PROVE  /\ a \o b \in Bytes
           /\ Len(a \o b) = Len(a) + Len(b)
           /\ \A i \in 1..Len(a) : (a \o b)[i] = a[i]
           /\ \A i \in 1..Len(b) : (a \o b)[Len(a) + i] = b[i]
<1>1. /\ a \o b \in Bytes
      /\ Len(a \o b) = Len(a) + Len(b)
      /\ \A i \in 1 .. Len(a) + Len(b) : (a \o b)[i] = IF i <= Len(a) THEN a[i] ELSE b[i - Len(a)]
  BY ConcatProperties DEF Bytes
<1>2. Len(a) \in Nat /\ Len(b) \in Nat
  BY BytesType
<1>3. ASSUME NEW i \in 1..Len(a) PROVE (a \o b)[i] = a[i]
  <2>1. i \in 1..(Len(a) + Len(b)) /\ i <= Len(a)
    BY <1>2, <1>3, SMT
  <2> QED
    BY <1>1, <2>1
<1>4. ASSUME NEW i \in 1..Len(b) PROVE (a \o b)[Len(a) + i] = b[i]
  <2>1. PICK k : k = Len(a) + i
    OBVIOUS
  <2>2. k \in 1..(Len(a) + Len(b)) /\ ~(k <= Len(a)) /\ k - Len(a) = i
    BY <1>2, <1>4, <2>1, SMT
  <2>3. (a \o b)[k] = b[i]
    BY <1>1, <2>2
  <2> QED
    BY <2>1, <2>3
<1> QED
  BY <1>1, <1>3, <1>4

\* Three strings in a row.
LEMMA ConcatAssoc ==
    ASSUME NEW a \in Bytes, NEW b \in Bytes, NEW c \in Bytes
    PROVE  (a \o b) \o c = a \o (b \o c)
<1>1. a \in Seq(Octets) /\ b \in Seq(Octets) /\ c \in Seq(Octets)
  BY DEF Bytes
<1> QED
  BY <1>1, SMT

\* The octets of a slice.
LEMMA SliceBytes ==
    ASSUME NEW s \in Bytes, NEW b \in 0..Len(s), NEW a \in 0..b
    PROVE  /\ Slice(s, a, b) \in Bytes
           /\ Len(Slice(s, a, b)) = b - a
           /\ \A i \in 1..(b - a) : Slice(s, a, b)[i] = s[a + i]
<1>1. a \in Nat /\ b \in Nat /\ Len(s) \in Nat /\ a + 1 \in Int /\ b \in Int
  BY BytesType, SMT
<1>2. PICK m \in Int : m = a + 1
  BY <1>1
<1>3. \A i \in m..b : s[i] \in Octets
  BY <1>1, <1>2, BytesType, SMT
<1>4. /\ SubSeq(s, m, b) \in Seq(Octets)
      /\ Len(SubSeq(s, m, b)) = IF m <= b THEN b - m + 1 ELSE 0
      /\ \A i \in 1..(b - m + 1) : SubSeq(s, m, b)[i] = s[m + i - 1]
  BY <1>1, <1>3, SubSeqProperties, SMT
<1>5. (IF m <= b THEN b - m + 1 ELSE 0) = b - a /\ b - m + 1 = b - a
  BY <1>1, <1>2, SMT
<1>6. \A i \in 1..(b - a) : m + i - 1 = a + i
  BY <1>1, <1>2, SMT
<1>7. Slice(s, a, b) = SubSeq(s, m, b)
  BY <1>2 DEF Slice
<1> QED
  BY <1>4, <1>5, <1>6, <1>7 DEF Bytes

\* The rest of a string is a slice.
LEMMA FromSlice ==
    ASSUME NEW s, NEW a
    PROVE  From(s, a) = Slice(s, a, Len(s))
  BY DEF From, Slice

\* The whole slice.
LEMMA SliceAll ==
    ASSUME NEW s \in Bytes
    PROVE  Slice(s, 0, Len(s)) = s
  BY SubSeqFull, SMT DEF Slice, Bytes

\* A slice of the first of two strings.
LEMMA SliceFirst ==
    ASSUME NEW s \in Bytes, NEW t \in Bytes, NEW b \in 0..Len(s), NEW a \in 0..b
    PROVE  Slice(s \o t, a, b) = Slice(s, a, b)
<1>1. Len(s) \in Nat /\ Len(t) \in Nat /\ a \in Nat /\ b \in Nat
  BY BytesType, SMT
<1>2. /\ s \o t \in Bytes /\ Len(s \o t) = Len(s) + Len(t)
      /\ \A i \in 1..Len(s) : (s \o t)[i] = s[i]
  BY ConcatBytes
<1>3. b \in 0..Len(s \o t)
  BY <1>1, <1>2, SMT
<1>4. /\ Slice(s \o t, a, b) \in Bytes /\ Len(Slice(s \o t, a, b)) = b - a
      /\ \A i \in 1..(b - a) : Slice(s \o t, a, b)[i] = (s \o t)[a + i]
  BY <1>2, <1>3, SliceBytes
<1>5. /\ Slice(s, a, b) \in Bytes /\ Len(Slice(s, a, b)) = b - a
      /\ \A i \in 1..(b - a) : Slice(s, a, b)[i] = s[a + i]
  BY SliceBytes
<1>6. \A i \in 1..(b - a) : a + i \in 1..Len(s)
  BY <1>1, SMT
<1>7. \A i \in 1..(b - a) : Slice(s \o t, a, b)[i] = Slice(s, a, b)[i]
  BY <1>2, <1>4, <1>5, <1>6
<1> QED
  BY <1>4, <1>5, <1>7, BytesEqual

\* A slice of the second of two strings.
LEMMA SliceSecond ==
    ASSUME NEW s \in Bytes, NEW t \in Bytes, NEW b \in 0..Len(t), NEW a \in 0..b
    PROVE  Slice(s \o t, Len(s) + a, Len(s) + b) = Slice(t, a, b)
<1>1. Len(s) \in Nat /\ Len(t) \in Nat /\ a \in Nat /\ b \in Nat
  BY BytesType, SMT
<1>2. /\ s \o t \in Bytes /\ Len(s \o t) = Len(s) + Len(t)
      /\ \A i \in 1..Len(t) : (s \o t)[Len(s) + i] = t[i]
  BY ConcatBytes
<1>3. PICK x, y : x = Len(s) + a /\ y = Len(s) + b
  OBVIOUS
<1>4. y \in 0..Len(s \o t) /\ x \in 0..y /\ y - x = b - a
  BY <1>1, <1>2, <1>3, SMT
<1>5. /\ Slice(s \o t, x, y) \in Bytes /\ Len(Slice(s \o t, x, y)) = b - a
      /\ \A i \in 1..(b - a) : Slice(s \o t, x, y)[i] = (s \o t)[x + i]
  <2>1. /\ Slice(s \o t, x, y) \in Bytes /\ Len(Slice(s \o t, x, y)) = y - x
        /\ \A i \in 1..(y - x) : Slice(s \o t, x, y)[i] = (s \o t)[x + i]
    BY <1>2, <1>4, SliceBytes
  <2> QED
    BY <1>4, <2>1
<1>6. /\ Slice(t, a, b) \in Bytes /\ Len(Slice(t, a, b)) = b - a
      /\ \A i \in 1..(b - a) : Slice(t, a, b)[i] = t[a + i]
  BY SliceBytes
<1>7. \A i \in 1..(b - a) : a + i \in 1..Len(t) /\ x + i = Len(s) + (a + i)
  BY <1>1, <1>3, SMT
<1>8. \A i \in 1..(b - a) : Slice(s \o t, x, y)[i] = Slice(t, a, b)[i]
  <2> TAKE i \in 1..(b - a)
  <2>1. Slice(s \o t, x, y)[i] = (s \o t)[x + i] /\ Slice(t, a, b)[i] = t[a + i]
    BY <1>5, <1>6
  <2>2. PICK k \in 1..Len(t) : k = a + i /\ x + i = Len(s) + k
    BY <1>7
  <2>3. (s \o t)[Len(s) + k] = t[k]
    BY <1>2
  <2> QED
    BY <2>1, <2>2, <2>3
<1>9. Slice(s \o t, x, y) = Slice(t, a, b)
  BY <1>5, <1>6, <1>8, BytesEqual
<1> QED
  BY <1>3, <1>9

-----------------------------------------------------------------------------
(* Parts joined *)

\* u[i] is the first i parts joined, up to n.
IsJoin(parts, u, n) == u = [i \in 0..n |-> IF i = 0 THEN <<>> ELSE u[i - 1] \o parts[i]]

\* The recursion of Joined defines a function.
LEMMA JoinExists ==
    ASSUME NEW parts, NEW n \in Nat
    PROVE  \E u : IsJoin(parts, u, n)
<1> DEFINE T == {m \in Nat : ~\E u : IsJoin(parts, u, m)}
<1> SUFFICES ASSUME T # {} PROVE FALSE
  OBVIOUS
<1>1. PICK m \in T : \A k \in T : m <= k
  <2>1. T \subseteq Nat
    OBVIOUS
  <2> HIDE DEF T
  <2> QED
    BY <2>1, LeastNatural
<1>2. CASE m = 0
  <2>1. PICK u : u = [i \in 0..0 |-> <<>>]
    OBVIOUS
  <2>2. u = [i \in 0..0 |-> IF i = 0 THEN <<>> ELSE u[i - 1] \o parts[i]]
    BY <2>1, SMT
  <2> QED
    BY <1>1, <1>2, <2>2 DEF IsJoin
<1>3. CASE m # 0
  <2>1. m - 1 \in Nat /\ ~(m <= m - 1)
    BY <1>1, <1>3, SMT
  <2>2. PICK u : IsJoin(parts, u, m - 1)
    BY <1>1, <2>1
  <2>3. PICK v : v = [i \in 0..m |-> IF i = 0 THEN <<>> ELSE u[i - 1] \o parts[i]]
    OBVIOUS
  <2>4. \A i \in 0..(m - 1) : i \in 0..m /\ u[i] = v[i]
    <3> TAKE i \in 0..(m - 1)
    <3>1. i \in 0..m
      BY <2>1, SMT
    <3>2. u[i] = IF i = 0 THEN <<>> ELSE u[i - 1] \o parts[i]
      BY <2>2 DEF IsJoin
    <3> QED
      BY <2>3, <3>1, <3>2
  <2>5. \A i \in 0..m : i # 0 => i - 1 \in 0..(m - 1)
    BY <2>1, SMT
  <2>6. \A i \in 0..m : (IF i = 0 THEN <<>> ELSE u[i - 1] \o parts[i])
                            = (IF i = 0 THEN <<>> ELSE v[i - 1] \o parts[i])
    BY <2>4, <2>5
  <2>7. IsJoin(parts, v, m)
    BY <2>3, <2>6 DEF IsJoin
  <2> QED
    BY <1>1, <2>7
<1> QED
  BY <1>2, <1>3

\* Joined is what its defining equation says.
LEMMA JoinedUnfolds ==
    ASSUME NEW parts, Len(parts) \in Nat
    PROVE  \E u : IsJoin(parts, u, Len(parts)) /\ Joined(parts) = u[Len(parts)]
<1>1. \E u : IsJoin(parts, u, Len(parts))
  BY JoinExists
<1> QED
  BY <1>1 DEF Joined, IsJoin

\* The first i parts joined: empty at first, and longer by a part each time.
LEMMA JoinSteps ==
    ASSUME NEW parts \in Seq(Bytes)
    PROVE  \E u \in [0..Len(parts) -> Bytes] :
                /\ u[0] = <<>>
                /\ Joined(parts) = u[Len(parts)]
                /\ \A i \in 1..Len(parts) : u[i] = u[i - 1] \o parts[i]
<1>1. PICK n \in Nat : n = Len(parts)
  BY LenProperties
<1>2. PICK u : IsJoin(parts, u, n) /\ Joined(parts) = u[n]
  BY <1>1, JoinedUnfolds
<1>3. 0 \in 0..n /\ \A i \in 1..n : i \in 0..n /\ i # 0
  BY <1>1, SMT
<1>4. u[0] = <<>>
  BY <1>2, <1>3 DEF IsJoin
<1>5. \A i \in 1..n : u[i] = u[i - 1] \o parts[i]
  BY <1>2, <1>3 DEF IsJoin
<1> DEFINE T == {i \in 0..n : u[i] \notin Bytes}
<1>6. T = {}
  <2> SUFFICES ASSUME T # {} PROVE FALSE
    OBVIOUS
  <2>1. PICK i \in T : \A j \in T : i <= j
    <3>1. T \subseteq Nat
      BY <1>1, SMT
    <3> HIDE DEF T
    <3> QED
      BY <3>1, LeastNatural
  <2>2. i # 0
    <3>1. <<>> \in Bytes
      BY EmptySeq DEF Bytes
    <3> QED
      BY <1>4, <2>1, <3>1
  <2>3. i \in 1..n /\ i - 1 \in 0..n /\ ~(i <= i - 1)
    BY <1>1, <2>1, <2>2, SMT
  <2>4. u[i - 1] \in Bytes
    BY <2>1, <2>3
  <2>5. parts[i] \in Bytes
    BY <1>1, <2>3, ElementOfSeq
  <2>6. u[i] \in Bytes
    BY <1>5, <2>3, <2>4, <2>5, ConcatBytes
  <2> QED
    BY <2>1, <2>6
<1>7. u \in [0..n -> Bytes]
  <2>1. u = [i \in 0..n |-> u[i]]
    BY <1>2 DEF IsJoin
  <2>2. \A i \in 0..n : u[i] \in Bytes
    BY <1>6
  <2> QED
    BY <2>1, <2>2, SMT
<1> QED
  BY <1>1, <1>2, <1>4, <1>5, <1>7

\* What follows a string begins where it ends.
LEMMA FromConcat ==
    ASSUME NEW s \in Bytes, NEW t \in Bytes
    PROVE  From(s \o t, Len(s)) = t
<1>1. Len(s) \in Nat /\ Len(t) \in Nat
  BY BytesType
<1>2. Len(t) \in 0..Len(t) /\ 0 \in 0..Len(t) /\ Len(s) + 0 = Len(s)
  BY <1>1, SMT
<1>3. Slice(s \o t, Len(s) + 0, Len(s) + Len(t)) = Slice(t, 0, Len(t))
  BY <1>2, SliceSecond
<1>4. Len(s \o t) = Len(s) + Len(t)
  BY ConcatBytes
<1> QED
  BY <1>2, <1>3, <1>4, SliceAll, FromSlice

\* off[i] is where part i + 1 begins in w, the parts joined.
Offsets(parts, w, off) ==
    /\ off \in [0..Len(parts) -> 0..Len(w)]
    /\ off[0] = 0
    /\ off[Len(parts)] = Len(w)
    /\ \A i \in 1..Len(parts) : off[i] = off[i - 1] + Len(parts[i])
    /\ \A i \in 1..Len(parts) : \E rest \in Bytes : From(w, off[i - 1]) = parts[i] \o rest

\* Every part is found where the ones before it end.
LEMMA JoinedOffsets ==
    ASSUME NEW parts \in Seq(Bytes)
    PROVE  Joined(parts) \in Bytes /\ \E off : Offsets(parts, Joined(parts), off)
<1>1. PICK n \in Nat : n = Len(parts)
  BY LenProperties
<1>2. PICK u \in [0..n -> Bytes] :
                /\ u[0] = <<>>
                /\ Joined(parts) = u[n]
                /\ \A i \in 1..n : u[i] = u[i - 1] \o parts[i]
  BY <1>1, JoinSteps
<1>3. PICK w : w = Joined(parts)
  OBVIOUS
<1>4. w \in Bytes /\ w = u[n]
  <2>1. n \in 0..n
    BY <1>1, SMT
  <2> QED
    BY <1>2, <1>3, <2>1
<1>5. \A i \in 1..n : parts[i] \in Bytes
  BY <1>1, ElementOfSeq
<1> DEFINE T == {k \in 0..n : ~\E rest \in Bytes : w = u[n - k] \o rest}
<1>6. T = {}
  <2> SUFFICES ASSUME T # {} PROVE FALSE
    OBVIOUS
  <2>1. PICK k \in T : \A j \in T : k <= j
    <3>1. T \subseteq Nat
      BY <1>1, SMT
    <3> HIDE DEF T
    <3> QED
      BY <3>1, LeastNatural
  <2>2. CASE k = 0
    <3>1. n - k = n
      BY <1>1, <2>2, SMT
    <3>2. <<>> \in Bytes /\ w = u[n] \o <<>>
      BY <1>4, EmptySeq, ConcatEmptySeq DEF Bytes
    <3> QED
      BY <2>1, <3>1, <3>2
  <2>3. CASE k # 0
    <3>1. k - 1 \in 0..n /\ ~(k <= k - 1) /\ n - k \in 0..n
      BY <1>1, <2>1, <2>3, SMT
    <3>2. PICK rest \in Bytes : w = u[n - (k - 1)] \o rest
      BY <2>1, <3>1
    <3>3. PICK i : i = n - (k - 1)
      OBVIOUS
    <3>4. i \in 1..n /\ n - k = i - 1 /\ i - 1 \in 0..n
      BY <1>1, <3>1, <3>3, SMT
    <3>5. u[i] = u[i - 1] \o parts[i] /\ u[i - 1] \in Bytes /\ parts[i] \in Bytes
      BY <1>2, <1>5, <3>4
    <3>6. w = (u[i - 1] \o parts[i]) \o rest
      BY <3>2, <3>3, <3>5
    <3>7. w = u[i - 1] \o (parts[i] \o rest)
      <4>1. PICK a, b : a = u[i - 1] /\ b = parts[i]
        OBVIOUS
      <4>2. (a \o b) \o rest = a \o (b \o rest)
        BY <3>5, <4>1, ConcatAssoc
      <4> QED
        BY <3>6, <4>1, <4>2
    <3>8. parts[i] \o rest \in Bytes
      BY <3>5, ConcatBytes
    <3> QED
      BY <2>1, <3>4, <3>7, <3>8
  <2> QED
    BY <2>2, <2>3
<1>7. ASSUME NEW i \in 0..n PROVE \E rest \in Bytes : w = u[i] \o rest
  <2>1. n - i \in 0..n /\ n - (n - i) = i
    BY <1>1, SMT
  <2> QED
    BY <1>6, <2>1
<1> DEFINE off == [i \in 0..n |-> Len(u[i])]
<1>8. off \in [0..n -> 0..Len(w)]
  <2>1. ASSUME NEW i \in 0..n PROVE Len(u[i]) \in 0..Len(w)
    <3>1. PICK rest \in Bytes : w = u[i] \o rest
      BY <1>7
    <3>2. u[i] \in Bytes
      BY <1>2
    <3>3. Len(w) = Len(u[i]) + Len(rest) /\ Len(u[i]) \in Nat /\ Len(rest) \in Nat
      BY <3>1, <3>2, ConcatBytes, BytesType
    <3> QED
      BY <3>3, SMT
  <2> QED
    BY <2>1, SMT
<1>9. off[0] = 0 /\ off[n] = Len(w)
  <2>1. 0 \in 0..n /\ n \in 0..n
    BY <1>1, SMT
  <2>2. Len(u[0]) = 0
    BY <1>2, EmptySeq, SMT
  <2> QED
    BY <1>4, <2>1, <2>2
<1>10. ASSUME NEW i \in 1..n
       PROVE  /\ off[i] = off[i - 1] + Len(parts[i])
              /\ \E rest \in Bytes : From(w, off[i - 1]) = parts[i] \o rest
  <2>1. i \in 0..n /\ i - 1 \in 0..n
    BY <1>1, SMT
  <2>2. PICK a \in Bytes : a = u[i - 1]
    BY <1>2, <2>1
  <2>3. PICK b \in Bytes : b = parts[i]
    BY <1>5
  <2>4. u[i] = a \o b
    BY <1>2, <2>2, <2>3
  <2>5. Len(a \o b) = Len(a) + Len(b)
    BY ConcatBytes
  <2>6. PICK rest \in Bytes : w = u[i] \o rest
    BY <1>7, <2>1
  <2>7. w = a \o (b \o rest)
    <3>1. (a \o b) \o rest = a \o (b \o rest)
      BY ConcatAssoc
    <3> QED
      BY <2>4, <2>6, <3>1
  <2>8. From(w, Len(a)) = b \o rest
    BY <2>7, ConcatBytes, FromConcat
  <2> QED
    BY <2>1, <2>2, <2>3, <2>4, <2>5, <2>8
<1>11. Offsets(parts, w, off)
  <2> HIDE DEF off
  <2> QED
    BY <1>1, <1>8, <1>9, <1>10 DEF Offsets
<1> QED
  BY <1>3, <1>4, <1>11

\* subs reads every part, wherever it stands in w, as its value.
ReadBack(subs, parts, vals, w) ==
    \A i \in 1..Len(parts), off \in 0..Len(w) :
        (\E rest \in Bytes : From(w, off) = parts[i] \o rest)
            => subs[off] = {Read(vals[i], Len(parts[i]))}

\* What is read takes at least one octet and no more than there are.
Advances(subs, least, len) ==
    \A off \in 0..len : off + least <= len => \A r \in subs[off] : r.used \in 1..(len - off)

\* The parts, joined, are read back as the values.
Readable(subs, least, parts, vals) ==
    /\ parts \in Seq(Bytes)
    /\ \E V : vals \in Seq(V)
    /\ Len(vals) = Len(parts)
    /\ \A i \in 1..Len(parts) : Len(parts[i]) >= least
    /\ Advances(subs, least, Len(Joined(parts)))
    /\ ReadBack(subs, parts, vals, Joined(parts))

\* The fields of what was read.
LEMMA ReadFields ==
    ASSUME NEW v, NEW used
    PROVE  Read(v, used).value = v /\ Read(v, used).used = used
  BY DEF Read

\* A `while` loop reads back parts that were joined.
LEMMA WhileReads ==
    ASSUME NEW subs, NEW least \in Nat \ {0}, NEW parts, NEW vals, Readable(subs, least, parts, vals)
    PROVE  ParseWhile(subs, least, Len(Joined(parts))) = {vals}
<1>0. PICK w : w = Joined(parts)
  OBVIOUS
<1>a. /\ parts \in Seq(Bytes) /\ Len(vals) = Len(parts)
      /\ \A i \in 1..Len(parts) : Len(parts[i]) >= least
      /\ Advances(subs, least, Len(w)) /\ ReadBack(subs, parts, vals, w)
  BY <1>0 DEF Readable
<1>b. PICK V : vals \in Seq(V)
  BY DEF Readable
<1> DEFINE reads == [off \in 0..Len(w) |-> {[value |-> r.value, next |-> off + r.used] : r \in subs[off]}]
           ends == {off \in 0..Len(w) : off + least > Len(w)}
           rank == [off \in 0..Len(w) |-> Len(w) - off]
<1>1. w \in Bytes /\ \E off : Offsets(parts, w, off)
  BY <1>0, <1>a, JoinedOffsets
<1>2. PICK off : Offsets(parts, w, off)
  BY <1>1
<1>3. PICK n \in Nat : n = Len(parts) /\ n = Len(vals)
  BY <1>a, LenProperties
<1>4. PICK m \in Nat : m = Len(w)
  BY <1>1, BytesType
<1>5. DOMAIN reads = 0..m
  BY <1>4
<1>6. ASSUME NEW p \in DOMAIN reads, p \notin ends, NEW r \in reads[p]
      PROVE  r.next \in DOMAIN reads /\ rank[r.next] < rank[p]
  <2>1. p \in 0..m /\ p + least <= m
    BY <1>4, <1>5, <1>6, SMT
  <2>2. PICK x \in subs[p] : r = [value |-> x.value, next |-> p + x.used]
    BY <1>4, <1>5, <1>6
  <2>3. x.used \in 1..(m - p)
    BY <1>4, <2>1, <1>a DEF Advances
  <2>4. r.next = p + x.used
    BY <2>2
  <2>5. r.next \in 0..m /\ m - r.next < m - p
    BY <1>4, <2>1, <2>3, <2>4, SMT
  <2> QED
    BY <1>4, <1>5, <2>1, <2>5
<1>7. Falls(reads, ends, rank, m)
  <2>1. rank \in [0..m -> Nat] /\ \A p \in 0..m : rank[p] <= m
    BY <1>4, SMT
  <2> HIDE DEF reads, ends, rank
  <2> QED
    BY <1>5, <1>6, <2>1 DEF Falls
<1>8. Terminates(reads, ends)
  BY <1>7 DEF Terminates
<1>9. /\ off \in [0..n -> 0..m]
      /\ off[0] = 0 /\ off[n] = m
      /\ \A i \in 1..n : off[i] = off[i - 1] + Len(parts[i])
      /\ \A i \in 1..n : \E rest \in Bytes : From(w, off[i - 1]) = parts[i] \o rest
  BY <1>2, <1>3, <1>4 DEF Offsets
<1>10. off[n] \in ends
  BY <1>4, <1>9, SMT
<1>11. ASSUME NEW i \in 1..n
       PROVE  off[i - 1] \notin ends /\ reads[off[i - 1]] = {[value |-> vals[i], next |-> off[i]]}
  <2>1. i \in 0..n /\ i - 1 \in 0..n
    BY <1>3, SMT
  <2>2. off[i] \in 0..m /\ off[i - 1] \in 0..m /\ off[i] = off[i - 1] + Len(parts[i])
    BY <1>9, <2>1
  <2>3. Len(parts[i]) \in Nat /\ Len(parts[i]) >= least
    BY <1>3, <1>a, ElementOfSeq, BytesType
  <2>4. off[i - 1] \notin ends
    BY <1>4, <2>2, <2>3, SMT
  <2>5. subs[off[i - 1]] = {Read(vals[i], Len(parts[i]))}
    BY <1>3, <1>4, <1>9, <2>2, <1>a DEF ReadBack
  <2>6. reads[off[i - 1]] = {[value |-> vals[i], next |-> off[i - 1] + Len(parts[i])]}
    <3>1. PICK p, k, v : p = off[i - 1] /\ k = Len(parts[i]) /\ v = vals[i]
      OBVIOUS
    <3>2. p \in 0..Len(w) /\ subs[p] = {Read(v, k)}
      BY <1>4, <2>2, <2>5, <3>1
    <3>3. {[value |-> r.value, next |-> p + r.used] : r \in subs[p]} = {[value |-> v, next |-> p + k]}
      <4>1. PICK x : x = Read(v, k)
        OBVIOUS
      <4>2. x.value = v /\ x.used = k /\ subs[p] = {x}
        BY <3>2, <4>1, ReadFields
      <4> QED
        BY <4>2
    <3>4. reads[p] = {[value |-> v, next |-> p + k]}
      BY <3>2, <3>3
    <3> QED
      BY <3>1, <3>4
  <2> QED
    BY <2>2, <2>4, <2>6
<1>12. ReadsAt(reads, ends, vals, off)
  <2> HIDE DEF reads, ends
  <2> QED
    BY <1>3, <1>5, <1>9, <1>10, <1>11 DEF ReadsAt
<1>13. Loop(reads, ends, 0) = {vals}
  <2> HIDE DEF reads, ends
  <2> QED
    BY <1>8, <1>9, <1>12, <1>b, LoopReads
<1> QED
  BY <1>0, <1>13 DEF ParseWhile

\* A `for` loop reads back parts that were joined, and stops after the last.
LEMMA CountReads ==
    ASSUME NEW subs, NEW parts, NEW vals, Readable(subs, 0, parts, vals)
    PROVE  ParseCount(subs, Len(parts), Len(Joined(parts))) = {vals}
<1>0. PICK w : w = Joined(parts)
  OBVIOUS
<1>a. /\ parts \in Seq(Bytes) /\ Len(vals) = Len(parts)
      /\ Advances(subs, 0, Len(w)) /\ ReadBack(subs, parts, vals, w)
  BY <1>0 DEF Readable
<1>b. PICK V : vals \in Seq(V)
  BY DEF Readable
<1>1. w \in Bytes /\ \E off : Offsets(parts, w, off)
  BY <1>0, <1>a, JoinedOffsets
<1>2. PICK off : Offsets(parts, w, off)
  BY <1>1
<1>3. PICK n \in Nat : n = Len(parts) /\ n = Len(vals)
  BY <1>a, LenProperties
<1>4. PICK m \in Nat : m = Len(w)
  BY <1>1, BytesType
<1> DEFINE reads == [p \in (0..n) \X (0..m) |->
                        {[value |-> r.value, next |-> <<p[1] - 1, p[2] + r.used>>] : r \in subs[p[2]]}]
           ends == {0} \X (0..m)
           rank == [p \in (0..n) \X (0..m) |-> p[1]]
           at == [i \in 0..n |-> <<n - i, off[i]>>]
<1>5. DOMAIN reads = (0..n) \X (0..m)
  OBVIOUS
<1>6. ASSUME NEW p \in DOMAIN reads, p \notin ends, NEW r \in reads[p]
      PROVE  r.next \in DOMAIN reads /\ rank[r.next] < rank[p]
  <2>1. PICK k \in 0..n, o \in 0..m : p = <<k, o>>
    BY <1>5, SMT
  <2>2. p[1] = k /\ p[2] = o
    BY <2>1
  <2>3. k # 0
    BY <1>6, <2>1, SMT
  <2>4. PICK x \in subs[o] : r = [value |-> x.value, next |-> <<k - 1, o + x.used>>]
    BY <1>5, <1>6, <2>2
  <2>5. o + 0 <= m
    BY <1>4, <2>1, SMT
  <2>6. x.used \in 1..(m - o)
    BY <1>4, <2>1, <2>4, <2>5, <1>a DEF Advances
  <2>7. k - 1 \in 0..n /\ o + x.used \in 0..m /\ k - 1 < k
    BY <1>3, <1>4, <2>1, <2>3, <2>6, SMT
  <2>8. r.next = <<k - 1, o + x.used>>
    BY <2>4
  <2>9. r.next \in (0..n) \X (0..m) /\ r.next[1] = k - 1
    BY <2>7, <2>8, SMT
  <2> QED
    BY <1>5, <2>2, <2>7, <2>9
<1>7. Falls(reads, ends, rank, n)
  <2>1. rank \in [(0..n) \X (0..m) -> Nat] /\ \A p \in (0..n) \X (0..m) : rank[p] <= n
    BY <1>3, SMT
  <2> HIDE DEF reads, ends, rank
  <2> QED
    BY <1>5, <1>6, <2>1 DEF Falls
<1>8. Terminates(reads, ends)
  BY <1>7 DEF Terminates
<1>9. /\ off \in [0..n -> 0..m]
      /\ off[0] = 0 /\ off[n] = m
      /\ \A i \in 1..n : off[i] = off[i - 1] + Len(parts[i])
      /\ \A i \in 1..n : \E rest \in Bytes : From(w, off[i - 1]) = parts[i] \o rest
  BY <1>2, <1>3, <1>4 DEF Offsets
<1>10. at \in [0..n -> (0..n) \X (0..m)] /\ at[0] = <<n, 0>> /\ at[n] \in ends
  <2>1. \A i \in 0..n : n - i \in 0..n /\ off[i] \in 0..m
    <3>1. \A i \in 0..n : n - i \in 0..n
      BY <1>3, SMT
    <3> QED
      BY <1>9, <3>1
  <2>2. 0 \in 0..n /\ n \in 0..n /\ n - 0 = n /\ n - n = 0
    BY <1>3, SMT
  <2> QED
    BY <1>4, <1>9, <2>1, <2>2, SMT
<1>11. ASSUME NEW i \in 1..n
       PROVE  at[i - 1] \notin ends /\ reads[at[i - 1]] = {[value |-> vals[i], next |-> at[i]]}
  <2>1. i \in 0..n /\ i - 1 \in 0..n
    BY <1>3, SMT
  <2>2. PICK k, o, len, v : k = n - (i - 1) /\ o = off[i - 1] /\ len = Len(parts[i]) /\ v = vals[i]
    OBVIOUS
  <2>3. k \in 0..n /\ k # 0 /\ k - 1 = n - i
    BY <1>3, <2>2, SMT
  <2>4. o \in 0..m /\ off[i] = o + len
    BY <1>9, <2>1, <2>2
  <2>5. at[i - 1] = <<k, o>> /\ at[i] = <<k - 1, o + len>>
    BY <2>1, <2>2, <2>3, <2>4
  <2>6. subs[o] = {Read(v, len)}
    BY <1>3, <1>4, <1>9, <2>2, <2>4, <1>a DEF ReadBack
  <2>7. {[value |-> r.value, next |-> <<k - 1, o + r.used>>] : r \in subs[o]}
            = {[value |-> v, next |-> <<k - 1, o + len>>]}
    <3>1. PICK x : x = Read(v, len)
      OBVIOUS
    <3>2. x.value = v /\ x.used = len /\ subs[o] = {x}
      BY <2>6, <3>1, ReadFields
    <3> QED
      BY <3>2
  <2>8. PICK p : p = <<k, o>>
    OBVIOUS
  <2>9. p \in (0..n) \X (0..m) /\ p[1] = k /\ p[2] = o /\ p \notin ends
    BY <2>3, <2>4, <2>8, SMT
  <2>10. reads[p] = {[value |-> v, next |-> <<k - 1, o + len>>]}
    BY <2>7, <2>9
  <2> QED
    BY <2>2, <2>5, <2>8, <2>9, <2>10
<1>12. ReadsAt(reads, ends, vals, at)
  <2> HIDE DEF reads, ends, at
  <2> QED
    BY <1>3, <1>5, <1>10, <1>11 DEF ReadsAt
<1>13. Loop(reads, ends, <<n, 0>>) = {vals}
  <2> HIDE DEF reads, ends, at
  <2> QED
    BY <1>8, <1>10, <1>12, <1>b, LoopReads
<1> QED
  BY <1>0, <1>3, <1>4, <1>13 DEF ParseCount

-----------------------------------------------------------------------------
(* Heads *)

\* A string of one octet.
LEMMA Single ==
    ASSUME NEW a \in Octets
    PROVE  <<a>> \in Bytes /\ Len(<<a>>) = 1 /\ <<a>>[1] = a
<1>1. <<a>> \in Seq(Octets)
  BY SMT
<1>2. Len(<<a>>) = 1 /\ <<a>>[1] = a
  BY SMT
<1> QED
  BY <1>1, <1>2 DEF Bytes

\* The empty string.
LEMMA Empty == <<>> \in Bytes /\ Len(<<>>) = 0
  BY EmptySeq, SMT DEF Bytes

\* `as u16`: two octets, which make the number if it fits.
LEMMA U16Octets ==
    ASSUME NEW x \in Nat
    PROVE  \E a \in Octets, b \in Octets : U16(x) = <<a, b>> /\ (x \in Words => a * Octet + b = x)
<1>1. PICK a, b : a = (x \div Octet) % Octet /\ b = x % Octet
  OBVIOUS
<1>2. a \in Octets /\ b \in Octets
  BY <1>1, OctetNat, SMT DEF Octets
<1>3. x \in Words => a * Octet + b = x
  <2>1. x \in Words => x < Octet * Octet
    BY OctetNat, SMT DEF Words
  <2> QED
    BY <1>1, <2>1, U16Back
<1>4. U16(x) = <<a, b>>
  BY <1>1 DEF U16
<1> QED
  BY <1>2, <1>3, <1>4

\* `as u8`: one octet, the number if it fits.
LEMMA U8Octet ==
    ASSUME NEW x \in Nat
    PROVE  \E a \in Octets : U8(x) = <<a>> /\ (x < Octet => a = x)
<1>1. PICK a : a = x % Octet
  OBVIOUS
<1>2. a \in Octets /\ (x < Octet => a = x)
  BY <1>1, OctetNat, SMT DEF Octets
<1> QED
  BY <1>1, <1>2 DEF U8

-----------------------------------------------------------------------------
(* Transforms *)

\* A head of eight octets that states the length of itself and what follows.
HeadOf(h, b) == h \in Bytes /\ b \in Bytes /\ Len(h) = 8 /\ U16be(h, 2) = 8 + Len(b)

\* The head is read back from s, and what it heads.
ReadsHead(s, h, b) ==
    /\ s \in Bytes
    /\ \A i \in 1..8 : s[i] = h[i]
    /\ DeclaredLength(s) = {8 + Len(b)}
    /\ \A y \in 0..Len(b) : \A x \in 0..y : Slice(s, 8 + x, 8 + y) = Slice(b, x, y)

\* A substructure with a head of eight octets that states its length: the length is
\* read, and what follows the head.
LEMMA Headed8 ==
    ASSUME NEW h, NEW b, HeadOf(h, b), NEW rest \in Bytes
    PROVE  ReadsHead((h \o b) \o rest, h, b)
<1>0. h \in Bytes /\ b \in Bytes /\ Len(h) = 8 /\ U16be(h, 2) = 8 + Len(b)
  BY DEF HeadOf
<1>a. PICK s : s = (h \o b) \o rest
  OBVIOUS
<1>1. /\ h \o b \in Bytes /\ Len(h \o b) = Len(h) + Len(b)
      /\ \A i \in 1..Len(h) : (h \o b)[i] = h[i]
  BY <1>0, ConcatBytes
<1>2. /\ s \in Bytes /\ Len(s) = Len(h \o b) + Len(rest)
      /\ \A i \in 1..Len(h \o b) : s[i] = (h \o b)[i]
  <2>1. PICK g \in Bytes : g = h \o b
    BY <1>1
  <2>2. /\ g \o rest \in Bytes /\ Len(g \o rest) = Len(g) + Len(rest)
        /\ \A i \in 1..Len(g) : (g \o rest)[i] = g[i]
    BY ConcatBytes
  <2> QED
    BY <1>a, <2>1, <2>2
<1>3. Len(b) \in Nat /\ Len(rest) \in Nat
  BY <1>0, BytesType
<1>4. Len(s) = 8 + Len(b) + Len(rest) /\ \A i \in 1..8 : i \in 1..Len(h \o b)
  BY <1>0, <1>1, <1>2, <1>3, SMT
<1>5. \A i \in 1..8 : s[i] = h[i]
  <2>1. \A i \in 1..8 : i \in 1..Len(h)
    BY <1>0, SMT
  <2> QED
    BY <2>1, <1>1, <1>2, <1>4
<1>6. U16be(s, 2) = 8 + Len(b)
  <2>1. U16be(s, 2) = s[3] * Octet + s[4] /\ U16be(h, 2) = h[3] * Octet + h[4]
    BY SMT DEF U16be
  <2>2. s[3] = h[3] /\ s[4] = h[4]
    <3>1. 3 \in 1..8 /\ 4 \in 1..8
      BY SMT
    <3> QED
      BY <1>5, <3>1
  <2> QED
    BY <1>0, <2>1, <2>2
<1>7. DeclaredLength(s) = {8 + Len(b)}
  <2>1. ~(Len(s) < 8) /\ 8 <= 8 + Len(b) /\ 8 + Len(b) <= Len(s)
    BY <1>3, <1>4, SMT
  <2> QED
    BY <1>6, <2>1 DEF DeclaredLength
<1>8. ASSUME NEW y \in 0..Len(b), NEW x \in 0..y
      PROVE  Slice(s, 8 + x, 8 + y) = Slice(b, x, y)
  <2>1. PICK g \in Bytes : g = h \o b /\ Len(g) = 8 + Len(b)
    BY <1>0, <1>1
  <2>2. PICK k, m : k = 8 + x /\ m = 8 + y
    OBVIOUS
  <2>3. m \in 0..Len(g) /\ k \in 0..m
    BY <1>3, <2>1, <2>2, SMT
  <2>4. Slice(g \o rest, k, m) = Slice(g, k, m)
    BY <2>3, SliceFirst
  <2>5. Slice(h \o b, Len(h) + x, Len(h) + y) = Slice(b, x, y)
    BY <1>0, SliceSecond
  <2> QED
    BY <1>0, <1>a, <2>1, <2>2, <2>4, <2>5
<1> QED
  BY <1>a, <1>2, <1>5, <1>7, <1>8 DEF ReadsHead

\* No attributes: no Key Length.
LEMMA NoKeyLength == FindKeyLength(<<>>) = {{}}
<1>1. PICK e : e = <<>>
  OBVIOUS
<1>2. e \in Seq(Bytes) /\ e \in Seq(Nat) /\ Len(e) = 0
  BY <1>1, EmptySeq, SMT
<1> DEFINE subs == [off \in 0..Len(e) |-> ParseAttr(From(e, off))]
<1>3. e = Joined(e)
  <2>1. Joined(e) = <<>>
    BY <1>2, JoinSteps
  <2> QED
    BY <1>1, <2>1
<1>4. Advances(subs, 4, Len(e)) /\ ReadBack(subs, e, e, e)
  <2> HIDE DEF subs
  <2> QED
    BY <1>2, SMT DEF Advances, ReadBack
<1>5. ParseWhile(subs, 4, Len(e)) = {e}
  <2>1. 4 \in Nat \ {0}
    BY SMT
  <2>2. \A i \in 1..Len(e) : Len(e[i]) >= 4
    BY <1>2, SMT
  <2> HIDE DEF subs
  <2>3. Readable(subs, 4, e, e)
    BY <1>2, <1>3, <1>4, <2>2 DEF Readable
  <2> QED
    BY <1>3, <2>1, <2>3, WhileReads
<1>6. {i \in DOMAIN e : e[i] # {}} = {}
  BY <1>1, SMT
<1>7. FindKeyLength(e) = {{}}
  BY <1>5, <1>6 DEF FindKeyLength
<1> QED
  BY <1>1, <1>7

\* A Key Length is read back.
LEMMA AttrRead ==
    ASSUME NEW s, NEW k, U16be(s, 0) = FormatTv + KeyLengthAttr, U16be(s, 2) = k
    PROVE  ParseAttr(s) = {Read({k}, 4)}
<1>1. FormatTv + KeyLengthAttr >= FormatTv
  BY OctetNat, SMT DEF FormatTv, KeyLengthAttr
<1> QED
  BY <1>1 DEF ParseAttr

\* One part joined.
LEMMA JoinedOne ==
    ASSUME NEW a \in Bytes
    PROVE  <<a>> \in Seq(Bytes) /\ Joined(<<a>>) = a
<1>1. PICK ps \in Seq(Bytes) : ps = <<a>> /\ Len(ps) = 1 /\ ps[1] = a
  <2>1. <<a>> \in Seq(Bytes) /\ Len(<<a>>) = 1 /\ <<a>>[1] = a
    BY SMT
  <2> QED
    BY <2>1
<1>2. PICK u \in [0..Len(ps) -> Bytes] :
            /\ u[0] = <<>>
            /\ Joined(ps) = u[Len(ps)]
            /\ \A i \in 1..Len(ps) : u[i] = u[i - 1] \o ps[i]
  BY JoinSteps
<1>3. 1 \in 1..Len(ps) /\ 1 - 1 = 0
  BY <1>1, SMT
<1>4. u[1] = <<>> \o a
  BY <1>1, <1>2, <1>3
<1>5. <<>> \o a = a
  BY ConcatEmptySeq DEF Bytes
<1> QED
  BY <1>1, <1>2, <1>4, <1>5

\* A 16-bit number in the first of two strings.
LEMMA U16First ==
    ASSUME NEW a \in Bytes, NEW b \in Bytes, NEW off \in Nat, off + 2 <= Len(a)
    PROVE  U16be(a \o b, off) = U16be(a, off)
<1>1. off + 1 \in 1..Len(a) /\ off + 2 \in 1..Len(a)
  BY BytesType, SMT
<1>2. (a \o b)[off + 1] = a[off + 1] /\ (a \o b)[off + 2] = a[off + 2]
  BY <1>1, ConcatBytes
<1> QED
  BY <1>2 DEF U16be

\* A Key Length is found.
LEMMA KeyLengthFound ==
    ASSUME NEW a \in Bytes, Len(a) = 4, NEW k,
           U16be(a, 0) = FormatTv + KeyLengthAttr, U16be(a, 2) = k
    PROVE  FindKeyLength(a) = {{k}}
<1> DEFINE subs == [off \in 0..Len(a) |-> ParseAttr(From(a, off))]
<1>1. PICK ps \in Seq(Bytes) : ps = <<a>> /\ Len(ps) = 1 /\ ps[1] = a /\ Joined(ps) = a
  BY JoinedOne
<1>2. PICK ks : ks = <<{k}>>
  OBVIOUS
<1>3. ks \in Seq({{k}}) /\ Len(ks) = 1 /\ ks[1] = {k} /\ DOMAIN ks = {1}
  BY <1>2, SMT
<1>4. ASSUME NEW rest \in Bytes PROVE ParseAttr(a \o rest) = {Read({k}, 4)}
  <2>1. U16be(a \o rest, 0) = U16be(a, 0) /\ U16be(a \o rest, 2) = U16be(a, 2)
    <3>1. 0 \in Nat /\ 2 \in Nat /\ 0 + 2 <= Len(a) /\ 2 + 2 <= Len(a)
      BY SMT
    <3> QED
      BY <3>1, U16First
  <2> QED
    BY <2>1, AttrRead
<1>5. ReadBack(subs, ps, ks, a)
  <2>1. ASSUME NEW i \in 1..Len(ps), NEW off \in 0..Len(a), NEW rest \in Bytes,
               From(a, off) = ps[i] \o rest
        PROVE  subs[off] = {Read(ks[i], Len(ps[i]))}
    <3>1. i = 1
      BY <1>1, SMT
    <3>2. ps[i] = a /\ ks[i] = {k}
      BY <1>1, <1>3, <3>1
    <3>3. subs[off] = ParseAttr(a \o rest)
      BY <2>1, <3>2
    <3> QED
      BY <1>4, <3>2, <3>3
  <2> HIDE DEF subs
  <2> QED
    BY <2>1 DEF ReadBack
<1>6. Advances(subs, 4, Len(a))
  <2>1. ASSUME NEW off \in 0..Len(a), off + 4 <= Len(a), NEW r \in subs[off]
        PROVE  r.used \in 1..(Len(a) - off)
    <3>1. off = 0
      BY <2>1, SMT
    <3>2. From(a, 0) = a /\ a \o <<>> = a /\ <<>> \in Bytes
      BY SliceAll, FromSlice, ConcatEmptySeq, Empty DEF Bytes
    <3>3. subs[off] = {Read({k}, 4)}
      BY <1>4, <3>1, <3>2
    <3>4. r.used = 4
      <4>1. r = Read({k}, 4)
        BY <2>1, <3>3
      <4> QED
        BY <4>1 DEF Read
    <3> QED
      BY <3>1, <3>4, SMT
  <2> HIDE DEF subs
  <2> QED
    BY <2>1 DEF Advances
<1>7. ParseWhile(subs, 4, Len(a)) = {ks}
  <2>1. 4 \in Nat \ {0}
    BY SMT
  <2>2. \A i \in 1..Len(ps) : Len(ps[i]) >= 4
    BY <1>1, SMT
  <2> HIDE DEF subs
  <2>3. Readable(subs, 4, ps, ks)
    BY <1>1, <1>3, <1>5, <1>6, <2>2 DEF Readable
  <2>4. ParseWhile(subs, 4, Len(Joined(ps))) = {ks}
    BY <2>1, <2>3, WhileReads
  <2> QED
    BY <1>1, <2>4
<1>8. {i \in DOMAIN ks : ks[i] # {}} = {1}
  BY <1>3
<1>9. Max({1}) = 1
  BY SMT DEF Max
<1> DEFINE found(keys) == {i \in DOMAIN keys : keys[i] # {}}
           last(keys) == IF found(keys) = {} THEN {} ELSE keys[Max(found(keys))]
<1>10. last(ks) = {k}
  <2>1. found(ks) = {1} /\ {1} # {}
    BY <1>8, SMT
  <2> HIDE DEF found
  <2> QED
    BY <1>3, <1>9, <2>1
<1>11. FindKeyLength(a) = {last(keys) : keys \in ParseWhile(subs, 4, Len(a))}
  BY DEF FindKeyLength
<1> HIDE DEF last, subs
<1> QED
  BY <1>7, <1>10, <1>11

\* A declared length covers the head and no more than there is.
LEMMA DeclaredBounds ==
    ASSUME NEW s \in Bytes, NEW n \in DeclaredLength(s)
    PROVE  n \in 8..Len(s)
<1>1. 8 <= n /\ n <= Len(s) /\ n \in {IF Len(s) < 8 THEN 0 ELSE U16be(s, 2)}
  BY DEF DeclaredLength
<1>2. Len(s) \in Nat
  BY BytesType
<1>3. CASE Len(s) < 8
  <2>1. n = 0
    BY <1>1, <1>3
  <2> QED
    BY <1>1, <2>1, SMT
<1>4. CASE ~(Len(s) < 8)
  <2>1. n = U16be(s, 2)
    BY <1>1, <1>4
  <2>2. 3 \in 1..Len(s) /\ 4 \in 1..Len(s)
    BY <1>2, <1>4, SMT
  <2>3. s[3] \in Octets /\ s[4] \in Octets
    BY <2>2, BytesType
  <2>4. U16be(s, 2) = s[3] * Octet + s[4]
    BY SMT DEF U16be
  <2>5. s[3] * Octet + s[4] \in Nat
    BY <2>3, OctetNat, SMT DEF Octets
  <2> QED
    BY <1>1, <1>2, <2>1, <2>4, <2>5, SMT
<1> QED
  BY <1>3, <1>4

\* A transform takes its declared length.
LEMMA TransformAdvances ==
    ASSUME NEW s \in Bytes, NEW r \in ParseTransform(s)
    PROVE  r.used \in 8..Len(s)
<1>1. PICK n \in DeclaredLength(s) : \E v : r = Read(v, n)
  BY DEF ParseTransform
<1>2. PICK v : r = Read(v, n)
  BY <1>1
<1>3. r.used = n
  BY <1>2 DEF Read
<1> QED
  BY <1>3, DeclaredBounds

\* What a transform looks like on the wire.
LEMMA TransformWritten ==
    ASSUME NEW t \in Transforms, NEW is_last
    PROVE  \E h \in Bytes, b \in Bytes :
                /\ WriteTransform(t, is_last) = h \o b
                /\ HeadOf(h, b)
                /\ h[5] = t.transform_type /\ U16be(h, 6) = t.transform_id
                /\ FindKeyLength(b) = {t.key_length}
<1> DEFINE attrs == IF t.key_length = {} THEN <<>>
                    ELSE U16(FormatTv + KeyLengthAttr) \o U16(CHOOSE k \in t.key_length : TRUE)
<1>1. /\ t.transform_type \in Octets /\ t.transform_id \in Words
      /\ t.key_length \in {{}} \cup {{k} : k \in Words}
  BY DEF Transforms
<1>2. attrs \in Bytes /\ Len(attrs) \in {0, 4} /\ FindKeyLength(attrs) = {t.key_length}
  <2>1. CASE t.key_length = {}
    BY <2>1, Empty, NoKeyLength
  <2>2. CASE t.key_length # {}
    <3>1. PICK k \in Words : t.key_length = {k}
      BY <1>1, <2>2
    <3>2. (CHOOSE x \in t.key_length : TRUE) = k
      BY <3>1
    <3>3. FormatTv + KeyLengthAttr \in Words
      BY OctetAssumption, SMT DEF Words, FormatTv, KeyLengthAttr
    <3>4. PICK a \in Octets, b \in Octets :
                U16(FormatTv + KeyLengthAttr) = <<a, b>> /\ a * Octet + b = FormatTv + KeyLengthAttr
      BY <3>3, WordsNat, U16Octets
    <3>5. PICK c \in Octets, d \in Octets : U16(k) = <<c, d>> /\ c * Octet + d = k
      BY WordsNat, U16Octets
    <3>6. PICK w : w = <<a, b>> \o <<c, d>>
      OBVIOUS
    <3>7. w \in Bytes /\ Len(w) = 4 /\ w[1] = a /\ w[2] = b /\ w[3] = c /\ w[4] = d
      <4>1. w \in Seq(Octets) /\ Len(w) = 4
        BY <3>6, SMT
      <4>2. w[1] = a /\ w[2] = b /\ w[3] = c /\ w[4] = d
        BY <3>6, SMT
      <4> QED
        BY <4>1, <4>2 DEF Bytes
    <3>8. U16be(w, 0) = w[1] * Octet + w[2] /\ U16be(w, 2) = w[3] * Octet + w[4]
      BY SMT DEF U16be
    <3>9. FindKeyLength(w) = {{k}}
      BY <3>4, <3>5, <3>7, <3>8, KeyLengthFound
    <3>10. attrs = w
      BY <2>2, <3>2, <3>4, <3>5, <3>6
    <3> QED
      BY <3>1, <3>7, <3>9, <3>10
  <2> QED
    BY <2>1, <2>2
<1>3. 8 + Len(attrs) \in Words
  <2>1. Len(attrs) = 0 \/ Len(attrs) = 4
    BY <1>2
  <2> HIDE DEF attrs
  <2> QED
    <3>1. PICK n : n = Len(attrs)
      OBVIOUS
    <3>2. n = 0 \/ n = 4
      BY <2>1, <3>1
    <3>3. 8 + n \in 0..255
      BY <3>2, SMT
    <3> QED
      BY <3>1, <3>3, SmallWords
<1> HIDE DEF attrs
<1>4. PICK c \in Octets, d \in Octets : U16(8 + Len(attrs)) = <<c, d>> /\ c * Octet + d = 8 + Len(attrs)
  BY <1>3, WordsNat, U16Octets
<1>5. PICK g \in Octets, i \in Octets : U16(t.transform_id) = <<g, i>> /\ g * Octet + i = t.transform_id
  BY <1>1, WordsNat, U16Octets
<1>6. PICK a, e : a = (IF is_last THEN 0 ELSE 3) /\ e = t.transform_type
  OBVIOUS
<1>7. a \in Octets /\ e \in Octets /\ 0 \in Octets
  <2>1. a = 0 \/ a = 3
    BY <1>6
  <2> QED
    BY <1>1, <1>6, <2>1, OctetNat, SMT DEF Octets
<1>8. PICK h : h = <<a, 0>> \o <<c, d>> \o <<e, 0>> \o <<g, i>>
  OBVIOUS
<1>9. h \in Seq(Octets) /\ Len(h) = 8
  BY <1>7, <1>8, SMT
<1>10. h[3] = c /\ h[4] = d /\ h[5] = e /\ h[7] = g /\ h[8] = i
  BY <1>7, <1>8, SMT
<1>11. U16be(h, 2) = h[3] * Octet + h[4] /\ U16be(h, 6) = h[7] * Octet + h[8]
  BY SMT DEF U16be
<1>12. WriteTransform(t, is_last) = h \o attrs
  BY <1>4, <1>5, <1>6, <1>8 DEF WriteTransform, attrs
<1>13. HeadOf(h, attrs)
  BY <1>2, <1>4, <1>9, <1>10, <1>11 DEF HeadOf, Bytes
<1>14. h \in Bytes /\ h[5] = t.transform_type /\ U16be(h, 6) = t.transform_id
  BY <1>5, <1>6, <1>9, <1>10, <1>11 DEF Bytes
<1> QED
  BY <1>2, <1>12, <1>13, <1>14

\* A transform is read back.
LEMMA TransformRead ==
    ASSUME NEW t \in Transforms, NEW is_last
    PROVE  /\ WriteTransform(t, is_last) \in Bytes
           /\ Len(WriteTransform(t, is_last)) >= 8
           /\ \A rest \in Bytes : ParseTransform(WriteTransform(t, is_last) \o rest)
                                    = {Read(t, Len(WriteTransform(t, is_last)))}
<1>1. PICK h \in Bytes, b \in Bytes :
                /\ WriteTransform(t, is_last) = h \o b
                /\ HeadOf(h, b)
                /\ h[5] = t.transform_type /\ U16be(h, 6) = t.transform_id
                /\ FindKeyLength(b) = {t.key_length}
  BY TransformWritten
<1>2. PICK w \in Bytes : w = h \o b /\ Len(w) = 8 + Len(b)
  <2>1. h \o b \in Bytes /\ Len(h \o b) = Len(h) + Len(b) /\ Len(h) = 8
    BY <1>1, ConcatBytes DEF HeadOf
  <2> QED
    BY <2>1
<1>3. Len(b) \in Nat
  BY BytesType
<1>4. ASSUME NEW rest \in Bytes PROVE ParseTransform(w \o rest) = {Read(t, Len(w))}
  <2>1. PICK s : s = (h \o b) \o rest
    OBVIOUS
  <2>2. /\ s \in Bytes /\ \A i \in 1..8 : s[i] = h[i]
        /\ DeclaredLength(s) = {8 + Len(b)} /\ Slice(s, 8, 8 + Len(b)) = b
    <3>1. HeadOf(h, b)
      BY <1>1
    <3>2. ReadsHead(s, h, b)
      BY <2>1, <3>1, Headed8
    <3>3. 0 \in 0..Len(b) /\ Len(b) \in 0..Len(b) /\ 8 + 0 = 8
      BY <1>3, SMT
    <3>4. Slice(s, 8 + 0, 8 + Len(b)) = Slice(b, 0, Len(b))
      BY <3>2, <3>3 DEF ReadsHead
    <3>5. Slice(b, 0, Len(b)) = b
      BY SliceAll
    <3> QED
      BY <3>2, <3>3, <3>4, <3>5 DEF ReadsHead
  <2>3. s[5] = h[5] /\ U16be(s, 6) = U16be(h, 6)
    <3>1. U16be(s, 6) = s[7] * Octet + s[8] /\ U16be(h, 6) = h[7] * Octet + h[8]
      BY SMT DEF U16be
    <3>2. 5 \in 1..8 /\ 7 \in 1..8 /\ 8 \in 1..8
      BY SMT
    <3> QED
      BY <2>2, <3>1, <3>2
  <2> DEFINE v(k) == [transform_type |-> s[5], transform_id |-> U16be(s, 6), key_length |-> k]
  <2>4. v(t.key_length) = t
    <3>1. t = [transform_type |-> t.transform_type, transform_id |-> t.transform_id,
               key_length |-> t.key_length]
      BY SMT DEF Transforms
    <3> QED
      BY <1>1, <2>3, <3>1
  <2>5. ParseTransform(s) = UNION {{Read(v(k), n) : k \in FindKeyLength(Slice(s, 8, n))} : n \in DeclaredLength(s)}
    BY DEF ParseTransform
  <2> HIDE DEF v
  <2>6. ParseTransform(s) = {Read(v(k), 8 + Len(b)) : k \in FindKeyLength(b)}
    <3> DEFINE F(n) == {Read(v(k), n) : k \in FindKeyLength(Slice(s, 8, n))}
    <3>1. ParseTransform(s) = UNION {F(n) : n \in {8 + Len(b)}}
      BY <2>2, <2>5
    <3>2. F(8 + Len(b)) = {Read(v(k), 8 + Len(b)) : k \in FindKeyLength(b)}
      BY <2>2
    <3> HIDE DEF F
    <3> QED
      BY <3>1, <3>2
  <2>7. ParseTransform(s) = {Read(t, 8 + Len(b))}
    BY <1>1, <2>4, <2>6
  <2> QED
    BY <1>2, <2>1, <2>7
<1>5. Len(w) >= 8
  BY <1>2, <1>3, SMT
<1> QED
  BY <1>1, <1>2, <1>4, <1>5

-----------------------------------------------------------------------------
(* Proposals *)

\* The rest of a string.
LEMMA FromBytes ==
    ASSUME NEW s \in Bytes, NEW a \in 0..Len(s)
    PROVE  From(s, a) \in Bytes /\ Len(From(s, a)) = Len(s) - a
<1>1. Len(s) \in 0..Len(s)
  BY BytesType, SMT
<1> QED
  BY <1>1, SliceBytes, FromSlice

\* rd reads each part, whatever follows it, as its value, and takes no more than there is.
Reader(rd, least, parts, vals) ==
    /\ parts \in Seq(Bytes)
    /\ \E V : vals \in Seq(V)
    /\ Len(vals) = Len(parts)
    /\ \A i \in 1..Len(parts) : Len(parts[i]) >= least
    /\ \A i \in 1..Len(parts) : \A rest \in Bytes : rd[parts[i] \o rest] = {Read(vals[i], Len(parts[i]))}
    /\ \A s \in Bytes : \A r \in rd[s] : r.used \in 1..Len(s)

\* What such a reader finds at each offset of the parts joined.
Found(rd, w) == [off \in 0..Len(w) |-> rd[From(w, off)]]

\* So the parts, joined, are read back.
LEMMA ReaderReads ==
    ASSUME NEW rd, NEW least, NEW parts, NEW vals, Reader(rd, least, parts, vals)
    PROVE  Joined(parts) \in Bytes /\ Readable(Found(rd, Joined(parts)), least, parts, vals)
<1>1. parts \in Seq(Bytes)
  BY DEF Reader
<1>2. PICK w \in Bytes : w = Joined(parts)
  BY <1>1, JoinedOffsets
<1>3. PICK subs : subs = Found(rd, w)
  OBVIOUS
<1>4. \A off \in 0..Len(w) : subs[off] = rd[From(w, off)]
  BY <1>3 DEF Found
<1>5. ReadBack(subs, parts, vals, w)
  <2>1. ASSUME NEW i \in 1..Len(parts), NEW off \in 0..Len(w), NEW rest \in Bytes,
               From(w, off) = parts[i] \o rest
        PROVE  subs[off] = {Read(vals[i], Len(parts[i]))}
    <3>1. subs[off] = rd[parts[i] \o rest]
      BY <1>4, <2>1
    <3> QED
      BY <3>1 DEF Reader
  <2> QED
    BY <2>1 DEF ReadBack
<1>6. Advances(subs, least, Len(w))
  <2>1. ASSUME NEW off \in 0..Len(w), NEW r \in subs[off]
        PROVE  r.used \in 1..(Len(w) - off)
    <3>1. PICK v \in Bytes : v = From(w, off) /\ Len(v) = Len(w) - off
      BY FromBytes
    <3>2. r \in rd[v]
      BY <1>4, <2>1, <3>1
    <3>3. r.used \in 1..Len(v)
      BY <3>2 DEF Reader
    <3> QED
      BY <3>1, <3>3
  <2> QED
    BY <2>1 DEF Advances
<1>7. Readable(subs, least, parts, vals)
  BY <1>2, <1>5, <1>6 DEF Readable, Reader
<1> QED
  BY <1>2, <1>3, <1>7

\* The transforms of a proposal as written.
TransformParts(ts) == [i \in DOMAIN ts |-> WriteTransform(ts[i], i = Len(ts))]

\* The transforms are read back, as many as the count says.
LEMMA TransformsRead ==
    ASSUME NEW ts \in Seq(Transforms)
    PROVE  /\ Joined(TransformParts(ts)) \in Bytes
           /\ ParseTransforms(Len(ts), Joined(TransformParts(ts))) = {ts}
<1>1. PICK n \in Nat : n = Len(ts) /\ DOMAIN ts = 1..n
  BY LenProperties
<1>2. PICK parts : parts = TransformParts(ts)
  OBVIOUS
<1> DEFINE rd == [s \in Bytes |-> ParseTransform(s)]
<1>3. ASSUME NEW i \in 1..n
      PROVE  /\ parts[i] \in Bytes
             /\ Len(parts[i]) >= 0
             /\ \A rest \in Bytes : rd[parts[i] \o rest] = {Read(ts[i], Len(parts[i]))}
  <2>1. PICK t \in Transforms : t = ts[i]
    BY <1>1, ElementOfSeq
  <2>2. PICK p : p = WriteTransform(t, i = Len(ts))
    OBVIOUS
  <2>3. parts[i] = p
    BY <1>1, <1>2, <2>1, <2>2 DEF TransformParts
  <2>4. p \in Bytes /\ \A rest \in Bytes : ParseTransform(p \o rest) = {Read(t, Len(p))}
    BY <2>2, TransformRead, SMT
  <2>5. \A rest \in Bytes : p \o rest \in Bytes
    BY <2>4, ConcatBytes
  <2>6. Len(p) >= 0
    BY <2>4, BytesType, SMT
  <2> QED
    BY <2>1, <2>3, <2>4, <2>5, <2>6
<1>4. parts \in Seq(Bytes) /\ Len(parts) = n
  <2>1. parts = [i \in 1..n |-> parts[i]]
    BY <1>1, <1>2 DEF TransformParts
  <2>2. parts \in [1..n -> Bytes]
    BY <1>3, <2>1, SMT
  <2> QED
    BY <2>2, SeqDef, LenProperties, SMT
<1>5. \A s \in Bytes : \A r \in rd[s] : r.used \in 1..Len(s)
  <2>1. ASSUME NEW s \in Bytes, NEW r \in rd[s] PROVE r.used \in 1..Len(s)
    <3>1. r.used \in 8..Len(s)
      BY <2>1, TransformAdvances
    <3> QED
      BY <3>1, SMT
  <2> QED
    BY <2>1
<1>6. Reader(rd, 0, parts, ts)
  <2> HIDE DEF rd
  <2> QED
    BY <1>1, <1>3, <1>4, <1>5 DEF Reader
<1>7. PICK w \in Bytes : w = Joined(parts) /\ Readable(Found(rd, w), 0, parts, ts)
  <2> HIDE DEF rd
  <2> QED
    BY <1>6, ReaderReads
<1>8. ParseCount(Found(rd, w), n, Len(w)) = {ts}
  <2> HIDE DEF rd
  <2> QED
    BY <1>4, <1>7, CountReads
<1>9. Found(rd, w) = [off \in 0..Len(w) |-> ParseTransform(From(w, off))]
  BY FromBytes DEF Found
<1> HIDE DEF rd
<1> QED
  BY <1>1, <1>2, <1>7, <1>8, <1>9 DEF ParseTransforms

\* A proposal takes its declared length.
LEMMA ProposalAdvances ==
    ASSUME NEW s \in Bytes, NEW r \in ParseProposal(s)
    PROVE  r.used \in 1..Len(s)
<1>1. PICK n \in DeclaredLength(s) : \E v : r = Read(v, n)
  BY DEF ParseProposal
<1>2. PICK v : r = Read(v, n)
  BY <1>1
<1>3. r.used = n
  BY <1>2 DEF Read
<1>4. n \in 8..Len(s)
  BY DeclaredBounds
<1> QED
  BY <1>3, <1>4, SMT

\* What a proposal looks like on the wire; its numbers are as they should be if they fit.
LEMMA ProposalWritten ==
    ASSUME NEW p \in Proposals, NEW is_last
    PROVE  \E h \in Bytes, body \in Bytes :
                /\ body = Joined(TransformParts(p.transforms))
                /\ WriteProposal(p, is_last) = h \o (p.spi \o body)
                /\ Len(h) = 8 /\ h[5] = p.num /\ h[6] = p.protocol_id
                /\ 8 + Len(p.spi \o body) \in Words => U16be(h, 2) = 8 + Len(p.spi \o body)
                /\ Len(p.spi) < Octet => h[7] = Len(p.spi)
                /\ Len(p.transforms) < Octet => h[8] = Len(p.transforms)
<1>1. /\ p.num \in Octets /\ p.protocol_id \in Octets /\ p.spi \in Bytes
      /\ p.transforms \in Seq(Transforms)
  BY DEF Proposals
<1>2. PICK body \in Bytes : body = Joined(TransformParts(p.transforms))
  BY <1>1, TransformsRead
<1>3. PICK spi \in Bytes : spi = p.spi
  BY <1>1
<1>4. Len(spi) \in Nat /\ Len(body) \in Nat /\ Len(p.transforms) \in Nat
  BY <1>1, BytesType, LenProperties
<1>5. spi \o body \in Bytes /\ Len(spi \o body) = Len(spi) + Len(body)
  BY ConcatBytes
<1>6. PICK n \in Nat : n = 8 + Len(spi) + Len(body) /\ n = 8 + Len(spi \o body)
  BY <1>4, <1>5, SMT
<1>7. PICK c \in Octets, d \in Octets : U16(n) = <<c, d>> /\ (n \in Words => c * Octet + d = n)
  BY U16Octets
<1>8. PICK g \in Octets : U8(Len(spi)) = <<g>> /\ (Len(spi) < Octet => g = Len(spi))
  BY <1>4, U8Octet
<1>9. PICK i \in Octets : U8(Len(p.transforms)) = <<i>> /\ (Len(p.transforms) < Octet => i = Len(p.transforms))
  BY <1>4, U8Octet
<1>10. PICK a, e, f : a = (IF is_last THEN 0 ELSE 2) /\ e = p.num /\ f = p.protocol_id
  OBVIOUS
<1>11. a \in Octets /\ e \in Octets /\ f \in Octets /\ 0 \in Octets
  <2>1. a = 0 \/ a = 2
    BY <1>10
  <2>2. a \in Octets /\ 0 \in Octets
    BY <2>1, OctetNat, SMT DEF Octets
  <2> QED
    BY <1>1, <1>10, <2>2
<1>12. PICK h : h = <<a, 0>> \o <<c, d>> \o <<e, f>> \o <<g>> \o <<i>>
  OBVIOUS
<1>13. h \in Seq(Octets) /\ Len(h) = 8
  BY <1>11, <1>12, SMT
<1>14. h[3] = c /\ h[4] = d /\ h[5] = e
  BY <1>11, <1>12, SMT
<1>15. h[6] = f /\ h[7] = g /\ h[8] = i
  BY <1>11, <1>12, SMT
<1>16. U16be(h, 2) = h[3] * Octet + h[4]
  BY SMT DEF U16be
<1>17. WriteProposal(p, is_last) = (h \o spi) \o body
  BY <1>2, <1>3, <1>6, <1>7, <1>8, <1>9, <1>10, <1>12 DEF WriteProposal, TransformParts
<1>18. (h \o spi) \o body = h \o (spi \o body)
  BY <1>13, ConcatAssoc DEF Bytes
<1> QED
  <2>1. h \in Bytes /\ Len(h) = 8 /\ h[5] = p.num /\ h[6] = p.protocol_id
    BY <1>10, <1>13, <1>14, <1>15 DEF Bytes
  <2>2. 8 + Len(p.spi \o body) \in Words => U16be(h, 2) = 8 + Len(p.spi \o body)
    BY <1>3, <1>6, <1>7, <1>14, <1>16
  <2>3. /\ Len(p.spi) < Octet => h[7] = Len(p.spi)
        /\ Len(p.transforms) < Octet => h[8] = Len(p.transforms)
    BY <1>3, <1>8, <1>9, <1>15
  <2>4. WriteProposal(p, is_last) = h \o (p.spi \o body)
    BY <1>3, <1>17, <1>18
  <2> QED
    BY <1>2, <2>1, <2>2, <2>3, <2>4

\* The counts and the length of a proposal are not cut.
ProposalFits(p, is_last) ==
    /\ Len(p.spi) < Octet
    /\ Len(p.transforms) < Octet
    /\ Len(WriteProposal(p, is_last)) \in Words

\* A proposal is read back.
LEMMA ProposalRead ==
    ASSUME NEW p \in Proposals, NEW is_last
    PROVE  /\ WriteProposal(p, is_last) \in Bytes
           /\ Len(WriteProposal(p, is_last)) >= 8
           /\ ProposalFits(p, is_last) =>
                \A rest \in Bytes : ParseProposal(WriteProposal(p, is_last) \o rest)
                                        = {Read(p, Len(WriteProposal(p, is_last)))}
<1>1. PICK h \in Bytes, body \in Bytes :
                /\ body = Joined(TransformParts(p.transforms))
                /\ WriteProposal(p, is_last) = h \o (p.spi \o body)
                /\ Len(h) = 8 /\ h[5] = p.num /\ h[6] = p.protocol_id
                /\ 8 + Len(p.spi \o body) \in Words => U16be(h, 2) = 8 + Len(p.spi \o body)
                /\ Len(p.spi) < Octet => h[7] = Len(p.spi)
                /\ Len(p.transforms) < Octet => h[8] = Len(p.transforms)
  BY ProposalWritten
<1>2. p.spi \in Bytes /\ p.transforms \in Seq(Transforms)
  BY DEF Proposals
<1>3. PICK spi \in Bytes : spi = p.spi
  BY <1>2
<1>4. PICK b \in Bytes : b = spi \o body /\ Len(b) = Len(spi) + Len(body)
  <2>1. spi \o body \in Bytes /\ Len(spi \o body) = Len(spi) + Len(body)
    BY ConcatBytes
  <2> QED
    BY <2>1
<1>5. PICK w \in Bytes : w = h \o b /\ Len(w) = 8 + Len(b)
  <2>1. h \o b \in Bytes /\ Len(h \o b) = Len(h) + Len(b)
    BY ConcatBytes
  <2> QED
    BY <1>1, <2>1
<1>6. WriteProposal(p, is_last) = w
  BY <1>1, <1>3, <1>4, <1>5
<1>7. Len(spi) \in Nat /\ Len(body) \in Nat /\ Len(b) \in Nat
  BY BytesType
<1>8. ASSUME ProposalFits(p, is_last), NEW rest \in Bytes
      PROVE  ParseProposal(w \o rest) = {Read(p, Len(w))}
  <2>1. HeadOf(h, b) /\ h[7] = Len(spi) /\ h[8] = Len(p.transforms)
    BY <1>1, <1>3, <1>4, <1>5, <1>6, <1>8 DEF HeadOf, ProposalFits
  <2>2. PICK s : s = (h \o b) \o rest
    OBVIOUS
  <2>3. ReadsHead(s, h, b)
    BY <2>1, <2>2, Headed8
  <2>4. s[5] = p.num /\ s[6] = p.protocol_id /\ s[7] = Len(spi) /\ s[8] = Len(p.transforms)
    <3>1. 5 \in 1..8 /\ 6 \in 1..8 /\ 7 \in 1..8 /\ 8 \in 1..8
      BY SMT
    <3> QED
      BY <1>1, <2>1, <2>3, <3>1 DEF ReadsHead
  <2>5. /\ 0 \in 0..Len(spi) /\ Len(spi) \in 0..Len(b) /\ Len(spi) \in 0..Len(b) /\ Len(b) \in 0..Len(b)
        /\ 8 + 0 = 8
    BY <1>4, <1>7, SMT
  <2>6. Slice(s, 8, 8 + Len(spi)) = spi
    <3>1. Slice(s, 8 + 0, 8 + Len(spi)) = Slice(b, 0, Len(spi))
      BY <2>3, <2>5 DEF ReadsHead
    <3>2. Len(spi) \in 0..Len(spi)
      BY <1>7, SMT
    <3>3. Slice(spi \o body, 0, Len(spi)) = Slice(spi, 0, Len(spi))
      BY <2>5, <3>2, SliceFirst
    <3> QED
      BY <1>4, <2>5, <3>1, <3>3, SliceAll
  <2>7. Slice(s, 8 + Len(spi), 8 + Len(b)) = body
    <3>1. Slice(s, 8 + Len(spi), 8 + Len(b)) = Slice(b, Len(spi), Len(b))
      BY <2>3, <2>5 DEF ReadsHead
    <3>2. From(spi \o body, Len(spi)) = body
      BY FromConcat
    <3> QED
      BY <1>4, <3>1, <3>2, FromSlice
  <2>8. {m \in DeclaredLength(s) : 8 + s[7] <= m} = {8 + Len(b)}
    <3>1. DeclaredLength(s) = {8 + Len(b)}
      BY <2>3 DEF ReadsHead
    <3>2. 8 + Len(spi) <= 8 + Len(b)
      BY <1>4, <1>7, SMT
    <3> QED
      BY <2>4, <3>1, <3>2
  <2> DEFINE v(ts) == [num |-> s[5], protocol_id |-> s[6], spi |-> Slice(s, 8, 8 + s[7]), transforms |-> ts]
             F(n) == {Read(v(ts), n) : ts \in ParseTransforms(s[8], Slice(s, 8 + s[7], n))}
  <2>9. v(p.transforms) = p
    <3>1. p = [num |-> p.num, protocol_id |-> p.protocol_id, spi |-> p.spi, transforms |-> p.transforms]
      BY SMT DEF Proposals
    <3> QED
      BY <1>3, <2>4, <2>6, <3>1
  <2>10. ParseProposal(s) = UNION {F(n) : n \in {m \in DeclaredLength(s) : 8 + s[7] <= m}}
    BY DEF ParseProposal
  <2>11. ParseTransforms(s[8], body) = {p.transforms}
    BY <1>1, <1>2, <2>4, TransformsRead
  <2> HIDE DEF v
  <2>12. F(8 + Len(b)) = {Read(p, 8 + Len(b))}
    BY <2>4, <2>7, <2>9, <2>11
  <2> HIDE DEF F
  <2>13. ParseProposal(s) = {Read(p, 8 + Len(b))}
    BY <2>8, <2>10, <2>12
  <2> QED
    BY <1>5, <2>2, <2>13
<1>9. Len(w) >= 8
  BY <1>5, <1>7, SMT
<1> QED
  BY <1>6, <1>8, <1>9

-----------------------------------------------------------------------------
(* Security associations *)

\* The proposals as written.
ProposalParts(ps) == [i \in DOMAIN ps |-> WriteProposal(ps[i], i = Len(ps))]

\* A part is no longer than the parts joined.
LEMMA PartLength ==
    ASSUME NEW parts \in Seq(Bytes), NEW i \in 1..Len(parts)
    PROVE  Len(parts[i]) \in Nat /\ Len(parts[i]) <= Len(Joined(parts))
<1>1. PICK w \in Bytes : w = Joined(parts) /\ \E off : Offsets(parts, w, off)
  BY JoinedOffsets
<1>2. PICK off : Offsets(parts, w, off)
  BY <1>1
<1>3. parts[i] \in Bytes /\ Len(parts) \in Nat
  BY ElementOfSeq, LenProperties
<1>4. i - 1 \in 0..Len(parts) /\ i \in 0..Len(parts)
  BY <1>3, SMT
<1>5. off[i] = off[i - 1] + Len(parts[i]) /\ off[i - 1] \in 0..Len(w) /\ off[i] \in 0..Len(w)
  BY <1>2, <1>4 DEF Offsets
<1>6. Len(parts[i]) \in Nat /\ Len(w) \in Nat
  BY <1>3, BytesType
<1>7. Len(parts[i]) <= Len(w)
  BY <1>5, <1>6, SMT
<1> QED
  BY <1>1, <1>6, <1>7

\* A list of strings.
LEMMA PartsSeq ==
    ASSUME NEW n \in Nat, NEW f, f = [i \in 1..n |-> f[i]], \A i \in 1..n : f[i] \in Bytes
    PROVE  f \in Seq(Bytes) /\ Len(f) = n
<1>1. f \in [1..n -> Bytes]
  BY SMT
<1> QED
  BY <1>1, SeqDef, LenProperties, SMT

\* The proposals on the wire are octets, whatever their lengths.
LEMMA ProposalPartsType ==
    ASSUME NEW ps \in Seq(Proposals)
    PROVE  /\ ProposalParts(ps) \in Seq(Bytes) /\ Len(ProposalParts(ps)) = Len(ps)
           /\ \A i \in 1..Len(ps) : ProposalParts(ps)[i] = WriteProposal(ps[i], i = Len(ps))
           /\ Joined(ProposalParts(ps)) \in Bytes
<1>1. PICK n \in Nat : n = Len(ps) /\ DOMAIN ps = 1..n
  BY LenProperties
<1>2. PICK parts : parts = ProposalParts(ps)
  OBVIOUS
<1>3. parts = [i \in 1..n |-> parts[i]] /\ \A i \in 1..n : parts[i] = WriteProposal(ps[i], i = n)
  BY <1>1, <1>2 DEF ProposalParts
<1>4. \A i \in 1..n : ps[i] \in Proposals
  BY <1>1, ElementOfSeq
<1>5. ASSUME NEW i \in 1..n PROVE parts[i] \in Bytes
  <2>1. PICK p \in Proposals : p = ps[i]
    BY <1>4
  <2>2. PICK l : l = (i = n)
    OBVIOUS
  <2>3. parts[i] = WriteProposal(p, l)
    BY <1>3, <2>1, <2>2
  <2>4. WriteProposal(p, l) \in Bytes
    BY ProposalRead
  <2> QED
    BY <2>3, <2>4
<1>6. parts \in Seq(Bytes) /\ Len(parts) = n
  BY <1>3, <1>5, PartsSeq
<1>7. Joined(parts) \in Bytes
  BY <1>6, JoinedOffsets
<1> QED
  BY <1>1, <1>2, <1>3, <1>6, <1>7

\* A Security Association is read back.
LEMMA SaRead ==
    ASSUME NEW ps \in Seq(Proposals), Len(Joined(ProposalParts(ps))) \in Words,
           \A i \in 1..Len(ps) : Len(ps[i].spi) < Octet /\ Len(ps[i].transforms) < Octet
    PROVE  ParseSa(Joined(ProposalParts(ps))) = {[proposals |-> ps]}
<1>1. PICK n \in Nat : n = Len(ps)
  BY LenProperties
<1>2. PICK parts \in Seq(Bytes) : parts = ProposalParts(ps) /\ Len(parts) = n
  BY <1>1, ProposalPartsType
<1> DEFINE rd == [s \in Bytes |-> ParseProposal(s)]
<1>3. ASSUME NEW i \in 1..n
      PROVE  /\ Len(parts[i]) >= 1
             /\ \A rest \in Bytes : rd[parts[i] \o rest] = {Read(ps[i], Len(parts[i]))}
  <2>1. PICK p \in Proposals : p = ps[i]
    BY <1>1, ElementOfSeq
  <2>2. PICK x, l : x = WriteProposal(p, l) /\ l = (i = Len(ps))
    OBVIOUS
  <2>3. parts[i] = x
    BY <1>1, <1>2, <2>1, <2>2, ProposalPartsType
  <2>4. Len(x) \in Nat /\ Len(x) <= Len(Joined(parts))
    BY <1>2, <2>3, PartLength
  <2>5. Len(x) \in Words
    <3>1. Len(Joined(parts)) \in Words
      BY <1>2
    <3>2. PICK k, m : k = Len(x) /\ m = Len(Joined(parts))
      OBVIOUS
    <3>3. k \in Nat /\ k <= m /\ m \in Words
      BY <2>4, <3>1, <3>2
    <3>4. k \in Words
      BY <3>3, WordsBig, SMT DEF Words
    <3> QED
      BY <3>2, <3>4
  <2>6. ProposalFits(p, l)
    BY <1>1, <2>1, <2>2, <2>5 DEF ProposalFits
  <2>7. /\ x \in Bytes /\ Len(x) >= 8
        /\ \A rest \in Bytes : ParseProposal(x \o rest) = {Read(p, Len(x))}
    <3>1. /\ WriteProposal(p, l) \in Bytes /\ Len(WriteProposal(p, l)) >= 8
          /\ ProposalFits(p, l) =>
                \A rest \in Bytes : ParseProposal(WriteProposal(p, l) \o rest)
                                        = {Read(p, Len(WriteProposal(p, l)))}
      BY ProposalRead
    <3> QED
      BY <2>2, <2>6, <3>1
  <2>8. \A rest \in Bytes : x \o rest \in Bytes
    BY <2>7, ConcatBytes
  <2>9. Len(x) >= 1
    BY <2>4, <2>7, SMT
  <2> QED
    BY <2>1, <2>3, <2>7, <2>8, <2>9
<1>4. \A s \in Bytes : \A r \in rd[s] : r.used \in 1..Len(s)
  BY ProposalAdvances
<1>5. Reader(rd, 1, parts, ps)
  <2> HIDE DEF rd
  <2> QED
    BY <1>1, <1>2, <1>3, <1>4 DEF Reader
<1>6. PICK w \in Bytes : w = Joined(parts) /\ Readable(Found(rd, w), 1, parts, ps)
  <2> HIDE DEF rd
  <2> QED
    BY <1>5, ReaderReads
<1>7. ParseWhile(Found(rd, w), 1, Len(w)) = {ps}
  <2>1. 1 \in Nat \ {0}
    BY SMT
  <2> HIDE DEF rd
  <2> QED
    BY <1>6, <2>1, WhileReads
<1>8. Found(rd, w) = [off \in 0..Len(w) |-> ParseProposal(From(w, off))]
  BY FromBytes DEF Found
<1> HIDE DEF rd
<1>9. ParseSa(w) = {[proposals |-> x] : x \in {ps}}
  BY <1>7, <1>8 DEF ParseSa
<1> QED
  BY <1>2, <1>6, <1>9

-----------------------------------------------------------------------------
(* Traffic selectors *)

\* A selector takes its declared length.
LEMMA SelectorAdvances ==
    ASSUME NEW s \in Bytes, NEW r \in ParseSelector(s)
    PROVE  r.used \in 1..Len(s)
<1>1. PICK n \in DeclaredLength(s) : \E v : r = Read(v, n)
  BY DEF ParseSelector
<1>2. PICK v : r = Read(v, n)
  BY <1>1
<1>3. r.used = n
  BY <1>2 DEF Read
<1>4. n \in 8..Len(s)
  BY DeclaredBounds
<1> QED
  BY <1>3, <1>4, SMT

\* What a selector looks like on the wire.
LEMMA SelectorWritten ==
    ASSUME NEW t \in Selectors
    PROVE  \E h \in Bytes :
                /\ WriteSelector(t) = h \o (t.start_addr \o t.end_addr)
                /\ Len(h) = 8 /\ h[1] = t.ts_type /\ h[2] = t.ip_protocol
                /\ U16be(h, 4) = t.start_port /\ U16be(h, 6) = t.end_port
                /\ 8 + Len(t.start_addr \o t.end_addr) \in Words
                        => U16be(h, 2) = 8 + Len(t.start_addr \o t.end_addr)
<1>1. /\ t.ts_type \in Octets /\ t.ip_protocol \in Octets /\ t.start_port \in Words /\ t.end_port \in Words
      /\ t.start_addr \in Bytes /\ t.end_addr \in Bytes
  BY DEF Selectors
<1>2. PICK x \in Bytes, y \in Bytes : x = t.start_addr /\ y = t.end_addr
  BY <1>1
<1>3. Len(x) \in Nat /\ Len(y) \in Nat /\ Len(x \o y) = Len(x) + Len(y)
  BY BytesType, ConcatBytes
<1>4. PICK n \in Nat : n = 8 + Len(x) + Len(y) /\ n = 8 + Len(x \o y)
  BY <1>3, SMT
<1>5. PICK c \in Octets, d \in Octets : U16(n) = <<c, d>> /\ (n \in Words => c * Octet + d = n)
  BY U16Octets
<1>6. PICK e \in Octets, f \in Octets : U16(t.start_port) = <<e, f>> /\ e * Octet + f = t.start_port
  BY <1>1, WordsNat, U16Octets
<1>7. PICK g \in Octets, i \in Octets : U16(t.end_port) = <<g, i>> /\ g * Octet + i = t.end_port
  BY <1>1, WordsNat, U16Octets
<1>8. PICK a \in Octets, b \in Octets : a = t.ts_type /\ b = t.ip_protocol
  BY <1>1
<1>9. PICK h : h = <<a, b>> \o <<c, d>> \o <<e, f>> \o <<g, i>>
  OBVIOUS
<1>10. h \in Seq(Octets) /\ Len(h) = 8
  BY <1>9, SMT
<1>11. h[1] = a /\ h[2] = b /\ h[3] = c /\ h[4] = d
  BY <1>9, SMT
<1>12. h[5] = e /\ h[6] = f /\ h[7] = g /\ h[8] = i
  BY <1>9, SMT
<1>13. /\ U16be(h, 2) = h[3] * Octet + h[4] /\ U16be(h, 4) = h[5] * Octet + h[6]
       /\ U16be(h, 6) = h[7] * Octet + h[8]
  BY SMT DEF U16be
<1>14. WriteSelector(t) = (h \o x) \o y
  BY <1>2, <1>4, <1>5, <1>6, <1>7, <1>8, <1>9 DEF WriteSelector
<1>15. (h \o x) \o y = h \o (x \o y)
  BY <1>10, ConcatAssoc DEF Bytes
<1>16. U16be(h, 4) = t.start_port /\ U16be(h, 6) = t.end_port
  BY <1>6, <1>7, <1>12, <1>13
<1>17. 8 + Len(x \o y) \in Words => U16be(h, 2) = 8 + Len(x \o y)
  BY <1>4, <1>5, <1>11, <1>13
<1>18. h \in Bytes /\ Len(h) = 8 /\ h[1] = t.ts_type /\ h[2] = t.ip_protocol
  BY <1>8, <1>10, <1>11 DEF Bytes
<1>19. WriteSelector(t) = h \o (t.start_addr \o t.end_addr)
  BY <1>2, <1>14, <1>15
<1> QED
  BY <1>2, <1>16, <1>17, <1>18, <1>19

\* The lengths of a selector can be carried.
SelectorFits(t) == Len(t.start_addr) = Len(t.end_addr) /\ Len(WriteSelector(t)) \in Words

\* A selector is read back, whatever follows it.
LEMMA SelectorRead ==
    ASSUME NEW t \in Selectors
    PROVE  /\ WriteSelector(t) \in Bytes
           /\ Len(WriteSelector(t)) >= 8
           /\ SelectorFits(t) =>
                \A rest \in Bytes : ParseSelector(WriteSelector(t) \o rest)
                                        = {Read(t, Len(WriteSelector(t)))}
<1>1. PICK h \in Bytes :
                /\ WriteSelector(t) = h \o (t.start_addr \o t.end_addr)
                /\ Len(h) = 8 /\ h[1] = t.ts_type /\ h[2] = t.ip_protocol
                /\ U16be(h, 4) = t.start_port /\ U16be(h, 6) = t.end_port
                /\ 8 + Len(t.start_addr \o t.end_addr) \in Words
                        => U16be(h, 2) = 8 + Len(t.start_addr \o t.end_addr)
  BY SelectorWritten
<1>2. t.start_addr \in Bytes /\ t.end_addr \in Bytes
  BY DEF Selectors
<1>3. PICK x \in Bytes, y \in Bytes : x = t.start_addr /\ y = t.end_addr
  BY <1>2
<1>4. PICK b \in Bytes : b = x \o y /\ Len(b) = Len(x) + Len(y)
  <2>1. x \o y \in Bytes /\ Len(x \o y) = Len(x) + Len(y)
    BY ConcatBytes
  <2> QED
    BY <2>1
<1>5. PICK w \in Bytes : w = h \o b /\ Len(w) = 8 + Len(b)
  <2>1. h \o b \in Bytes /\ Len(h \o b) = Len(h) + Len(b)
    BY ConcatBytes
  <2> QED
    BY <1>1, <2>1
<1>6. WriteSelector(t) = w
  BY <1>1, <1>3, <1>4, <1>5
<1>7. Len(x) \in Nat /\ Len(y) \in Nat /\ Len(b) \in Nat
  BY BytesType
<1>8. ASSUME SelectorFits(t), NEW rest \in Bytes
      PROVE  ParseSelector(w \o rest) = {Read(t, Len(w))}
  <2>1. HeadOf(h, b) /\ Len(x) = Len(y)
    BY <1>1, <1>3, <1>4, <1>5, <1>6, <1>8 DEF HeadOf, SelectorFits
  <2>2. PICK s : s = (h \o b) \o rest
    OBVIOUS
  <2>3. ReadsHead(s, h, b)
    <3>1. HeadOf(h, b)
      BY <2>1
    <3> QED
      BY <2>2, <3>1, Headed8
  <2>4. s[1] = t.ts_type /\ s[2] = t.ip_protocol /\ U16be(s, 4) = t.start_port /\ U16be(s, 6) = t.end_port
    <3>1. 1 \in 1..8 /\ 2 \in 1..8 /\ 5 \in 1..8 /\ 6 \in 1..8 /\ 7 \in 1..8 /\ 8 \in 1..8
      BY SMT
    <3>2. \A q : U16be(q, 4) = q[5] * Octet + q[6] /\ U16be(q, 6) = q[7] * Octet + q[8]
      BY SMT DEF U16be
    <3>3. \A i \in 1..8 : s[i] = h[i]
      BY <2>3 DEF ReadsHead
    <3> QED
      BY <1>1, <3>1, <3>2, <3>3, SMT
  <2>5. 0 \in 0..Len(x) /\ Len(x) \in 0..Len(b) /\ Len(b) \in 0..Len(b) /\ 8 + 0 = 8
    BY <1>4, <1>7, SMT
  <2>6. Slice(s, 8, 8 + Len(x)) = x
    <3>1. Slice(s, 8 + 0, 8 + Len(x)) = Slice(b, 0, Len(x))
      BY <2>3, <2>5 DEF ReadsHead
    <3>2. Len(x) \in 0..Len(x)
      BY <1>7, SMT
    <3>3. Slice(x \o y, 0, Len(x)) = Slice(x, 0, Len(x))
      BY <2>5, <3>2, SliceFirst
    <3> QED
      BY <1>4, <2>5, <3>1, <3>3, SliceAll
  <2>7. Slice(s, 8 + Len(x), 8 + Len(b)) = y
    <3>1. Slice(s, 8 + Len(x), 8 + Len(b)) = Slice(b, Len(x), Len(b))
      BY <2>3, <2>5 DEF ReadsHead
    <3>2. From(x \o y, Len(x)) = y
      BY FromConcat
    <3> QED
      BY <1>4, <3>1, <3>2, FromSlice
  <2>8. PICK n : n = 8 + Len(b)
    OBVIOUS
  <2>9. (n - 8) % 2 = 0 /\ (n - 8) \div 2 = Len(x)
    <3>1. PICK k \in Nat : k = Len(x)
      BY <1>7
    <3>2. n - 8 = 2 * k
      BY <1>4, <1>7, <2>1, <2>8, <3>1, SMT
    <3>3. (2 * k) % 2 = 0 /\ (2 * k) \div 2 = k
      BY SMT
    <3> QED
      BY <3>1, <3>2, <3>3
  <2>10. {m \in DeclaredLength(s) : (m - 8) % 2 = 0} = {n}
    <3>1. DeclaredLength(s) = {n}
      BY <2>3, <2>8 DEF ReadsHead
    <3> QED
      BY <2>9, <3>1
  <2> DEFINE F(m) == LET half == (m - 8) \div 2 IN
        Read([ts_type |-> s[1], ip_protocol |-> s[2], start_port |-> U16be(s, 4), end_port |-> U16be(s, 6),
              start_addr |-> Slice(s, 8, 8 + half), end_addr |-> Slice(s, 8 + half, m)], m)
  <2>11. ParseSelector(s) = {F(m) : m \in {m \in DeclaredLength(s) : (m - 8) % 2 = 0}}
    BY DEF ParseSelector
  <2>12. F(n) = Read(t, n)
    <3>1. t = [ts_type |-> t.ts_type, ip_protocol |-> t.ip_protocol, start_port |-> t.start_port,
               end_port |-> t.end_port, start_addr |-> t.start_addr, end_addr |-> t.end_addr]
      BY SMT DEF Selectors
    <3> QED
      BY <1>3, <2>4, <2>6, <2>7, <2>8, <2>9, <3>1
  <2> HIDE DEF F
  <2>13. ParseSelector(s) = {Read(t, n)}
    <3>1. PICK S : S = {m \in DeclaredLength(s) : (m - 8) % 2 = 0}
      OBVIOUS
    <3>2. ParseSelector(s) = {F(m) : m \in S} /\ S = {n}
      BY <2>10, <2>11, <3>1
    <3>3. \A f : f \in {F(m) : m \in S} <=> f \in {Read(t, n)}
      BY <2>12, <3>2
    <3> QED
      BY <3>2, <3>3, SMT
  <2> QED
    BY <1>5, <2>2, <2>8, <2>13
<1>9. Len(w) >= 8
  BY <1>5, <1>7, SMT
<1> QED
  BY <1>6, <1>8, <1>9

-----------------------------------------------------------------------------
(* Configuration attributes *)

\* An attribute takes at least its head.
LEMMA ConfigAttrAdvances ==
    ASSUME NEW s \in Bytes, NEW r \in ParseConfigAttr(s)
    PROVE  r.used \in 1..Len(s)
<1>1. PICK n \in {m \in {IF Len(s) < 4 THEN Len(s) + 1 ELSE 4 + U16be(s, 2)} : m <= Len(s)} :
            \E v : r = Read(v, n)
  BY DEF ParseConfigAttr
<1>2. r.used = n
  <2>1. PICK v : r = Read(v, n)
    BY <1>1
  <2> QED
    BY <2>1 DEF Read
<1>3. n <= Len(s) /\ n = IF Len(s) < 4 THEN Len(s) + 1 ELSE 4 + U16be(s, 2)
  BY <1>1
<1>4. Len(s) \in Nat
  BY BytesType
<1>5. ~(Len(s) < 4)
  BY <1>3, <1>4, SMT
<1>6. s[3] \in Octets /\ s[4] \in Octets
  <2>1. 3 \in 1..Len(s) /\ 4 \in 1..Len(s)
    BY <1>4, <1>5, SMT
  <2> QED
    BY <2>1, BytesType
<1>7. U16be(s, 2) \in Nat
  <2>1. U16be(s, 2) = s[3] * Octet + s[4]
    BY SMT DEF U16be
  <2>2. PICK u \in Nat, w \in Nat : u = s[3] /\ w = s[4]
    BY <1>6, OctetNat, SMT DEF Octets
  <2>3. u * Octet + w \in Nat
    BY OctetNat, SMT
  <2> QED
    BY <2>1, <2>2, <2>3
<1>8. n = 4 + U16be(s, 2)
  BY <1>3, <1>5
<1>9. n \in 1..Len(s)
  BY <1>3, <1>4, <1>7, <1>8, SMT
<1> QED
  BY <1>2, <1>9

\* Half of u16 tells the two forms of an attribute apart.
LEMMA FormatHalf == FormatTv \in Nat /\ FormatTv >= 1 /\ FormatTv <= Octet * Octet - 1
<1>1. PICK n \in Nat : n = Octet * Octet /\ n >= 256
  BY WordsBig
<1>2. n \div 2 \in Nat /\ n \div 2 >= 1 /\ n \div 2 <= n - 1
  BY <1>1, SMT
<1> QED
  BY <1>1, <1>2 DEF FormatTv

\* The lengths of a configuration attribute can be carried.
ConfigAttrFits(a) == a.attr_type < FormatTv /\ Len(WriteConfigAttr(a)) \in Words

\* A configuration attribute is read back, whatever follows it.
LEMMA ConfigAttrRead ==
    ASSUME NEW a \in ConfigAttrs
    PROVE  /\ WriteConfigAttr(a) \in Bytes
           /\ Len(WriteConfigAttr(a)) >= 4
           /\ ConfigAttrFits(a) =>
                \A rest \in Bytes : ParseConfigAttr(WriteConfigAttr(a) \o rest)
                                        = {Read(a, Len(WriteConfigAttr(a)))}
<1>1. PICK x \in Words, b \in Bytes : x = a.attr_type /\ b = a.value
  BY DEF ConfigAttrs
<1>2. PICK m \in Nat : m = FormatTv /\ m >= 1 /\ m <= Octet * Octet - 1
  BY FormatHalf
<1>3. PICK t : t = x % m
  OBVIOUS
<1>4. t \in Nat /\ t \in Words /\ (x < m => t = x) /\ t < m
  <2>1. x \in Nat
    BY WordsNat
  <2>2. x % m \in 0..(m - 1) /\ (x < m => x % m = x)
    BY <1>2, <2>1, SMT
  <2>3. PICK big \in Nat : big = Octet * Octet
    BY WordsBig
  <2>4. m <= big - 1 /\ Words = 0..(big - 1)
    BY <1>2, <2>3 DEF Words
  <2> QED
    BY <1>2, <1>3, <2>1, <2>2, <2>4, SMT
<1>5. PICK n \in Nat : n = Len(b)
  BY BytesType
<1>6. PICK c \in Octets, d \in Octets : U16(t) = <<c, d>> /\ c * Octet + d = t
  BY <1>4, U16Octets
<1>7. PICK e \in Octets, f \in Octets : U16(n) = <<e, f>> /\ (n \in Words => e * Octet + f = n)
  BY U16Octets
<1>8. PICK h : h = <<c, d>> \o <<e, f>>
  OBVIOUS
<1>9. h \in Seq(Octets) /\ Len(h) = 4 /\ h[1] = c /\ h[2] = d /\ h[3] = e /\ h[4] = f
  BY <1>8, SMT
<1>10. PICK w \in Bytes : w = h \o b /\ Len(w) = 4 + n
  <2>1. h \o b \in Bytes /\ Len(h \o b) = Len(h) + Len(b)
    BY <1>9, ConcatBytes DEF Bytes
  <2> QED
    BY <1>5, <1>9, <2>1
<1>11. WriteConfigAttr(a) = w
  BY <1>1, <1>2, <1>3, <1>5, <1>6, <1>7, <1>8, <1>10 DEF WriteConfigAttr
<1>12. ASSUME ConfigAttrFits(a), NEW rest \in Bytes
       PROVE  ParseConfigAttr(w \o rest) = {Read(a, Len(w))}
  <2>1. x < m /\ 4 + n \in Words
    BY <1>1, <1>2, <1>10, <1>11, <1>12 DEF ConfigAttrFits
  <2>2. t = x /\ n \in Words
    BY <1>4, <2>1, WordsBig, SMT DEF Words
  <2>3. PICK s \in Bytes : s = w \o rest /\ Len(s) = Len(w) + Len(rest) /\ \A i \in 1..Len(w) : s[i] = w[i]
    <3>1. w \o rest \in Bytes /\ Len(w \o rest) = Len(w) + Len(rest) /\ \A i \in 1..Len(w) : (w \o rest)[i] = w[i]
      BY ConcatBytes
    <3> QED
      BY <3>1
  <2>4. \A i \in 1..4 : s[i] = h[i]
    <3>1. \A i \in 1..Len(h) : w[i] = h[i]
      BY <1>9, <1>10, ConcatBytes DEF Bytes
    <3>2. \A i \in 1..4 : i \in 1..Len(h) /\ i \in 1..Len(w)
      BY <1>9, <1>10, SMT
    <3> QED
      BY <2>3, <3>1, <3>2
  <2>5. s[1] = c /\ s[2] = d /\ s[3] = e /\ s[4] = f
    <3>1. 1 \in 1..4 /\ 2 \in 1..4 /\ 3 \in 1..4 /\ 4 \in 1..4
      BY SMT
    <3> QED
      BY <1>9, <2>4, <3>1
  <2>6. U16be(s, 0) = x /\ U16be(s, 2) = n
    <3>1. U16be(s, 0) = s[1] * Octet + s[2] /\ U16be(s, 2) = s[3] * Octet + s[4]
      BY SMT DEF U16be
    <3> QED
      BY <1>6, <1>7, <2>2, <2>5, <3>1
  <2>7. Slice(s, 4, 4 + n) = b
    <3>1. 4 + n \in 0..Len(w) /\ 4 \in 0..(4 + n)
      BY <1>10, SMT
    <3>2. PICK k : k = 4 + n
      OBVIOUS
    <3>3. Slice(w \o rest, 4, k) = Slice(w, 4, k)
      BY <3>1, <3>2, SliceFirst
    <3>4. From(h \o b, Len(h)) = b
      BY <1>9, FromConcat DEF Bytes
    <3> QED
      BY <1>9, <1>10, <2>3, <3>2, <3>3, <3>4, FromSlice
  <2>8. ~(Len(s) < 4) /\ 4 + n <= Len(s)
    <3>1. Len(rest) \in Nat
      BY BytesType
    <3> QED
      BY <1>10, <2>3, <3>1, SMT
  <2> DEFINE F(k) == Read([attr_type |-> U16be(s, 0) % FormatTv, value |-> Slice(s, 4, k)], k)
             S == {k \in {IF Len(s) < 4 THEN Len(s) + 1 ELSE 4 + U16be(s, 2)} : k <= Len(s)}
  <2>9. S = {4 + n}
    BY <2>6, <2>8
  <2>10. ParseConfigAttr(s) = {F(k) : k \in S}
    BY DEF ParseConfigAttr
  <2>11. F(4 + n) = Read(a, 4 + n)
    <3>1. a = [attr_type |-> a.attr_type, value |-> a.value]
      BY SMT DEF ConfigAttrs
    <3> QED
      BY <1>1, <1>2, <1>3, <2>2, <2>6, <2>7, <3>1
  <2> HIDE DEF F, S
  <2>12. \A z : z \in {F(k) : k \in S} <=> z \in {Read(a, 4 + n)}
    BY <2>9, <2>11
  <2>13. ParseConfigAttr(s) = {Read(a, 4 + n)}
    BY <2>10, <2>12, SMT
  <2> QED
    BY <1>10, <2>3, <2>13
<1>13. Len(w) >= 4
  BY <1>10, SMT
<1> QED
  BY <1>11, <1>12, <1>13

-----------------------------------------------------------------------------
(* Bodies with a head of four octets *)

\* Reserved octets are zero.
LEMMA ReservedOctets ==
    /\ Reserved(2) = <<0, 0>> /\ Reserved(3) = <<0, 0, 0>>
    /\ 0 \in Octets
<1>1. Reserved(2) = <<0, 0>> /\ Reserved(3) = <<0, 0, 0>>
  BY SMT DEF Reserved
<1>2. 0 \in Octets
  BY OctetNat, SMT DEF Octets
<1> QED
  BY <1>1, <1>2

\* s is four octets and a rest.
Head4Of(s, h, b) == h \in Bytes /\ b \in Bytes /\ Len(h) = 4 /\ s = h \o b

\* Both are found.
LEMMA Headed4 ==
    ASSUME NEW s, NEW h, NEW b, Head4Of(s, h, b)
    PROVE  /\ s \in Bytes /\ Len(s) = 4 + Len(b) /\ Len(b) \in Nat /\ ~(Len(s) < 4)
           /\ s[1] = h[1] /\ s[2] = h[2] /\ s[3] = h[3] /\ s[4] = h[4]
           /\ From(s, 4) = b
<1>1. h \in Bytes /\ b \in Bytes /\ Len(h) = 4 /\ s = h \o b
  BY DEF Head4Of
<1>2. s \in Bytes /\ Len(s) = Len(h) + Len(b) /\ \A i \in 1..Len(h) : s[i] = h[i]
  BY <1>1, ConcatBytes
<1>3. From(s, 4) = b
  BY <1>1, FromConcat
<1>4. Len(b) \in Nat
  BY <1>1, BytesType
<1>5. Len(s) = 4 + Len(b) /\ ~(Len(s) < 4) /\ 1 \in 1..Len(h) /\ 2 \in 1..Len(h) /\ 3 \in 1..Len(h) /\ 4 \in 1..Len(h)
  BY <1>1, <1>2, <1>4, SMT
<1> QED
  BY <1>2, <1>3, <1>4, <1>5

\* A Key Exchange is read back.
LEMMA KeRead ==
    ASSUME NEW v \in [dh_group : Words, data : Bytes]
    PROVE  WriteKe(v) \in Bytes /\ ParseKe(WriteKe(v)) = {v}
<1>1. PICK x \in Words, b \in Bytes : x = v.dh_group /\ b = v.data
  OBVIOUS
<1>2. PICK c \in Octets, d \in Octets : U16(x) = <<c, d>> /\ c * Octet + d = x
  BY WordsNat, U16Octets
<1>3. PICK h : h = <<c, d>> \o <<0, 0>>
  OBVIOUS
<1>4. h \in Bytes /\ Len(h) = 4 /\ h[1] = c /\ h[2] = d
  <2>1. h \in Seq(Octets) /\ Len(h) = 4 /\ h[1] = c /\ h[2] = d
    BY <1>3, ReservedOctets, SMT
  <2> QED
    BY <2>1 DEF Bytes
<1>5. PICK s : s = h \o b
  OBVIOUS
<1>6. WriteKe(v) = s
  BY <1>1, <1>2, <1>3, <1>5, ReservedOctets DEF WriteKe
<1>7. Head4Of(s, h, b)
  BY <1>4, <1>5 DEF Head4Of
<1>8. s \in Bytes /\ ~(Len(s) < 4) /\ s[1] = h[1] /\ s[2] = h[2] /\ From(s, 4) = b
  BY <1>7, Headed4, SMT
<1>9. U16be(s, 0) = x
  <2>1. U16be(s, 0) = s[1] * Octet + s[2]
    BY SMT DEF U16be
  <2> QED
    BY <1>2, <1>4, <1>8, <2>1
<1>10. v = [dh_group |-> v.dh_group, data |-> v.data]
  BY SMT
<1> QED
  BY <1>1, <1>6, <1>8, <1>9, <1>10 DEF ParseKe, Needs

\* A string that starts with one octet and three reserved ones.
LEMMA OneAndReserved ==
    ASSUME NEW x \in Octets, NEW b \in Bytes
    PROVE  \E s \in Bytes : /\ s = <<x>> \o Reserved(3) \o b
                            /\ Len(s) = 4 + Len(b) /\ ~(Len(s) < 4) /\ s[1] = x /\ From(s, 4) = b
<1>1. PICK h : h = <<x>> \o <<0, 0, 0>>
  OBVIOUS
<1>2. h \in Bytes /\ Len(h) = 4 /\ h[1] = x
  <2>1. h \in Seq(Octets) /\ Len(h) = 4 /\ h[1] = x
    BY <1>1, ReservedOctets, SMT
  <2> QED
    BY <2>1 DEF Bytes
<1>3. PICK s : s = h \o b
  OBVIOUS
<1>4. Head4Of(s, h, b)
  BY <1>2, <1>3 DEF Head4Of
<1>5. s \in Bytes /\ Len(s) = 4 + Len(b) /\ ~(Len(s) < 4) /\ s[1] = h[1] /\ From(s, 4) = b
  BY <1>4, Headed4, SMT
<1>6. s = <<x>> \o Reserved(3) \o b
  BY <1>1, <1>3, ReservedOctets
<1> QED
  BY <1>2, <1>5, <1>6

\* An identification is read back.
LEMMA IdRead ==
    ASSUME NEW v \in [id_type : Octets, data : Bytes]
    PROVE  WriteId(v) \in Bytes /\ ParseId(WriteId(v)) = {v}
<1>1. PICK x \in Octets, b \in Bytes : x = v.id_type /\ b = v.data
  OBVIOUS
<1>2. PICK s \in Bytes : s = <<x>> \o Reserved(3) \o b /\ ~(Len(s) < 4) /\ s[1] = x /\ From(s, 4) = b
  BY OneAndReserved
<1>3. v = [id_type |-> v.id_type, data |-> v.data]
  BY SMT
<1>4. WriteId(v) = s
  BY <1>1, <1>2 DEF WriteId
<1> QED
  BY <1>1, <1>2, <1>3, <1>4 DEF ParseId, Needs

\* An authentication payload is read back.
LEMMA AuthRead ==
    ASSUME NEW v \in [method : Octets, data : Bytes]
    PROVE  WriteAuth(v) \in Bytes /\ ParseAuth(WriteAuth(v)) = {v}
<1>1. PICK x \in Octets, b \in Bytes : x = v.method /\ b = v.data
  OBVIOUS
<1>2. PICK s \in Bytes : s = <<x>> \o Reserved(3) \o b /\ ~(Len(s) < 4) /\ s[1] = x /\ From(s, 4) = b
  BY OneAndReserved
<1>3. v = [method |-> v.method, data |-> v.data]
  BY SMT
<1>4. WriteAuth(v) = s
  BY <1>1, <1>2 DEF WriteAuth
<1> QED
  BY <1>1, <1>2, <1>3, <1>4 DEF ParseAuth, Needs

\* One octet before a string.
LEMMA OneOctet ==
    ASSUME NEW x \in Octets, NEW b \in Bytes
    PROVE  \E s \in Bytes : /\ s = <<x>> \o b
                            /\ Len(s) = 1 + Len(b) /\ ~(Len(s) < 1) /\ s[1] = x /\ From(s, 1) = b
<1>1. PICK h : h = <<x>>
  OBVIOUS
<1>2. h \in Bytes /\ Len(h) = 1 /\ h[1] = x
  BY <1>1, Single
<1>3. PICK s : s = h \o b
  OBVIOUS
<1>4. s \in Bytes /\ Len(s) = Len(h) + Len(b) /\ \A i \in 1..Len(h) : s[i] = h[i]
  BY <1>2, <1>3, ConcatBytes
<1>5. From(s, 1) = b
  BY <1>2, <1>3, FromConcat
<1>6. Len(b) \in Nat
  BY BytesType
<1>7. Len(s) = 1 + Len(b) /\ ~(Len(s) < 1) /\ 1 \in 1..Len(h)
  BY <1>2, <1>4, <1>6, SMT
<1> QED
  BY <1>1, <1>2, <1>3, <1>4, <1>5, <1>7

\* A certificate is read back.
LEMMA CertRead ==
    ASSUME NEW v \in [encoding : Octets, data : Bytes]
    PROVE  WriteCert(v) \in Bytes /\ ParseCert(WriteCert(v)) = {v}
<1>1. PICK x \in Octets, b \in Bytes : x = v.encoding /\ b = v.data
  OBVIOUS
<1>2. PICK s \in Bytes : s = <<x>> \o b /\ ~(Len(s) < 1) /\ s[1] = x /\ From(s, 1) = b
  BY OneOctet
<1>3. v = [encoding |-> v.encoding, data |-> v.data]
  BY SMT
<1>4. WriteCert(v) = s
  BY <1>1, <1>2 DEF WriteCert
<1> QED
  BY <1>1, <1>2, <1>3, <1>4 DEF ParseCert, Needs

\* A nonce is read back.
LEMMA NonceRead ==
    ASSUME NEW v \in [data : Bytes]
    PROVE  WriteNonce(v) \in Bytes /\ ParseNonce(WriteNonce(v)) = {v}
  BY SMT DEF WriteNonce, ParseNonce

\* A notification is read back if its SPI's length fits an octet.
LEMMA NotifyRead ==
    ASSUME NEW v \in [protocol_id : Octets, spi : Bytes, notify_type : Words, data : Bytes]
    PROVE  WriteNotify(v) \in Bytes /\ (Len(v.spi) < Octet => ParseNotify(WriteNotify(v)) = {v})
<1>1. PICK p \in Octets, spi \in Bytes, x \in Words, y \in Bytes :
            p = v.protocol_id /\ spi = v.spi /\ x = v.notify_type /\ y = v.data
  OBVIOUS
<1>2. PICK n \in Nat : n = Len(spi)
  BY BytesType
<1>3. PICK m \in Octets : U8(n) = <<m>> /\ (n < Octet => m = n)
  BY U8Octet
<1>4. PICK c \in Octets, d \in Octets : U16(x) = <<c, d>> /\ c * Octet + d = x
  BY WordsNat, U16Octets
<1>5. PICK h : h = <<p>> \o <<m>> \o <<c, d>>
  OBVIOUS
<1>6. h \in Seq(Octets) /\ Len(h) = 4 /\ h[1] = p /\ h[2] = m /\ h[3] = c /\ h[4] = d
  BY <1>5, SMT
<1>7. PICK b \in Bytes : b = spi \o y /\ Len(b) = n + Len(y)
  <2>1. spi \o y \in Bytes /\ Len(spi \o y) = Len(spi) + Len(y)
    BY ConcatBytes
  <2> QED
    BY <1>2, <2>1
<1>8. PICK s : s = h \o b
  OBVIOUS
<1>9. h \in Bytes
  BY <1>6 DEF Bytes
<1>10. (h \o spi) \o y = h \o (spi \o y)
  BY <1>9, ConcatAssoc, ZenonT(30)
<1>11. WriteNotify(v) = s
  <2>1. WriteNotify(v) = (h \o spi) \o y
    BY <1>1, <1>2, <1>3, <1>4, <1>5 DEF WriteNotify
  <2> QED
    BY <1>7, <1>8, <1>10, <2>1
<1>12. Head4Of(s, h, b)
  BY <1>6, <1>8, <1>9 DEF Head4Of
<1>13. /\ s \in Bytes /\ Len(s) = 4 + Len(b) /\ Len(b) \in Nat /\ ~(Len(s) < 4)
       /\ s[1] = h[1] /\ s[2] = h[2] /\ s[3] = h[3] /\ s[4] = h[4]
  BY <1>12, Headed4, SMT
<1>14. ASSUME n < Octet PROVE ParseNotify(s) = {v}
  <2>1. s[2] = n /\ s[1] = p
    BY <1>3, <1>6, <1>13, <1>14
  <2>2. U16be(s, 2) = x
    <3>1. U16be(s, 2) = s[3] * Octet + s[4]
      BY SMT DEF U16be
    <3> QED
      BY <1>4, <1>6, <1>13, <3>1
  <2>3. Len(y) \in Nat
    BY BytesType
  <2>4. ~(Len(s) < 4 + n)
    BY <1>7, <1>13, <2>3, SMT
  <2>5. PICK g \in Bytes : g = h \o spi /\ Len(g) = 4 + n
    <3>1. h \o spi \in Bytes /\ Len(h \o spi) = Len(h) + Len(spi)
      BY <1>9, ConcatBytes
    <3> QED
      BY <1>2, <1>6, <3>1
  <2>6. s = g \o y
    BY <1>7, <1>8, <1>10, <2>5
  <2>7. From(s, 4 + n) = y
    BY <2>5, <2>6, FromConcat
  <2>8. Slice(s, 4, 4 + n) = spi
    <3>1. PICK k : k = 4 + n
      OBVIOUS
    <3>2. k \in 0..Len(g) /\ 4 \in 0..k
      BY <2>5, <3>1, SMT
    <3>3. Slice(g \o y, 4, k) = Slice(g, 4, k)
      BY <3>2, SliceFirst
    <3>4. From(h \o spi, Len(h)) = spi
      BY <1>6, FromConcat DEF Bytes
    <3> QED
      BY <1>6, <2>5, <2>6, <3>1, <3>3, <3>4, FromSlice
  <2>9. v = [protocol_id |-> v.protocol_id, spi |-> v.spi, notify_type |-> v.notify_type, data |-> v.data]
    BY SMT
  <2>10. ParseNotify(s) = {[protocol_id |-> s[1], spi |-> Slice(s, 4, 4 + s[2]), notify_type |-> U16be(s, 2),
                            data |-> From(s, 4 + s[2])]}
    BY <1>13, <2>1, <2>4 DEF ParseNotify, Needs
  <2> QED
    BY <1>1, <2>1, <2>2, <2>7, <2>8, <2>9, <2>10
<1> QED
  BY <1>1, <1>2, <1>11, <1>13, <1>14

-----------------------------------------------------------------------------
(* Lists of selectors and attributes *)

\* The selectors as written.
SelectorParts(ts) == [i \in DOMAIN ts |-> WriteSelector(ts[i])]

\* They are octets.
LEMMA SelectorPartsType ==
    ASSUME NEW ts \in Seq(Selectors)
    PROVE  /\ SelectorParts(ts) \in Seq(Bytes) /\ Len(SelectorParts(ts)) = Len(ts)
           /\ \A i \in 1..Len(ts) : SelectorParts(ts)[i] = WriteSelector(ts[i])
           /\ Joined(SelectorParts(ts)) \in Bytes
<1>1. PICK n \in Nat : n = Len(ts) /\ DOMAIN ts = 1..n
  BY LenProperties
<1>2. PICK parts : parts = SelectorParts(ts)
  OBVIOUS
<1>3. parts = [i \in 1..n |-> parts[i]] /\ \A i \in 1..n : parts[i] = WriteSelector(ts[i])
  BY <1>1, <1>2 DEF SelectorParts
<1>4. \A i \in 1..n : ts[i] \in Selectors
  BY <1>1, ElementOfSeq
<1>5. \A i \in 1..n : parts[i] \in Bytes
  BY <1>3, <1>4, SelectorRead
<1>6. parts \in Seq(Bytes) /\ Len(parts) = n
  BY <1>3, <1>5, PartsSeq
<1>7. Joined(parts) \in Bytes
  BY <1>6, JoinedOffsets
<1> QED
  BY <1>1, <1>2, <1>3, <1>6, <1>7

\* A part of a string that is no longer than a u16 tells is no longer either.
LEMMA PartFits ==
    ASSUME NEW parts \in Seq(Bytes), NEW i \in 1..Len(parts), Len(Joined(parts)) \in Words
    PROVE  Len(parts[i]) \in Words
<1>1. PICK k, m : k = Len(parts[i]) /\ m = Len(Joined(parts))
  OBVIOUS
<1>2. k \in Nat /\ k <= m /\ m \in Words
  BY <1>1, PartLength
<1>3. k \in Words
  BY <1>2, WordsBig, SMT DEF Words
<1> QED
  BY <1>1, <1>3

\* The selectors are read back, as many as the count says.
LEMMA SelectorsRead ==
    ASSUME NEW ts \in Seq(Selectors), NEW w, w = Joined(SelectorParts(ts)), Len(w) \in Words,
           \A i \in 1..Len(ts) : Len(ts[i].start_addr) = Len(ts[i].end_addr)
    PROVE  ParseCount([off \in 0..Len(w) |-> ParseSelector(From(w, off))], Len(ts), Len(w)) = {ts}
<1>1. PICK n \in Nat : n = Len(ts)
  BY LenProperties
<1>2. PICK parts \in Seq(Bytes) : parts = SelectorParts(ts) /\ Len(parts) = n
  BY <1>1, SelectorPartsType
<1> DEFINE rd == [s \in Bytes |-> ParseSelector(s)]
<1>3. ASSUME NEW i \in 1..n
      PROVE  /\ Len(parts[i]) >= 0
             /\ \A rest \in Bytes : rd[parts[i] \o rest] = {Read(ts[i], Len(parts[i]))}
  <2>1. PICK t \in Selectors : t = ts[i]
    BY <1>1, ElementOfSeq
  <2>2. PICK x \in Bytes : x = WriteSelector(t) /\ Len(x) >= 8
    BY SelectorRead
  <2>3. parts[i] = x
    BY <1>1, <1>2, <2>1, <2>2, SelectorPartsType
  <2>4. Len(x) \in Words
    BY <1>2, <2>3, PartFits
  <2>5. SelectorFits(t)
    BY <1>1, <2>1, <2>2, <2>4 DEF SelectorFits
  <2>6. \A rest \in Bytes : ParseSelector(x \o rest) = {Read(t, Len(x))}
    BY <2>2, <2>5, SelectorRead
  <2>7. \A rest \in Bytes : x \o rest \in Bytes
    BY ConcatBytes
  <2>8. Len(x) >= 0
    BY BytesType, SMT
  <2> QED
    BY <2>1, <2>3, <2>6, <2>7, <2>8
<1>4. \A s \in Bytes : \A r \in rd[s] : r.used \in 1..Len(s)
  BY SelectorAdvances
<1>5. Reader(rd, 0, parts, ts)
  <2> HIDE DEF rd
  <2> QED
    BY <1>1, <1>2, <1>3, <1>4 DEF Reader
<1>6. w \in Bytes /\ Readable(Found(rd, w), 0, parts, ts)
  <2> HIDE DEF rd
  <2> QED
    BY <1>2, <1>5, ReaderReads
<1>7. ParseCount(Found(rd, w), Len(parts), Len(w)) = {ts}
  <2> HIDE DEF rd
  <2> QED
    BY <1>2, <1>6, CountReads
<1>8. Found(rd, w) = [off \in 0..Len(w) |-> ParseSelector(From(w, off))]
  BY <1>6, FromBytes DEF Found
<1> HIDE DEF rd
<1> QED
  BY <1>1, <1>2, <1>7, <1>8

\* Traffic selectors are read back.
LEMMA TsRead ==
    ASSUME NEW v \in [selectors : Seq(Selectors)]
    PROVE  /\ WriteSelectors(v) \in Bytes
           /\ (/\ Len(WriteSelectors(v)) \in Words /\ Len(v.selectors) < Octet
               /\ \A i \in 1..Len(v.selectors) :
                        Len(v.selectors[i].start_addr) = Len(v.selectors[i].end_addr))
                => ParseSelectors(WriteSelectors(v)) = {v}
<1>1. PICK ts \in Seq(Selectors) : ts = v.selectors
  OBVIOUS
<1>2. PICK b \in Bytes : b = Joined(SelectorParts(ts))
  BY SelectorPartsType
<1>3. PICK n \in Nat : n = Len(ts)
  BY LenProperties
<1>4. PICK m \in Octets : U8(n) = <<m>> /\ (n < Octet => m = n)
  BY U8Octet
<1>5. PICK s \in Bytes : s = <<m>> \o Reserved(3) \o b /\ Len(s) = 4 + Len(b) /\ ~(Len(s) < 4) /\ s[1] = m /\ From(s, 4) = b
  BY OneAndReserved
<1>6. WriteSelectors(v) = s
  BY <1>1, <1>2, <1>3, <1>4, <1>5 DEF WriteSelectors, SelectorParts
<1>7. ASSUME Len(s) \in Words, n < Octet, \A i \in 1..n : Len(ts[i].start_addr) = Len(ts[i].end_addr)
      PROVE  ParseSelectors(s) = {v}
  <2>1. Len(b) \in Words
    <3>1. PICK k \in Nat : k = Len(b)
      BY BytesType
    <3> QED
      BY <1>5, <1>7, <3>1, WordsBig, SMT DEF Words
  <2>2. ParseCount([off \in 0..Len(b) |-> ParseSelector(From(b, off))], n, Len(b)) = {ts}
    BY <1>2, <1>3, <1>7, <2>1, SelectorsRead
  <2>3. v = [selectors |-> ts]
    BY <1>1, SMT
  <2>4. ParseSelectors(s) = {[selectors |-> x] : x \in {ts}}
    BY <1>4, <1>5, <1>7, <2>2 DEF ParseSelectors, Needs
  <2> QED
    BY <2>3, <2>4
<1> QED
  BY <1>1, <1>3, <1>6, <1>7

\* The attributes as written.
AttrParts(ts) == [i \in DOMAIN ts |-> WriteConfigAttr(ts[i])]

\* They are octets.
LEMMA AttrPartsType ==
    ASSUME NEW ts \in Seq(ConfigAttrs)
    PROVE  /\ AttrParts(ts) \in Seq(Bytes) /\ Len(AttrParts(ts)) = Len(ts)
           /\ \A i \in 1..Len(ts) : AttrParts(ts)[i] = WriteConfigAttr(ts[i])
           /\ Joined(AttrParts(ts)) \in Bytes
<1>1. PICK n \in Nat : n = Len(ts) /\ DOMAIN ts = 1..n
  BY LenProperties
<1>2. PICK parts : parts = AttrParts(ts)
  OBVIOUS
<1>3. parts = [i \in 1..n |-> parts[i]] /\ \A i \in 1..n : parts[i] = WriteConfigAttr(ts[i])
  BY <1>1, <1>2 DEF AttrParts
<1>4. \A i \in 1..n : ts[i] \in ConfigAttrs
  BY <1>1, ElementOfSeq
<1>5. \A i \in 1..n : parts[i] \in Bytes
  BY <1>3, <1>4, ConfigAttrRead
<1>6. parts \in Seq(Bytes) /\ Len(parts) = n
  BY <1>3, <1>5, PartsSeq
<1>7. Joined(parts) \in Bytes
  BY <1>6, JoinedOffsets
<1> QED
  BY <1>1, <1>2, <1>3, <1>6, <1>7

\* The attributes are read back, to the end of the body.
LEMMA AttrsRead ==
    ASSUME NEW ts \in Seq(ConfigAttrs), NEW w, w = Joined(AttrParts(ts)), Len(w) \in Words,
           \A i \in 1..Len(ts) : ts[i].attr_type < FormatTv
    PROVE  ParseWhile([off \in 0..Len(w) |-> ParseConfigAttr(From(w, off))], 1, Len(w)) = {ts}
<1>1. PICK n \in Nat : n = Len(ts)
  BY LenProperties
<1>2. PICK parts \in Seq(Bytes) : parts = AttrParts(ts) /\ Len(parts) = n
  BY <1>1, AttrPartsType
<1> DEFINE rd == [s \in Bytes |-> ParseConfigAttr(s)]
<1>3. ASSUME NEW i \in 1..n
      PROVE  /\ Len(parts[i]) >= 1
             /\ \A rest \in Bytes : rd[parts[i] \o rest] = {Read(ts[i], Len(parts[i]))}
  <2>1. PICK t \in ConfigAttrs : t = ts[i]
    BY <1>1, ElementOfSeq
  <2>2. PICK x \in Bytes : x = WriteConfigAttr(t) /\ Len(x) >= 4
    BY ConfigAttrRead
  <2>3. parts[i] = x
    BY <1>1, <1>2, <2>1, <2>2, AttrPartsType
  <2>4. Len(x) \in Words
    BY <1>2, <2>3, PartFits
  <2>5. ConfigAttrFits(t)
    BY <1>1, <2>1, <2>2, <2>4 DEF ConfigAttrFits
  <2>6. \A rest \in Bytes : ParseConfigAttr(x \o rest) = {Read(t, Len(x))}
    BY <2>2, <2>5, ConfigAttrRead
  <2>7. \A rest \in Bytes : x \o rest \in Bytes
    BY ConcatBytes
  <2>8. Len(x) >= 1
    BY <2>2, BytesType, SMT
  <2> QED
    BY <2>1, <2>3, <2>6, <2>7, <2>8
<1>4. \A s \in Bytes : \A r \in rd[s] : r.used \in 1..Len(s)
  BY ConfigAttrAdvances
<1>5. Reader(rd, 1, parts, ts)
  <2> HIDE DEF rd
  <2> QED
    BY <1>1, <1>2, <1>3, <1>4 DEF Reader
<1>6. w \in Bytes /\ Readable(Found(rd, w), 1, parts, ts)
  <2> HIDE DEF rd
  <2> QED
    BY <1>2, <1>5, ReaderReads
<1>7. ParseWhile(Found(rd, w), 1, Len(w)) = {ts}
  <2>1. 1 \in Nat \ {0}
    BY SMT
  <2> HIDE DEF rd
  <2> QED
    BY <1>2, <1>6, <2>1, WhileReads
<1>8. Found(rd, w) = [off \in 0..Len(w) |-> ParseConfigAttr(From(w, off))]
  BY <1>6, FromBytes DEF Found
<1> HIDE DEF rd
<1> QED
  BY <1>1, <1>2, <1>7, <1>8

\* A configuration is read back.
LEMMA ConfigurationRead ==
    ASSUME NEW v \in [cfg_type : Octets, attrs : Seq(ConfigAttrs)]
    PROVE  /\ WriteConfiguration(v) \in Bytes
           /\ (/\ Len(WriteConfiguration(v)) \in Words
               /\ \A i \in 1..Len(v.attrs) : v.attrs[i].attr_type < FormatTv)
                => ParseConfiguration(WriteConfiguration(v)) = {v}
<1>1. PICK c \in Octets, ts \in Seq(ConfigAttrs) : c = v.cfg_type /\ ts = v.attrs
  OBVIOUS
<1>2. PICK b \in Bytes : b = Joined(AttrParts(ts))
  BY AttrPartsType
<1>3. PICK s \in Bytes : s = <<c>> \o Reserved(3) \o b /\ Len(s) = 4 + Len(b) /\ ~(Len(s) < 4) /\ s[1] = c /\ From(s, 4) = b
  BY OneAndReserved
<1>4. WriteConfiguration(v) = s
  BY <1>1, <1>2, <1>3 DEF WriteConfiguration, AttrParts
<1>5. ASSUME Len(s) \in Words, \A i \in 1..Len(ts) : ts[i].attr_type < FormatTv
      PROVE  ParseConfiguration(s) = {v}
  <2>1. Len(b) \in Words
    <3>1. PICK k \in Nat : k = Len(b)
      BY BytesType
    <3> QED
      BY <1>3, <1>5, <3>1, WordsBig, SMT DEF Words
  <2>2. ParseWhile([off \in 0..Len(b) |-> ParseConfigAttr(From(b, off))], 1, Len(b)) = {ts}
    BY <1>2, <1>5, <2>1, AttrsRead
  <2>3. v = [cfg_type |-> c, attrs |-> ts]
    BY <1>1, SMT
  <2>4. ParseConfiguration(s) = {[cfg_type |-> c, attrs |-> x] : x \in {ts}}
    BY <1>3, <2>2 DEF ParseConfiguration, Needs
  <2> QED
    BY <2>3, <2>4
<1> QED
  BY <1>1, <1>4, <1>5

-----------------------------------------------------------------------------
(* Lists of parts of one size *)

\* An array is a string.
LEMMA ArrayBytes ==
    ASSUME NEW k \in Nat, NEW p \in [1..k -> Octets]
    PROVE  p \in Bytes /\ Len(p) = k
<1>1. p \in Seq(Octets) /\ DOMAIN p = 1..k
  BY SeqDef, SMT
<1>2. Len(p) = k
  BY <1>1, LenProperties, SMT
<1> QED
  BY <1>1, <1>2 DEF Bytes

\* Arrays of k octets, joined, stand at multiples of k.
LEMMA ArraysJoined ==
    ASSUME NEW k \in Nat, NEW parts \in Seq([1..k -> Octets])
    PROVE  /\ Joined(parts) \in Bytes
           /\ Len(Joined(parts)) = k * Len(parts)
           /\ \A i \in 1..Len(parts) : /\ k * (i - 1) \in 0..(k * i) /\ k * i \in 0..Len(Joined(parts))
                                       /\ Slice(Joined(parts), k * (i - 1), k * i) = parts[i]
<1>1. PICK n \in Nat : n = Len(parts) /\ DOMAIN parts = 1..n /\ parts = [i \in 1..n |-> parts[i]]
  <2>1. Len(parts) \in Nat /\ DOMAIN parts = 1..Len(parts) /\ parts \in [1..Len(parts) -> [1..k -> Octets]]
    BY LenProperties
  <2> QED
    BY <2>1, SMT
<1>2. \A i \in 1..n : parts[i] \in [1..k -> Octets]
  BY <1>1, ElementOfSeq
<1>3. \A i \in 1..n : parts[i] \in Bytes /\ Len(parts[i]) = k
  BY <1>2, ArrayBytes
<1>4. parts \in Seq(Bytes)
  BY <1>1, <1>3, PartsSeq
<1>5. PICK w \in Bytes : w = Joined(parts) /\ \E off : Offsets(parts, w, off)
  BY <1>4, JoinedOffsets
<1>6. PICK off : Offsets(parts, w, off)
  BY <1>5
<1>7. off \in [0..n -> 0..Len(w)] /\ off[0] = 0 /\ off[n] = Len(w)
  BY <1>1, <1>6 DEF Offsets
<1>8. \A i \in 1..n : off[i] = off[i - 1] + k
  BY <1>1, <1>3, <1>6 DEF Offsets
<1> DEFINE T == {i \in 0..n : off[i] # k * i}
<1>9. T = {}
  <2> SUFFICES ASSUME T # {} PROVE FALSE
    OBVIOUS
  <2>1. PICK i \in T : \A j \in T : i <= j
    <3>1. T \subseteq Nat
      BY SMT
    <3> HIDE DEF T
    <3> QED
      BY <3>1, LeastNatural
  <2>2. i # 0
    BY <1>7, <2>1, SMT
  <2>3. i - 1 \in 0..n /\ i - 1 \notin T /\ i \in 1..n
    BY <2>1, <2>2, SMT
  <2>4. off[i - 1] = k * (i - 1)
    BY <2>3
  <2>5. k * (i - 1) + k = k * i
    BY <2>3, SMT
  <2>6. off[i] = k * i
    BY <1>8, <2>3, <2>4, <2>5
  <2> QED
    BY <2>1, <2>6
<1>10. \A i \in 0..n : off[i] = k * i
  BY <1>9
<1> HIDE DEF T
<1>11. Len(w) \in Nat
  BY BytesType
<1>12. ASSUME NEW i \in 1..n
       PROVE  /\ k * (i - 1) \in 0..(k * i) /\ k * i \in 0..Len(w)
              /\ Slice(w, k * (i - 1), k * i) = parts[i]
  <2>1. i - 1 \in 0..n /\ i \in 0..n
    BY SMT
  <2>2. PICK a, b : a = k * (i - 1) /\ b = k * i
    OBVIOUS
  <2>3. a = off[i - 1] /\ b = off[i] /\ b = a + k /\ a \in 0..Len(w) /\ b \in 0..Len(w)
    BY <1>7, <1>8, <1>10, <2>1, <2>2
  <2>4. PICK rest \in Bytes : From(w, a) = parts[i] \o rest
    BY <1>1, <1>6, <2>3 DEF Offsets
  <2>5. a \in 0..b /\ b - a = k
    BY <2>3, <1>11, SMT
  <2>6. PICK v \in Bytes : /\ v = Slice(w, a, b) /\ Len(v) = k /\ \A j \in 1..k : v[j] = w[a + j]
    BY <2>3, <2>5, SliceBytes, ZenonT(30)
  <2>7. PICK m : m = Len(w)
    OBVIOUS
  <2>8. \A j \in 1..(m - a) : From(w, a)[j] = w[a + j]
    <3>1. m \in 0..m /\ a \in 0..m
      BY <1>11, <2>3, <2>7, SMT
    <3>2. \A j \in 1..(m - a) : Slice(w, a, m)[j] = w[a + j]
      BY <2>7, <3>1, SliceBytes
    <3> QED
      BY <2>7, <3>2, FromSlice
  <2>9. \A j \in 1..k : j \in 1..(m - a)
    BY <1>11, <2>3, <2>7, SMT
  <2>10. \A j \in 1..k : (parts[i] \o rest)[j] = parts[i][j]
    <3>1. PICK q \in Bytes : q = parts[i] /\ Len(q) = k
      BY <1>3
    <3>2. \A j \in 1..Len(q) : (q \o rest)[j] = q[j]
      BY ConcatBytes
    <3> QED
      BY <3>1, <3>2
  <2>11. \A j \in 1..k : v[j] = parts[i][j]
    BY <2>4, <2>6, <2>8, <2>9, <2>10
  <2>12. v = parts[i]
    BY <1>3, <2>6, <2>11, BytesEqual
  <2> QED
    BY <2>2, <2>3, <2>5, <2>6, <2>12
<1>13. Len(w) = k * n
  <2>1. n \in 0..n
    BY SMT
  <2> QED
    BY <1>7, <1>10, <2>1
<1> QED
  BY <1>1, <1>5, <1>12, <1>13

\* A deletion is read back, unless it deletes an IKE SA by SPIs.
LEMMA DeleteRead ==
    ASSUME NEW v \in [protocol_id : Octets, spis : Seq([1..4 -> Octets])]
    PROVE  /\ WriteDelete(v) \in Bytes
           /\ (/\ Len(WriteDelete(v)) \in Words
               /\ v.protocol_id = IkeProtocol => v.spis = <<>>)
                => ParseDelete(WriteDelete(v)) = {v}
<1>1. PICK p \in Octets, spis \in Seq([1..4 -> Octets]) : p = v.protocol_id /\ spis = v.spis
  OBVIOUS
<1>2. PICK b \in Bytes : /\ b = Joined(spis) /\ Len(b) = 4 * Len(spis)
                         /\ \A i \in 1..Len(spis) :
                                /\ 4 * (i - 1) \in 0..(4 * i) /\ 4 * i \in 0..Len(b)
                                /\ Slice(b, 4 * (i - 1), 4 * i) = spis[i]
  <2>1. 4 \in Nat
    BY SMT
  <2> QED
    BY <2>1, ArraysJoined
<1>3. PICK n \in Nat : n = Len(spis) /\ spis = [i \in 1..n |-> spis[i]]
  <2>1. Len(spis) \in Nat /\ spis \in [1..Len(spis) -> [1..4 -> Octets]]
    BY LenProperties
  <2> QED
    BY <2>1, SMT
<1>4. PICK c \in Octets, d \in Octets : U16(n) = <<c, d>> /\ (n \in Words => c * Octet + d = n)
  BY U16Octets
<1>5. PICK k : k = IF p = IkeProtocol THEN 0 ELSE 4
  OBVIOUS
<1>6. k \in Octets
  BY <1>5, OctetNat, SMT DEF Octets
<1>7. PICK h : h = <<p, k>> \o <<c, d>>
  OBVIOUS
<1>8. h \in Seq(Octets) /\ Len(h) = 4 /\ h[1] = p /\ h[2] = k /\ h[3] = c /\ h[4] = d
  BY <1>6, <1>7, SMT
<1>9. PICK s : s = h \o b
  OBVIOUS
<1>10. WriteDelete(v) = s
  BY <1>1, <1>2, <1>3, <1>4, <1>5, <1>7, <1>9 DEF WriteDelete
<1>11. Head4Of(s, h, b)
  BY <1>8, <1>9 DEF Head4Of, Bytes
<1>12. /\ s \in Bytes /\ Len(s) = 4 + Len(b) /\ Len(b) \in Nat /\ ~(Len(s) < 4)
       /\ s[1] = h[1] /\ s[2] = h[2] /\ s[3] = h[3] /\ s[4] = h[4]
  BY <1>11, Headed4, SMT
<1>13. ASSUME Len(s) \in Words, p = IkeProtocol => spis = <<>>
       PROVE  ParseDelete(s) = {v}
  <2>1. v = [protocol_id |-> p, spis |-> spis]
    BY <1>1, SMT
  <2>2. s[1] = p /\ s[2] = k
    BY <1>8, <1>12
  <2>3. CASE p = IkeProtocol
    <3>1. s[2] = 0 /\ spis = <<>>
      BY <1>5, <1>13, <2>2, <2>3
    <3>2. ParseDelete(s) = {[protocol_id |-> s[1], spis |-> <<>>]}
      BY <1>12, <3>1, SMT DEF ParseDelete, Needs
    <3> QED
      BY <2>1, <2>2, <3>1, <3>2
  <2>4. CASE p # IkeProtocol
    <3>1. s[2] = 4 /\ s[2] # 0
      BY <1>5, <2>2, <2>4, SMT
    <3>2. n \in Words
      BY <1>2, <1>3, <1>12, <1>13, WordsBig, SMT DEF Words
    <3>3. U16be(s, 2) = n
      <4>1. U16be(s, 2) = s[3] * Octet + s[4]
        BY SMT DEF U16be
      <4> QED
        BY <1>4, <1>8, <1>12, <3>2, <4>1
    <3>4. ~(Len(s) < 4 + n * 4)
      BY <1>2, <1>3, <1>12, SMT
    <3>5. ASSUME NEW i \in 1..n PROVE Slice(s, 4 * i, 4 * i + 4) = spis[i]
      <4>1. PICK x, y : x = 4 * (i - 1) /\ y = 4 * i
        OBVIOUS
      <4>2. x \in 0..y /\ y \in 0..Len(b) /\ Slice(b, x, y) = spis[i]
        BY <1>2, <1>3, <4>1
      <4>3. Slice(h \o b, Len(h) + x, Len(h) + y) = Slice(b, x, y)
        BY <1>8, <4>2, SliceSecond DEF Bytes
      <4>4. 4 + x = 4 * i /\ 4 + y = 4 * i + 4
        BY <4>1, SMT
      <4> QED
        BY <1>8, <1>9, <4>2, <4>3, <4>4
    <3>6. [i \in 1..n |-> Slice(s, 4 * i, 4 * i + 4)] = spis
      BY <1>3, <3>5
    <3>7. ParseDelete(s) = Needs(4, s, Needs(4 + n * 4, s,
                    {[protocol_id |-> s[1], spis |-> [i \in 1..n |-> Slice(s, 4 * i, 4 * i + 4)]]}))
      BY <3>1, <3>3 DEF ParseDelete
    <3> QED
      BY <1>12, <2>1, <2>2, <3>4, <3>6, <3>7 DEF Needs
  <2> QED
    BY <2>3, <2>4
<1> QED
  BY <1>1, <1>10, <1>12, <1>13

\* A certificate request is read back.
LEMMA CertRequestRead ==
    ASSUME NEW v \in [encoding : Octets, ca_hashes : Seq([1..20 -> Octets])]
    PROVE  WriteCertRequest(v) \in Bytes /\ ParseCertRequest(WriteCertRequest(v)) = {v}
<1>1. PICK x \in Octets, hs \in Seq([1..20 -> Octets]) : x = v.encoding /\ hs = v.ca_hashes
  OBVIOUS
<1>2. PICK b \in Bytes : /\ b = Joined(hs) /\ Len(b) = 20 * Len(hs)
                         /\ \A i \in 1..Len(hs) :
                                /\ 20 * (i - 1) \in 0..(20 * i) /\ 20 * i \in 0..Len(b)
                                /\ Slice(b, 20 * (i - 1), 20 * i) = hs[i]
  <2>1. 20 \in Nat
    BY SMT
  <2> QED
    BY <2>1, ArraysJoined
<1>3. PICK n \in Nat : n = Len(hs) /\ hs = [i \in 1..n |-> hs[i]]
  <2>1. Len(hs) \in Nat /\ hs \in [1..Len(hs) -> [1..20 -> Octets]]
    BY LenProperties
  <2> QED
    BY <2>1, SMT
<1>4. PICK s \in Bytes : s = <<x>> \o b /\ Len(s) = 1 + Len(b) /\ ~(Len(s) < 1) /\ s[1] = x /\ From(s, 1) = b
  BY OneOctet
<1>5. WriteCertRequest(v) = s
  BY <1>1, <1>2, <1>4 DEF WriteCertRequest
<1>6. Len(s) - 1 = 20 * n
  BY <1>2, <1>3, <1>4, SMT
<1>7. (20 * n) % 20 = 0 /\ (20 * n) \div 20 = n
  BY SMT
<1>8. ASSUME NEW i \in 1..n PROVE Slice(s, 20 * i - 19, 20 * i + 1) = hs[i]
  <2>1. PICK a, c : a = 20 * (i - 1) /\ c = 20 * i
    OBVIOUS
  <2>2. a \in 0..c /\ c \in 0..Len(b) /\ Slice(b, a, c) = hs[i]
    BY <1>2, <1>3, <2>1
  <2>3. PICK h \in Bytes : h = <<x>> /\ Len(h) = 1
    BY Single
  <2>4. Slice(h \o b, Len(h) + a, Len(h) + c) = Slice(b, a, c)
    BY <2>2, SliceSecond
  <2>5. 1 + a = 20 * i - 19 /\ 1 + c = 20 * i + 1
    BY <2>1, SMT
  <2> QED
    BY <1>4, <2>2, <2>3, <2>4, <2>5
<1>9. [i \in 1..n |-> Slice(s, 20 * i - 19, 20 * i + 1)] = hs
  BY <1>3, <1>8
<1>10. ParseCertRequest(s) = {[encoding |-> s[1], ca_hashes |-> [i \in 1..n |-> Slice(s, 20 * i - 19, 20 * i + 1)]]}
  BY <1>4, <1>6, <1>7 DEF ParseCertRequest, Needs
<1>11. v = [encoding |-> x, ca_hashes |-> hs]
  BY <1>1, SMT
<1> QED
  BY <1>4, <1>5, <1>9, <1>10, <1>11

-----------------------------------------------------------------------------
(* Payloads *)

\* The types of the payloads.
LEMMA TypeNumbers ==
    /\ DOMAIN PayloadTypes = 1..13
    /\ \A p \in AllPayloads : \E n \in 1..13 : PayloadTypes[n] = p.type
<1>1. DOMAIN PayloadTypes = 1..13
  BY SMT DEF PayloadTypes
<1>2. ASSUME NEW p \in AllPayloads PROVE \E n \in 1..13 : PayloadTypes[n] = p.type
  <2>1. p.type \in {"SA", "KE", "IDi", "IDr", "CERT", "CERTREQ", "AUTH", "Nonce", "Notify", "Delete",
                    "TSi", "TSr", "CP"}
    BY DEF AllPayloads
  <2>2. /\ PayloadTypes[1] = "SA" /\ PayloadTypes[2] = "KE" /\ PayloadTypes[3] = "IDi"
        /\ PayloadTypes[4] = "IDr" /\ PayloadTypes[5] = "CERT" /\ PayloadTypes[6] = "CERTREQ"
        /\ PayloadTypes[7] = "AUTH" /\ PayloadTypes[8] = "Nonce" /\ PayloadTypes[9] = "Notify"
        /\ PayloadTypes[10] = "Delete" /\ PayloadTypes[11] = "TSi" /\ PayloadTypes[12] = "TSr"
        /\ PayloadTypes[13] = "CP"
    BY SMT DEF PayloadTypes
  <2> QED
    BY <2>1, <2>2, SMT
<1> QED
  BY <1>1, <1>2

\* The number of a payload's type is an octet other than 0, and tells the type.
LEMMA TypeRead ==
    ASSUME NEW p \in AllPayloads
    PROVE  ToU8(p.type) \in Octets /\ ToU8(p.type) # 0 /\ FromU8(ToU8(p.type)) = p.type
<1>1. DOMAIN PayloadTypes = 1..13
  BY TypeNumbers, SMT
<1>2. \E n \in DOMAIN PayloadTypes : PayloadTypes[n] = p.type
  BY <1>1, TypeNumbers
<1>3. PICK n : n = ToU8(p.type)
  OBVIOUS
<1>4. n \in DOMAIN PayloadTypes /\ PayloadTypes[n] = p.type
  BY <1>2, <1>3 DEF ToU8
<1>5. n \in Octets /\ n # 0
  BY <1>1, <1>4, OctetNat, SMT DEF Octets
<1> QED
  BY <1>3, <1>4, <1>5 DEF FromU8

\* A body that fits is read back.
LEMMA BodyRead ==
    ASSUME NEW p \in AllPayloads
    PROVE  Body(p) \in Bytes /\ (BodyFits(p) => ParseBody(p.type, Body(p)) = {p.body})
<1>0. ASSUME Body(p) \in Bytes, BodyFits(p) PROVE Len(Body(p)) \in Words
  <2>1. PICK n \in Nat : n = Len(Body(p))
    BY <1>0, BytesType
  <2>2. 4 + n < Octet * Octet
    BY <1>0, <2>1 DEF BodyFits
  <2>3. n \in Words
    BY <2>2, WordsBig, SMT DEF Words
  <2> QED
    BY <2>1, <2>3
<1>1. CASE p \in [type : {"SA"}, body : [proposals : Seq(Proposals)]]
  <2>1. p.type = "SA" /\ p.body \in [proposals : Seq(Proposals)]
    BY <1>1
  <2>2. PICK ps \in Seq(Proposals) : ps = p.body.proposals
    BY <2>1
  <2>3. Body(p) = WriteSa(p.body) /\ \A s : ParseBody(p.type, s) = ParseSa(s)
    BY <2>1, SMT DEF Body, ParseBody
  <2>4. WriteSa(p.body) = Joined(ProposalParts(ps))
    BY <2>2 DEF WriteSa, ProposalParts
  <2>5. Joined(ProposalParts(ps)) \in Bytes
    BY ProposalPartsType
  <2>6. ASSUME BodyFits(p) PROVE ParseSa(Joined(ProposalParts(ps))) = {p.body}
    <3>1. Len(Joined(ProposalParts(ps))) \in Words
      BY <1>0, <2>3, <2>4, <2>5, <2>6
    <3>2. \A i \in 1..Len(ps) : Len(ps[i].spi) < Octet /\ Len(ps[i].transforms) < Octet
      <4>1. DOMAIN ps = 1..Len(ps)
        BY LenProperties
      <4> QED
        BY <2>1, <2>2, <2>6, <4>1 DEF BodyFits
    <3>3. ParseSa(Joined(ProposalParts(ps))) = {[proposals |-> ps]}
      BY <3>1, <3>2, SaRead
    <3>4. p.body = [proposals |-> ps]
      BY <2>1, <2>2, SMT
    <3> QED
      BY <3>3, <3>4
  <2> QED
    BY <2>3, <2>4, <2>5, <2>6
<1>2. CASE p \in [type : {"KE"}, body : [dh_group : Words, data : Bytes]]
  <2>1. p.type = "KE" /\ p.body \in [dh_group : Words, data : Bytes]
    BY <1>2
  <2>2. Body(p) = WriteKe(p.body) /\ \A s : ParseBody(p.type, s) = ParseKe(s)
    BY <2>1, SMT DEF Body, ParseBody
  <2> QED
    BY <2>1, <2>2, KeRead
<1>3. CASE p \in [type : {"IDi", "IDr"}, body : [id_type : Octets, data : Bytes]]
  <2>1. p.type \in {"IDi", "IDr"} /\ p.body \in [id_type : Octets, data : Bytes]
    BY <1>3
  <2>2. Body(p) = WriteId(p.body) /\ \A s : ParseBody(p.type, s) = ParseId(s)
    BY <2>1, SMT DEF Body, ParseBody
  <2> QED
    BY <2>1, <2>2, IdRead
<1>4. CASE p \in [type : {"CERT"}, body : [encoding : Octets, data : Bytes]]
  <2>1. p.type = "CERT" /\ p.body \in [encoding : Octets, data : Bytes]
    BY <1>4
  <2>2. Body(p) = WriteCert(p.body) /\ \A s : ParseBody(p.type, s) = ParseCert(s)
    BY <2>1, SMT DEF Body, ParseBody
  <2> QED
    BY <2>1, <2>2, CertRead
<1>5. CASE p \in [type : {"CERTREQ"}, body : [encoding : Octets, ca_hashes : Seq([1..20 -> Octets])]]
  <2>1. p.type = "CERTREQ" /\ p.body \in [encoding : Octets, ca_hashes : Seq([1..20 -> Octets])]
    BY <1>5
  <2>2. Body(p) = WriteCertRequest(p.body) /\ \A s : ParseBody(p.type, s) = ParseCertRequest(s)
    BY <2>1, SMT DEF Body, ParseBody
  <2> QED
    BY <2>1, <2>2, CertRequestRead
<1>6. CASE p \in [type : {"AUTH"}, body : [method : Octets, data : Bytes]]
  <2>1. p.type = "AUTH" /\ p.body \in [method : Octets, data : Bytes]
    BY <1>6
  <2>2. Body(p) = WriteAuth(p.body) /\ \A s : ParseBody(p.type, s) = ParseAuth(s)
    BY <2>1, SMT DEF Body, ParseBody
  <2> QED
    BY <2>1, <2>2, AuthRead
<1>7. CASE p \in [type : {"Nonce"}, body : [data : Bytes]]
  <2>1. p.type = "Nonce" /\ p.body \in [data : Bytes]
    BY <1>7
  <2>2. Body(p) = WriteNonce(p.body) /\ \A s : ParseBody(p.type, s) = ParseNonce(s)
    BY <2>1, SMT DEF Body, ParseBody
  <2> QED
    BY <2>1, <2>2, NonceRead
<1>8. CASE p \in [type : {"Notify"},
                  body : [protocol_id : Octets, spi : Bytes, notify_type : Words, data : Bytes]]
  <2>1. p.type = "Notify" /\ p.body \in [protocol_id : Octets, spi : Bytes, notify_type : Words, data : Bytes]
    BY <1>8
  <2>2. Body(p) = WriteNotify(p.body) /\ \A s : ParseBody(p.type, s) = ParseNotify(s)
    BY <2>1, SMT DEF Body, ParseBody
  <2>3. BodyFits(p) => Len(p.body.spi) < Octet
    BY <2>1 DEF BodyFits
  <2> QED
    BY <2>1, <2>2, <2>3, NotifyRead
<1>9. CASE p \in [type : {"Delete"}, body : [protocol_id : Octets, spis : Seq([1..4 -> Octets])]]
  <2>1. p.type = "Delete" /\ p.body \in [protocol_id : Octets, spis : Seq([1..4 -> Octets])]
    BY <1>9
  <2>2. Body(p) = WriteDelete(p.body) /\ \A s : ParseBody(p.type, s) = ParseDelete(s)
    BY <2>1, SMT DEF Body, ParseBody
  <2>3. BodyFits(p) => (p.body.protocol_id = IkeProtocol => p.body.spis = <<>>)
    BY <2>1 DEF BodyFits
  <2>4. Body(p) \in Bytes
    BY <2>1, <2>2, DeleteRead
  <2>5. BodyFits(p) => Len(WriteDelete(p.body)) \in Words
    BY <1>0, <2>2, <2>4
  <2> QED
    BY <2>1, <2>2, <2>3, <2>4, <2>5, DeleteRead
<1>10. CASE p \in [type : {"TSi", "TSr"}, body : [selectors : Seq(Selectors)]]
  <2>1. p.type \in {"TSi", "TSr"} /\ p.body \in [selectors : Seq(Selectors)]
    BY <1>10
  <2>2. Body(p) = WriteSelectors(p.body) /\ \A s : ParseBody(p.type, s) = ParseSelectors(s)
    BY <2>1, SMT DEF Body, ParseBody
  <2>3. DOMAIN p.body.selectors = 1..Len(p.body.selectors)
    BY <2>1, LenProperties
  <2>4. BodyFits(p) => /\ Len(p.body.selectors) < Octet
                       /\ \A i \in 1..Len(p.body.selectors) :
                            Len(p.body.selectors[i].start_addr) = Len(p.body.selectors[i].end_addr)
    BY <2>1, <2>3 DEF BodyFits
  <2>5. Body(p) \in Bytes
    BY <2>1, <2>2, TsRead
  <2>6. BodyFits(p) => Len(WriteSelectors(p.body)) \in Words
    BY <1>0, <2>2, <2>5
  <2> QED
    BY <2>1, <2>2, <2>4, <2>5, <2>6, TsRead
<1>11. CASE p \in [type : {"CP"}, body : [cfg_type : Octets, attrs : Seq(ConfigAttrs)]]
  <2>1. p.type = "CP" /\ p.body \in [cfg_type : Octets, attrs : Seq(ConfigAttrs)]
    BY <1>11
  <2>2. Body(p) = WriteConfiguration(p.body) /\ \A s : ParseBody(p.type, s) = ParseConfiguration(s)
    BY <2>1, SMT DEF Body, ParseBody
  <2>3. DOMAIN p.body.attrs = 1..Len(p.body.attrs)
    BY <2>1, LenProperties
  <2>4. BodyFits(p) => \A i \in 1..Len(p.body.attrs) : p.body.attrs[i].attr_type < FormatTv
    BY <2>1, <2>3 DEF BodyFits
  <2>5. Body(p) \in Bytes
    BY <2>1, <2>2, ConfigurationRead
  <2>6. BodyFits(p) => Len(WriteConfiguration(p.body)) \in Words
    BY <1>0, <2>2, <2>5
  <2> QED
    BY <2>1, <2>2, <2>4, <2>5, <2>6, ConfigurationRead
<1> QED
  BY <1>1, <1>2, <1>3, <1>4, <1>5, <1>6, <1>7, <1>8, <1>9, <1>10, <1>11 DEF AllPayloads

-----------------------------------------------------------------------------
(* The payload chain *)

\* A payload as written: the type of the next one, its length and its body.
PayloadPart(next, p) == <<next, 0>> \o U16(4 + Len(Body(p))) \o Body(p)

\* rest starts with the payload p, and next says what follows it.
StartsWith(rest, next, p) ==
    /\ next \in Octets /\ p \in AllPayloads
    /\ \E more \in Bytes : rest = PayloadPart(next, p) \o more

\* A payload is octets.
LEMMA PayloadPartType ==
    ASSUME NEW next \in Octets, NEW p \in AllPayloads
    PROVE  PayloadPart(next, p) \in Bytes /\ Len(PayloadPart(next, p)) = 4 + Len(Body(p))
<1>1. PICK b \in Bytes : b = Body(p)
  BY BodyRead
<1>2. PICK n \in Nat : n = 4 + Len(b)
  BY BytesType, SMT
<1>3. PICK c \in Octets, d \in Octets : U16(n) = <<c, d>>
  BY U16Octets
<1>4. PICK h : h = <<next, 0>> \o <<c, d>>
  OBVIOUS
<1>5. h \in Seq(Octets) /\ Len(h) = 4
  BY <1>4, ReservedOctets, SMT
<1>6. h \o b \in Bytes /\ Len(h \o b) = Len(h) + Len(b)
  BY <1>5, ConcatBytes DEF Bytes
<1>7. PayloadPart(next, p) = h \o b
  BY <1>1, <1>2, <1>3, <1>4 DEF PayloadPart
<1> QED
  BY <1>1, <1>5, <1>6, <1>7

\* The payload a string starts with: its length is read, and its body.
LEMMA PayloadHead ==
    ASSUME NEW rest, NEW next, NEW p, StartsWith(rest, next, p), BodyFits(p)
    PROVE  \E n \in Nat : /\ n = 4 + Len(Body(p)) /\ n >= 4 /\ n <= Len(rest) /\ ~(Len(rest) < 4)
                          /\ U16be(rest, 2) = n /\ rest[1] = next
                          /\ Slice(rest, 4, n) = Body(p)
<1>1. next \in Octets /\ p \in AllPayloads
  BY DEF StartsWith
<1>2. PICK more \in Bytes : rest = PayloadPart(next, p) \o more
  BY DEF StartsWith
<1>3. PICK b \in Bytes : b = Body(p)
  BY <1>1, BodyRead
<1>4. PICK n \in Nat : n = 4 + Len(b) /\ n >= 4
  BY BytesType, SMT
<1>5. n \in Words
  <2>1. n < Octet * Octet
    BY <1>3, <1>4 DEF BodyFits
  <2> QED
    BY <2>1, WordsBig, SMT DEF Words
<1>6. PICK c \in Octets, d \in Octets : U16(n) = <<c, d>> /\ c * Octet + d = n
  BY <1>5, U16Octets
<1>7. PICK h : h = <<next, 0>> \o <<c, d>>
  OBVIOUS
<1>8. h \in Seq(Octets) /\ Len(h) = 4 /\ h[1] = next /\ h[2] = 0 /\ h[3] = c /\ h[4] = d
  BY <1>1, <1>7, ReservedOctets, SMT
<1>9. PICK g : g = h \o b
  OBVIOUS
<1>10. Head4Of(g, h, b)
  BY <1>8, <1>9 DEF Head4Of, Bytes
<1>11. /\ g \in Bytes /\ Len(g) = n
       /\ g[1] = next /\ g[3] = c /\ g[4] = d
       /\ From(g, 4) = b
  BY <1>4, <1>8, <1>10, Headed4, SMT
<1>12. rest = g \o more
  BY <1>2, <1>3, <1>4, <1>6, <1>7, <1>9 DEF PayloadPart
<1>13. /\ rest \in Bytes /\ Len(rest) = n + Len(more)
       /\ \A i \in 1..n : rest[i] = g[i]
  <2>1. g \in Bytes /\ Len(g) = n
    BY <1>11
  <2>2. /\ g \o more \in Bytes /\ Len(g \o more) = Len(g) + Len(more)
        /\ \A i \in 1..Len(g) : (g \o more)[i] = g[i]
    BY <2>1, ConcatBytes
  <2> QED
    BY <1>12, <2>1, <2>2
<1>14. n <= Len(rest) /\ ~(Len(rest) < 4) /\ 1 \in 1..n /\ 3 \in 1..n /\ 4 \in 1..n
  <2>1. Len(more) \in Nat
    BY BytesType
  <2> QED
    BY <1>4, <1>13, <2>1, SMT
<1>15. rest[1] = next /\ rest[3] = c /\ rest[4] = d
  BY <1>11, <1>13, <1>14
<1>16. U16be(rest, 2) = n
  <2>1. U16be(rest, 2) = rest[3] * Octet + rest[4]
    BY SMT DEF U16be
  <2> QED
    BY <1>6, <1>15, <2>1
<1>17. Slice(rest, 4, n) = b
  <2>1. n \in 0..Len(g) /\ 4 \in 0..n /\ g \in Bytes
    BY <1>4, <1>11, SMT
  <2>2. Slice(g \o more, 4, n) = Slice(g, 4, n)
    BY <2>1, SliceFirst
  <2> QED
    BY <1>11, <1>12, <2>2, FromSlice
<1> QED
  BY <1>3, <1>4, <1>14, <1>15, <1>16, <1>17

\* A payload that fits stands at an offset of s.
PayloadHere(s, off, next, p) ==
    s \in Bytes /\ off \in 0..Len(s) /\ StartsWith(From(s, off), next, p) /\ BodyFits(p)

\* It is read, and where the next one is.
LEMMA PayloadRead ==
    ASSUME NEW s, NEW off, NEW next, NEW p, PayloadHere(s, off, next, p)
    PROVE  PayloadAt(ToU8(p.type), off, s)
                = {[value |-> p, next |-> <<next, off + (4 + Len(Body(p)))>>]}
<1>0. s \in Bytes /\ off \in 0..Len(s) /\ StartsWith(From(s, off), next, p) /\ BodyFits(p)
  BY DEF PayloadHere
<1>1. PICK rest : rest = From(s, off)
  OBVIOUS
<1>2. PICK n \in Nat : /\ n = 4 + Len(Body(p)) /\ n >= 4 /\ n <= Len(rest) /\ ~(Len(rest) < 4)
                       /\ U16be(rest, 2) = n /\ rest[1] = next
                       /\ Slice(rest, 4, n) = Body(p)
  <2>1. StartsWith(rest, next, p)
    BY <1>0, <1>1
  <2> QED
    BY <1>0, <2>1, PayloadHead
<1>3. p \in AllPayloads
  BY <1>0 DEF StartsWith
<1>4. PICK t : t = ToU8(p.type)
  OBVIOUS
<1>5. FromU8(t) = p.type /\ ParseBody(p.type, Body(p)) = {p.body}
  BY <1>0, <1>3, <1>4, TypeRead, BodyRead
<1>6. Len(rest) \in Nat
  BY <1>0, <1>1, FromBytes, BytesType
<1>7. ~(n < 4 \/ n > Len(rest))
  BY <1>2, <1>6, SMT
<1> DEFINE F(b) == [value |-> [type |-> p.type, body |-> b], next |-> <<next, off + n>>]
<1>8. PayloadAt(t, off, s) = {F(b) : b \in {p.body}}
  <2>1. PICK len : len = IF Len(rest) < 4 THEN 0 ELSE U16be(rest, 2)
    OBVIOUS
  <2>2. len = n
    BY <1>2, <2>1
  <2>3. PayloadAt(t, off, s) = IF len < 4 \/ len > Len(rest) THEN {}
        ELSE {[value |-> [type |-> FromU8(t), body |-> b], next |-> <<rest[1], off + len>>]
                : b \in ParseBody(FromU8(t), Slice(rest, 4, len))}
    BY <1>1, <2>1 DEF PayloadAt
  <2> QED
    BY <1>2, <1>5, <1>7, <2>2, <2>3
<1>9. p = [type |-> p.type, body |-> p.body]
  BY <1>3, SMT DEF AllPayloads
<1>10. F(p.body) = [value |-> p, next |-> <<next, off + n>>]
  BY <1>9
<1> HIDE DEF F
<1>11. PayloadAt(t, off, s) = {[value |-> p, next |-> <<next, off + n>>]}
  BY <1>8, <1>10
<1> QED
  BY <1>2, <1>4, <1>11

\* The Next Payload of payload i, where 0 is the header.
NextOf(ps, i) == FirstPayloadType(From(ps, i))

\* It is the type of the payload after it, or none.
LEMMA NextOfType ==
    ASSUME NEW ps \in Seq(AllPayloads)
    PROVE  /\ \A i \in 0..Len(ps) : NextOf(ps, i) \in Octets
           /\ NextOf(ps, 0) = FirstPayloadType(ps)
           /\ NextOf(ps, Len(ps)) = 0
           /\ \A i \in 1..Len(ps) : NextOf(ps, i - 1) = ToU8(ps[i].type)
<1>1. PICK n \in Nat : n = Len(ps)
  BY LenProperties
<1>2. \A i \in 1..n : ps[i] \in AllPayloads
  BY <1>1, ElementOfSeq
<1>3. ASSUME NEW i \in 1..n PROVE NextOf(ps, i - 1) = ToU8(ps[i].type)
  <2>1. PICK q : q = From(ps, i - 1)
    OBVIOUS
  <2>2. q = SubSeq(ps, i, n)
    <3>1. i - 1 + 1 = i
      BY SMT
    <3> QED
      BY <1>1, <2>1, <3>1 DEF From
  <2>3. \A j \in i..n : ps[j] \in AllPayloads
    BY <1>2, SMT
  <2>4. q # <<>> /\ q[1] = ps[i]
    <3>1. i \in Int /\ n \in Int
      BY SMT
    <3>2. /\ SubSeq(ps, i, n) \in Seq(AllPayloads)
          /\ Len(SubSeq(ps, i, n)) = IF i <= n THEN n - i + 1 ELSE 0
          /\ \A j \in 1..(n - i + 1) : SubSeq(ps, i, n)[j] = ps[i + j - 1]
      BY <2>3, <3>1, SubSeqProperties, SMT
    <3>3. 1 \in 1..(n - i + 1) /\ i + 1 - 1 = i /\ (IF i <= n THEN n - i + 1 ELSE 0) # 0
      BY SMT
    <3>4. Len(<<>>) = 0
      BY Empty
    <3> QED
      BY <2>2, <3>2, <3>3, <3>4
  <2> QED
    BY <2>1, <2>4 DEF NextOf, FirstPayloadType
<1>4. NextOf(ps, n) = 0
  <2>1. From(ps, n) = SubSeq(ps, n + 1, n)
    BY <1>1 DEF From
  <2>2. SubSeq(ps, n + 1, n) = <<>>
    BY <1>1, SMT
  <2> QED
    BY <2>1, <2>2 DEF NextOf, FirstPayloadType
<1>5. NextOf(ps, 0) = FirstPayloadType(ps)
  <2>1. From(ps, 0) = ps
    <3>1. SubSeq(ps, 1, Len(ps)) = ps
      BY SubSeqFull
    <3>2. 0 + 1 = 1
      BY SMT
    <3> QED
      BY <3>1, <3>2 DEF From
  <2> QED
    BY <2>1 DEF NextOf
<1>6. ASSUME NEW i \in 0..n PROVE NextOf(ps, i) \in Octets
  <2>1. CASE i = n
    BY <1>4, <2>1, ReservedOctets
  <2>2. CASE i # n
    <3>1. PICK j \in 1..n : i = j - 1
      <4>1. i + 1 \in 1..n /\ i = (i + 1) - 1
        BY <2>2, SMT
      <4> QED
        BY <4>1
    <3> QED
      BY <1>2, <1>3, <3>1, TypeRead
  <2> QED
    BY <2>1, <2>2
<1> QED
  BY <1>1, <1>3, <1>4, <1>5, <1>6

\* The payloads as written.
ChainParts(ps) == [i \in DOMAIN ps |-> PayloadPart(NextOf(ps, i), ps[i])]

\* They are octets.
LEMMA ChainPartsType ==
    ASSUME NEW ps \in Seq(AllPayloads)
    PROVE  /\ ChainParts(ps) \in Seq(Bytes) /\ Len(ChainParts(ps)) = Len(ps)
           /\ \A i \in 1..Len(ps) : /\ ChainParts(ps)[i] = PayloadPart(NextOf(ps, i), ps[i])
                                    /\ Len(ChainParts(ps)[i]) = 4 + Len(Body(ps[i]))
           /\ EncodePayloadChain(ps) = Joined(ChainParts(ps))
           /\ EncodePayloadChain(ps) \in Bytes
<1>1. PICK n \in Nat : n = Len(ps) /\ DOMAIN ps = 1..n
  BY LenProperties
<1>2. PICK parts : parts = ChainParts(ps)
  OBVIOUS
<1>3. parts = [i \in 1..n |-> parts[i]] /\ \A i \in 1..n : parts[i] = PayloadPart(NextOf(ps, i), ps[i])
  BY <1>1, <1>2 DEF ChainParts
<1>4. ASSUME NEW i \in 1..n PROVE parts[i] \in Bytes /\ Len(parts[i]) = 4 + Len(Body(ps[i]))
  <2>1. PICK p \in AllPayloads : p = ps[i]
    BY <1>1, ElementOfSeq
  <2>2. i \in 0..n
    BY SMT
  <2>3. PICK next \in Octets : next = NextOf(ps, i)
    BY <1>1, <2>2, NextOfType
  <2>4. PayloadPart(next, p) \in Bytes /\ Len(PayloadPart(next, p)) = 4 + Len(Body(p))
    BY PayloadPartType
  <2> QED
    BY <1>3, <2>1, <2>3, <2>4
<1>5. parts \in Seq(Bytes) /\ Len(parts) = n
  BY <1>3, <1>4, PartsSeq
<1>6. Joined(parts) \in Bytes
  BY <1>5, JoinedOffsets
<1>7. EncodePayloadChain(ps) = Joined(parts)
  BY <1>2 DEF EncodePayloadChain, ChainParts, PayloadPart, NextOf
<1> QED
  BY <1>1, <1>2, <1>3, <1>4, <1>5, <1>6, <1>7

\* The walk along a chain goes on, within the string.
LEMMA PayloadAdvances ==
    ASSUME NEW s \in Bytes, NEW next, NEW off \in 0..Len(s), NEW r \in PayloadAt(next, off, s)
    PROVE  \E x \in Octets, o \in 0..Len(s) : r.next = <<x, o>> /\ off < o
<1>1. PICK rest \in Bytes : rest = From(s, off) /\ Len(rest) = Len(s) - off
  BY FromBytes
<1>2. PICK len : len = IF Len(rest) < 4 THEN 0 ELSE U16be(rest, 2)
  OBVIOUS
<1>3. PayloadAt(next, off, s) = IF len < 4 \/ len > Len(rest) THEN {}
        ELSE {[value |-> [type |-> FromU8(next), body |-> b], next |-> <<rest[1], off + len>>]
                : b \in ParseBody(FromU8(next), Slice(rest, 4, len))}
  BY <1>1, <1>2 DEF PayloadAt
<1>4. ~(len < 4 \/ len > Len(rest))
  BY <1>3
<1>5. PICK b : r = [value |-> [type |-> FromU8(next), body |-> b], next |-> <<rest[1], off + len>>]
  BY <1>3, <1>4
<1>6. r.next = <<rest[1], off + len>>
  BY <1>5
<1>7. Len(rest) \in Nat /\ Len(s) \in Nat
  BY BytesType
<1>8. ~(Len(rest) < 4)
  <2>1. ~(0 >= 4)
    BY SMT
  <2>2. Len(rest) < 4 => len = 0
    BY <1>2
  <2> QED
    BY <1>4, <2>2, SMT
<1>9. rest[1] \in Octets /\ rest[3] \in Octets /\ rest[4] \in Octets
  <2>1. 1 \in 1..Len(rest) /\ 3 \in 1..Len(rest) /\ 4 \in 1..Len(rest)
    BY <1>7, <1>8, SMT
  <2> QED
    BY <2>1, BytesType
<1>10. len \in Nat
  <2>1. len = U16be(rest, 2)
    BY <1>2, <1>8
  <2>2. U16be(rest, 2) = rest[3] * Octet + rest[4]
    BY SMT DEF U16be
  <2>3. PICK x \in Octets, y \in Octets : x = rest[3] /\ y = rest[4]
    BY <1>9
  <2>4. x * Octet + y \in Nat
    BY OctetNat, SMT DEF Octets
  <2> QED
    BY <2>1, <2>2, <2>3, <2>4
<1>11. off + len \in 0..Len(s) /\ off < off + len
  BY <1>1, <1>4, <1>7, <1>10, SMT
<1> QED
  BY <1>6, <1>9, <1>11

\* PayloadIter on what encode_payload_chain wrote, each body parsed by its type: a chain whose
\* bodies the format can carry is read as the payloads it was made from, and as nothing else.
THEOREM ChainRead ==
    ASSUME NEW ps \in Seq(AllPayloads), \A i \in 1..Len(ps) : BodyFits(ps[i])
    PROVE  Payloads(FirstPayloadType(ps), EncodePayloadChain(ps)) = {ps}
<1>1. PICK n \in Nat : n = Len(ps)
  BY LenProperties
<1>2. PICK parts \in Seq(Bytes) : parts = ChainParts(ps) /\ Len(parts) = n
  BY <1>1, ChainPartsType
<1>3. PICK s \in Bytes : s = EncodePayloadChain(ps) /\ s = Joined(parts)
  BY <1>2, ChainPartsType
<1>4. PICK m \in Nat : m = Len(s)
  BY BytesType
<1>5. PICK off : Offsets(parts, s, off)
  BY <1>3, JoinedOffsets
<1>6. /\ off \in [0..n -> 0..m]
      /\ off[0] = 0 /\ off[n] = m
      /\ \A i \in 1..n : off[i] = off[i - 1] + Len(parts[i])
      /\ \A i \in 1..n : \E more \in Bytes : From(s, off[i - 1]) = parts[i] \o more
  BY <1>2, <1>4, <1>5 DEF Offsets
<1> DEFINE dom == Octets \X (0..m)
           reads == [p \in dom |-> PayloadAt(p[1], p[2], s)]
           ends == {0} \X (0..m)
           rank == [p \in dom |-> m - p[2]]
           at == [i \in 0..n |-> <<NextOf(ps, i), off[i]>>]
<1>7. DOMAIN reads = dom
  OBVIOUS
<1>8. ASSUME NEW p \in DOMAIN reads, NEW r \in reads[p]
      PROVE  r.next \in DOMAIN reads /\ rank[r.next] < rank[p]
  <2>1. PICK k \in Octets, o \in 0..m : p = <<k, o>>
    BY <1>7, SMT
  <2>2. p[1] = k /\ p[2] = o /\ p \in dom
    BY <1>7, <2>1
  <2>3. r \in PayloadAt(k, o, s)
    BY <1>8, <2>2
  <2>4. PICK x \in Octets, y \in 0..m : r.next = <<x, y>> /\ o < y
    BY <1>4, <2>3, PayloadAdvances
  <2>5. r.next \in dom /\ r.next[2] = y
    BY <2>4, SMT
  <2>6. m - y < m - o
    BY <2>4, SMT
  <2>7. rank[r.next] = m - y /\ rank[p] = m - o
    BY <2>2, <2>5
  <2> HIDE DEF rank, dom, reads
  <2> QED
    BY <1>7, <2>5, <2>6, <2>7
<1>9. Falls(reads, ends, rank, m)
  <2>1. rank \in [dom -> Nat] /\ \A p \in dom : rank[p] <= m
    BY SMT
  <2> HIDE DEF reads, ends, rank, dom
  <2> QED
    BY <1>7, <1>8, <2>1 DEF Falls
<1>10. Terminates(reads, ends)
  BY <1>9 DEF Terminates
<1>11. at \in [0..n -> dom] /\ at[0] = <<FirstPayloadType(ps), 0>> /\ at[n] \in ends
  <2>1. \A i \in 0..n : NextOf(ps, i) \in Octets /\ off[i] \in 0..m
    BY <1>1, <1>6, NextOfType
  <2>2. \A i \in 0..n : <<NextOf(ps, i), off[i]>> \in dom
    BY <2>1, SMT
  <2>3. at \in [0..n -> dom]
    BY <2>2
  <2>4. 0 \in 0..n /\ n \in 0..n /\ m \in 0..m
    BY SMT
  <2>5. at[0] = <<FirstPayloadType(ps), 0>> /\ at[n] = <<0, m>>
    BY <1>1, <1>6, <2>4, NextOfType
  <2>6. <<0, m>> \in ends
    BY SMT
  <2> QED
    BY <2>3, <2>5, <2>6
<1>12. ASSUME NEW i \in 1..n
       PROVE  at[i - 1] \notin ends /\ reads[at[i - 1]] = {[value |-> ps[i], next |-> at[i]]}
  <2>1. i \in 0..n /\ i - 1 \in 0..n
    BY SMT
  <2>2. PICK p \in AllPayloads : p = ps[i] /\ BodyFits(p)
    BY <1>1, ElementOfSeq
  <2>3. PICK k \in Octets : k = ToU8(p.type) /\ k # 0
    BY TypeRead
  <2>4. PICK next \in Octets : next = NextOf(ps, i)
    BY <1>1, <2>1, NextOfType
  <2>5. PICK o \in 0..m : o = off[i - 1]
    BY <1>6, <2>1
  <2>6. parts[i] = PayloadPart(next, p) /\ Len(parts[i]) = 4 + Len(Body(p))
    BY <1>1, <1>2, <2>2, <2>4, ChainPartsType
  <2>7. at[i - 1] = <<k, o>> /\ at[i] = <<next, o + (4 + Len(Body(p)))>>
    <3>1. NextOf(ps, i - 1) = k
      BY <1>1, <2>2, <2>3, NextOfType
    <3> QED
      BY <1>6, <2>1, <2>4, <2>5, <2>6, <3>1
  <2>8. StartsWith(From(s, o), next, p)
    BY <1>6, <2>5, <2>6 DEF StartsWith
  <2>9. PayloadAt(ToU8(p.type), o, s) = {[value |-> p, next |-> <<next, o + (4 + Len(Body(p)))>>]}
    <3>1. PayloadHere(s, o, next, p)
      BY <1>4, <2>2, <2>8 DEF PayloadHere
    <3> HIDE DEF dom, reads, ends, rank, at
    <3> QED
      BY <3>1, PayloadRead, SMT
  <2>10. PICK q : q = <<k, o>>
    OBVIOUS
  <2>11. q \in dom /\ q[1] = k /\ q[2] = o /\ q \notin ends
    BY <2>3, <2>10, SMT
  <2>12. reads[q] = PayloadAt(k, o, s)
    BY <2>11
  <2> HIDE DEF reads, dom, ends, at
  <2> QED
    BY <2>2, <2>3, <2>7, <2>9, <2>10, <2>11, <2>12
<1>13. ReadsAt(reads, ends, ps, at)
  <2> HIDE DEF reads, ends, at, dom
  <2> QED
    BY <1>1, <1>7, <1>11, <1>12 DEF ReadsAt
<1>14. Loop(reads, ends, <<FirstPayloadType(ps), 0>>) = {ps}
  <2> HIDE DEF reads, ends, at
  <2> QED
    BY <1>10, <1>11, <1>13, LoopReads
<1>15. Payloads(FirstPayloadType(ps), s) = Loop(reads, ends, <<FirstPayloadType(ps), 0>>)
  BY <1>4 DEF Payloads, Octets
<1> QED
  BY <1>3, <1>14, <1>15
=============================================================================
