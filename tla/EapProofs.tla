------------------------------ MODULE EapProofs ------------------------------
(***************************************************************************)
(* EAP-MSCHAPv2 inside IKE_AUTH, for every set of accounts, clients and    *)
(* server credentials, chains of any length and any number of              *)
(* duplications: both ends established on one MSK, and no credential for a *)
(* server that cannot show a path to a trusted CA.                         *)
(*                                                                         *)
(* All rest on IInv: each message is evidence of how far the exchange has  *)
(* come.  The last result also needs that validate_chain, which follows    *)
(* the first issuer that fits, returns Ok only if a path exists; that is   *)
(* proved by induction on the passes left, stated as a least               *)
(* counterexample.                                                         *)
(***************************************************************************)
EXTENDS Eap, TLAPS, WellFoundedInduction, SequenceTheorems

-----------------------------------------------------------------------------
(* validate_chain *)

\* Every nonempty set of naturals has a least element.
LEMMA LeastNatural ==
    ASSUME NEW T, T \subseteq Nat, T # {}
    PROVE  \E n \in T : \A m \in T : n <= m
<1>1. PICK n \in T : \A m \in T : ~(<<m, n>> \in OpToRel(<, Nat))
  BY NatLessThanWellFounded, WFMin, Zenon
<1>2. \A m \in T : ~(m < n)
  BY <1>1, Zenon DEF OpToRel
<1> QED
  BY <1>2

\* The outcomes of the loop of validate_chain, by certificate, when `next` are
\* those with one pass less; with no pass left nothing is Ok.
Outcomes(certs, ints, anchors, now, next) ==
    [cert \in certs |-> ChainPass(cert, ints, anchors, now, next)]
NoOutcomes(certs) == [c \in certs |-> FALSE]

\* f gives the outcomes for up to k + 1 passes.
IsOutcomes(f, k, certs, ints, anchors, now) ==
    f = [left \in 0..k |->
            Outcomes(certs, ints, anchors, now, IF left = 0 THEN NoOutcomes(certs) ELSE f[left - 1])]

\* The recursion of validate_chain defines a function.
LEMMA OutcomesExist ==
    ASSUME NEW k \in Nat, NEW certs, NEW ints, NEW anchors, NEW now
    PROVE  \E f : IsOutcomes(f, k, certs, ints, anchors, now)
<1> DEFINE T == {n \in Nat : ~\E f : IsOutcomes(f, n, certs, ints, anchors, now)}
<1> SUFFICES ASSUME T # {} PROVE FALSE
  BY Zenon
<1>1. PICK n \in T : \A m \in T : n <= m
  BY LeastNatural, Zenon
<1>2. n # 0
  <2>1. PICK f : f = [left \in 0..0 |-> Outcomes(certs, ints, anchors, now, NoOutcomes(certs))]
    BY Zenon
  <2>2. f = [left \in 0..0 |-> Outcomes(certs, ints, anchors, now,
                                        IF left = 0 THEN NoOutcomes(certs) ELSE f[left - 1])]
    BY <2>1
  <2>3. IsOutcomes(f, 0, certs, ints, anchors, now)
    BY <2>2, Zenon DEF IsOutcomes
  <2> QED
    BY <2>3, Zenon
<1>3. n - 1 \in Nat /\ n - 1 \notin T
  BY <1>1, <1>2
<1>4. PICK f : IsOutcomes(f, n - 1, certs, ints, anchors, now)
  BY <1>3, Zenon
<1>5. PICK g : g = [left \in 0..n |->
                      IF left = n THEN Outcomes(certs, ints, anchors, now, f[n - 1]) ELSE f[left]]
  BY Zenon
<1>6. \A left \in 0..(n - 1) : g[left] = f[left]
  BY <1>3, <1>5
<1>7. \A left \in 0..n :
        g[left] = Outcomes(certs, ints, anchors, now,
                           IF left = 0 THEN NoOutcomes(certs) ELSE g[left - 1])
  <2> TAKE left \in 0..n
  <2>1. CASE left = n
    BY <1>2, <1>3, <1>5, <1>6, <2>1
  <2>2. CASE left # n
    <3>1. left \in 0..(n - 1)
      BY <1>3, <2>2
    <3>2. f[left] = Outcomes(certs, ints, anchors, now,
                             IF left = 0 THEN NoOutcomes(certs) ELSE f[left - 1])
      BY <1>4, <3>1, Zenon DEF IsOutcomes
    <3>3. left # 0 => left - 1 \in 0..(n - 1)
      BY <1>3, <3>1
    <3> QED
      BY <1>6, <3>1, <3>2, <3>3, Zenon
  <2> QED
    BY <2>1, <2>2, Zenon
<1>8. IsOutcomes(g, n, certs, ints, anchors, now)
  BY <1>5, <1>7, Zenon DEF IsOutcomes
<1> QED
  BY <1>1, <1>8, Zenon

\* validate_chain computes the outcome of the whole loop for the leaf.
LEMMA ValidateChainUnfolds ==
    ASSUME NEW leaf, NEW ints, Len(ints) \in Nat, NEW anchors, NEW now
    PROVE  \E f : /\ IsOutcomes(f, Len(ints), {leaf} \cup InSeq(ints), ints, anchors, now)
                  /\ ValidateChain(leaf, ints, anchors, now) = f[Len(ints)][leaf]
<1>1. \E f : IsOutcomes(f, Len(ints), {leaf} \cup InSeq(ints), ints, anchors, now)
  BY OutcomesExist, Zenon
<1> QED
  BY <1>1, Zenon DEF ValidateChain, IsOutcomes, Outcomes, NoOutcomes

\* A path grows at its lower end.
LEMMA ConsPath ==
    ASSUME NEW S, NEW path \in Seq(S), path # <<>>, NEW cert, NEW anchors, NEW now,
           IsPath(path, anchors, now), WithinValidity(cert, now), UsableIssuer(cert, path[1])
    PROVE  IsPath(<<cert>> \o path, anchors, now)
<1>1. PICK n \in Nat \ {0} : n = Len(path)
  OBVIOUS
<1>2. PICK w : w = <<cert>> \o path
  BY Zenon
<1>3. /\ DOMAIN w = 1..(n + 1) /\ Len(w) = n + 1 /\ w[1] = cert
      /\ \A i \in 1..n : w[i + 1] = path[i]
  BY <1>1, <1>2
<1>4. \A i \in DOMAIN w : WithinValidity(w[i], now)
  <2> TAKE i \in DOMAIN w
  <2>1. CASE i = 1
    BY <1>3, <2>1, Zenon
  <2>2. CASE i # 1
    <3>1. i - 1 \in 1..n /\ i = (i - 1) + 1
      BY <1>1, <1>3, <2>2
    <3>2. w[i] = path[i - 1] /\ i - 1 \in DOMAIN path
      BY <1>1, <1>3, <3>1
    <3> QED
      BY <3>2, Zenon DEF IsPath
  <2> QED
    BY <2>1, <2>2, Zenon
<1>5. \A i \in 1..(Len(w) - 1) :
        /\ IsCa(w[i + 1]) /\ w[i + 1].subject = w[i].issuer /\ w[i].signer = w[i + 1].key
  <2> TAKE i \in 1..(Len(w) - 1)
  <2>1. CASE i = 1
    <3>1. w[1] = cert /\ w[2] = path[1]
      BY <1>1, <1>3
    <3> QED
      BY <2>1, <3>1 DEF UsableIssuer, IssuedBy, SignedBy
  <2>2. CASE i # 1
    <3>1. i - 1 \in 1..(n - 1) /\ i = (i - 1) + 1
      BY <1>1, <1>3, <2>2
    <3>2. w[i + 1] = path[(i - 1) + 1] /\ w[i] = path[i - 1]
      BY <1>1, <1>3, <3>1
    <3> QED
      BY <1>1, <3>1, <3>2, Zenon DEF IsPath
  <2> QED
    BY <2>1, <2>2, Zenon
<1>6. w[Len(w)] = path[Len(path)]
  BY <1>1, <1>3
<1> QED
  BY <1>2, <1>4, <1>5, <1>6, Zenon DEF IsPath

\* A path from cert to an anchor through at most k intermediates.
PathWithin(cert, k, ints, anchors, now) ==
    \E n \in 0..k : \E up \in [1..n -> InSeq(ints)] : IsPath(<<cert>> \o up, anchors, now)

\* A certificate that is current and issued by an anchor is a path.
LEMMA AnchoredPath ==
    ASSUME NEW cert, NEW k \in Nat, NEW ints, NEW anchors, NEW now,
           WithinValidity(cert, now), NEW a \in InSeq(anchors), IssuedBy(cert, a)
    PROVE  PathWithin(cert, k, ints, anchors, now)
<1>1. <<>> \in [1..0 -> InSeq(ints)] /\ <<cert>> \o <<>> = <<cert>>
  OBVIOUS
<1>2. DOMAIN <<cert>> = 1..1 /\ Len(<<cert>>) = 1 /\ <<cert>>[1] = cert
  OBVIOUS
<1>3. \A i \in DOMAIN <<cert>> : WithinValidity(<<cert>>[i], now)
  BY <1>2
<1>4. \E b \in InSeq(anchors) : b.subject = <<cert>>[Len(<<cert>>)].issuer
                             /\ b.key = <<cert>>[Len(<<cert>>)].signer
  BY <1>2, Zenon DEF IssuedBy, SignedBy
<1>5. \A i \in 1..(Len(<<cert>>) - 1) : FALSE
  BY <1>2
<1>6. IsPath(<<cert>>, anchors, now)
  BY <1>3, <1>4, <1>5, Zenon DEF IsPath
<1>7. IsPath(<<cert>> \o <<>>, anchors, now)
  BY <1>1, <1>6, Zenon
<1>8. \E up \in [1..0 -> InSeq(ints)] : IsPath(<<cert>> \o up, anchors, now)
  BY <1>1, <1>7, Zenon
<1>9. 0 \in 0..k
  OBVIOUS
<1> QED
  BY <1>8, <1>9, Zenon DEF PathWithin

\* An Ok with k + 1 passes left has followed a path through at most k intermediates.
LEMMA OutcomeHasPath ==
    ASSUME NEW N \in Nat, NEW certs, NEW ints, InSeq(ints) \subseteq certs, NEW anchors, NEW now,
           NEW f, IsOutcomes(f, N, certs, ints, anchors, now),
           NEW k \in 0..N, NEW cert \in certs, f[k][cert]
    PROVE  WithinValidity(cert, now) /\ PathWithin(cert, k, ints, anchors, now)
<1>1. \A left \in 0..N : \A c \in certs :
        f[left][c] <=> ChainPass(c, ints, anchors, now,
                                 IF left = 0 THEN NoOutcomes(certs) ELSE f[left - 1])
  BY DEF IsOutcomes, Outcomes
<1>2. \A left \in 0..N : \A c \in certs :
        f[left][c] => /\ WithinValidity(c, now)
                      /\ \/ \E a \in InSeq(anchors) : IssuedBy(c, a)
                         \/ /\ left # 0
                            /\ \E issuer \in FirstIssuer(c, ints) : f[left - 1][issuer]
  <2> TAKE left \in 0..N
  <2> TAKE c \in certs
  <2> HAVE f[left][c]
  <2>1. ChainPass(c, ints, anchors, now, IF left = 0 THEN NoOutcomes(certs) ELSE f[left - 1])
    BY <1>1, Zenon
  <2>2. \A issuer \in FirstIssuer(c, ints) : issuer \in certs
    BY Zenon DEF FirstIssuer, InSeq
  <2>3. CASE left = 0
    BY <2>1, <2>2, <2>3, Zenon DEF ChainPass, NoOutcomes
  <2>4. CASE left # 0
    BY <2>1, <2>4, Zenon DEF ChainPass
  <2> QED
    BY <2>3, <2>4, Zenon
<1> DEFINE T == {left \in 0..N : \E c \in certs :
                    f[left][c] /\ ~PathWithin(c, left, ints, anchors, now)}
<1>3. T = {}
  <2> SUFFICES ASSUME T # {} PROVE FALSE
    BY Zenon
  <2>0. T \subseteq Nat
    OBVIOUS
  <2>1. PICK m \in T : \A l \in T : m <= l
    <3> HIDE DEF T
    <3> QED
      BY <2>0, LeastNatural, Zenon
  <2>2. PICK c \in certs : f[m][c] /\ ~PathWithin(c, m, ints, anchors, now)
    BY <2>1, Zenon
  <2>3. m \in 0..N /\ WithinValidity(c, now)
    BY <1>2, <2>1, <2>2, Zenon
  <2>4. CASE \E a \in InSeq(anchors) : IssuedBy(c, a)
    BY <2>2, <2>3, <2>4, AnchoredPath
  <2>5. ASSUME m # 0, NEW issuer \in FirstIssuer(c, ints), f[m - 1][issuer]
        PROVE  FALSE
    <3>1. m - 1 \in 0..N /\ m - 1 \notin T
      BY <2>1, <2>3, <2>5
    <3>2. issuer \in InSeq(ints) /\ issuer \in certs /\ UsableIssuer(c, issuer)
      BY Zenon DEF FirstIssuer, InSeq
    <3>3. PathWithin(issuer, m - 1, ints, anchors, now)
      BY <2>5, <3>1, <3>2, Zenon
    <3>4. PICK n \in 0..(m - 1) : \E up \in [1..n -> InSeq(ints)] :
                IsPath(<<issuer>> \o up, anchors, now)
      BY <3>3, Zenon DEF PathWithin
    <3>5. PICK up \in [1..n -> InSeq(ints)] : IsPath(<<issuer>> \o up, anchors, now)
      BY <3>4, Zenon
    <3>6. PICK path : path = <<issuer>> \o up
      BY Zenon
    <3>7. n \in Nat /\ n + 1 \in 0..m
      BY <2>3, <3>1, <3>4
    <3>8. up \in Seq(InSeq(ints)) /\ Len(up) = n
      BY <3>5, <3>7
    <3>9. /\ path \in Seq(InSeq(ints)) /\ path # <<>> /\ path[1] = issuer
          /\ path \in [1..(n + 1) -> InSeq(ints)]
      <4>1. <<issuer>> \in Seq(InSeq(ints)) /\ Len(<<issuer>>) = 1 /\ <<issuer>>[1] = issuer
        BY <3>2
      <4>2. /\ path \in Seq(InSeq(ints)) /\ Len(path) = 1 + n /\ path[1] = issuer
        BY <3>6, <3>7, <3>8, <4>1, ConcatProperties
      <4>3. path \in [1..(n + 1) -> InSeq(ints)]
        BY <3>7, <4>2
      <4> QED
        BY <3>7, <4>2, <4>3
    <3>10. IsPath(<<c>> \o path, anchors, now)
      BY <2>3, <3>2, <3>5, <3>6, <3>9, ConsPath, Zenon
    <3> QED
      BY <2>2, <3>7, <3>9, <3>10, Zenon DEF PathWithin
  <2> QED
    BY <1>2, <2>2, <2>3, <2>4, <2>5, Zenon
<1> QED
  BY <1>2, <1>3, Zenon

\* validate_chain returns Ok only for a current leaf from which a path leads to an
\* anchor, although it never looks back at an intermediate it has passed over.
THEOREM ValidateChainSound ==
    ASSUME NEW S, NEW ints \in Seq(S), NEW leaf, NEW anchors, NEW now,
           ValidateChain(leaf, ints, anchors, now)
    PROVE  WithinValidity(leaf, now) /\ PathExists(leaf, ints, anchors, now)
<1>1. Len(ints) \in Nat
  OBVIOUS
<1>2. PICK f : /\ IsOutcomes(f, Len(ints), {leaf} \cup InSeq(ints), ints, anchors, now)
               /\ ValidateChain(leaf, ints, anchors, now) = f[Len(ints)][leaf]
  BY <1>1, ValidateChainUnfolds, Zenon
<1>3. PICK certs, N : certs = {leaf} \cup InSeq(ints) /\ N = Len(ints) /\ N \in Nat
  BY <1>1, Zenon
<1>4. IsOutcomes(f, N, certs, ints, anchors, now)
  BY <1>2, <1>3, Zenon
<1>5. N \in 0..N /\ leaf \in certs /\ InSeq(ints) \subseteq certs
  BY <1>3
<1>6. f[N][leaf]
  BY <1>2, <1>3, Zenon
<1>7. WithinValidity(leaf, now) /\ PathWithin(leaf, N, ints, anchors, now)
  BY <1>3, <1>4, <1>5, <1>6, OutcomeHasPath, Zenon
<1> QED
  BY <1>3, <1>7, Zenon DEF PathWithin, PathExists

\* The one intermediate that fits is the first.
LEMMA OnlyIssuerFirst ==
    ASSUME NEW S, NEW ints \in Seq(S), Unambiguous(ints), NEW cert, NEW issuer \in InSeq(ints),
           UsableIssuer(cert, issuer)
    PROVE  issuer \in FirstIssuer(cert, ints)
<1>1. PICK N \in Nat : N = Len(ints) /\ DOMAIN ints = 1..N
  OBVIOUS
<1>2. PICK k \in DOMAIN ints : issuer = ints[k]
  BY Zenon DEF InSeq
<1>3. \A j \in 1..(k - 1) : j \in DOMAIN ints /\ j # k
  BY <1>1, <1>2
<1>4. ASSUME NEW j \in 1..(k - 1), UsableIssuer(cert, ints[j]) PROVE FALSE
  <2>1. ints[j].subject = ints[k].subject
    BY <1>2, <1>4, Zenon DEF UsableIssuer, IssuedBy
  <2> QED
    BY <1>2, <1>3, <2>1, Zenon DEF Unambiguous
<1> QED
  BY <1>2, <1>4, Zenon DEF FirstIssuer

\* path is one through at most N intermediates.
PathThrough(path, n, N, ints, anchors, now) ==
    /\ n \in 0..N /\ DOMAIN path = 1..(n + 1) /\ Len(path) = n + 1
    /\ \A i \in 2..(n + 1) : path[i] \in InSeq(ints)
    /\ IsPath(path, anchors, now)

\* The loop follows a path to its end: at each certificate of it there are passes enough left.
LEMMA PathFollowed ==
    ASSUME NEW S, NEW ints \in Seq(S), Unambiguous(ints), NEW anchors, NEW now, NEW certs,
           InSeq(ints) \subseteq certs, NEW N \in Nat, NEW n \in Nat, NEW path, PathThrough(path, n, N, ints, anchors, now),
           path[1] \in certs, NEW f, IsOutcomes(f, N, certs, ints, anchors, now)
    PROVE  f[N][path[1]]
<1>1. /\ n \in 0..N /\ DOMAIN path = 1..(n + 1) /\ Len(path) = n + 1
      /\ \A i \in 2..(n + 1) : path[i] \in InSeq(ints)
      /\ IsPath(path, anchors, now)
  BY Zenon DEF PathThrough
<1>2. \A left \in 0..N : \A c \in certs :
        f[left][c] = ChainPass(c, ints, anchors, now,
                               IF left = 0 THEN NoOutcomes(certs) ELSE f[left - 1])
  BY DEF IsOutcomes, Outcomes
<1>3. \A i \in 1..(n + 1) : path[i] \in certs /\ WithinValidity(path[i], now)
  <2>1. \A i \in 1..(n + 1) : i = 1 \/ i \in 2..(n + 1)
    BY <1>1
  <2> QED
    BY <1>1, <2>1, Zenon DEF IsPath
<1> DEFINE T == {k \in 0..n : \E left \in k..N : ~f[left][path[n + 1 - k]]}
<1>4. T = {}
  <2> SUFFICES ASSUME T # {} PROVE FALSE
    BY Zenon
  <2>1. T \subseteq Nat
    BY <1>1
  <2>2. PICK m \in T : \A l \in T : m <= l
    <3> HIDE DEF T
    <3> QED
      BY <2>1, LeastNatural, Zenon
  <2>3. PICK left \in m..N : m \in 0..n /\ ~f[left][path[n + 1 - m]]
    BY <2>2, Zenon
  <2>4. PICK i : i = n + 1 - m /\ i \in 1..(n + 1) /\ left \in 0..N
    BY <1>1, <2>3
  <2>5. PICK c : c = path[i] /\ c \in certs /\ WithinValidity(c, now) /\ ~f[left][c]
    BY <1>3, <2>3, <2>4, Zenon
  <2>6. CASE m = 0
    <3>1. i = Len(path)
      BY <1>1, <2>4, <2>6
    <3>2. \E a \in InSeq(anchors) : IssuedBy(c, a)
      <4>1. PICK a \in InSeq(anchors) : a.subject = c.issuer /\ a.key = c.signer
        BY <1>1, <2>5, <3>1, Zenon DEF IsPath
      <4> QED
        BY <4>1, Zenon DEF IssuedBy, SignedBy
    <3> QED
      BY <1>2, <2>4, <2>5, <3>2, Zenon DEF ChainPass
  <2>7. CASE m # 0
    <3>1. /\ m - 1 \in 0..n /\ ~(m <= m - 1) /\ left # 0 /\ left - 1 \in (m - 1)..N
          /\ i \in 1..(Len(path) - 1) /\ i + 1 = n + 1 - (m - 1) /\ i + 1 \in 2..(n + 1)
      BY <1>1, <2>3, <2>4, <2>7
    <3>2. m - 1 \notin T
      <4> HIDE DEF T
      <4> QED
        BY <2>2, <3>1, Zenon
    <3>3. PICK issuer : issuer = path[i + 1]
      BY Zenon
    <3>4. f[left - 1][issuer]
      BY <3>1, <3>3, <3>2, Zenon
    <3>5. issuer \in InSeq(ints) /\ UsableIssuer(c, issuer)
      BY <1>1, <2>5, <3>1, <3>3, Zenon DEF IsPath, UsableIssuer, IssuedBy, SignedBy
    <3>6. issuer \in FirstIssuer(c, ints)
      BY <3>5, OnlyIssuerFirst
    <3>7. PICK next : next = IF left = 0 THEN NoOutcomes(certs) ELSE f[left - 1]
      BY Zenon
    <3>8. next[issuer]
      BY <3>1, <3>4, <3>7, Zenon
    <3>9. ChainPass(c, ints, anchors, now, next)
      BY <2>5, <3>6, <3>8, Zenon DEF ChainPass
    <3> QED
      BY <1>2, <2>4, <2>5, <3>7, <3>9, Zenon
  <2> QED
    BY <2>6, <2>7, Zenon
<1>5. n \in 0..n /\ N \in n..N /\ n + 1 - n = 1
  BY <1>1
<1> QED
  BY <1>4, <1>5, Zenon

\* validate_chain finds a path that exists, although it follows the first intermediate that
\* fits and never goes back, when no two intermediates have the same subject; so then it
\* returns Ok exactly for the leaves that have one.
THEOREM ValidateChainComplete ==
    ASSUME NEW S, NEW ints \in Seq(S), Unambiguous(ints), NEW leaf, NEW anchors, NEW now,
           PathExists(leaf, ints, anchors, now)
    PROVE  ValidateChain(leaf, ints, anchors, now)
<1>1. PICK N \in Nat : N = Len(ints)
  OBVIOUS
<1>2. PICK certs : certs = {leaf} \cup InSeq(ints)
  BY Zenon
<1>3. Len(ints) \in Nat
  BY <1>1, Zenon
<1>4. PICK f : /\ IsOutcomes(f, Len(ints), {leaf} \cup InSeq(ints), ints, anchors, now)
               /\ ValidateChain(leaf, ints, anchors, now) = f[Len(ints)][leaf]
  BY <1>3, ValidateChainUnfolds, Zenon
<1>5. IsOutcomes(f, N, certs, ints, anchors, now)
  BY <1>1, <1>2, <1>4, Zenon
<1>6. PICK n \in 0..N : \E up \in [1..n -> InSeq(ints)] : IsPath(<<leaf>> \o up, anchors, now)
  BY <1>1, Zenon DEF PathExists
<1>7. PICK up \in [1..n -> InSeq(ints)] : IsPath(<<leaf>> \o up, anchors, now)
  BY <1>6, Zenon
<1>8. PICK path : path = <<leaf>> \o up
  BY Zenon
<1>9. n \in Nat /\ \A i \in 2..(n + 1) : i - 1 \in 1..n /\ i = 1 + (i - 1)
  BY <1>1
<1>10. up \in Seq(InSeq(ints)) /\ Len(up) = n /\ \A i \in 1..n : up[i] \in InSeq(ints)
  BY <1>7, <1>9
<1>11. /\ Len(path) = n + 1 /\ DOMAIN path = 1..(n + 1) /\ path[1] = leaf
       /\ \A i \in 1..n : path[1 + i] = up[i]
  BY <1>8, <1>9, <1>10
<1>12. \A i \in 2..(n + 1) : path[i] \in InSeq(ints)
  BY <1>9, <1>10, <1>11, Zenon
<1>13. PathThrough(path, n, N, ints, anchors, now)
  BY <1>7, <1>8, <1>11, <1>12, Zenon DEF PathThrough
<1>14. path[1] \in certs /\ InSeq(ints) \subseteq certs
  BY <1>2, <1>11, Zenon
<1>15. f[N][path[1]]
  BY <1>9, <1>13, <1>14, <1>5, PathFollowed
<1> QED
  BY <1>1, <1>4, <1>11, <1>15, Zenon

-----------------------------------------------------------------------------
(* Fields *)

\* unwrap of an Option that holds x.
LEMMA TheOne == \A x : The({x}) = x
BY Zenon DEF The

\* The fields of a datagram.
LEMMA SkFields ==
    ASSUME NEW id, NEW ps
    PROVE  /\ Sk(Client, id, ps).from = Client /\ Sk(Client, id, ps).to = Server
           /\ Sk(Server, id, ps).from = Server /\ Sk(Server, id, ps).to = Client
           /\ Sk(Client, id, ps).data.ps = ps /\ Sk(Server, id, ps).data.ps = ps
BY Zenon DEF Sk, Datagram, Client, Server

\* The fields of an EAP packet.
LEMMA EapPacketFields ==
    ASSUME NEW code, NEW type
    PROVE  /\ EapPacket(code, type).code = code /\ EapPacket(code, type).type = type
           /\ EapPacket(code, type).user = {} /\ EapPacket(code, type).challenge = {}
           /\ EapPacket(code, type).response = {}
BY Zenon DEF EapPacket

\* The payloads of a message that carries an EAP packet alone.
LEMMA EapPayloadFields ==
    ASSUME NEW packet
    PROVE  /\ EapPayload(packet).id = {} /\ EapPayload(packet).cert = <<>>
           /\ EapPayload(packet).auth = {} /\ EapPayload(packet).eap = {packet}
           /\ EapPayload(packet).sa = {}
BY Zenon DEF EapPayload, NoPayloads

\* The payloads of the initiator's first message.
LEMMA EapRequestFields ==
    /\ EapRequest.id = {Idi} /\ EapRequest.auth = {} /\ EapRequest.eap = {}
    /\ EapRequest.sa = {ClientChildSpi}
BY Zenon DEF EapRequest, NoPayloads

\* The payloads of the responder's first message.
LEMMA FirstAnswerFields ==
    ASSUME NEW auth
    PROVE  /\ FirstAnswer(auth).id = {Idr} /\ FirstAnswer(auth).auth = {auth}
           /\ FirstAnswer(auth).cert = IF config.auth.kind = "Cert" THEN config.auth.chain ELSE <<>>
           /\ FirstAnswer(auth).eap = {EapPacket("REQUEST", "IDENTITY")}
BY Zenon DEF FirstAnswer, NoPayloads

\* The payloads of the responder's last message.
LEMMA LastAnswerFields ==
    /\ LastAnswer.id = {Idr} /\ LastAnswer.eap = {} /\ LastAnswer.cert = <<>>
    /\ LastAnswer.auth = {SharedKeyAuth(Msk(res.password, res.nt_response),
                                        SignedOctets("responder", Idr))}
BY Zenon DEF LastAnswer, NoPayloads

\* The initiator's identity response.
LEMMA IdentityFields ==
    /\ IdentityResponse.code = "RESPONSE" /\ IdentityResponse.type = "IDENTITY"
    /\ IdentityResponse.user = {config.user} /\ IdentityResponse.challenge = {}
    /\ IdentityResponse.response = {}
BY Zenon DEF IdentityResponse, EapPacket

\* The MSCHAPv2 challenge and response packets.
LEMMA ChallengeFields ==
    ASSUME NEW c, NEW a, NEW peer, NEW user, NEW password
    PROVE  /\ BuildChallenge(c) = [EapPacket("REQUEST", "CHALLENGE") EXCEPT
                                      !.challenge = BuildChallenge(c).challenge]
           /\ BuildChallenge(c).code = "REQUEST" /\ BuildChallenge(c).type = "CHALLENGE"
           /\ BuildResponse(a, peer, user, password).code = "RESPONSE"
           /\ BuildResponse(a, peer, user, password).type = "RESPONSE"
           /\ BuildResponse(a, peer, user, password).user = {}
           /\ BuildResponse(a, peer, user, password).response =
                {[peer |-> peer, name |-> user, nt |-> NtResponse(a, peer, user, password)]}
BY Zenon DEF BuildChallenge, BuildResponse, EapPacket

\* An AUTH made from an MSK names it.
LEMMA AuthNamesMsk ==
    ASSUME NEW k, NEW m, NEW x, NEW y, SharedKeyAuth(k, x) = SharedKeyAuth(m, y)
    PROVE  k = m
BY Zenon DEF SharedKeyAuth

-----------------------------------------------------------------------------
(* What the two ends can read *)

\* What a message to the initiator shows, by the EAP packet in it.
LEMMA ReadByClient ==
    ASSUME IInv, NEW d \in net, d.to = Client
    PROVE  /\ Begun
           /\ d.data.ps.eap = {} =>
                Accepted /\ res.phase = "established" /\ d.data.ps = LastAnswer
           /\ \A packet \in d.data.ps.eap :
                /\ packet.challenge # {} => Selected
                /\ packet.type = "SUCCESS" => Accepted
                /\ packet.code = "SUCCESS" => Accepted
<1>1. ServerSends(d.data.ps)
  BY Zenon DEF IInv, MessageOrigin, Client, Server
<1>2. PICK ps : ps = d.data.ps /\ Begun
  BY <1>1, Zenon DEF ServerSends
<1>3. CASE \E auth \in ServerAuthPayloads : ps = FirstAnswer(auth)
  BY <1>2, <1>3, FirstAnswerFields, EapPacketFields
<1>4. CASE Selected /\ \E packet \in ps.eap :
            /\ packet.code = "REQUEST" /\ packet.type = "CHALLENGE"
            /\ packet = [EapPacket("REQUEST", "CHALLENGE") EXCEPT !.challenge = packet.challenge]
            /\ ps = EapPayload(packet)
  BY <1>2, <1>4, EapPayloadFields
<1>5. CASE Accepted /\ (ps = EapPayload(EapPacket("REQUEST", "SUCCESS")) \/ ps = EapPayload(EapSuccess))
  <2>1. Selected /\ Accepted
    BY <1>5, Zenon DEF Accepted
  <2>2. PICK packet : ps = EapPayload(packet)
    BY <1>5, Zenon
  <2>3. ps.eap = {packet}
    BY <2>2, EapPayloadFields, Zenon
  <2> QED
    BY <1>2, <2>1, <2>3, Zenon
<1>6. CASE Accepted /\ res.phase = "established" /\ ps = LastAnswer
  BY <1>2, <1>6, LastAnswerFields, Zenon
<1> QED
  BY <1>1, <1>2, <1>3, <1>4, <1>5, <1>6, Zenon DEF ServerSends

\* What a message to the responder shows, by the payloads in it.
LEMMA ReadByServer ==
    ASSUME IInv, NEW d \in net, d.to = Server
    PROVE  /\ d.data.ps.eap = {} /\ d.data.ps.auth = {} => d.data.ps = EapRequest
           /\ d.data.ps.auth # {} => Accepted
           /\ \A packet \in d.data.ps.eap :
                /\ Begun
                /\ \A user \in packet.user : user = config.user
                /\ \A r \in packet.response :
                      Selected /\ r.nt.user = config.user /\ r.nt.password = config.password
                /\ packet = EapPacket("RESPONSE", "SUCCESS") => Accepted
<1>1. PICK ps : ps = d.data.ps /\ (ps = EapRequest \/ ClientSends(ps))
  BY Zenon DEF IInv, MessageOrigin, Client, Server
<1>2. CASE ps = EapRequest
  BY <1>1, <1>2, EapRequestFields, Zenon
<1>3. CASE ps = EapPayload(IdentityResponse) /\ Begun
  BY <1>1, <1>3, EapPayloadFields, IdentityFields, EapPacketFields
<1>4. CASE /\ Selected /\ Begun
           /\ \E packet \in ps.eap : \E r \in packet.response :
                /\ r.nt.user = config.user /\ r.nt.password = config.password
                /\ packet.code = "RESPONSE" /\ packet.type = "RESPONSE" /\ packet.user = {}
                /\ packet.response = {r} /\ ps = EapPayload(packet)
  BY <1>1, <1>4, EapPayloadFields, EapPacketFields
<1>5. CASE Accepted /\ Begun /\ ps = EapPayload(EapPacket("RESPONSE", "SUCCESS"))
  BY <1>1, <1>5, EapPayloadFields, EapPacketFields
<1>6. CASE Accepted /\ ps = [NoPayloads EXCEPT !.auth = ps.auth] /\ ps.auth # {}
  <2>1. ps.eap = {}
    BY <1>6, Zenon DEF NoPayloads
  <2> QED
    BY <1>1, <1>6, <2>1, Zenon
<1> QED
  BY <1>1, <1>2, <1>3, <1>4, <1>5, <1>6, Zenon DEF ClientSends

\* A message the initiator does not refuse comes from a server it is content with.
LEMMA NotRefused ==
    ASSUME IInv, NEW d \in net, d.to = Client, ~Refused(d.data.ps)
    PROVE  Believed
<1>1. CASE ini.server_verified \/ config.verify # "TrustedCas"
  BY <1>1, Zenon DEF IInv, Believed
<1>2. CASE ~ini.server_verified /\ config.verify = "TrustedCas"
  <2>1. PICK ps : ps = d.data.ps /\ Presents(ps) /\ VerifyServer(ps)
    BY <1>2, Zenon DEF Refused
  <2>2. ps.cert # <<>> /\ ps.auth # {}
    BY <1>2, <2>1, Zenon DEF VerifyServer, Presents
  <2>3. ServerSends(ps)
    BY <2>1, Zenon DEF IInv, MessageOrigin, Client, Server
  <2>4. \E auth \in ServerAuthPayloads : ps = FirstAnswer(auth)
    BY <2>2, <2>3, EapPayloadFields, LastAnswerFields, Zenon DEF ServerSends
  <2> QED
    BY <2>1, <2>4, Zenon DEF Believed
<1> QED
  BY <1>1, <1>2, Zenon
-----------------------------------------------------------------------------
(* Steps *)

\* The configuration fixes what the first messages look like.
LEMMA ConfigKept ==
    ASSUME config' = config
    PROVE  /\ EapRequest' = EapRequest /\ IdentityResponse' = IdentityResponse
           /\ OnFile' = OnFile /\ Believed' = Believed
           /\ ServerAuthPayloads' = ServerAuthPayloads
           /\ \A auth : FirstAnswer(auth)' = FirstAnswer(auth)
<1>1. EapRequest' = EapRequest /\ IdentityResponse' = IdentityResponse
  BY Zenon DEF EapRequest, Idi, IdentityResponse
<1>2. OnFile' = OnFile
  BY Zenon DEF OnFile
<1>3. ServerAuthPayloads' = ServerAuthPayloads
  BY Zenon DEF ServerAuthPayloads, CertAuthPayloads
<1>4. \A auth : FirstAnswer(auth)' = FirstAnswer(auth)
  BY Zenon DEF FirstAnswer
<1>5. \A ps : VerifyServer(ps)' = VerifyServer(ps)
  BY Zenon DEF VerifyServer
<1>6. Believed' = Believed
  BY <1>3, <1>4, <1>5, Zenon DEF Believed
<1> QED
  BY <1>1, <1>2, <1>3, <1>4, <1>6, Zenon

\* A step that leaves the responder's evidence in place keeps the origin of every
\* message; its last answer names its state, which does not change any more.
LEMMA MessageKept ==
    ASSUME config' = config, Begun => Begun', Selected => Selected',
           res.phase = "established" => res' = res, NEW d, MessageOrigin(d)
    PROVE  MessageOrigin(d)'
<1>1. Accepted => Accepted'
  BY ConfigKept, Zenon DEF Accepted
<1>2. ASSUME NEW ps, ClientSends(ps) PROVE ClientSends(ps)'
  BY <1>1, <1>2, ConfigKept, Zenon DEF ClientSends
<1>3. res.phase = "established" => res'.phase = "established" /\ LastAnswer' = LastAnswer
  BY Zenon DEF LastAnswer
<1>4. ASSUME NEW ps, ServerSends(ps) PROVE ServerSends(ps)'
  BY <1>1, <1>3, <1>4, ConfigKept, Zenon DEF ServerSends
<1> QED
  BY <1>2, <1>4, ConfigKept, Zenon DEF MessageOrigin

\* A receiver takes a datagram of the network and adds what it sends.
LEMMA ReceiveFacts ==
    ASSUME NEW d, NEW out, Receive(d, out)
    PROVE  d \in net /\ net' \subseteq net \cup out
BY Zenon DEF Receive

\* A step of the initiator: what it has to show.
LEMMA ClientMoves ==
    ASSUME IInv, UNCHANGED <<config, res>>,
           IniShape', ini'.server_verified => Believed,
           BothEstablished',
           \A d \in net' : \/ d \in net
                           \/ /\ d.from = Client /\ d.to = Server
                              /\ d.data.ps = EapRequest \/ ClientSends(d.data.ps)
    PROVE  IInv'
<1>1. \A d \in net' : MessageOrigin(d)
  BY Zenon DEF IInv, MessageOrigin
<1>2. (Begun => Begun') /\ (Selected => Selected') /\ (Accepted => Accepted')
  BY ConfigKept DEF Begun, Selected, Accepted, Idi
<1>3. \A d \in net' : MessageOrigin(d)'
  BY <1>1, <1>2, MessageKept, Zenon
<1>4. ResShape'
  BY Zenon DEF IInv, ResShape
<1> QED
  BY <1>2, <1>3, <1>4, ConfigKept, Zenon DEF IInv

\* A step of the responder, which is neither established nor failed before it.
LEMMA ServerMoves ==
    ASSUME IInv, UNCHANGED <<config, ini>>, res.phase \in {"idle", "running"},
           ResShape', Begun => Begun', Selected => Selected',
           res'.phase = "established" => Accepted',
           \A d \in net' : \/ d \in net
                           \/ /\ d.from = Server /\ d.to = Client
                              /\ ServerSends(d.data.ps)'
    PROVE  IInv'
<1>1. \A d \in net : MessageOrigin(d)'
  BY MessageKept, Zenon DEF IInv
<1>2. \A d \in net' : MessageOrigin(d)'
  BY <1>1, Zenon DEF MessageOrigin
<1>3. BothEstablished' /\ IniShape'
  BY Zenon DEF IInv, BothEstablished, IniShape
<1> QED
  BY <1>2, <1>3, ConfigKept, Zenon DEF IInv
\* EapInitiator::start and a timeout of the driver.
LEMMA StartStep ==
    ASSUME IInv, Start \/ ClientTimeout
    PROVE  IInv'
<1>1. PICK phase \in {"waiting", "stopped"} : ini' = [ini EXCEPT !.phase = phase]
  BY Zenon DEF Start, ClientTimeout
<1>2. ini \in [phase : {"new", "waiting", "stopped", "failed", "established"}, step : Nat,
               nt_response : {ini.nt_response}, server_verified : BOOLEAN, drawn : Nat]
  BY Zenon DEF IInv, IniShape
<1>3. /\ IniShape'
      /\ ini'.phase = phase /\ ini'.server_verified = ini.server_verified
  BY <1>1, <1>2, Zenon DEF IniShape
<1>4. BothEstablished'
  BY <1>3, Zenon DEF BothEstablished
<1>5. \A d \in net' : \/ d \in net
                      \/ d.from = Client /\ d.to = Server /\ d.data.ps = EapRequest
  BY SkFields DEF Start, ClientTimeout, Send
<1>6. UNCHANGED <<config, res>>
  BY Zenon DEF Start, ClientTimeout
<1> QED
  BY <1>3, <1>4, <1>5, <1>6, ClientMoves, Zenon DEF IInv

\* The initiator stops: refused, confirmed or not.
LEMMA ClientEndsStep ==
    ASSUME IInv, NEW d \in net, d.to = Client, NEW phase \in {"failed", "established"},
           NEW verified \in BOOLEAN, ClientEnds(d, phase, verified), verified => Believed,
           phase = "established" =>
              /\ res.phase = "established" /\ Accepted
              /\ Msk(res.password, res.nt_response) = Msk(config.password, ini.nt_response)
    PROVE  IInv'
<1>1. /\ ini' = [ini EXCEPT !.phase = phase, !.server_verified = verified]
      /\ UNCHANGED <<config, res>> /\ net' \subseteq net
  BY ReceiveFacts DEF ClientEnds
<1>2. ini \in [phase : {"new", "waiting", "stopped", "failed", "established"}, step : Nat,
               nt_response : {ini.nt_response}, server_verified : BOOLEAN, drawn : Nat]
  BY Zenon DEF IInv, IniShape
<1>3. /\ IniShape'
      /\ ini'.phase = phase /\ ini'.server_verified = verified
      /\ ini'.nt_response = ini.nt_response
  BY <1>1, <1>2, Zenon DEF IniShape
<1>4. BothEstablished'
  BY <1>1, <1>3, Zenon DEF BothEstablished, Accepted, Selected, Begun, ClientChildSpi
<1> QED
  BY <1>1, <1>3, <1>4, ClientMoves, Zenon

\* A message that fails the checks at the head of handle.
LEMMA ClientRefusesStep ==
    ASSUME IInv, NEW d \in net, ClientRefuses(d)
    PROVE  IInv'
BY ClientEndsStep, Zenon DEF ClientRefuses, Waiting

\* What VerifiedAfter says is believed.
LEMMA VerifiedAfterBelieved ==
    ASSUME IInv, NEW d \in net, d.to = Client, ~Refused(d.data.ps)
    PROVE  /\ VerifiedAfter(d.data.ps) \in BOOLEAN
           /\ VerifiedAfter(d.data.ps) => Believed
BY NotRefused, Zenon DEF VerifiedAfter, IInv, IniShape, Presents

\* The responder's last message: its AUTH names the MSK of an established responder.
LEMMA ClientFinalStep ==
    ASSUME IInv, NEW d \in net, ClientFinal(d)
    PROVE  IInv'
<1>1. d.to = Client /\ ~Refused(d.data.ps) /\ d.data.ps.eap = {}
  BY Zenon DEF ClientFinal, Waiting
<1>2. Accepted /\ res.phase = "established" /\ d.data.ps = LastAnswer
  BY <1>1, ReadByClient, Zenon
<1>3. Confirms(d.data.ps) =>
        Msk(res.password, res.nt_response) = Msk(config.password, ini.nt_response)
  <2> SUFFICES ASSUME Confirms(d.data.ps)
               PROVE  Msk(res.password, res.nt_response) = Msk(config.password, ini.nt_response)
    BY Zenon
  <2>1. The(d.data.ps.auth) = SharedKeyAuth(Msk(res.password, res.nt_response),
                                            SignedOctets("responder", Idr))
    BY <1>2, LastAnswerFields, TheOne, Zenon
  <2>2. The(d.data.ps.auth) = SharedKeyAuth(Msk(config.password, ini.nt_response),
                                            SignedOctets("responder", The(d.data.ps.id)))
    BY Zenon DEF Confirms
  <2> QED
    BY <2>1, <2>2, AuthNamesMsk, Zenon
<1>4. PICK phase \in {"failed", "established"} :
        /\ phase = IF Confirms(d.data.ps) THEN "established" ELSE "failed"
        /\ ClientEnds(d, phase, VerifiedAfter(d.data.ps))
  BY Zenon DEF ClientFinal
<1> QED
  BY <1>1, <1>2, <1>3, <1>4, VerifiedAfterBelieved, ClientEndsStep, Zenon

\* A reply of the initiator's.
LEMMA ClientRepliesStep ==
    ASSUME IInv, NEW d \in net, NEW ps, NEW next, ClientReplies(d, ps, next), ClientSends(ps),
           NEW nt, NEW verified \in BOOLEAN, NEW drawn \in Nat, verified => Believed,
           next = [phase |-> "waiting", step |-> ini.step, nt_response |-> nt,
                   server_verified |-> verified, drawn |-> drawn]
    PROVE  IInv'
<1>1. PICK out : /\ out = Sk(Client, d.data.id + 1, ps)
                 /\ Receive(d, IF ini.step + 1 = MaxSteps THEN {} ELSE {out})
  BY Zenon DEF ClientReplies
<1>2. PICK phase \in {"stopped", "waiting"} :
        ini' = [next EXCEPT !.step = @ + 1, !.phase = phase]
  BY Zenon DEF ClientReplies
<1>3. ini.step \in Nat
  BY Zenon DEF IInv, IniShape
<1>4. /\ IniShape'
      /\ ini'.phase = phase /\ ini'.server_verified = verified
  <2>1. ini' = [phase |-> phase, step |-> ini.step + 1, nt_response |-> nt,
                server_verified |-> verified, drawn |-> drawn]
    BY <1>2, Zenon
  <2> QED
    BY <1>3, <2>1 DEF IniShape
<1>5. BothEstablished'
  BY <1>4, Zenon DEF BothEstablished
<1>6. \A e \in net' : e \in net \/ e = out
  BY <1>1, ReceiveFacts
<1>7. out.from = Client /\ out.to = Server /\ out.data.ps = ps
  BY <1>1, SkFields
<1>8. UNCHANGED <<config, res>>
  BY Zenon DEF ClientReplies
<1> QED
  BY <1>4, <1>5, <1>6, <1>7, <1>8, ClientMoves, Zenon

\* The state an initiator that waits goes on with.
LEMMA NextShape ==
    ASSUME IInv, ini.phase = "waiting", NEW verified \in BOOLEAN
    PROVE  /\ ini.drawn \in Nat /\ ini.drawn + 1 \in Nat
           /\ [ini EXCEPT !.server_verified = verified] =
                [phase |-> "waiting", step |-> ini.step, nt_response |-> ini.nt_response,
                 server_verified |-> verified, drawn |-> ini.drawn]
<1>1. ini \in [phase : {"new", "waiting", "stopped", "failed", "established"}, step : Nat,
               nt_response : {ini.nt_response}, server_verified : BOOLEAN, drawn : Nat]
  BY Zenon DEF IInv, IniShape
<1> QED
  BY <1>1

\* EAP-Success: the initiator's AUTH.
LEMMA ClientSuccessStep ==
    ASSUME IInv, NEW d \in net, ClientSuccess(d)
    PROVE  IInv'
<1>1. /\ d.to = Client /\ ini.phase = "waiting" /\ ~Refused(d.data.ps)
      /\ EapSuccess \in d.data.ps.eap
  BY Zenon DEF ClientSuccess, Waiting
<1>2. Accepted /\ Believed /\ Begun
  BY <1>1, ReadByClient, NotRefused, EapPacketFields DEF EapSuccess
<1>3. PICK verified \in BOOLEAN : verified = VerifiedAfter(d.data.ps) /\ (verified => Believed)
  BY <1>1, VerifiedAfterBelieved, Zenon
<1>4. PICK ps, next :
        /\ ps = [NoPayloads EXCEPT !.auth = {SharedKeyAuth(Msk(config.password, ini.nt_response),
                                                           SignedOctets("initiator", Idi))}]
        /\ next = [ini EXCEPT !.server_verified = verified]
        /\ ClientReplies(d, ps, next)
  BY <1>3, Zenon DEF ClientSuccess
<1>5. ps.auth # {} /\ ps = [NoPayloads EXCEPT !.auth = ps.auth]
  BY <1>4, Zenon DEF NoPayloads
<1>6. ClientSends(ps)
  BY <1>2, <1>5, Zenon DEF ClientSends
<1>7. /\ next = [phase |-> "waiting", step |-> ini.step, nt_response |-> ini.nt_response,
                server_verified |-> verified, drawn |-> ini.drawn]
      /\ ini.drawn \in Nat
  BY <1>1, <1>3, <1>4, NextShape, Zenon
<1>8. ClientReplies(d, ps, next)
  BY <1>4, Zenon
<1> QED
  BY <1>3, <1>6, <1>7, <1>8, ClientRepliesStep, Zenon

\* An EAP Request: the answer shows what the request showed.
LEMMA ClientEapRequestStep ==
    ASSUME IInv, NEW d \in net, ClientEapRequest(d)
    PROVE  IInv'
<1>1. /\ d.to = Client /\ ini.phase = "waiting" /\ ~Refused(d.data.ps)
  BY Zenon DEF ClientEapRequest, Waiting
<1>2. Believed /\ Begun
  BY <1>1, ReadByClient, NotRefused, Zenon
<1>3. PICK verified \in BOOLEAN : verified = VerifiedAfter(d.data.ps) /\ (verified => Believed)
  BY <1>1, VerifiedAfterBelieved, Zenon
<1>4. PICK next : next = [ini EXCEPT !.server_verified = verified]
  BY Zenon
<1>5. /\ next = [phase |-> "waiting", step |-> ini.step, nt_response |-> ini.nt_response,
                server_verified |-> verified, drawn |-> ini.drawn]
      /\ ini.drawn \in Nat /\ ini.drawn + 1 \in Nat
  BY <1>1, <1>3, <1>4, NextShape, Zenon
<1>6. PICK packet \in d.data.ps.eap :
        /\ packet.code = "REQUEST"
        /\ \/ ClientReplies(d, EapPayload(IdentityResponse), next)
           \/ \E authenticator \in packet.challenge :
                LET peer == <<Client, ini.drawn + 1>> IN
                ClientReplies(d,
                    EapPayload(BuildResponse(authenticator, peer, config.user, config.password)),
                    [next EXCEPT !.drawn = @ + 1,
                        !.nt_response = NtResponse(authenticator, peer, config.user, config.password)])
           \/ /\ packet.type = "SUCCESS"
              /\ ClientReplies(d, EapPayload(EapPacket("RESPONSE", "SUCCESS")), next)
  BY <1>3, <1>4, Zenon DEF ClientEapRequest, IdentityResponse
<1>7. CASE ClientReplies(d, EapPayload(IdentityResponse), next)
  <2>1. ClientSends(EapPayload(IdentityResponse))
    BY <1>2, Zenon DEF ClientSends
  <2> QED
    BY <1>3, <1>7, <1>5, <2>1, ClientRepliesStep, Zenon
<1>8. ASSUME NEW a \in packet.challenge, NEW peer,
             ClientReplies(d, EapPayload(BuildResponse(a, peer, config.user, config.password)),
                           [next EXCEPT !.drawn = @ + 1,
                              !.nt_response = NtResponse(a, peer, config.user, config.password)])
      PROVE  IInv'
  <2>1. Selected
    BY <1>1, <1>6, <1>8, ReadByClient, Zenon
  <2>2. PICK response, r, nt :
          /\ response = BuildResponse(a, peer, config.user, config.password)
          /\ r = [peer |-> peer, name |-> config.user, nt |-> nt]
          /\ nt = NtResponse(a, peer, config.user, config.password)
    BY Zenon
  <2>3. /\ response.code = "RESPONSE" /\ response.type = "RESPONSE" /\ response.user = {}
        /\ response.response = {r}
    BY <2>2, ChallengeFields
  <2>4. r.nt.user = config.user /\ r.nt.password = config.password
    BY <2>2, Zenon DEF NtResponse
  <2>5. ClientSends(EapPayload(response))
    BY <1>2, <2>1, <2>3, <2>4, EapPayloadFields, Zenon DEF ClientSends
  <2>6. PICK after : after = [next EXCEPT !.drawn = @ + 1, !.nt_response = nt]
    BY Zenon
  <2>7. after = [phase |-> "waiting", step |-> ini.step, nt_response |-> nt,
                 server_verified |-> verified, drawn |-> ini.drawn + 1]
    BY <1>5, <2>6, Zenon
  <2>8. ClientReplies(d, EapPayload(response), after)
    BY <1>8, <2>2, <2>6, Zenon
  <2> QED
    BY <1>3, <1>5, <2>5, <2>7, <2>8, ClientRepliesStep, Zenon
<1>9. CASE packet.type = "SUCCESS" /\ ClientReplies(d, EapPayload(EapPacket("RESPONSE", "SUCCESS")), next)
  <2>1. ClientSends(EapPayload(EapPacket("RESPONSE", "SUCCESS")))
    BY <1>1, <1>2, <1>6, <1>9, ReadByClient, Zenon DEF ClientSends
  <2> QED
    BY <1>3, <1>9, <1>5, <2>1, ClientRepliesStep, Zenon
<1> QED
  BY <1>6, <1>7, <1>8, <1>9, Zenon
\* The state of the responder, and what a message it sends does to the network.
LEMMA ServerFacts ==
    ASSUME IInv, NEW d \in net, Running(d)
    PROVE  /\ d.to = Server /\ res.phase \in {"idle", "running"}
           /\ res.drawn \in Nat
           /\ res = [phase |-> res.phase, user |-> res.user, password |-> res.password,
                     challenge |-> res.challenge, nt_response |-> res.nt_response,
                     peer_idi |-> res.peer_idi, peer_child_spi |-> res.peer_child_spi,
                     drawn |-> res.drawn]
BY Zenon DEF IInv, ResShape, Running

\* A reply, a failure or the end of the exchange, from the state it leaves.
LEMMA ServerSendsStep ==
    ASSUME IInv, NEW d \in net, Running(d), UNCHANGED <<config, ini>>, ResShape',
           Begun => Begun', Selected => Selected', res'.phase = "established" => Accepted',
           NEW payloads, Receive(d, {Sk(Server, d.data.id, p) : p \in payloads}),
           \A p \in payloads : ServerSends(p)'
    PROVE  IInv'
<1>1. \A e \in net' : e \in net \/ \E p \in payloads : e = Sk(Server, d.data.id, p)
  BY ReceiveFacts
<1>2. \A e \in net' : \/ e \in net
                      \/ e.from = Server /\ e.to = Client /\ ServerSends(e.data.ps)'
  BY <1>1, SkFields
<1>3. res.phase \in {"idle", "running"}
  BY Zenon DEF Running
<1> QED
  BY <1>2, <1>3, ServerMoves, Zenon

\* The first message.
LEMMA ServerFirstStep ==
    ASSUME IInv, NEW d \in net, ServerFirst(d)
    PROVE  IInv'
<1>1. Running(d) /\ d.data.ps = EapRequest
  BY ReadByServer, Zenon DEF ServerFirst, Running, IsEapRequest
<1>2. PICK next, payloads :
        /\ next = [res EXCEPT !.peer_child_spi = {ClientChildSpi}, !.peer_idi = {Idi}]
        /\ payloads = {FirstAnswer(auth) : auth \in ServerAuthPayloads}
        /\ ServerReplies(d, next, payloads)
  <2>1. d.data.ps.sa # {}
    BY <1>1, EapRequestFields, Zenon
  <2> QED
    BY <1>1, <2>1, EapRequestFields, Zenon DEF ServerFirst, FirstAnswer
<1>3. /\ res' = [next EXCEPT !.phase = "running"] /\ UNCHANGED <<config, ini>>
      /\ Receive(d, {Sk(Server, d.data.id, p) : p \in payloads})
  BY <1>2, Zenon DEF ServerReplies
<1>4. /\ res' = [phase |-> "running", user |-> res.user, password |-> res.password,
                 challenge |-> res.challenge, nt_response |-> res.nt_response,
                 peer_idi |-> {Idi}, peer_child_spi |-> {ClientChildSpi}, drawn |-> res.drawn]
      /\ res.drawn \in Nat
  BY <1>1, <1>2, <1>3, ServerFacts, Zenon
<1>5. Begun' /\ (Selected => Selected') /\ ResShape' /\ res'.phase # "established"
  <2>1. ResShape' /\ res'.phase # "established"
    BY <1>4, Zenon DEF ResShape
  <2>2. Begun'
    BY <1>3, <1>4 DEF Begun, Idi
  <2>3. Selected => Selected'
    BY <1>3, <1>4, <2>2 DEF Selected
  <2> QED
    BY <2>1, <2>2, <2>3, Zenon
<1>6. \A p \in payloads : ServerSends(p)'
  BY <1>2, <1>3, <1>5, ConfigKept, Zenon DEF ServerSends
<1> QED
  BY <1>1, <1>3, <1>5, <1>6, ServerSendsStep, Zenon

\* A failure.
LEMMA ServerFailsStep ==
    ASSUME IInv, NEW d \in net, Running(d), NEW next, ServerFails(d, next),
           NEW nt, next = [res EXCEPT !.nt_response = nt]
    PROVE  IInv'
<1>1. res' = [next EXCEPT !.phase = "failed"] /\ UNCHANGED <<config, ini>> /\ Receive(d, {})
  BY Zenon DEF ServerFails
<1>2. /\ res' = [phase |-> "failed", user |-> res.user, password |-> res.password,
                 challenge |-> res.challenge, nt_response |-> nt, peer_idi |-> res.peer_idi,
                 peer_child_spi |-> res.peer_child_spi, drawn |-> res.drawn]
      /\ res.drawn \in Nat
  BY <1>1, ServerFacts, Zenon
<1>3. ResShape' /\ res'.phase # "established"
  BY <1>2, Zenon DEF ResShape
<1>4. (Begun => Begun') /\ (Selected => Selected')
  BY <1>1, <1>2, Zenon DEF Begun, Selected, Idi
<1>5. {Sk(Server, d.data.id, p) : p \in {}} = {}
  BY Zenon
<1> QED
  BY <1>1, <1>3, <1>4, <1>5, ServerSendsStep, Zenon

\* The initiator's AUTH: it is sent by one whose NT response was accepted.
LEMMA ServerFinalStep ==
    ASSUME IInv, NEW d \in net, ServerFinal(d)
    PROVE  IInv'
<1>1. Running(d) /\ Accepted
  BY ReadByServer, Zenon DEF ServerFinal, Running
<1>2. CASE ServerFails(d, res)
  <2>1. res = [res EXCEPT !.nt_response = res.nt_response]
    BY <1>1, ServerFacts, Zenon
  <2> QED
    BY <1>1, <1>2, <2>1, ServerFailsStep, Zenon
<1>3. ASSUME res' = [res EXCEPT !.phase = "established"], UNCHANGED <<config, ini>>,
             Receive(d, {Sk(Server, d.data.id, LastAnswer)})
      PROVE  IInv'
  <2>1. /\ res' = [phase |-> "established", user |-> res.user, password |-> res.password,
                   challenge |-> res.challenge, nt_response |-> res.nt_response,
                   peer_idi |-> res.peer_idi, peer_child_spi |-> res.peer_child_spi,
                   drawn |-> res.drawn]
        /\ res.drawn \in Nat
    BY <1>1, <1>3, ServerFacts, Zenon
  <2>2. ResShape'
    BY <2>1, Zenon DEF ResShape
  <2>3. (Begun => Begun') /\ (Selected => Selected')
    BY <1>3, <2>1, Zenon DEF Begun, Selected, Idi
  <2>4. Accepted'
    BY <1>1, <1>3, <2>3, ConfigKept, Zenon DEF Accepted
  <2>5. PICK last, payloads : last = LastAnswer /\ payloads = {last}
    BY Zenon
  <2>6. last = LastAnswer'
    BY <2>1, <2>5, Zenon DEF LastAnswer
  <2>7. \A p \in payloads : ServerSends(p)'
    BY <2>1, <2>4, <2>5, <2>6, Zenon DEF ServerSends, Accepted, Selected
  <2>8. {Sk(Server, d.data.id, p) : p \in payloads} = {Sk(Server, d.data.id, LastAnswer)}
    BY <2>5, Zenon
  <2>9. Receive(d, {Sk(Server, d.data.id, p) : p \in payloads})
    BY <1>3, <2>8, Zenon
  <2> QED
    BY <1>1, <1>3, <2>2, <2>3, <2>4, <2>7, <2>9, ServerSendsStep, Zenon
<1> QED
  BY <1>2, <1>3, Zenon DEF ServerFinal, LastAnswer

\* The identity response: it names the initiator's own user.
LEMMA ServerIdentityStep ==
    ASSUME IInv, NEW d \in net, ServerIdentity(d)
    PROVE  IInv'
<1>1. Running(d)
  BY Zenon DEF ServerIdentity
<1>2. PICK challenge : challenge = <<Server, res.drawn + 1>>
  BY Zenon
<1>3. PICK packet \in d.data.ps.eap : \E claimed \in packet.user :
        \/ /\ claimed \in DOMAIN Accounts
           /\ ServerReplies(d,
                [res EXCEPT !.user = claimed, !.password = Accounts[claimed],
                            !.challenge = challenge, !.drawn = @ + 1],
                {EapPayload(BuildChallenge(challenge))})
        \/ ServerFails(d, res)
  BY <1>2, Zenon DEF ServerIdentity
<1>4. Begun
  BY <1>1, <1>3, ReadByServer, Zenon DEF Running
<1>5. CASE ServerFails(d, res)
  <2>1. res = [res EXCEPT !.nt_response = res.nt_response]
    BY <1>1, ServerFacts, Zenon
  <2> QED
    BY <1>1, <1>5, <2>1, ServerFailsStep, Zenon
<1>6. ASSUME NEW next, config.user \in DOMAIN Accounts,
             next = [res EXCEPT !.user = config.user, !.password = Accounts[config.user],
                                !.challenge = challenge, !.drawn = @ + 1],
             ServerReplies(d, next, {EapPayload(BuildChallenge(challenge))})
      PROVE  IInv'
  <2>1. PICK ps, payloads : ps = EapPayload(BuildChallenge(challenge)) /\ payloads = {ps}
    BY Zenon
  <2>2. /\ res' = [next EXCEPT !.phase = "running"] /\ UNCHANGED <<config, ini>>
        /\ Receive(d, {Sk(Server, d.data.id, p) : p \in payloads})
    BY <1>6, <2>1, Zenon DEF ServerReplies
  <2>3. /\ res' = [phase |-> "running", user |-> config.user, password |-> Accounts[config.user],
                   challenge |-> challenge, nt_response |-> res.nt_response,
                   peer_idi |-> res.peer_idi, peer_child_spi |-> res.peer_child_spi,
                   drawn |-> res.drawn + 1]
        /\ res.drawn \in Nat
    BY <1>1, <1>6, <2>2, ServerFacts, Zenon
  <2>4. ResShape' /\ res'.phase # "established"
    BY <2>3 DEF ResShape
  <2>5. Begun'
    BY <1>4, <2>2, <2>3 DEF Begun, Idi
  <2>6. Selected'
    BY <1>6, <2>2, <2>3, <2>5, Zenon DEF Selected
  <2>7. ServerSends(ps)'
    BY <2>1, <2>5, <2>6, ChallengeFields, EapPayloadFields DEF ServerSends
  <2>8. \A p \in payloads : ServerSends(p)'
    BY <2>1, <2>7, Zenon
  <2> QED
    BY <1>1, <2>2, <2>4, <2>5, <2>6, <2>8, ServerSendsStep
<1> QED
  <2>1. \A claimed \in packet.user : claimed = config.user
    BY <1>1, <1>3, ReadByServer, Zenon DEF Running
  <2> QED
    BY <1>3, <1>5, <1>6, <2>1, Zenon

\* The MSCHAPv2 response: a match shows that the password is the one on file.
LEMMA ServerResponseStep ==
    ASSUME IInv, NEW d \in net, ServerResponse(d)
    PROVE  IInv'
<1>1. Running(d)
  BY Zenon DEF ServerResponse
<1>2. PICK packet, r, nt :
        /\ packet \in d.data.ps.eap /\ r \in packet.response
        /\ nt = NtResponse(res.challenge, r.peer, res.user, res.password)
        /\ \/ /\ nt = r.nt
              /\ ServerReplies(d, [res EXCEPT !.nt_response = nt],
                               {EapPayload(EapPacket("REQUEST", "SUCCESS"))})
           \/ ServerFails(d, [res EXCEPT !.nt_response = nt])
  BY Zenon DEF ServerResponse, ResponseMatches
<1>3. Selected /\ r.nt.password = config.password
  BY <1>1, <1>2, ReadByServer, Zenon DEF Running
<1>4. CASE ServerFails(d, [res EXCEPT !.nt_response = nt])
  BY <1>1, <1>4, ServerFailsStep, Zenon
<1>5. ASSUME nt = r.nt, NEW next, next = [res EXCEPT !.nt_response = nt],
             ServerReplies(d, next, {EapPayload(EapPacket("REQUEST", "SUCCESS"))})
      PROVE  IInv'
  <2>1. PICK ps, payloads : /\ ps = EapPayload(EapPacket("REQUEST", "SUCCESS"))
                            /\ payloads = {ps}
    BY Zenon
  <2>2. /\ res' = [next EXCEPT !.phase = "running"] /\ UNCHANGED <<config, ini>>
        /\ Receive(d, {Sk(Server, d.data.id, p) : p \in payloads})
    BY <1>5, <2>1, Zenon DEF ServerReplies
  <2>3. /\ res' = [phase |-> "running", user |-> res.user, password |-> res.password,
                   challenge |-> res.challenge, nt_response |-> nt,
                   peer_idi |-> res.peer_idi, peer_child_spi |-> res.peer_child_spi,
                   drawn |-> res.drawn]
        /\ res.drawn \in Nat
    BY <1>1, <1>5, <2>2, ServerFacts, Zenon
  <2>4. ResShape' /\ res'.phase # "established"
    BY <2>3, Zenon DEF ResShape
  <2>5. Begun' /\ Selected'
    BY <1>3, <2>2, <2>3 DEF Begun, Selected, Idi
  <2>6. OnFile
    <3>1. nt.password = res.password
      BY <1>2, Zenon DEF NtResponse
    <3> QED
      BY <1>3, <1>5, <3>1, Zenon DEF Selected, OnFile
  <2>7. ServerSends(ps)'
    BY <2>1, <2>2, <2>5, <2>6, ConfigKept, Zenon DEF ServerSends, Accepted
  <2>8. \A p \in payloads : ServerSends(p)'
    BY <2>1, <2>7, Zenon
  <2> QED
    BY <1>1, <2>2, <2>4, <2>5, <2>8, ServerSendsStep, Zenon
<1> QED
  BY <1>2, <1>4, <1>5, Zenon

\* The acknowledgement: it is sent by an initiator whose response was accepted.
LEMMA ServerAckedStep ==
    ASSUME IInv, NEW d \in net, ServerAcked(d)
    PROVE  IInv'
<1>1. Running(d) /\ Accepted
  BY ReadByServer, Zenon DEF ServerAcked, Running
<1>2. PICK ps : ps = EapPayload(EapSuccess)
  BY Zenon
<1>3. /\ res' = [res EXCEPT !.phase = "running"] /\ UNCHANGED <<config, ini>>
      /\ Receive(d, {Sk(Server, d.data.id, p) : p \in {ps}})
  BY <1>2, Zenon DEF ServerReplies, ServerAcked
<1>4. /\ res' = [phase |-> "running", user |-> res.user, password |-> res.password,
                 challenge |-> res.challenge, nt_response |-> res.nt_response,
                 peer_idi |-> res.peer_idi, peer_child_spi |-> res.peer_child_spi,
                 drawn |-> res.drawn]
      /\ res.drawn \in Nat
  BY <1>1, <1>3, ServerFacts, Zenon
<1>5. ResShape' /\ res'.phase # "established"
  BY <1>4, Zenon DEF ResShape
<1>6. (Begun => Begun') /\ (Selected => Selected')
  BY <1>3, <1>4, Zenon DEF Begun, Selected, Idi
<1>7. ServerSends(ps)'
  BY <1>1, <1>2, <1>3, <1>6, ConfigKept, Zenon DEF ServerSends, Accepted, Selected
<1> QED
  BY <1>1, <1>3, <1>5, <1>6, <1>7, ServerSendsStep, ZenonT(30)
-----------------------------------------------------------------------------
(* Theorems *)

\* Every message in the network is evidence of what the responder has done: what
\* EapInitiator and EapResponder send next depends on what they have read.
THEOREM Invariance == Spec => []IInv
<1>1. Init => IInv
  <2> SUFFICES ASSUME Init PROVE IInv
    BY Zenon
  <2>1. /\ ini = [phase |-> "new", step |-> 0, nt_response |-> Zeros,
                  server_verified |-> FALSE, drawn |-> 0]
        /\ res = NewResponder /\ net = {}
    BY Zenon DEF Init, NetInit
  <2>2. config.verify \in {"Insecure", "TrustedCas"} /\ config.auth \in ServerAuths
    BY DEF Init
  <2>3. IniShape
    BY <2>1, Zenon DEF IniShape
  <2>4. ResShape /\ res.phase = "idle"
    BY <2>1, Zenon DEF ResShape, NewResponder
  <2>5. ~ini.server_verified /\ ini.phase = "new"
    BY <2>1, Zenon
  <2> QED
    BY <2>1, <2>2, <2>3, <2>4, <2>5, Zenon DEF IInv, BothEstablished
<1>2. IInv /\ [Next]_vars => IInv'
  <2> SUFFICES ASSUME IInv, [Next]_vars PROVE IInv'
    BY Zenon
  <2>1. CASE Start \/ ClientTimeout
    BY <2>1, StartStep, Zenon
  <2>2. CASE ClientReceive
    BY <2>2, ClientRefusesStep, ClientFinalStep, ClientSuccessStep, ClientEapRequestStep, Zenon
       DEF ClientReceive
  <2>3. CASE ServerReceive
    BY <2>3, ServerFirstStep, ServerFinalStep, ServerIdentityStep, ServerResponseStep,
       ServerAckedStep, Zenon DEF ServerReceive
  <2>4. CASE UNCHANGED vars
    <3>1. IniShape' /\ BothEstablished' /\ UNCHANGED <<config, res>> /\ net' = net /\ ini' = ini
      BY <2>4, Zenon DEF vars, IInv, IniShape, BothEstablished
    <3> QED
      BY <3>1, ClientMoves, Zenon DEF IInv
  <2> QED
    BY <2>1, <2>2, <2>3, <2>4, Zenon DEF Next
<1> QED
  BY <1>1, <1>2, PTL DEF Spec

\* When EapInitiator reports Established, EapResponder has too: one MSK, one account
\* and the initiator's ESP SPI.
THEOREM EstablishedTogether == Spec => []BothEstablished
<1>1. IInv => BothEstablished
  BY Zenon DEF IInv
<1> QED
  BY <1>1, Invariance, PTL

\* The check of the responder's first message succeeds only for a trustworthy server.
LEMMA BelievedTrustworthy ==
    ASSUME IInv, config.verify = "TrustedCas", Believed
    PROVE  Trustworthy
<1>1. PICK auth \in ServerAuthPayloads : VerifyServer(FirstAnswer(auth))
  BY Zenon DEF Believed
<1>2. /\ FirstAnswer(auth).cert # <<>>
      /\ VerifyCertAuth(Head(FirstAnswer(auth).cert), Tail(FirstAnswer(auth).cert), TrustedCas,
                        ExpectedDns, Now, The(FirstAnswer(auth).auth).data,
                        SignedOctets("responder", The(FirstAnswer(auth).id)))
  BY <1>1, Zenon DEF VerifyServer
<1>3. config.auth.kind = "Cert" /\ FirstAnswer(auth).cert = config.auth.chain
  BY <1>2, FirstAnswerFields, Zenon
<1>4. PICK leaf, ints, octets : /\ leaf = Head(config.auth.chain)
                                /\ ints = Tail(config.auth.chain)
                                /\ octets = SignedOctets("responder", Idr)
  BY Zenon
<1>5. VerifyCertAuth(leaf, ints, TrustedCas, ExpectedDns, Now, auth.data, octets)
  BY <1>2, <1>3, <1>4, FirstAnswerFields, TheOne, ZenonT(30)
<1>6. auth.data = Signature(config.auth.key, octets)
  BY <1>3, <1>4 DEF ServerAuthPayloads, CertAuthPayloads
<1>7. config.auth.key = leaf.key /\ ExpectedDns \in leaf.dns
  BY <1>5, <1>6 DEF VerifyCertAuth, HasDnsName, Signature
<1>8. PICK S : ints \in Seq(S)
  <2>1. PICK chain, S : /\ chain = config.auth.chain /\ chain \in Seq(S) /\ chain # <<>>
    BY <1>2, <1>3, EapAssumption, Zenon DEF IInv
  <2>2. Tail(chain) \in Seq(S)
    BY <2>1
  <2> QED
    BY <1>4, <2>1, <2>2, Zenon
<1>9. /\ WithinValidity(leaf, Now)
      /\ leaf \in InSeq(TrustedCas) \/ PathExists(leaf, ints, TrustedCas, Now)
  <2>1. CASE leaf \in InSeq(TrustedCas)
    BY <1>5, <2>1, Zenon DEF VerifyCertAuth
  <2>2. CASE leaf \notin InSeq(TrustedCas)
    <3>1. ValidateChain(leaf, ints, TrustedCas, Now)
      BY <1>5, <2>2, Zenon DEF VerifyCertAuth
    <3> QED
      BY <1>8, <3>1, ValidateChainSound, Zenon
  <2> QED
    BY <2>1, <2>2, Zenon
<1> QED
  BY <1>3, <1>4, <1>7, <1>9, Zenon DEF Trustworthy, InSeq

\* The credential firewall of EapInitiator::handle: a client told to verify its server
\* sends nothing but its first message to one that is not trustworthy.
THEOREM CredentialsKept == Spec => []CredentialsGuarded
<1>1. IInv => CredentialsGuarded
  <2> SUFFICES ASSUME IInv, config.verify = "TrustedCas", ~Trustworthy,
                      NEW d \in net, d.from = Client
               PROVE  d.data.ps = EapRequest
    BY Zenon DEF CredentialsGuarded
  <2>1. d.data.ps = EapRequest \/ ClientSends(d.data.ps)
    BY Zenon DEF IInv, MessageOrigin, Client, Server
  <2> QED
    BY <2>1, BelievedTrustworthy, Zenon DEF ClientSends
<1> QED
  BY <1>1, Invariance, PTL
=============================================================================
