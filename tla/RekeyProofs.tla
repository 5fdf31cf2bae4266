---------------------------- MODULE RekeyProofs -----------------------------
(***************************************************************************)
(* Proofs for Rekey: the safety properties of the requests that follow the *)
(* handshake, for any number of requests, losses and copies.               *)
(*                                                                         *)
(* The argument is about Message IDs.  A request that its receiver takes   *)
(* for a new one is the sender's pending request (IsRequestOf), so it is   *)
(* answered once; an answer that reaches a socket is the one kept for the  *)
(* request of that socket (IsAnswerTo, AnswerKept).  What the requester    *)
(* derives from it mirrors what the answering end derived, because that    *)
(* answer is the one kept for it.                                          *)
(*                                                                         *)
(* The inductive invariant (IInv) is kept by the network, by a new         *)
(* request, by the answer to one and by its completion, in this order.     *)
(***************************************************************************)
EXTENDS Rekey, TLAPS

-----------------------------------------------------------------------------
(* Operators *)

\* There are two ends.
LEMMA Others ==
    ASSUME NEW p \in Peers
    PROVE  /\ Other(p) \in Peers /\ Other(p) # p /\ Other(Other(p)) = p
           /\ \A x \in Peers : x = p \/ x = Other(p)
BY Zenon DEF Peers, Other

\* The element of a singleton: Option::unwrap.
LEMMA TheOne == \A x : The({x}) = x
BY Zenon DEF The

\* The fields of the payload records the requests carry.
LEMMA ChildRequestFields ==
    ASSUME NEW draw
    PROVE  LET i == ChildRekeyRequest(draw) IN
           /\ i.sa = {draw} /\ i.nonce = {draw} /\ i.ke = {} /\ i.notify = {}
           /\ i.ts = {[i |-> FullTunnel, r |-> FullTunnel]}
           /\ IsChildRekey(i) /\ ~IsIkeSaRekey(i)
BY Zenon DEF ChildRekeyRequest, Empty, IsChildRekey, IsIkeSaRekey

\* The payloads of the peer's IKE SA rekey request.
LEMMA IkeRequestFields ==
    ASSUME NEW draw, NEW g
    PROVE  LET i == IkeRekeyRequest(draw, g) IN
           /\ i.sa = {draw} /\ i.nonce = {draw} /\ i.ts = {} /\ i.notify = {}
           /\ i.ke = {[group |-> g, public |-> draw]}
           /\ IsIkeSaRekey(i) /\ ~IsChildRekey(i)
BY Zenon DEF IkeRekeyRequest, Empty, IsChildRekey, IsIkeSaRekey

\* The payloads of dpd_request and build_update_sa_addresses.
LEMMA InformationalFields ==
    /\ DpdRequest.sa = {} /\ DpdRequest.nonce = {}
    /\ ~IsIkeSaRekey(DpdRequest) /\ ~IsChildRekey(DpdRequest)
    /\ UpdateRequest.sa = {} /\ UpdateRequest.nonce = {}
    /\ ~IsIkeSaRekey(UpdateRequest) /\ ~IsChildRekey(UpdateRequest)
BY Zenon DEF DpdRequest, UpdateRequest, Empty, IsIkeSaRekey, IsChildRekey

\* The three kinds of request.
LEMMA RequestKinds ==
    ASSUME NEW p, NEW draw, NEW inner, IsRequestInner(p, draw, inner)
    PROVE  \/ /\ inner = ChildRekeyRequest(draw) /\ inner.sa = {draw} /\ inner.nonce = {draw}
              /\ inner.ts = {[i |-> FullTunnel, r |-> FullTunnel]}
              /\ IsChildRekey(inner) /\ ~IsIkeSaRekey(inner)
           \/ /\ inner.sa = {draw} /\ inner.nonce = {draw}
              /\ \E g : inner.ke = {[group |-> g, public |-> draw]}
              /\ IsIkeSaRekey(inner) /\ ~IsChildRekey(inner)
           \/ /\ inner.sa = {} /\ inner.nonce = {}
              /\ ~IsIkeSaRekey(inner) /\ ~IsChildRekey(inner)
<1>1. CASE inner = ChildRekeyRequest(draw)
  BY <1>1, ChildRequestFields, Zenon
<1>2. ASSUME NEW g \in Groups, inner = IkeRekeyRequest(draw, g)
      PROVE  /\ inner.sa = {draw} /\ inner.nonce = {draw}
             /\ inner.ke = {[group |-> g, public |-> draw]}
             /\ IsIkeSaRekey(inner) /\ ~IsChildRekey(inner)
  BY <1>2, IkeRequestFields, Zenon
<1>3. CASE inner = DpdRequest
  BY <1>3, InformationalFields, Zenon
<1>4. CASE p = "I" /\ inner = UpdateRequest
  BY <1>4, InformationalFields, Zenon
<1> QED
  BY <1>1, <1>2, <1>3, <1>4, Zenon DEF IsRequestInner

\* The fields of the payload records the answers carry.
LEMMA AnswerFields ==
    ASSUME NEW draw, NEW ts
    PROVE  /\ ChildRekeyAnswer(draw, ts).sa = {draw} /\ ChildRekeyAnswer(draw, ts).nonce = {draw}
           /\ ChildRekeyAnswer(draw, ts).ts = {ts}
           /\ IkeRekeyAnswer(draw).sa = {draw} /\ IkeRekeyAnswer(draw).nonce = {draw}
           /\ IkeRekeyAnswer(draw).ke = {[group |-> SuiteGroup, public |-> draw]}
BY Zenon DEF ChildRekeyAnswer, IkeRekeyAnswer, Empty

\* The address of a service is no request's socket, and a new draw is none made before.
LEMMA Draws ==
    ASSUME drawn \in [Peers -> Nat], NEW p \in Peers
    PROVE  /\ Sockets(p) \subseteq DrawsOf(p)
           /\ \A x \in Peers : Port(x) \notin Sockets(p)
           /\ Draw(p) \notin DrawsOf(p) /\ Draw(p) \notin Sockets(p)
           /\ Draw(p) \notin DrawsOf(Other(p)) /\ Draw(p) \notin Sockets(Other(p))
           /\ \A n \in DrawsOf(p) : n \notin DrawsOf(Other(p))
BY Others DEF Sockets, DrawsOf, Port, Draw

-----------------------------------------------------------------------------
(* What a step keeps *)

\* A step of either end only adds to what x holds; the keys and roles stay.
Keeps(x) ==
    /\ DOMAIN ikes[x] \subseteq DOMAIN ikes'[x]
    /\ \A s \in DOMAIN ikes[x] :
        ikes'[x][s].role = ikes[x][s].role /\ ikes'[x][s].keys = ikes[x][s].keys
    /\ children[x] \subseteq children'[x]
    /\ Sockets(x) \subseteq Sockets(x)' /\ DrawsOf(x) \subseteq DrawsOf(x)'

\* x has answered the same requests under s.
SameAnswers(x, s) ==
    ikes'[x][s].expect = ikes[x][s].expect /\ ikes'[x][s].cached = ikes[x][s].cached

\* Draws are only added.
LEMMA DrawsKept ==
    ASSUME drawn \in [Peers -> Nat], drawn' \in [Peers -> Nat],
           NEW x \in Peers, drawn[x] <= drawn'[x]
    PROVE  Sockets(x) \subseteq Sockets(x)' /\ DrawsOf(x) \subseteq DrawsOf(x)'
BY DEF Sockets, DrawsOf

\* What was derived with an answer is still there.
LEMMA AnswerInnerKept ==
    ASSUME NEW p \in Peers, NEW r, NEW inner, IsAnswerInner(p, r, inner),
           r.data.spis \in DOMAIN ikes[Other(p)], Keeps(Other(p))
    PROVE  IsAnswerInner(p, r, inner)'
<1> DEFINE q == Other(p)
<1>1. \A draw : AnsweredChild(p, r, draw)' = AnsweredChild(p, r, draw)
  BY Zenon DEF AnsweredChild, Keeps
<1>2. \A draw : AnsweredKeys(p, r, draw)' = AnsweredKeys(p, r, draw)
  BY Zenon DEF AnsweredKeys, Keeps
<1>3. CASE \E draw \in Sockets(q) :
              /\ r.data.inner = ChildRekeyRequest(r.from)
              /\ inner = ChildRekeyAnswer(draw, AnsweredSelectors(q, [i |-> FullTunnel, r |-> FullTunnel]))
              /\ AnsweredChild(p, r, draw) \in children[q]
  BY <1>1, <1>3, Zenon DEF IsAnswerInner, Keeps
<1>4. CASE \E draw \in Sockets(q) :
              /\ IsIkeSaRekey(r.data.inner)
              /\ inner = IkeRekeyAnswer(draw)
              /\ <<r.from, draw>> \in DOMAIN ikes[q]
              /\ ikes[q][<<r.from, draw>>].role = "Responder"
              /\ ikes[q][<<r.from, draw>>].keys = AnsweredKeys(p, r, draw)
  BY <1>2, <1>4, Zenon DEF IsAnswerInner, Keeps
<1>5. CASE r.data.inner.sa = {}
  BY <1>5, Zenon DEF IsAnswerInner
<1> QED
  BY <1>3, <1>4, <1>5, Zenon DEF IsAnswerInner

\* What an end has sealed under an IKE SA it holds stays so.
LEMMA SealedKept ==
    ASSUME NEW x \in Peers, NEW m, SealedBy(x, m), Keeps(x)
    PROVE  SealedBy(x, m)'
BY Zenon DEF SealedBy, OurSkE, Keeps

\* A pending request stays one while its sender sends no other, and the receiver
\* answers none under the same IKE SA, or has only now come to hold it.
LEMMA PendingKept ==
    ASSUME NEW p \in Peers, NEW r \in pending[p], IsPending(p, r),
           pending'[p] = pending[p], Keeps(p), Keeps(Other(p)),
           ikes'[p][r.data.spis].next = ikes[p][r.data.spis].next,
           \A s \in DOMAIN ikes'[p] : s \in DOMAIN ikes[p] \/ s[1] # r.from,
           IF r.data.spis \in DOMAIN ikes[Other(p)]
           THEN SameAnswers(Other(p), r.data.spis)
           ELSE r.data.spis \in DOMAIN ikes'[Other(p)] => ikes'[Other(p)][r.data.spis].expect = 0
    PROVE  IsPending(p, r)'
<1> DEFINE q == Other(p)
           s0 == r.data.spis
<1>1. /\ pending'[p] = {r} /\ r.from \in Sockets(p)' /\ r.to = Port(q)
      /\ s0 \in DOMAIN ikes'[p] /\ r.data.id \in Nat /\ ikes'[p][s0].next = r.data.id + 1
      /\ IsRequestInner(p, r.from, r.data.inner)
      /\ \A s \in DOMAIN ikes'[p] : s[1] # r.from
      /\ SealedBy(p, r.data)'
  BY SealedKept, Zenon DEF IsPending, SealedBy, Keeps
<1>2. IF s0 \in DOMAIN ikes'[q] THEN ikes'[q][s0].expect \in {r.data.id, r.data.id + 1} ELSE r.data.id = 0
  BY Zenon DEF IsPending, Keeps, SameAnswers
<1>3. ASSUME IsAnswered(p, r)'
      PROVE  AnswerKept(p, r)'
  <2>1. s0 \in DOMAIN ikes[q] /\ IsAnswered(p, r) /\ SameAnswers(q, s0)
    BY <1>3 DEF IsAnswered, IsPending, SameAnswers
  <2>2. PICK a \in ikes[q][s0].cached :
            /\ ikes[q][s0].cached = {a} /\ IsAnswerInner(p, r, a.inner)
            /\ a.spis = s0 /\ SealedBy(q, a)
    BY <2>1, Zenon DEF IsPending, AnswerKept
  <2>3. IsAnswerInner(p, r, a.inner)' /\ SealedBy(q, a)'
    BY <2>1, <2>2, AnswerInnerKept, SealedKept, Others, Zenon
  <2> QED
    BY <2>1, <2>2, <2>3, Zenon DEF AnswerKept, SameAnswers
<1> QED
  BY <1>1, <1>2, <1>3, Zenon DEF IsPending, IsRequestInner, Port


\* A request in the network stays one, whatever its receiver answers.
LEMMA RequestOfKept ==
    ASSUME NEW p \in Peers, NEW d, IsRequestOf(p, d), Tables, Keeps(p), Keeps(Other(p)),
           pending'[p] = pending[p],
           \A s \in DOMAIN ikes[Other(p)] :
                SameAnswers(Other(p), s) \/ ikes'[Other(p)][s].expect = ikes[Other(p)][s].expect + 1
    PROVE  IsRequestOf(p, d)'
<1>1. \A s \in DOMAIN ikes[Other(p)] : ikes[Other(p)][s].expect \in Nat
  BY Others, Zenon DEF Tables
<1>2. d.to = Port(Other(p)) /\ d.from \in Sockets(p)' /\ SealedBy(p, d.data)'
  BY SealedKept, Zenon DEF IsRequestOf, Keeps
<1>3. CASE d \in pending[p]
  BY <1>2, <1>3, Zenon DEF IsRequestOf, Port
<1>4. CASE /\ d.data.spis \in DOMAIN ikes[Other(p)]
           /\ d.data.id \in Nat /\ d.data.id < ikes[Other(p)][d.data.spis].expect
           /\ \A r \in pending[p] : r.from # d.from
  <2>1. d.data.spis \in DOMAIN ikes'[Other(p)] /\ d.data.id < ikes'[Other(p)][d.data.spis].expect
    BY <1>1, <1>4 DEF Keeps, SameAnswers
  <2> QED
    BY <1>2, <1>4, <2>1, Zenon DEF IsRequestOf, Port
<1> QED
  BY <1>3, <1>4, Zenon DEF IsRequestOf

\* The answer to a pending request stays the one its receiver keeps.
LEMMA AnswerToKept ==
    ASSUME NEW p \in Peers, NEW d, IsAnswerTo(p, d), Keeps(Other(p)), pending'[p] = pending[p],
           \A r \in pending[p] : IsAnswered(p, r) => SameAnswers(Other(p), r.data.spis)
    PROVE  IsAnswerTo(p, d)'
BY Zenon DEF IsAnswerTo, IsAnswered, Keeps, SameAnswers

\* An IKE SA stays alone while the request it came from is pending.
LEMMA AloneKept ==
    ASSUME NEW p \in Peers, NEW s \in DOMAIN ikes[p], IsAlone(p, s), Keeps(p),
           pending'[Other(p)] = pending[Other(p)], SameAnswers(p, s),
           \A r \in pending[Other(p)] : IsAnswered(Other(p), r) => SameAnswers(p, r.data.spis)
    PROVE  IsAlone(p, s)'
<1>1. PICK r \in pending[Other(p)] :
          /\ IsIkeSaRekey(r.data.inner) /\ IsAnswered(Other(p), r)
          /\ \E a \in ikes[p][r.data.spis].cached : a.inner.sa = {s[2]}
          /\ s[1] = r.from
  BY Zenon DEF IsAlone
<1>2. IsAnswered(Other(p), r)'
  BY <1>1, Others, Zenon DEF IsAnswered, Keeps, SameAnswers
<1> QED
  BY <1>1, <1>2, Zenon DEF IsAlone, Keeps, SameAnswers

\* So does the CHILD SA of a pending request.
LEMMA ChildOfAnswerKept ==
    ASSUME NEW p \in Peers, NEW c, IsChildOfAnswer(p, c), Keeps(p), Keeps(Other(p)),
           pending'[Other(p)] = pending[Other(p)],
           \A r \in pending[Other(p)] : IsAnswered(Other(p), r) => SameAnswers(p, r.data.spis)
    PROVE  IsChildOfAnswer(p, c)'
<1>1. c.sa.inbound.key.ni \in DrawsOf(Other(p))'
  BY Zenon DEF IsChildOfAnswer, Keeps
<1>2. ASSUME NEW r \in pending[Other(p)], r.from = c.sa.inbound.key.ni
      PROVE  /\ IsChildRekey(r.data.inner) /\ IsAnswered(Other(p), r)'
             /\ \E a \in ikes'[p][r.data.spis].cached :
                    \E draw \in a.inner.sa : c = AnsweredChild(Other(p), r, draw)'
  <2>1. /\ IsChildRekey(r.data.inner) /\ IsAnswered(Other(p), r)
        /\ \E a \in ikes[p][r.data.spis].cached :
                \E draw \in a.inner.sa : c = AnsweredChild(Other(p), r, draw)
    BY <1>2, Zenon DEF IsChildOfAnswer
  <2>2. r.data.spis \in DOMAIN ikes[p] /\ SameAnswers(p, r.data.spis) /\ IsAnswered(Other(p), r)'
    BY <2>1, Others, Zenon DEF IsAnswered, Keeps, SameAnswers
  <2>3. \A draw : AnsweredChild(Other(p), r, draw)' = AnsweredChild(Other(p), r, draw)
    BY <2>2, Others, Zenon DEF AnsweredChild, Keeps
  <2> QED
    BY <2>1, <2>2, <2>3, Zenon DEF SameAnswers
<1> QED
  BY <1>1, <1>2, Zenon DEF IsChildOfAnswer


-----------------------------------------------------------------------------
(* Steps of the network: a lost, rejected or again answered datagram *)

\* What Receive leaves in the network was there before or is sent by the handler.
LEMMA Received ==
    ASSUME NEW d, NEW out, Receive(d, out)
    PROVE  d \in net /\ \A e \in net' : e \in net \/ e \in out
BY Zenon DEF Receive

\* A step that only sends a kept answer again, or takes a datagram away.
LEMMA QuietStep ==
    ASSUME IInv, UNCHANGED <<ikes, children, pending, drawn>>,
           \A d \in net' : d \in net \/ \E p \in Peers : IsRequestOf(p, d) \/ IsAnswerTo(p, d)
    PROVE  IInv'
<1>1. Tables'
  BY DEF IInv, Tables, DrawsOf
<1>2. \A x \in Peers : Keeps(x) /\ \A s : SameAnswers(x, s)
  BY Zenon DEF Keeps, SameAnswers, Sockets, DrawsOf
<1>3. PendingOk'
  <2> SUFFICES ASSUME NEW p \in Peers, NEW r \in pending[p]
               PROVE  IsPending(p, r)'
    BY Zenon DEF PendingOk
  <2>1. IsPending(p, r)
    BY Zenon DEF IInv, PendingOk
  <2> QED
    BY <1>2, <2>1, PendingKept, Others, Zenon
<1>4. NetOk'
  <2> SUFFICES ASSUME NEW d \in net'
               PROVE  \E p \in Peers : IsRequestOf(p, d)' \/ IsAnswerTo(p, d)'
    BY Zenon DEF NetOk
  <2>1. PICK p \in Peers : IsRequestOf(p, d) \/ IsAnswerTo(p, d)
    BY Zenon DEF IInv, NetOk
  <2>2. Tables
    BY Zenon DEF IInv
  <2> QED
    BY <1>2, <2>1, <2>2, RequestOfKept, AnswerToKept, Others, Zenon
<1>5. SasOk'
  <2> SUFFICES ASSUME NEW p \in Peers, NEW s \in DOMAIN ikes[p]
               PROVE  IsPaired(p, s)' /\ ((\A r \in pending[p] : r.data.spis # s) => IsIdle(p, s)')
    BY Zenon DEF SasOk
  <2>1. IsPaired(p, s) /\ ((\A r \in pending[p] : r.data.spis # s) => IsIdle(p, s))
    BY Zenon DEF IInv, SasOk
  <2>2. IsAlone(p, s) => IsAlone(p, s)'
    BY <1>2, AloneKept, Others, Zenon
  <2> QED
    BY <2>1, <2>2, Zenon DEF IsPaired, IsIdle
<1>6. ChildrenOk'
  <2> SUFFICES ASSUME NEW p \in Peers, NEW c \in children[p], c.answered
               PROVE  IsChildOfAnswer(p, c)'
    BY Zenon DEF ChildrenOk
  <2>1. IsChildOfAnswer(p, c)
    BY Zenon DEF IInv, ChildrenOk
  <2> QED
    BY <1>2, <2>1, ChildOfAnswerKept, Others, Zenon
<1>7. ChildrenMirror' /\ NoOrphans'
  BY Zenon DEF IInv, ChildrenMirror, NoOrphans
<1> QED
  BY <1>1, <1>3, <1>4, <1>5, <1>6, <1>7, Zenon DEF IInv

\* A datagram is lost.
LEMMA LoseKeeps ==
    ASSUME IInv, NEW d \in net, Lose(d)
    PROVE  IInv'
BY QuietStep, Zenon DEF Lose

\* DhGroupMismatch.
LEMMA RejectKeeps ==
    ASSUME IInv, NEW q \in Peers, NEW d \in net, RejectIkeRekey(q, d)
    PROVE  IInv'
BY QuietStep, Received DEF RejectIkeRekey

\* A request in the network that comes to q is one of the other end.
LEMMA RequestAt ==
    ASSUME Tables, PendingOk, NetOk, NEW q \in Peers, NEW d \in net, d.to = Port(q)
    PROVE  IsRequestOf(Other(q), d)
<1>1. PICK p \in Peers : IsRequestOf(p, d) \/ IsAnswerTo(p, d)
  BY Zenon DEF NetOk
<1>2. ~IsAnswerTo(p, d)
  <2>1. \A r \in pending[p] : r.from \in Sockets(p)
    BY Zenon DEF PendingOk, IsPending
  <2>2. Port(q) \notin Sockets(p)
    BY Draws, Zenon DEF Tables
  <2> QED
    BY <2>1, <2>2, Zenon DEF IsAnswerTo
<1>3. Port(q) = Port(Other(p))
  BY <1>1, <1>2, Zenon DEF IsRequestOf
<1>4. p = Other(q)
  BY <1>3, Others, Zenon DEF Port
<1> QED
  BY <1>1, <1>2, <1>4, Zenon

\* The socket an answer is repeated to is that of the pending request it answers.
LEMMA AnswerAgainKeeps ==
    ASSUME IInv, NEW q \in Peers, NEW d \in net, AnswerAgain(q, d)
    PROVE  IInv'
<1> DEFINE p == Other(q)
           out == IF IsOpen(q, d.from)
                  THEN {Datagram(Port(q), d.from, m) : m \in ikes[q][d.data.spis].cached}
                  ELSE {}
<1>1. /\ Receive(d, out) /\ d.to = Port(q) /\ d.data.spis \in DOMAIN ikes[q]
      /\ d.data.id + 1 = ikes[q][d.data.spis].expect
  BY Zenon DEF AnswerAgain, OpensAt
<1>2. IsRequestOf(p, d)
  BY <1>1, RequestAt, Zenon DEF IInv
<1>3. ASSUME NEW e \in out
      PROVE  IsAnswerTo(p, e)
  <2>1. PICK r \in pending[p] : r.from = d.from
    BY <1>3, Zenon DEF IsOpen
  <2>2. d = r
    <3>1. d \in pending[p]
      BY <1>2, <2>1, Zenon DEF IsRequestOf
    <3> QED
      BY <2>1, <3>1, Others DEF IInv, PendingOk, IsPending
  <2>3. IsAnswered(p, r)
    BY <1>1, <2>2, Others, Zenon DEF IsAnswered
  <2>4. PICK m \in ikes[q][d.data.spis].cached : e = Datagram(Port(q), d.from, m)
    BY <1>3, Zenon
  <2>5. e.to = r.from /\ e.data = m
    BY <2>1, <2>4, Zenon DEF Datagram
  <2> QED
    BY <2>2, <2>3, <2>4, <2>5, Others, Zenon DEF IsAnswerTo
<1>4. \A e \in net' : e \in net \/ e \in out
  <2> HIDE DEF out
  <2> QED BY <1>1, Received, Zenon
<1> HIDE DEF out
<1>5. \A e \in net' : e \in net \/ \E x \in Peers : IsRequestOf(x, e) \/ IsAnswerTo(x, e)
  BY <1>3, <1>4, Others, Zenon
<1> QED
  BY <1>5, QuietStep, Zenon DEF AnswerAgain


-----------------------------------------------------------------------------
(* A new request *)

\* A request under the next Message ID of an IKE SA whose previous request is complete.
LEMMA RequestKeeps ==
    ASSUME IInv, NEW p \in Peers, NEW spis \in DOMAIN ikes[p], NEW inner,
           IsRequestInner(p, Draw(p), inner), Request(p, spis, inner)
    PROVE  IInv'
<1> DEFINE q == Other(p)
<1>q. /\ q \in Peers /\ q # p /\ Other(q) = p /\ \A x \in Peers : x = p \/ x = q
  BY Others, Zenon
<1>t. Tables /\ drawn \in [Peers -> Nat]
  BY Zenon DEF IInv, Tables
<1>d. PICK d : d = Datagram(Draw(p), Port(q), Message(spis, ikes[p][spis], ikes[p][spis].next, FALSE, inner))
  BY Zenon
<1>1. /\ d.from = Draw(p) /\ d.to = Port(q) /\ d.data.spis = spis
      /\ d.data.id = ikes[p][spis].next /\ d.data.inner = inner
      /\ d.data.key = OurSkE(ikes[p][spis])
  BY <1>d, Zenon DEF Datagram, Message
<1>2. /\ pending[p] = {} /\ pending' = [pending EXCEPT ![p] = {d}]
      /\ ikes' = [ikes EXCEPT ![p] = [ikes[p] EXCEPT ![spis] =
                        [ikes[p][spis] EXCEPT !.next = ikes[p][spis].next + 1]]]
      /\ drawn' = [drawn EXCEPT ![p] = @ + 1]
      /\ net' = net \cup {d}
      /\ children' = children
  BY <1>d, Zenon DEF Request, Send
<1>3. /\ DOMAIN pending' = Peers /\ pending'[p] = {d} /\ pending'[q] = pending[q]
  BY <1>2, <1>q, <1>t, Zenon DEF Tables
<1>4. /\ drawn' \in [Peers -> Nat] /\ drawn'[p] = drawn[p] + 1 /\ drawn'[q] = drawn[q]
  BY <1>2, <1>q, <1>t
<1>5. /\ DOMAIN ikes' = Peers /\ ikes'[q] = ikes[q] /\ DOMAIN ikes'[p] = DOMAIN ikes[p]
      /\ \A s \in DOMAIN ikes[p] : s # spis => ikes'[p][s] = ikes[p][s]
      /\ ikes'[p][spis] = [ikes[p][spis] EXCEPT !.next = @ + 1]
  BY <1>2, <1>q, <1>t, Zenon DEF Tables
<1>6. PICK sa : sa = ikes[p][spis]
  BY Zenon
<1>7. /\ sa \in [role : {"Initiator", "Responder"}, keys : {sa.keys}, next : Nat, expect : Nat,
                 cached : {sa.cached}]
  BY <1>6, <1>t, Zenon DEF Tables
<1>8. PICK sb : sb = ikes'[p][spis]
  BY Zenon
<1>9. sb = [sa EXCEPT !.next = @ + 1]
  BY <1>5, <1>6, <1>8, Zenon
<1>10. /\ sb.role = sa.role /\ sb.keys = sa.keys /\ sb.expect = sa.expect /\ sb.cached = sa.cached
       /\ sb.next = sa.next + 1
       /\ sb \in [role : {"Initiator", "Responder"}, keys : {sb.keys}, next : Nat, expect : Nat,
                 cached : {sb.cached}]
  BY <1>7, <1>9
<1>11. \A x \in Peers : Keeps(x) /\ \A s \in DOMAIN ikes[x] : SameAnswers(x, s)
  <2>1. \A x \in Peers : Sockets(x) \subseteq Sockets(x)' /\ DrawsOf(x) \subseteq DrawsOf(x)'
    <3>1. drawn[p] <= drawn'[p] /\ drawn[q] <= drawn'[q]
      BY <1>4, <1>t, <1>q
    <3> QED
      BY <1>4, <1>t, <1>q, <3>1, DrawsKept, Zenon
  <2>2. Keeps(q) /\ \A s \in DOMAIN ikes[q] : SameAnswers(q, s)
    BY <1>2, <1>5, <1>q, <2>1, Zenon DEF Keeps, SameAnswers
  <2>3. Keeps(p) /\ \A s \in DOMAIN ikes[p] : SameAnswers(p, s)
    BY <1>2, <1>5, <1>6, <1>8, <1>10, <2>1, Zenon DEF Keeps, SameAnswers
  <2> QED
    BY <1>q, <2>2, <2>3, Zenon
<1>12. Tables'
  <2>1. ASSUME NEW x \in Peers, NEW s \in DOMAIN ikes'[x]
        PROVE  \E y \in Peers : s \in DrawsOf(y)' \X DrawsOf(Other(y))'
    <3>1. s \in DOMAIN ikes[x]
      BY <1>5, <1>q, Zenon
    <3>2. PICK y \in Peers : s \in DrawsOf(y) \X DrawsOf(Other(y))
      BY <1>t, <3>1, Zenon DEF Tables
    <3>3. DrawsOf(y) \subseteq DrawsOf(y)' /\ DrawsOf(Other(y)) \subseteq DrawsOf(Other(y))'
      BY <1>11, Others, Zenon DEF Keeps
    <3> QED
      BY <3>2, <3>3, Zenon
  <2>2. ASSUME NEW x \in Peers, NEW s \in DOMAIN ikes'[x]
        PROVE  ikes'[x][s] \in [role : {"Initiator", "Responder"}, keys : {ikes'[x][s].keys},
                                next : Nat, expect : Nat, cached : {ikes'[x][s].cached}]
    <3>1. CASE x = p /\ s = spis
      BY <3>1, <1>8, <1>10, Zenon
    <3>2. CASE ~(x = p /\ s = spis)
      <4>1. s \in DOMAIN ikes[x] /\ ikes'[x][s] = ikes[x][s]
        BY <3>2, <1>5, <1>q, Zenon
      <4> QED
        BY <4>1, <1>t, Zenon DEF Tables
    <3> QED
      BY <3>1, <3>2, Zenon
  <2>3. DOMAIN children' = Peers
    BY <1>2, <1>t, Zenon DEF Tables
  <2> QED
    BY <1>3, <1>4, <1>5, <2>1, <2>2, <2>3, Zenon DEF Tables
<1>13. IsIdle(p, spis) /\ sa.next = d.data.id /\ sa.next \in Nat
  BY <1>1, <1>2, <1>6, <1>7, Zenon DEF IInv, SasOk
<1>14. \A s \in DOMAIN ikes[p] : s[1] # d.from
  <2> SUFFICES ASSUME NEW s \in DOMAIN ikes[p]
               PROVE  s[1] # d.from
    BY Zenon
  <2>1. PICK y \in Peers : s \in DrawsOf(y) \X DrawsOf(Other(y))
    BY <1>t, Zenon DEF Tables
  <2>2. s[1] \in DrawsOf(y)
    BY <2>1, Zenon
  <2>3. Draw(p) \notin DrawsOf(p) /\ Draw(p) \notin DrawsOf(q)
    BY <1>t, Draws, Zenon
  <2> QED
    BY <1>1, <1>q, <2>2, <2>3, Zenon
<1>15. IsPending(p, d)'
  <2>1. d.from \in Sockets(p)'
    BY <1>1, <1>4, <1>t DEF Sockets, Draw
  <2>2. ikes'[p][spis].next = d.data.id + 1
    BY <1>8, <1>10, <1>13, Zenon
  <2>3. IF spis \in DOMAIN ikes'[q] THEN ikes'[q][spis].expect = d.data.id ELSE d.data.id = 0
    BY <1>5, <1>6, <1>13, Zenon DEF IsIdle
  <2>4. ~IsAnswered(p, d)'
    BY <1>1, <2>3, <1>13 DEF IsAnswered
  <2>5. IsRequestInner(p, d.from, d.data.inner)
    BY <1>1, Zenon
  <2>6. d.to = Port(q)
    BY <1>1, Zenon
  <2>7. SealedBy(p, d.data)'
    BY <1>1, <1>11, SealedKept, Zenon DEF SealedBy
  <2> QED
    BY <1>1, <1>3, <1>5, <1>13, <1>14, <2>1, <2>2, <2>3, <2>4, <2>5, <2>6, <2>7, Zenon
    DEF IsPending, IsRequestInner, Port
<1>16. PendingOk'
  <2>1. ASSUME NEW r \in pending[q]
        PROVE  IsPending(q, r)'
    <3>1. IsPending(q, r)
      BY <1>q, Zenon DEF IInv, PendingOk
    <3>2. r.data.spis \notin DOMAIN ikes[p] => r.data.spis \notin DOMAIN ikes'[p]
      BY <1>5, Zenon
    <3> QED
      BY <1>2, <1>3, <1>5, <1>11, <1>q, <3>1, <3>2, PendingKept
  <2> QED
    BY <1>3, <1>15, <1>q, <2>1, Zenon DEF PendingOk
<1>17. NetOk'
  <2> SUFFICES ASSUME NEW e \in net'
               PROVE  \E x \in Peers : IsRequestOf(x, e)' \/ IsAnswerTo(x, e)'
    BY Zenon DEF NetOk
  <2>1. CASE e = d
    <3>1. IsRequestOf(p, d)'
      BY <1>1, <1>3, <1>15, Zenon DEF IsRequestOf, IsPending
    <3> QED
      BY <2>1, <3>1, Zenon
  <2>2. CASE e \in net
    <3>1. PICK x \in Peers : IsRequestOf(x, e) \/ IsAnswerTo(x, e)
      BY <2>2, Zenon DEF IInv, NetOk
    <3>2. CASE x = q
      BY <1>3, <1>11, <1>q, <1>t, <3>1, <3>2, RequestOfKept, AnswerToKept, Zenon DEF IsAnswered
    <3>3. CASE x = p
      <4>1. IsRequestOf(p, e)
        BY <1>2, <3>1, <3>3, Zenon DEF IsAnswerTo
      <4>2. e.from # d.from
        BY <1>1, <1>t, <4>1, Draws DEF IsRequestOf
      <4>3. e.from \in Sockets(p)' /\ SealedBy(p, e.data)'
        BY <1>11, <4>1, SealedKept, Zenon DEF IsRequestOf, Keeps
      <4> QED
        BY <1>2, <1>3, <1>5, <4>1, <4>2, <4>3, Zenon DEF IsRequestOf, Port
    <3> QED
      BY <3>2, <3>3, <1>q, Zenon
  <2> QED
    BY <1>2, <2>1, <2>2, Zenon
<1>18. SasOk'
  <2>1. ASSUME NEW s \in DOMAIN ikes[p]
        PROVE  IsPaired(p, s)' /\ ((\A r \in pending'[p] : r.data.spis # s) => IsIdle(p, s)')
    <3>1. IsPaired(p, s) /\ IsIdle(p, s)
      BY <1>2, <1>t, Zenon DEF IInv, SasOk
    <3>2. IsAlone(p, s) => IsAlone(p, s)'
      BY <1>3, <1>11, <1>q, AloneKept, Zenon DEF IsAnswered
    <3>3. IsPaired(p, s)'
      BY <1>5, <1>11, <3>1, <3>2, Zenon DEF IsPaired, Keeps
    <3>4. s # spis => IsIdle(p, s)'
      BY <1>5, <3>1, Zenon DEF IsIdle
    <3> QED
      BY <1>1, <1>3, <3>3, <3>4, Zenon
  <2>2. ASSUME NEW s \in DOMAIN ikes[q]
        PROVE  IsPaired(q, s)' /\ ((\A r \in pending'[q] : r.data.spis # s) => IsIdle(q, s)')
    <3>1. IsPaired(q, s) /\ ((\A r \in pending[q] : r.data.spis # s) => IsIdle(q, s))
      BY <1>q, Zenon DEF IInv, SasOk
    <3>2. ~IsAlone(q, s)
      BY <1>2, <1>q, Zenon DEF IsAlone
    <3>3. s \in DOMAIN ikes[p] /\ SameAnswers(p, s)
      BY <1>11, <1>q, <3>1, <3>2, Zenon DEF IsPaired
    <3>4. IsPaired(q, s)'
      BY <1>5, <1>11, <1>q, <3>1, <3>3 DEF IsPaired, Keeps
    <3>5. IsIdle(q, s) => IsIdle(q, s)'
      BY <1>5, <1>q, <3>3, Zenon DEF IsIdle, SameAnswers
    <3> QED
      BY <1>3, <3>1, <3>4, <3>5, Zenon
  <2> QED
    BY <1>5, <1>q, <2>1, <2>2, Zenon DEF SasOk
<1>19. ChildrenOk'
  <2>1. ASSUME NEW c \in children[p], c.answered
        PROVE  IsChildOfAnswer(p, c)'
    <3>1. IsChildOfAnswer(p, c)
      BY <2>1, Zenon DEF IInv, ChildrenOk
    <3> QED
      BY <1>3, <1>11, <1>q, <3>1, ChildOfAnswerKept, Zenon DEF IsAnswered
  <2>2. ASSUME NEW c \in children[q], c.answered
        PROVE  IsChildOfAnswer(q, c)'
    <3>1. c.sa.inbound.key.ni \in DrawsOf(p)
      BY <1>q, <2>2, Zenon DEF IInv, ChildrenOk, IsChildOfAnswer
    <3>2. c.sa.inbound.key.ni # d.from /\ c.sa.inbound.key.ni \in DrawsOf(p)'
      BY <1>1, <1>11, <1>t, <3>1, Draws DEF Keeps
    <3> QED
      BY <1>3, <1>q, <3>2, Zenon DEF IsChildOfAnswer
  <2> QED
    BY <1>2, <1>q, <2>1, <2>2, Zenon DEF ChildrenOk
<1>20. ChildrenMirror'
  BY <1>2, Zenon DEF IInv, ChildrenMirror
<1>21. NoOrphans'
  <2> SUFFICES ASSUME NEW x \in Peers, NEW c \in children[x], c.answered
               PROVE  \/ \E o \in children[Other(x)] : Mirror(c.sa, o.sa)
                      \/ \E r \in pending'[Other(x)] : r.data.inner.nonce = {c.sa.inbound.key.ni}
    BY <1>2, Zenon DEF NoOrphans, Mirror
  <2>1. \/ \E o \in children[Other(x)] : Mirror(c.sa, o.sa)
        \/ \E r \in pending[Other(x)] : r.data.inner.nonce = {c.sa.inbound.key.ni}
    BY Zenon DEF IInv, NoOrphans
  <2>2. pending[Other(x)] \subseteq pending'[Other(x)]
    BY <1>2, <1>3, <1>q, Zenon
  <2> QED
    BY <2>1, <2>2, Zenon
<1> QED
  BY <1>12, <1>16, <1>17, <1>18, <1>19, <1>20, <1>21, Zenon DEF IInv


-----------------------------------------------------------------------------
(* An answer to a new request *)

\* What the three answers have in common: r is answered, once, with a reply that is
\* kept; a CHILD SA or an IKE SA may be added at the end that answers.
AnswerStep(p, r, reply) ==
    LET q == Other(p)
        u == r.data.spis
    IN
    /\ DOMAIN ikes' = Peers /\ ikes'[p] = ikes[p] /\ DOMAIN ikes[q] \subseteq DOMAIN ikes'[q]
    /\ \A s \in DOMAIN ikes[q] : s # u => ikes'[q][s] = ikes[q][s]
    /\ ikes'[q][u] = [ikes[q][u] EXCEPT !.expect = r.data.id + 1, !.cached = {reply}]
    /\ \A s \in DOMAIN ikes'[q] :
        \/ s \in DOMAIN ikes[q]
        \/ \E draw \in DrawsOf(q)' :
            /\ s = <<r.from, draw>> /\ reply.inner.sa = {draw} /\ IsIkeSaRekey(r.data.inner)
            /\ \E keys : ikes'[q][s] = IkeSa("Responder", keys, 0, 0)
    /\ DOMAIN children' = Peers /\ children'[p] = children[p] /\ children[q] \subseteq children'[q]
    /\ \A c \in children'[q] :
        \/ c \in children[q]
        \/ IsChildRekey(r.data.inner) /\ \E draw \in reply.inner.sa : c = AnsweredChild(p, r, draw)
    /\ drawn' \in [Peers -> Nat] /\ \A x \in Peers : drawn[x] <= drawn'[x]
    /\ pending' = pending
    /\ \A e \in net' : e \in net \/ e = Datagram(Port(q), r.from, reply)
    /\ reply.spis = u /\ reply.key = OurSkE(ikes[q][u])
    /\ IsAnswerInner(p, r, reply.inner)'

\* A request taken for a new one is the sender's pending request, not answered yet.
LEMMA NewIsPending ==
    ASSUME IInv, NEW q \in Peers, NEW d \in net, IsNew(q, d)
    PROVE  d \in pending[Other(q)] /\ IsPending(Other(q), d)
<1>1. IsRequestOf(Other(q), d)
  BY RequestAt, Zenon DEF IInv, IsNew
<1>2. d.data.spis \in DOMAIN ikes[q] /\ d.data.id = ikes[q][d.data.spis].expect
  BY Zenon DEF IsNew, OpensAt
<1>3. ikes[q][d.data.spis].expect \in Nat
  BY <1>2, Zenon DEF IInv, Tables
<1>4. d \in pending[Other(q)]
  BY <1>1, <1>2, <1>3, Others DEF IsRequestOf
<1> QED
  BY <1>4, Others, Zenon DEF IInv, PendingOk

\* The CHILD SA an end answers with carries the request's nonce.
LEMMA AnsweredChildFields ==
    ASSUME NEW p, NEW r, NEW draw
    PROVE  /\ AnsweredChild(p, r, draw).answered
           /\ AnsweredChild(p, r, draw).sa.inbound.key.ni = r.from
BY Zenon DEF AnsweredChild, ChildSa, EspSa, ChildKey

\* The answer to a new request: the expected Message ID moves on and the answer is kept.
LEMMA AnswerStepKeeps ==
    ASSUME IInv, NEW p \in Peers, NEW r \in pending[p], NEW reply, IsPending(p, r),
           r.data.spis \in DOMAIN ikes[Other(p)],
           r.data.id = ikes[Other(p)][r.data.spis].expect,
           AnswerStep(p, r, reply)
    PROVE  IInv'
<1> DEFINE q == Other(p)
           u == r.data.spis
<1>q. /\ q \in Peers /\ q # p /\ Other(q) = p /\ \A x \in Peers : x = p \/ x = q
  BY Others, Zenon
<1>t. Tables /\ drawn \in [Peers -> Nat]
  BY Zenon DEF IInv, Tables
<1>r. /\ pending[p] = {r} /\ r.from \in Sockets(p) /\ r.to = Port(q) /\ u \in DOMAIN ikes[p]
      /\ r.data.id \in Nat /\ ikes[p][u].next = r.data.id + 1
      /\ IsRequestInner(p, r.from, r.data.inner)
      /\ \A s \in DOMAIN ikes[p] : s[1] # r.from
      /\ ~IsAnswered(p, r) /\ SealedBy(p, r.data)
  BY DEF IsPending, IsAnswered, SealedBy
<1>1. /\ DOMAIN ikes' = Peers /\ ikes'[p] = ikes[p] /\ DOMAIN ikes[q] \subseteq DOMAIN ikes'[q]
      /\ \A s \in DOMAIN ikes[q] : s # u => ikes'[q][s] = ikes[q][s]
      /\ ikes'[q][u] = [ikes[q][u] EXCEPT !.expect = r.data.id + 1, !.cached = {reply}]
  BY Zenon DEF AnswerStep
<1>2. \A s \in DOMAIN ikes'[q] :
        \/ s \in DOMAIN ikes[q]
        \/ \E draw \in DrawsOf(q)' :
            /\ s = <<r.from, draw>> /\ reply.inner.sa = {draw} /\ IsIkeSaRekey(r.data.inner)
            /\ \E keys : ikes'[q][s] = IkeSa("Responder", keys, 0, 0)
  BY Zenon DEF AnswerStep
<1>3. /\ DOMAIN children' = Peers /\ children'[p] = children[p] /\ children[q] \subseteq children'[q]
      /\ \A c \in children'[q] :
            \/ c \in children[q]
            \/ IsChildRekey(r.data.inner) /\ \E draw \in reply.inner.sa : c = AnsweredChild(p, r, draw)
  BY Zenon DEF AnswerStep
<1>4. /\ drawn' \in [Peers -> Nat] /\ \A x \in Peers : drawn[x] <= drawn'[x]
      /\ pending' = pending
      /\ \A e \in net' : e \in net \/ e = Datagram(Port(q), r.from, reply)
  BY Zenon DEF AnswerStep
<1>5. IsAnswerInner(p, r, reply.inner)' /\ reply.spis = u /\ SealedBy(q, reply)
  BY Zenon DEF AnswerStep, SealedBy
<1>6. PICK sa : sa = ikes[q][u]
  BY Zenon
<1>7. sa \in [role : {"Initiator", "Responder"}, keys : {sa.keys}, next : Nat, expect : Nat,
              cached : {sa.cached}]
  BY <1>6, <1>q, <1>t, Zenon DEF Tables
<1>8. PICK sb : sb = ikes'[q][u]
  BY Zenon
<1>9. sb = [sa EXCEPT !.expect = r.data.id + 1, !.cached = {reply}]
  BY <1>1, <1>6, <1>8, Zenon
<1>10. /\ sb.role = sa.role /\ sb.keys = sa.keys /\ sb.next = sa.next
       /\ sb.expect = r.data.id + 1 /\ sb.cached = {reply}
       /\ sb \in [role : {"Initiator", "Responder"}, keys : {sb.keys}, next : Nat, expect : Nat,
                 cached : {sb.cached}]
  <2>1. sb = [role |-> sa.role, keys |-> sa.keys, next |-> sa.next,
              expect |-> r.data.id + 1, cached |-> {reply}]
    BY <1>7, <1>9, Zenon
  <2>2. r.data.id + 1 \in Nat /\ sa.role \in {"Initiator", "Responder"} /\ sa.next \in Nat
    BY <1>7, <1>r
  <2> QED
    BY <2>1, <2>2, Zenon
<1>11. /\ \A x \in Peers : Keeps(x)
       /\ \A s \in DOMAIN ikes[p] : SameAnswers(p, s)
       /\ \A s \in DOMAIN ikes[q] : s # u => SameAnswers(q, s)
       /\ \A s \in DOMAIN ikes[q] : ikes'[q][s].next = ikes[q][s].next
       /\ \A s \in DOMAIN ikes[q] : SameAnswers(q, s) \/ ikes'[q][s].expect = ikes[q][s].expect + 1
  <2>1. \A x \in Peers : Sockets(x) \subseteq Sockets(x)' /\ DrawsOf(x) \subseteq DrawsOf(x)'
    BY <1>4, <1>t, DrawsKept, Zenon
  <2>2. Keeps(p) /\ \A s \in DOMAIN ikes[p] : SameAnswers(p, s)
    BY <1>1, <1>3, <2>1, Zenon DEF Keeps, SameAnswers
  <2>3. Keeps(q)
    BY <1>1, <1>3, <1>6, <1>8, <1>10, <1>q, <2>1, Zenon DEF Keeps
  <2>4. \A s \in DOMAIN ikes[q] : ikes'[q][s].next = ikes[q][s].next /\ (s # u => SameAnswers(q, s))
    BY <1>1, <1>6, <1>8, <1>10, Zenon DEF SameAnswers
  <2>5. ikes'[q][u].expect = ikes[q][u].expect + 1
    BY <1>8, <1>10, Zenon
  <2> QED
    BY <1>q, <2>2, <2>3, <2>4, <2>5, Zenon
<1>12. \A s \in DOMAIN ikes[p] : s \in DOMAIN ikes'[q] => s \in DOMAIN ikes[q]
  BY <1>2, <1>r
<1>13. IsAnswered(p, r)' /\ ikes'[q][u].cached = {reply} /\ u \in DOMAIN ikes'[q]
  BY <1>1, <1>8, <1>10, Zenon DEF IsAnswered
<1>14. Tables'
  <2>1. ASSUME NEW x \in Peers, NEW s \in DOMAIN ikes'[x]
        PROVE  \E y \in Peers : s \in DrawsOf(y)' \X DrawsOf(Other(y))'
    <3>1. CASE s \in DOMAIN ikes[x]
      <4>1. PICK y \in Peers : s \in DrawsOf(y) \X DrawsOf(Other(y))
        BY <1>t, <3>1, Zenon DEF Tables
      <4>2. DrawsOf(y) \subseteq DrawsOf(y)' /\ DrawsOf(Other(y)) \subseteq DrawsOf(Other(y))'
        BY <1>11, Others, Zenon DEF Keeps
      <4> QED
        BY <4>1, <4>2, Zenon
    <3>2. CASE s \notin DOMAIN ikes[x]
      <4>1. PICK draw \in DrawsOf(q)' : s = <<r.from, draw>>
        BY <1>1, <1>2, <1>q, <3>2, Zenon
      <4>2. r.from \in DrawsOf(p)'
        BY <1>r, <1>t, <1>11, Draws, Zenon DEF Keeps
      <4> QED
        BY <4>1, <4>2, Zenon
    <3> QED
      BY <3>1, <3>2, Zenon
  <2>2. ASSUME NEW x \in Peers, NEW s \in DOMAIN ikes'[x]
        PROVE  ikes'[x][s] \in [role : {"Initiator", "Responder"}, keys : {ikes'[x][s].keys},
                                next : Nat, expect : Nat, cached : {ikes'[x][s].cached}]
    <3>1. CASE x = q /\ s = u
      BY <3>1, <1>8, <1>10, Zenon
    <3>2. CASE s \in DOMAIN ikes[x] /\ ~(x = q /\ s = u)
      <4>1. ikes'[x][s] = ikes[x][s]
        BY <3>2, <1>1, <1>q, Zenon
      <4> QED
        BY <3>2, <4>1, <1>t, Zenon DEF Tables
    <3>3. CASE s \notin DOMAIN ikes[x]
      <4>1. PICK keys : ikes'[x][s] = IkeSa("Responder", keys, 0, 0)
        BY <1>1, <1>2, <1>q, <3>3
      <4> QED
        BY <4>1 DEF IkeSa
    <3> QED
      BY <3>1, <3>2, <3>3, Zenon
  <2> QED
    BY <1>1, <1>3, <1>4, <1>t, <2>1, <2>2, Zenon DEF Tables
<1>15. PendingOk'
  <2>1. IsPending(p, r)'
    <3>1. r.from \in Sockets(p)' /\ ikes'[q][u].expect = r.data.id + 1
      BY <1>8, <1>10, <1>11, <1>r, Zenon DEF Keeps
    <3>2. AnswerKept(p, r)'
      <4>1. SealedBy(q, reply)'
        BY <1>5, <1>11, <1>q, SealedKept, Zenon
      <4> QED
        BY <1>5, <1>13, <4>1, Zenon DEF AnswerKept
    <3>3. SealedBy(p, r.data)'
      BY <1>r, <1>11, SealedKept, Zenon
    <3> QED
      BY <1>1, <1>4, <1>13, <1>r, <3>1, <3>2, <3>3, Zenon DEF IsPending, IsRequestInner, Port
  <2>2. ASSUME NEW x \in pending[q]
        PROVE  IsPending(q, x)'
    <3>1. IsPending(q, x)
      BY <1>q, Zenon DEF IInv, PendingOk
    <3>2. x.from \in Sockets(q) /\ x.data.spis \in DOMAIN ikes[q] /\ IsRequestInner(q, x.from, x.data.inner)
      BY <3>1, Zenon DEF IsPending, SealedBy
    <3>3. x.from # r.from
      BY <1>r, <1>q, <1>t, <3>2, Draws, Zenon
    <3>4. \A s \in DOMAIN ikes'[q] : s \in DOMAIN ikes[q] \/ s[1] # x.from
      BY <1>2, <3>3
    <3>6. ikes'[q][x.data.spis].next = ikes[q][x.data.spis].next
      BY <1>11, <3>2, Zenon
    <3>7. IF x.data.spis \in DOMAIN ikes[p]
          THEN SameAnswers(p, x.data.spis)
          ELSE x.data.spis \in DOMAIN ikes'[p] => ikes'[p][x.data.spis].expect = 0
      BY <1>1, <1>11, Zenon
    <3> QED
      BY <1>4, <1>11, <1>q, <3>1, <3>4, <3>6, <3>7, PendingKept, Zenon
  <2> QED
    BY <1>4, <1>q, <1>r, <2>1, <2>2, Zenon DEF PendingOk
<1>16. NetOk'
  <2> SUFFICES ASSUME NEW e \in net'
               PROVE  \E x \in Peers : IsRequestOf(x, e)' \/ IsAnswerTo(x, e)'
    BY Zenon DEF NetOk
  <2>1. CASE e = Datagram(Port(q), r.from, reply)
    <3>1. e.to = r.from /\ e.data = reply
      BY <2>1, Zenon DEF Datagram
    <3>2. IsAnswerTo(p, e)'
      BY <1>4, <1>13, <3>1, Zenon DEF IsAnswerTo
    <3> QED
      BY <3>2, Zenon
  <2>2. CASE e \in net
    <3>1. PICK x \in Peers : IsRequestOf(x, e) \/ IsAnswerTo(x, e)
      BY <2>2, Zenon DEF IInv, NetOk
    <3>2. CASE x = p
      <4>1. IsRequestOf(p, e)
        BY <1>r, <3>1, <3>2, Zenon DEF IsAnswerTo
      <4>2. IsRequestOf(p, e)'
        BY <1>4, <1>11, <1>q, <1>t, <4>1, RequestOfKept, Zenon
      <4> QED
        BY <4>2, Zenon
    <3>3. CASE x = q
      <4>1. IsRequestOf(q, e) => IsRequestOf(q, e)'
        BY <1>4, <1>11, <1>q, <1>t, RequestOfKept, Zenon
      <4>2. IsAnswerTo(q, e) => IsAnswerTo(q, e)'
        BY <1>4, <1>11, <1>q, AnswerToKept, Zenon DEF IsAnswered
      <4> QED
        BY <1>q, <3>1, <3>3, <4>1, <4>2, Zenon
    <3> QED
      BY <3>2, <3>3, <1>q, Zenon
  <2> QED
    BY <1>4, <2>1, <2>2, Zenon
<1>17. SasOk'
  <2>1. ASSUME NEW s \in DOMAIN ikes[p]
        PROVE  IsPaired(p, s)' /\ ((\A x \in pending[p] : x.data.spis # s) => IsIdle(p, s)')
    <3>1. IsPaired(p, s) /\ ((\A x \in pending[p] : x.data.spis # s) => IsIdle(p, s))
      BY Zenon DEF IInv, SasOk
    <3>2. IsAlone(p, s) => IsAlone(p, s)'
      BY <1>4, <1>11, <1>q, AloneKept, Zenon DEF IsAnswered
    <3>3. s \in DOMAIN ikes'[q] <=> s \in DOMAIN ikes[q]
      BY <1>1, <1>12, Zenon
    <3>4. IsPaired(p, s)'
      BY <1>1, <1>11, <1>q, <3>1, <3>2, <3>3 DEF IsPaired, Keeps
    <3>5. s # u /\ IsIdle(p, s) => IsIdle(p, s)'
      BY <1>1, <1>11, <3>3, Zenon DEF IsIdle, SameAnswers
    <3> QED
      BY <1>r, <3>1, <3>4, <3>5, Zenon
  <2>2. ASSUME NEW s \in DOMAIN ikes[q]
        PROVE  IsPaired(q, s)' /\ ((\A x \in pending[q] : x.data.spis # s) => IsIdle(q, s)')
    <3>1. IsPaired(q, s) /\ ((\A x \in pending[q] : x.data.spis # s) => IsIdle(q, s))
      BY <1>q, Zenon DEF IInv, SasOk
    <3>2. ~IsAlone(q, s)
      BY <1>r, <1>q, Zenon DEF IsAlone
    <3>3. s \in DOMAIN ikes[p]
      BY <1>q, <3>1, <3>2, ZenonT(30) DEF IsPaired
    <3>4. IsPaired(q, s)'
      BY <1>1, <1>11, <1>q, <3>1, <3>3 DEF IsPaired, Keeps
    <3>5. IsIdle(q, s) => IsIdle(q, s)'
      BY <1>1, <1>11, <1>q, Zenon DEF IsIdle
    <3> QED
      BY <3>1, <3>4, <3>5, Zenon
  <2>3. ASSUME NEW s \in DOMAIN ikes'[q], s \notin DOMAIN ikes[q]
        PROVE  IsPaired(q, s)' /\ IsIdle(q, s)'
    <3>1. PICK draw : /\ s = <<r.from, draw>> /\ reply.inner.sa = {draw} /\ IsIkeSaRekey(r.data.inner)
                      /\ \E keys : ikes'[q][s] = IkeSa("Responder", keys, 0, 0)
      BY <1>2, <2>3, Zenon
    <3>2. s[1] = r.from /\ s[2] = draw /\ s \notin DOMAIN ikes'[p]
      BY <1>1, <1>r, <3>1
    <3>3. ikes'[q][s].role = "Responder" /\ ikes'[q][s].expect = 0 /\ ikes'[q][s].next = 0
      BY <3>1 DEF IkeSa
    <3>4. IsAlone(q, s)'
      BY <1>4, <1>13, <1>q, <3>1, <3>2, <3>3, Zenon DEF IsAlone
    <3> QED
      BY <1>q, <3>2, <3>3, <3>4, Zenon DEF IsPaired, IsIdle
  <2> QED
    BY <1>1, <1>4, <1>q, <2>1, <2>2, <2>3, ZenonT(30) DEF SasOk
<1>18. ChildrenOk'
  <2>1. ASSUME NEW c \in children[p], c.answered
        PROVE  IsChildOfAnswer(p, c)'
    <3>1. IsChildOfAnswer(p, c)
      BY <2>1, Zenon DEF IInv, ChildrenOk
    <3> QED
      BY <1>4, <1>11, <1>q, <3>1, ChildOfAnswerKept, Zenon DEF IsAnswered
  <2>2. ASSUME NEW c \in children[q], c.answered
        PROVE  IsChildOfAnswer(q, c)'
    <3>1. IsChildOfAnswer(q, c)
      BY <1>q, <2>2, Zenon DEF IInv, ChildrenOk
    <3>2. c.sa.inbound.key.ni # r.from /\ c.sa.inbound.key.ni \in DrawsOf(p)'
      BY <1>r, <1>q, <1>11, <3>1, Zenon DEF IsChildOfAnswer, Keeps
    <3> QED
      BY <1>4, <1>q, <1>r, <3>2, Zenon DEF IsChildOfAnswer
  <2>3. ASSUME NEW c \in children'[q], c \notin children[q]
        PROVE  IsChildOfAnswer(q, c)'
    <3>1. PICK draw \in reply.inner.sa : c = AnsweredChild(p, r, draw)
      BY <1>3, <2>3, Zenon
    <3>2. IsChildRekey(r.data.inner)
      BY <1>3, <2>3, Zenon
    <3>3. AnsweredChild(p, r, draw)' = AnsweredChild(p, r, draw)
      BY <1>6, <1>8, <1>10, Zenon DEF AnsweredChild
    <3>4. c.sa.inbound.key.ni = r.from
      BY <3>1, AnsweredChildFields, Zenon
    <3>5. r.from \in DrawsOf(p)'
      BY <1>r, <1>t, <1>11, Draws, Zenon DEF Keeps
    <3> QED
      BY <1>4, <1>13, <1>q, <1>r, <3>1, <3>2, <3>3, <3>4, <3>5, Zenon DEF IsChildOfAnswer
  <2> QED
    BY <1>3, <1>q, <2>1, <2>2, <2>3, Zenon DEF ChildrenOk
<1>19. ChildrenMirror'
  <2> SUFFICES ASSUME NEW x \in Peers, NEW c \in children'[x], ~c.answered
               PROVE  \E o \in children'[Other(x)] :
                          /\ o.answered /\ Mirror(c.sa, o.sa)
                          /\ x = "I" => o.ts = {[i |-> AssignedHost, r |-> FullTunnel]}
    BY Zenon DEF ChildrenMirror, Mirror, AssignedHost, FullTunnel
  <2>1. c \in children[x]
    BY <1>3, <1>q, AnsweredChildFields
  <2>2. children[Other(x)] \subseteq children'[Other(x)]
    BY <1>11, Others, Zenon DEF Keeps
  <2> QED
    BY <2>1, <2>2, Zenon DEF IInv, ChildrenMirror
<1>20. NoOrphans'
  <2> SUFFICES ASSUME NEW x \in Peers, NEW c \in children'[x], c.answered
               PROVE  \/ \E o \in children'[Other(x)] : Mirror(c.sa, o.sa)
                      \/ \E y \in pending[Other(x)] : y.data.inner.nonce = {c.sa.inbound.key.ni}
    BY <1>4, Zenon DEF NoOrphans, Mirror
  <2>1. CASE c \in children[x]
    <3>1. children[Other(x)] \subseteq children'[Other(x)]
      BY <1>11, Others, Zenon DEF Keeps
    <3> QED
      BY <2>1, <3>1, Zenon DEF IInv, NoOrphans
  <2>2. CASE c \notin children[x]
    <3>1. x = q /\ IsChildRekey(r.data.inner) /\ \E draw : c = AnsweredChild(p, r, draw)
      BY <1>3, <1>q, <2>2, Zenon
    <3>2. c.sa.inbound.key.ni = r.from
      BY <3>1, AnsweredChildFields, Zenon
    <3>3. r.data.inner.nonce = {r.from}
      BY <1>r, <3>1, RequestKinds, Zenon
    <3> QED
      BY <1>q, <3>1, <3>2, <3>3, Zenon
  <2> QED
    BY <2>1, <2>2, Zenon
<1> QED
  BY <1>14, <1>15, <1>16, <1>17, <1>18, <1>19, <1>20, Zenon DEF IInv


\* The effect of Answer on the IKE SAs and the network.
Replies(q, d, table, reply) ==
    /\ DOMAIN ikes' = Peers /\ ikes'[Other(q)] = ikes[Other(q)]
    /\ DOMAIN ikes'[q] = DOMAIN table
    /\ \A s \in DOMAIN table : s # d.data.spis => ikes'[q][s] = table[s]
    /\ ikes'[q][d.data.spis] =
            [ikes[q][d.data.spis] EXCEPT !.expect = d.data.id + 1, !.cached = {reply}]
    /\ reply.spis = d.data.spis /\ reply.key = OurSkE(ikes[q][d.data.spis])
    /\ \A e \in net' : e \in net \/ e = Datagram(Port(q), d.from, reply)

\* Answer updates one IKE SA of the table it is given, and sends the reply it keeps.
LEMMA AnswerEffect ==
    ASSUME Tables, NEW q \in Peers, NEW d, NEW inner, NEW table, Answer(q, d, inner, table),
           d.data.spis \in DOMAIN ikes[q], DOMAIN ikes[q] \subseteq DOMAIN table,
           \A s \in DOMAIN ikes[q] : table[s] = ikes[q][s]
    PROVE  \E reply : reply.inner = inner /\ Replies(q, d, table, reply)
<1> DEFINE u == d.data.spis
<1>1. PICK reply : reply = Message(u, table[u], d.data.id, TRUE, inner)
  BY Zenon
<1>2. PICK row : row = [ikes[q][u] EXCEPT !.expect = d.data.id + 1, !.cached = {reply}]
  BY Zenon
<1>3. ikes[q][u] \in [role : {"Initiator", "Responder"}, keys : {ikes[q][u].keys},
                      next : Nat, expect : Nat, cached : {ikes[q][u].cached}]
  BY Zenon DEF Tables
<1>4. PICK new : new = [table EXCEPT ![u].expect = d.data.id + 1, ![u].cached = {reply}]
  BY Zenon
<1>5. DOMAIN new = DOMAIN table /\ \A s \in DOMAIN table : s # u => new[s] = table[s]
  BY <1>4, Zenon
<1>6. new[u] = row
  <2>1. PICK mid : mid = [table EXCEPT ![u].expect = d.data.id + 1]
    BY Zenon
  <2>2. new = [mid EXCEPT ![u].cached = {reply}]
    BY <1>4, <2>1, Zenon
  <2>3. u \in DOMAIN mid /\ mid[u] = [ikes[q][u] EXCEPT !.expect = d.data.id + 1]
    BY <2>1, Zenon
  <2>4. new[u] = [mid[u] EXCEPT !.cached = {reply}]
    BY <2>2, <2>3, Zenon
  <2> QED
    BY <1>2, <2>3, <2>4, Zenon
<1>7. ikes' = [ikes EXCEPT ![q] = new]
  BY <1>1, <1>4, Zenon DEF Answer
<1>8. DOMAIN ikes' = Peers /\ ikes'[q] = new /\ ikes'[Other(q)] = ikes[Other(q)]
  BY <1>7, Others, Zenon DEF Tables
<1>9. \A e \in net' : e \in net \/ e = Datagram(Port(q), d.from, reply)
  BY <1>1, Zenon DEF Answer, Receive
<1>10. reply.inner = inner /\ reply.spis = u /\ reply.key = OurSkE(ikes[q][u])
  BY <1>1, Zenon DEF Message
<1> QED
  BY <1>2, <1>5, <1>6, <1>8, <1>9, <1>10, Zenon DEF Replies

\* open_informational: a probe or an address update.
LEMMA AnswerInformationalKeeps ==
    ASSUME IInv, NEW q \in Peers, NEW d \in net, AnswerInformational(q, d)
    PROVE  IInv'
<1> DEFINE p == Other(q)
<1>1. /\ d.data.inner.sa = {} /\ IsNew(q, d)
      /\ Answer(q, d, Empty, ikes[q])
      /\ UNCHANGED <<children, pending, drawn>>
  BY Zenon DEF AnswerInformational
<1>2. d \in pending[p] /\ IsPending(p, d) /\ p \in Peers /\ Other(p) = q
  BY <1>1, NewIsPending, Others, Zenon
<1>3. d.data.spis \in DOMAIN ikes[q] /\ d.data.id = ikes[q][d.data.spis].expect
  BY <1>1, Zenon DEF IsNew, OpensAt
<1>4. Tables
  BY Zenon DEF IInv
<1>5. PICK reply : Replies(q, d, ikes[q], reply)
  <2>1. PICK table : table = ikes[q]
    BY Zenon
  <2>2. \E reply : reply.inner = Empty /\ Replies(q, d, table, reply)
    BY <1>1, <1>3, <1>4, <2>1, AnswerEffect, Zenon
  <2> QED
    BY <2>1, <2>2, Zenon
<1>6. IsAnswerInner(p, d, reply.inner)'
  BY <1>1, Zenon DEF IsAnswerInner
<1>7. /\ drawn' \in [Peers -> Nat] /\ \A x \in Peers : drawn[x] <= drawn'[x]
      /\ DOMAIN children' = Peers
  BY <1>1, <1>4 DEF Tables
<1>8. AnswerStep(p, d, reply)
  BY <1>1, <1>2, <1>5, <1>6, <1>7, Zenon DEF AnswerStep, Replies
<1> QED
  BY <1>2, <1>3, <1>8, AnswerStepKeeps, Zenon

\* responder_process_rekey: the CHILD SA is derived from the pending request's nonce
\* and SPI, which are its draw.
LEMMA AnswerChildRekeyKeeps ==
    ASSUME IInv, NEW q \in Peers, NEW d \in net, AnswerChildRekey(q, d)
    PROVE  IInv'
<1> DEFINE p == Other(q)
           full == [i |-> FullTunnel, r |-> FullTunnel]
<1>1. IsChildRekey(d.data.inner) /\ IsNew(q, d)
  BY Zenon DEF AnswerChildRekey
<1>2. d \in pending[p] /\ IsPending(p, d) /\ p \in Peers /\ Other(p) = q
  BY <1>1, NewIsPending, Others, Zenon
<1>3. d.data.spis \in DOMAIN ikes[q] /\ d.data.id = ikes[q][d.data.spis].expect
  BY <1>1, Zenon DEF IsNew, OpensAt
<1>4. Tables /\ drawn \in [Peers -> Nat]
  BY Zenon DEF IInv, Tables
<1>5. /\ d.data.inner = ChildRekeyRequest(d.from) /\ d.data.inner.sa = {d.from}
      /\ d.data.inner.nonce = {d.from} /\ d.data.inner.ts = {full}
      /\ ~IsIkeSaRekey(d.data.inner)
  BY <1>1, <1>2, RequestKinds, Zenon DEF IsPending
<1>6. /\ The(d.data.inner.sa) = d.from /\ The(d.data.inner.nonce) = d.from
      /\ The(d.data.inner.ts) = full
  BY <1>5, TheOne, Zenon
<1>7. PICK draw : draw = Draw(q)
  BY Zenon
<1>8. PICK ts : ts = AnsweredSelectors(q, full)
  BY Zenon
<1>9. /\ children' = [children EXCEPT ![q] = children[q] \cup {AnsweredChild(p, d, draw)}]
      /\ drawn' = [drawn EXCEPT ![q] = drawn[q] + 1]
      /\ Answer(q, d, ChildRekeyAnswer(draw, ts), ikes[q])
      /\ UNCHANGED pending
  <2>1. AnsweredChild(p, d, draw) =
            [sa |-> ChildSa(ikes[q][d.data.spis].keys, d.from, draw, "Responder", draw, d.from),
             ts |-> {ts}, answered |-> TRUE]
    BY <1>2, <1>8, Zenon DEF AnsweredChild
  <2> QED
    BY <1>6, <1>7, <1>8, <2>1, Zenon DEF AnswerChildRekey
<1>r. PICK reply : reply.inner = ChildRekeyAnswer(draw, ts) /\ Replies(q, d, ikes[q], reply)
  <2>1. PICK table : table = ikes[q]
    BY Zenon
  <2>2. PICK inner : inner = ChildRekeyAnswer(draw, ts)
    BY Zenon
  <2>3. \E reply : reply.inner = inner /\ Replies(q, d, table, reply)
    BY <1>3, <1>4, <1>9, <2>1, <2>2, AnswerEffect, Zenon
  <2> QED
    BY <2>1, <2>2, <2>3, Zenon
<1>10. /\ reply.inner = ChildRekeyAnswer(draw, ts)
       /\ DOMAIN ikes' = Peers /\ ikes'[p] = ikes[p]
       /\ DOMAIN ikes'[q] = DOMAIN ikes[q]
       /\ \A s \in DOMAIN ikes[q] : s # d.data.spis => ikes'[q][s] = ikes[q][s]
       /\ ikes'[q][d.data.spis] =
             [ikes[q][d.data.spis] EXCEPT !.expect = d.data.id + 1, !.cached = {reply}]
       /\ reply.spis = d.data.spis /\ reply.key = OurSkE(ikes[q][d.data.spis])
       /\ \A e \in net' : e \in net \/ e = Datagram(Port(q), d.from, reply)
  BY <1>r, Zenon DEF Replies
<1>11. /\ drawn' \in [Peers -> Nat] /\ \A x \in Peers : drawn[x] <= drawn'[x]
       /\ draw \in Sockets(q)'
  BY <1>4, <1>7, <1>9 DEF Draw, Sockets
<1>12. /\ DOMAIN children' = Peers /\ children'[p] = children[p]
       /\ children'[q] = children[q] \cup {AnsweredChild(p, d, draw)}
  BY <1>2, <1>4, <1>9, Others, Zenon DEF Tables
<1>13. reply.inner.sa = {draw}
  BY <1>10, AnswerFields
<1>14. AnsweredChild(p, d, draw)' = AnsweredChild(p, d, draw)
  <2>1. ikes[q][d.data.spis] \in [role : {"Initiator", "Responder"}, keys : {ikes[q][d.data.spis].keys},
                      next : Nat, expect : Nat, cached : {ikes[q][d.data.spis].cached}]
    BY <1>3, <1>4, Zenon DEF Tables
  <2>2. ikes'[q][d.data.spis].keys = ikes[q][d.data.spis].keys
    BY <1>10, <2>1, Zenon
  <2> QED
    BY <1>2, <2>2, Zenon DEF AnsweredChild
<1>15. IsAnswerInner(p, d, reply.inner)'
  <2>1. AnsweredChild(p, d, draw)' \in children'[q]
    BY <1>12, <1>14, Zenon
  <2>2. reply.inner = ChildRekeyAnswer(draw, AnsweredSelectors(q, full))
    BY <1>8, <1>10, Zenon
  <2> QED
    BY <1>2, <1>5, <1>11, <2>1, <2>2, Zenon DEF IsAnswerInner
<1>16. AnswerStep(p, d, reply)
  BY <1>1, <1>2, <1>5, <1>9, <1>10, <1>11, <1>12, <1>13, <1>15, Zenon DEF AnswerStep
<1> QED
  BY <1>2, <1>3, <1>16, AnswerStepKeeps, Zenon

\* responder_process_ike_rekey: the new IKE SA is under a pair of SPIs q does not
\* hold, its own being a new draw.
LEMMA AnswerIkeRekeyKeeps ==
    ASSUME IInv, NEW q \in Peers, NEW d \in net, AnswerIkeRekey(q, d)
    PROVE  IInv'
<1> DEFINE p == Other(q)
<1>1. IsIkeSaRekey(d.data.inner) /\ IsNew(q, d)
  BY Zenon DEF AnswerIkeRekey
<1>2. d \in pending[p] /\ IsPending(p, d) /\ p \in Peers /\ Other(p) = q
  BY <1>1, NewIsPending, Others, Zenon
<1>3. d.data.spis \in DOMAIN ikes[q] /\ d.data.id = ikes[q][d.data.spis].expect
  BY <1>1, Zenon DEF IsNew, OpensAt
<1>4. Tables /\ drawn \in [Peers -> Nat]
  BY Zenon DEF IInv, Tables
<1>5. PICK g : d.data.inner.ke = {[group |-> g, public |-> d.from]}
  BY <1>1, <1>2, RequestKinds, Zenon DEF IsPending
<1>6. /\ d.data.inner.sa = {d.from} /\ d.data.inner.nonce = {d.from}
      /\ ~IsChildRekey(d.data.inner)
  BY <1>1, <1>2, RequestKinds, Zenon DEF IsPending
<1>7. /\ The(d.data.inner.sa) = d.from /\ The(d.data.inner.nonce) = d.from
      /\ The(d.data.inner.ke).public = d.from
  <2>1. The(d.data.inner.ke) = [group |-> g, public |-> d.from]
    BY <1>5, TheOne, Zenon
  <2>2. The(d.data.inner.ke).public = d.from
    BY <2>1
  <2>3. The(d.data.inner.sa) = d.from /\ The(d.data.inner.nonce) = d.from
    BY <1>6, TheOne, Zenon
  <2> QED
    BY <2>2, <2>3, Zenon
<1>8. PICK draw : draw = Draw(q)
  BY Zenon
<1>9. PICK keys : keys = AnsweredKeys(p, d, draw)
  BY Zenon
<1>10. PICK table : table = Put(ikes[q], <<d.from, draw>>, IkeSa("Responder", keys, 0, 0))
  BY Zenon
<1>11. /\ drawn' = [drawn EXCEPT ![q] = drawn[q] + 1]
       /\ Answer(q, d, IkeRekeyAnswer(draw), table)
       /\ UNCHANGED <<children, pending>>
  <2>1. keys = RekeySessionKeys(ikes[q][d.data.spis].keys, d.from, draw, d.from, draw, d.from, draw)
    BY <1>2, <1>9, Zenon DEF AnsweredKeys
  <2> QED
    BY <1>7, <1>8, <1>10, <2>1, Zenon DEF AnswerIkeRekey, RekeyedSa
<1>12. <<d.from, draw>> \notin DOMAIN ikes[q]
  <2> SUFFICES ASSUME <<d.from, draw>> \in DOMAIN ikes[q]
               PROVE  FALSE
    BY Zenon
  <2>1. PICK y \in Peers : <<d.from, draw>> \in DrawsOf(y) \X DrawsOf(Other(y))
    BY <1>4, Zenon DEF Tables
  <2>2. draw \in DrawsOf(Other(y))
    BY <2>1, Zenon
  <2> QED
    BY <1>4, <1>8, <2>2, Draws, Others, Zenon
<1>13. /\ DOMAIN table = DOMAIN ikes[q] \cup {<<d.from, draw>>}
       /\ table[<<d.from, draw>>] = IkeSa("Responder", keys, 0, 0)
       /\ \A s \in DOMAIN ikes[q] : table[s] = ikes[q][s]
  BY <1>10, <1>12, Zenon DEF Put
<1>r. PICK reply : reply.inner = IkeRekeyAnswer(draw) /\ Replies(q, d, table, reply)
  <2>1. PICK inner : inner = IkeRekeyAnswer(draw)
    BY Zenon
  <2> QED
    BY <1>3, <1>4, <1>11, <1>13, <2>1, AnswerEffect, Zenon
<1>14. /\ reply.inner = IkeRekeyAnswer(draw)
       /\ DOMAIN ikes' = Peers /\ ikes'[p] = ikes[p]
       /\ DOMAIN ikes'[q] = DOMAIN table
       /\ \A s \in DOMAIN table : s # d.data.spis => ikes'[q][s] = table[s]
       /\ ikes'[q][d.data.spis] =
             [ikes[q][d.data.spis] EXCEPT !.expect = d.data.id + 1, !.cached = {reply}]
       /\ reply.spis = d.data.spis /\ reply.key = OurSkE(ikes[q][d.data.spis])
       /\ \A e \in net' : e \in net \/ e = Datagram(Port(q), d.from, reply)
  BY <1>r, Zenon DEF Replies
<1>15. /\ drawn' \in [Peers -> Nat] /\ \A x \in Peers : drawn[x] <= drawn'[x]
       /\ draw \in Sockets(q)' /\ draw \in DrawsOf(q)'
  BY <1>4, <1>8, <1>11 DEF Draw, Sockets, DrawsOf
<1>16. reply.inner.sa = {draw}
  BY <1>14, AnswerFields, Zenon
<1>17. ikes'[q][<<d.from, draw>>] = IkeSa("Responder", keys, 0, 0)
  BY <1>3, <1>12, <1>13, <1>14, Zenon
<1>18. IsAnswerInner(p, d, reply.inner)'
  <2>1. ikes[q][d.data.spis] \in [role : {"Initiator", "Responder"}, keys : {ikes[q][d.data.spis].keys},
                      next : Nat, expect : Nat, cached : {ikes[q][d.data.spis].cached}]
    BY <1>3, <1>4, Zenon DEF Tables
  <2>2. ikes'[q][d.data.spis].keys = ikes[q][d.data.spis].keys
    BY <1>14, <2>1, Zenon
  <2>3. AnsweredKeys(p, d, draw)' = keys
    BY <1>2, <1>9, <2>2, Zenon DEF AnsweredKeys
  <2>4. /\ <<d.from, draw>> \in DOMAIN ikes'[q]
        /\ ikes'[q][<<d.from, draw>>].role = "Responder"
        /\ ikes'[q][<<d.from, draw>>].keys = AnsweredKeys(p, d, draw)'
    BY <1>13, <1>14, <1>17, <2>3 DEF IkeSa
  <2>5. reply.inner = IkeRekeyAnswer(draw) /\ IsIkeSaRekey(d.data.inner) /\ draw \in Sockets(q)'
    BY <1>1, <1>14, <1>15, Zenon
  <2> QED
    BY <1>2, <2>4, <2>5, Zenon DEF IsAnswerInner
<1>19. \A s \in DOMAIN ikes'[q] :
          \/ s \in DOMAIN ikes[q]
          \/ \E x \in DrawsOf(q)' :
                /\ s = <<d.from, x>> /\ reply.inner.sa = {x} /\ IsIkeSaRekey(d.data.inner)
                /\ \E k : ikes'[q][s] = IkeSa("Responder", k, 0, 0)
  BY <1>1, <1>13, <1>14, <1>15, <1>16, <1>17, Zenon
<1>20. /\ DOMAIN children' = Peers /\ children'[p] = children[p] /\ children'[q] = children[q]
  BY <1>4, <1>11, Zenon DEF Tables
<1>21. /\ DOMAIN ikes' = Peers /\ ikes'[p] = ikes[p] /\ DOMAIN ikes[q] \subseteq DOMAIN ikes'[q]
       /\ \A s \in DOMAIN ikes[q] : s # d.data.spis => ikes'[q][s] = ikes[q][s]
  BY <1>13, <1>14, Zenon
<1>22. AnswerStep(p, d, reply)
  BY <1>2, <1>6, <1>11, <1>14, <1>15, <1>18, <1>19, <1>20, <1>21 DEF AnswerStep
<1> QED
  BY <1>2, <1>3, <1>22, AnswerStepKeeps, Zenon

-----------------------------------------------------------------------------
(* The completion of a request *)

\* What arrives at the socket of a pending request is the answer kept for it.
LEMMA AnswerAt ==
    ASSUME IInv, NEW p \in Peers, NEW r \in pending[p], NEW d \in net, d.to = r.from
    PROVE  /\ IsPending(p, r) /\ IsAnswered(p, r)
           /\ ikes[Other(p)][r.data.spis].cached = {d.data}
           /\ IsAnswerInner(p, r, d.data.inner)
           /\ d.data.spis = r.data.spis /\ SealedBy(Other(p), d.data)
<1>t. Tables /\ drawn \in [Peers -> Nat]
  BY Zenon DEF IInv, Tables
<1>1. IsPending(p, r) /\ pending[p] = {r} /\ r.from \in Sockets(p)
  BY DEF IInv, PendingOk, IsPending
<1>2. PICK x \in Peers : IsRequestOf(x, d) \/ IsAnswerTo(x, d)
  BY Zenon DEF IInv, NetOk
<1>3. ~IsRequestOf(x, d)
  BY <1>1, <1>t, Draws, Others DEF IsRequestOf
<1>4. PICK y \in pending[x] :
          d.to = y.from /\ IsAnswered(x, y) /\ d.data \in ikes[Other(x)][y.data.spis].cached
  BY <1>2, <1>3, Zenon DEF IsAnswerTo
<1>5. y.from \in Sockets(x)
  BY Zenon DEF IInv, PendingOk, IsPending
<1>6. x = p /\ y = r
  BY <1>1, <1>4, <1>5, <1>t, Draws, Others
<1>7. AnswerKept(p, r)
  BY <1>1, <1>4, <1>6, Zenon DEF IsPending
<1>8. PICK a \in ikes[Other(p)][r.data.spis].cached :
          /\ ikes[Other(p)][r.data.spis].cached = {a} /\ IsAnswerInner(p, r, a.inner)
          /\ a.spis = r.data.spis /\ SealedBy(Other(p), a)
  BY <1>7, Zenon DEF AnswerKept
<1>9. a = d.data
  BY <1>4, <1>6, <1>8, Zenon
<1> QED
  BY <1>1, <1>4, <1>6, <1>8, <1>9, Zenon

\* What the three completions have in common: the socket is closed; what p adds has
\* its counterpart at the other end, and what waited for r is no longer alone.
CompleteStep(p, r) ==
    LET q == Other(p) IN
    /\ DOMAIN ikes' = Peers /\ ikes'[q] = ikes[q] /\ DOMAIN ikes[p] \subseteq DOMAIN ikes'[p]
    /\ \A s \in DOMAIN ikes[p] : ikes'[p][s] = ikes[p][s]
    /\ \A s \in DOMAIN ikes'[p] :
        \/ s \in DOMAIN ikes[p]
        \/ /\ s \in DOMAIN ikes[q] /\ ikes[q][s].role = "Responder"
           /\ ikes'[p][s] = IkeSa("Initiator", ikes[q][s].keys, 0, 0)
    /\ \A s \in DOMAIN ikes[q] : IsAlone(q, s) => s \in DOMAIN ikes'[p]
    /\ DOMAIN children' = Peers /\ children'[q] = children[q] /\ children[p] \subseteq children'[p]
    /\ \A c \in children'[p] :
        \/ c \in children[p]
        \/ /\ ~c.answered
           /\ \E o \in children[q] :
                /\ o.answered /\ Mirror(c.sa, o.sa)
                /\ p = "I" => o.ts = {[i |-> AssignedHost, r |-> FullTunnel]}
    /\ \A c \in children[q] :
        c.answered /\ r.data.inner.nonce = {c.sa.inbound.key.ni} =>
            \E o \in children'[p] : Mirror(c.sa, o.sa)
    /\ drawn' = drawn
    /\ DOMAIN pending' = Peers /\ pending'[p] = {} /\ pending'[q] = pending[q]
    /\ \A e \in net' : e \in net /\ e.to # r.from

\* The requester takes the answer: its request is no longer pending, and what it
\* derives has its mirror image at the other end.
LEMMA CompleteStepKeeps ==
    ASSUME IInv, NEW p \in Peers, NEW r \in pending[p], IsPending(p, r), IsAnswered(p, r),
           CompleteStep(p, r)
    PROVE  IInv'
<1> DEFINE q == Other(p)
           u == r.data.spis
<1>q. /\ q \in Peers /\ q # p /\ Other(q) = p /\ \A x \in Peers : x = p \/ x = q
  BY Others, Zenon
<1>t. Tables /\ drawn \in [Peers -> Nat]
  BY Zenon DEF IInv, Tables
<1>r. /\ pending[p] = {r} /\ r.from \in Sockets(p) /\ r.to = Port(q) /\ u \in DOMAIN ikes[p]
      /\ r.data.id \in Nat /\ ikes[p][u].next = r.data.id + 1
      /\ IsRequestInner(p, r.from, r.data.inner)
      /\ u \in DOMAIN ikes[q] /\ ikes[q][u].expect = r.data.id + 1
  BY Zenon DEF IsPending, IsAnswered, SealedBy
<1>1. /\ DOMAIN ikes' = Peers /\ ikes'[q] = ikes[q] /\ DOMAIN ikes[p] \subseteq DOMAIN ikes'[p]
      /\ \A s \in DOMAIN ikes[p] : ikes'[p][s] = ikes[p][s]
      /\ \A s \in DOMAIN ikes'[p] :
          \/ s \in DOMAIN ikes[p]
          \/ /\ s \in DOMAIN ikes[q] /\ ikes[q][s].role = "Responder"
             /\ ikes'[p][s] = IkeSa("Initiator", ikes[q][s].keys, 0, 0)
      /\ \A s \in DOMAIN ikes[q] : IsAlone(q, s) => s \in DOMAIN ikes'[p]
  BY Zenon DEF CompleteStep
<1>2. /\ DOMAIN children' = Peers /\ children'[q] = children[q] /\ children[p] \subseteq children'[p]
      /\ \A c \in children'[p] :
          \/ c \in children[p]
          \/ /\ ~c.answered
             /\ \E o \in children[q] :
                  /\ o.answered /\ Mirror(c.sa, o.sa)
                  /\ p = "I" => o.ts = {[i |-> AssignedHost, r |-> FullTunnel]}
      /\ \A c \in children[q] :
          c.answered /\ r.data.inner.nonce = {c.sa.inbound.key.ni} =>
              \E o \in children'[p] : Mirror(c.sa, o.sa)
  BY Zenon DEF CompleteStep
<1>3. /\ drawn' = drawn
      /\ DOMAIN pending' = Peers /\ pending'[p] = {} /\ pending'[q] = pending[q]
      /\ \A e \in net' : e \in net /\ e.to # r.from
  BY Zenon DEF CompleteStep
<1>4. /\ \A x \in Peers : Keeps(x)
      /\ \A x \in Peers : \A s \in DOMAIN ikes[x] : SameAnswers(x, s)
  <2>1. \A x \in Peers : Sockets(x) \subseteq Sockets(x)' /\ DrawsOf(x) \subseteq DrawsOf(x)'
    BY <1>3, Zenon DEF Sockets, DrawsOf
  <2>2. Keeps(p) /\ \A s \in DOMAIN ikes[p] : SameAnswers(p, s)
    BY <1>1, <1>2, <2>1, Zenon DEF Keeps, SameAnswers
  <2>3. Keeps(q) /\ \A s \in DOMAIN ikes[q] : SameAnswers(q, s)
    BY <1>1, <1>2, <1>q, <2>1, Zenon DEF Keeps, SameAnswers
  <2> QED
    BY <1>q, <2>2, <2>3, Zenon
\* An IKE SA p comes to hold: no request was answered under it.
<1>5. ASSUME NEW s \in DOMAIN ikes'[p], s \notin DOMAIN ikes[p]
      PROVE  /\ s \in DOMAIN ikes[q] /\ IsAlone(q, s) /\ ikes[q][s].role = "Responder"
             /\ ikes[q][s].expect = 0
             /\ ikes'[p][s] = IkeSa("Initiator", ikes[q][s].keys, 0, 0)
             /\ ikes'[p][s].next = 0 /\ ikes'[p][s].expect = 0
             /\ ikes'[p][s].role = "Initiator" /\ ikes'[p][s].keys = ikes[q][s].keys
  <2>1. /\ s \in DOMAIN ikes[q] /\ ikes[q][s].role = "Responder"
        /\ ikes'[p][s] = IkeSa("Initiator", ikes[q][s].keys, 0, 0)
    BY <1>1, <1>5, Zenon
  <2>2. IsAlone(q, s)
    BY <1>5, <1>q, <2>1, Zenon DEF IInv, SasOk, IsPaired
  <2>3. ikes[q][s].expect = 0
    BY <2>2, Zenon DEF IsAlone
  <2> QED
    BY <2>1, <2>2, <2>3 DEF IkeSa
<1>6. Tables'
  <2>1. ASSUME NEW x \in Peers, NEW s \in DOMAIN ikes'[x]
        PROVE  \E y \in Peers : s \in DrawsOf(y)' \X DrawsOf(Other(y))'
    <3>1. \E z \in Peers : s \in DOMAIN ikes[z]
      BY <1>1, <1>5, <1>q, Zenon
    <3>2. PICK y \in Peers : s \in DrawsOf(y) \X DrawsOf(Other(y))
      BY <1>t, <3>1, Zenon DEF Tables
    <3>3. DrawsOf(y) \subseteq DrawsOf(y)' /\ DrawsOf(Other(y)) \subseteq DrawsOf(Other(y))'
      BY <1>4, Others, Zenon DEF Keeps
    <3> QED
      BY <3>2, <3>3, Zenon
  <2>2. ASSUME NEW x \in Peers, NEW s \in DOMAIN ikes'[x]
        PROVE  ikes'[x][s] \in [role : {"Initiator", "Responder"}, keys : {ikes'[x][s].keys},
                                next : Nat, expect : Nat, cached : {ikes'[x][s].cached}]
    <3>1. CASE s \in DOMAIN ikes[x]
      <4>1. ikes'[x][s] = ikes[x][s]
        BY <1>1, <1>q, <3>1, Zenon
      <4> QED
        BY <3>1, <4>1, <1>t, Zenon DEF Tables
    <3>2. CASE s \notin DOMAIN ikes[x]
      <4>1. x = p
        BY <1>1, <1>q, <3>2, Zenon
      <4>2. PICK keys : ikes'[x][s] = IkeSa("Initiator", keys, 0, 0)
        BY <1>5, <3>2, <4>1, Zenon
      <4> QED
        BY <4>2 DEF IkeSa
    <3> QED
      BY <3>1, <3>2, Zenon
  <2>3. drawn' \in [Peers -> Nat]
    BY <1>3, <1>t, Zenon
  <2> QED
    BY <1>1, <1>2, <1>3, <2>1, <2>2, <2>3, Zenon DEF Tables
<1>7. PendingOk'
  <2>1. ASSUME NEW x \in pending[q]
        PROVE  IsPending(q, x)'
    <3>1. IsPending(q, x) /\ x.data.spis \in DOMAIN ikes[q]
      BY <1>q DEF IInv, PendingOk, IsPending, SealedBy
    <3>2. IF x.data.spis \in DOMAIN ikes[p]
          THEN SameAnswers(p, x.data.spis)
          ELSE x.data.spis \in DOMAIN ikes'[p] => ikes'[p][x.data.spis].expect = 0
      BY <1>4, <1>5, Zenon
    <3> QED
      BY <1>1, <1>3, <1>4, <1>q, <3>1, <3>2, PendingKept
  <2> QED
    BY <1>3, <1>q, <2>1, Zenon DEF PendingOk
<1>8. NetOk'
  <2> SUFFICES ASSUME NEW e \in net'
               PROVE  \E x \in Peers : IsRequestOf(x, e)' \/ IsAnswerTo(x, e)'
    BY Zenon DEF NetOk
  <2>1. e \in net /\ e.to # r.from
    BY <1>3, Zenon
  <2>2. PICK x \in Peers : IsRequestOf(x, e) \/ IsAnswerTo(x, e)
    BY <2>1, Zenon DEF IInv, NetOk
  <2>3. CASE x = p
    <3>1. IsRequestOf(p, e)
      BY <1>r, <2>1, <2>2, <2>3, Zenon DEF IsAnswerTo
    <3>2. /\ e.data.spis \in DOMAIN ikes[q] /\ e.data.id \in Nat
          /\ e.data.id < ikes[q][e.data.spis].expect
      BY <1>r, <3>1 DEF IsRequestOf
    <3>3. e.to = Port(q) /\ e.from \in Sockets(p)' /\ SealedBy(p, e.data)'
      BY <1>4, <3>1, SealedKept, Zenon DEF IsRequestOf, Keeps
    <3>4. IsRequestOf(p, e)'
      BY <1>1, <1>3, <3>2, <3>3, Zenon DEF IsRequestOf, Port
    <3> QED
      BY <3>4, Zenon
  <2>4. CASE x = q
    <3>1. IsRequestOf(q, e) => IsRequestOf(q, e)'
      BY <1>3, <1>4, <1>q, <1>t, RequestOfKept, Zenon
    <3>2. IsAnswerTo(q, e) => IsAnswerTo(q, e)'
      BY <1>3, <1>4, <1>q, AnswerToKept, Zenon DEF IsAnswered
    <3> QED
      BY <1>q, <2>2, <2>4, <3>1, <3>2, Zenon
  <2> QED
    BY <2>3, <2>4, <1>q, Zenon
<1>9. SasOk'
  <2>1. ASSUME NEW s \in DOMAIN ikes[p]
        PROVE  IsPaired(p, s)' /\ IsIdle(p, s)'
    <3>1. IsPaired(p, s) /\ ((\A x \in pending[p] : x.data.spis # s) => IsIdle(p, s))
      BY Zenon DEF IInv, SasOk
    <3>2. IsAlone(p, s) => IsAlone(p, s)'
      BY <1>3, <1>4, <1>q, AloneKept, Zenon DEF IsAnswered
    <3>3. IsPaired(p, s)'
      BY <1>1, <3>1, <3>2, Zenon DEF IsPaired
    <3>4. IsIdle(p, s)
      BY <1>r, <3>1, Zenon DEF IsIdle
    <3> QED
      BY <1>1, <3>3, <3>4, Zenon DEF IsIdle
  <2>2. ASSUME NEW s \in DOMAIN ikes'[p], s \notin DOMAIN ikes[p]
        PROVE  IsPaired(p, s)' /\ IsIdle(p, s)'
    BY <1>1, <1>5, <2>2, Zenon DEF IsPaired, IsIdle
  <2>3. ASSUME NEW s \in DOMAIN ikes[q]
        PROVE  IsPaired(q, s)' /\ ((\A x \in pending[q] : x.data.spis # s) => IsIdle(q, s)')
    <3>1. IsPaired(q, s) /\ ((\A x \in pending[q] : x.data.spis # s) => IsIdle(q, s))
      BY <1>q, Zenon DEF IInv, SasOk
    <3>2. CASE s \in DOMAIN ikes[p]
      BY <1>1, <1>q, <3>1, <3>2, Zenon DEF IsPaired, IsIdle
    <3>3. CASE s \notin DOMAIN ikes[p]
      <4>1. IsAlone(q, s)
        BY <1>q, <3>1, <3>3, Zenon DEF IsPaired
      <4>2. s \in DOMAIN ikes'[p]
        BY <1>1, <4>1, Zenon
      <4>3. IsPaired(q, s)'
        BY <1>1, <1>5, <1>q, <3>3, <4>2, Zenon DEF IsPaired
      <4>4. IsIdle(q, s) => IsIdle(q, s)'
        BY <1>1, <1>5, <1>q, <3>3, <4>2 DEF IsIdle
      <4> QED
        BY <3>1, <4>3, <4>4, Zenon
    <3> QED
      BY <3>2, <3>3, Zenon
  <2> QED
    BY <1>1, <1>3, <1>q, <2>1, <2>2, <2>3, Zenon DEF SasOk
<1>10. ChildrenOk'
  <2>1. ASSUME NEW c \in children'[p], c.answered
        PROVE  IsChildOfAnswer(p, c)'
    <3>1. IsChildOfAnswer(p, c)
      BY <1>2, <2>1, Zenon DEF IInv, ChildrenOk
    <3> QED
      BY <1>3, <1>4, <1>q, <3>1, ChildOfAnswerKept, Zenon DEF IsAnswered
  <2>2. ASSUME NEW c \in children[q], c.answered
        PROVE  IsChildOfAnswer(q, c)'
    <3>1. c.sa.inbound.key.ni \in DrawsOf(p)'
      BY <1>q, <1>4, <2>2, Zenon DEF IInv, ChildrenOk, IsChildOfAnswer, Keeps
    <3> QED
      BY <1>3, <1>q, <3>1, Zenon DEF IsChildOfAnswer
  <2> QED
    BY <1>2, <1>q, <2>1, <2>2, Zenon DEF ChildrenOk
<1>11. ChildrenMirror'
  <2> SUFFICES ASSUME NEW x \in Peers, NEW c \in children'[x], ~c.answered
               PROVE  \E o \in children'[Other(x)] :
                          /\ o.answered /\ Mirror(c.sa, o.sa)
                          /\ x = "I" => o.ts = {[i |-> AssignedHost, r |-> FullTunnel]}
    BY Zenon DEF ChildrenMirror, Mirror, AssignedHost, FullTunnel
  <2>1. CASE c \in children[x]
    <3>1. children[Other(x)] \subseteq children'[Other(x)]
      BY <1>4, Others, Zenon DEF Keeps
    <3> QED
      BY <2>1, <3>1, Zenon DEF IInv, ChildrenMirror
  <2>2. CASE c \notin children[x]
    BY <1>2, <1>q, <2>2, Zenon
  <2> QED
    BY <2>1, <2>2, Zenon
<1>12. NoOrphans'
  <2>1. ASSUME NEW c \in children[q], c.answered
        PROVE  \E o \in children'[p] : Mirror(c.sa, o.sa)
    <3>1. \/ \E o \in children[p] : Mirror(c.sa, o.sa)
          \/ \E x \in pending[p] : x.data.inner.nonce = {c.sa.inbound.key.ni}
      BY <1>q, <2>1, Zenon DEF IInv, NoOrphans
    <3> QED
      BY <1>2, <1>r, <2>1, <3>1, Zenon
  <2>2. ASSUME NEW c \in children'[p], c.answered
        PROVE  \/ \E o \in children[q] : Mirror(c.sa, o.sa)
               \/ \E x \in pending[q] : x.data.inner.nonce = {c.sa.inbound.key.ni}
    <3>1. c \in children[p]
      BY <1>2, <2>2, Zenon
    <3> QED
      BY <1>q, <2>2, <3>1, Zenon DEF IInv, NoOrphans
  <2> SUFFICES ASSUME NEW x \in Peers, NEW c \in children'[x], c.answered
               PROVE  \/ \E o \in children'[Other(x)] : Mirror(c.sa, o.sa)
                      \/ \E y \in pending'[Other(x)] : y.data.inner.nonce = {c.sa.inbound.key.ni}
    BY Zenon DEF NoOrphans, Mirror
  <2>3. CASE x = q
    BY <1>2, <1>q, <2>1, <2>3, Zenon
  <2>4. CASE x = p
    BY <1>2, <1>3, <2>2, <2>4, Zenon
  <2> QED
    BY <1>q, <2>3, <2>4, Zenon
<1> QED
  BY <1>6, <1>7, <1>8, <1>9, <1>10, <1>11, <1>12, Zenon DEF IInv


\* The step of Done: the socket is closed with what was sent to it.
LEMMA DoneEffect ==
    ASSUME Tables, NEW p \in Peers, NEW d, Done(p, d)
    PROVE  /\ DOMAIN pending' = Peers /\ pending'[p] = {} /\ pending'[Other(p)] = pending[Other(p)]
           /\ \A e \in net' : e \in net /\ e.to # d.to
BY Others, Zenon DEF Tables, Done

\* A request that is no IKE SA rekey leaves no IKE SA alone.
LEMMA NoneAlone ==
    ASSUME NEW p \in Peers, NEW r, pending[p] = {r}, ~IsIkeSaRekey(r.data.inner)
    PROVE  \A s : ~IsAlone(Other(p), s)
BY Others, Zenon DEF IsAlone

\* dpd_probe's acknowledgement, and that of an address update.
LEMMA CompleteInformationalKeeps ==
    ASSUME IInv, NEW p \in Peers, NEW d \in net, CompleteInformational(p, d)
    PROVE  IInv'
<1> DEFINE q == Other(p)
<1>t. Tables /\ drawn \in [Peers -> Nat]
  BY Zenon DEF IInv, Tables
<1>1. PICK r \in pending[p] :
          /\ Answers(p, r, d) /\ r.data.inner.sa = {}
          /\ Done(p, d) /\ UNCHANGED <<ikes, children, drawn>>
  BY Zenon DEF CompleteInformational
<1>2. d.to = r.from
  BY <1>1, Zenon DEF Answers
<1>3. IsPending(p, r) /\ IsAnswered(p, r) /\ IsAnswerInner(p, r, d.data.inner)
  BY <1>2, AnswerAt, Zenon
<1>4. pending[p] = {r} /\ IsRequestInner(p, r.from, r.data.inner)
  BY <1>3, Zenon DEF IsPending
<1>5. r.data.inner.nonce = {} /\ ~IsIkeSaRekey(r.data.inner) /\ ~IsChildRekey(r.data.inner)
  BY <1>1, <1>4, RequestKinds
<1>7. \A s : ~IsAlone(q, s)
  BY <1>4, <1>5, NoneAlone, Zenon
<1>8. CompleteStep(p, r)
  BY <1>1, <1>2, <1>5, <1>7, <1>t, DoneEffect, Zenon DEF CompleteStep, Tables
<1> QED
  BY <1>3, <1>8, CompleteStepKeeps, Zenon

\* ChildSa::derive on both sides of one exchange: each end stamps and encrypts with what
\* the other receives on.
LEMMA MirrorOfAnswer ==
    ASSUME NEW p, NEW r, NEW draw, NEW sa,
           sa = ChildSa(ikes[Other(p)][r.data.spis].keys, r.from, draw, "Initiator", r.from, draw)
    PROVE  /\ Mirror(sa, AnsweredChild(p, r, draw).sa)
           /\ Mirror(AnsweredChild(p, r, draw).sa, sa)
BY Zenon DEF ChildSa, EspSa, ChildKey, AnsweredChild, Mirror

\* initiator_complete_rekey.
LEMMA CompleteChildRekeyKeeps ==
    ASSUME IInv, NEW p \in Peers, NEW d \in net, CompleteChildRekey(p, d)
    PROVE  IInv'
<1> DEFINE q == Other(p)
           full == [i |-> FullTunnel, r |-> FullTunnel]
<1>t. Tables /\ drawn \in [Peers -> Nat]
  BY Zenon DEF IInv, Tables
<1>q. /\ q \in Peers /\ q # p /\ Other(q) = p /\ \A x \in Peers : x = p \/ x = q
  BY Others, Zenon
<1>1. PICK r \in pending[p] :
          /\ Answers(p, r, d) /\ IsChildRekey(r.data.inner)
          /\ children' = [children EXCEPT ![p] = children[p] \cup
                {[sa |-> CompletedChild(p, r, d), ts |-> {}, answered |-> FALSE]}]
          /\ Done(p, d) /\ UNCHANGED <<ikes, drawn>>
  BY Zenon DEF CompleteChildRekey
<1>2. d.to = r.from
  BY <1>1, Zenon DEF Answers
<1>3. /\ IsPending(p, r) /\ IsAnswered(p, r) /\ IsAnswerInner(p, r, d.data.inner)
      /\ ikes[q][r.data.spis].cached = {d.data}
  BY <1>2, AnswerAt, Zenon
<1>4. pending[p] = {r} /\ IsRequestInner(p, r.from, r.data.inner) /\ r.data.spis \in DOMAIN ikes[p]
  BY <1>3, Zenon DEF IsPending, SealedBy
<1>5. /\ r.data.inner.sa = {r.from} /\ r.data.inner.nonce = {r.from}
      /\ ~IsIkeSaRekey(r.data.inner)
  BY <1>1, <1>4, RequestKinds, Zenon
<1>6. PICK draw \in Sockets(q) :
          /\ d.data.inner = ChildRekeyAnswer(draw, AnsweredSelectors(q, full))
          /\ AnsweredChild(p, r, draw) \in children[q]
  BY <1>3, <1>5, Zenon DEF IsAnswerInner
<1>7. d.data.inner.sa = {draw} /\ d.data.inner.nonce = {draw}
  BY <1>6, AnswerFields
<1>8. ikes[p][r.data.spis].keys = ikes[q][r.data.spis].keys
  BY <1>3, <1>4, Zenon DEF IsAnswered, IInv, SasOk, IsPaired
<1>9. PICK sa : sa = CompletedChild(p, r, d)
  BY Zenon
<1>10. sa = ChildSa(ikes[q][r.data.spis].keys, r.from, draw, "Initiator", r.from, draw)
  <2>1. /\ The(r.data.inner.sa) = r.from /\ The(r.data.inner.nonce) = r.from
        /\ The(d.data.inner.sa) = draw /\ The(d.data.inner.nonce) = draw
    BY <1>5, <1>7, TheOne, Zenon
  <2> QED
    BY <1>8, <1>9, <2>1, Zenon DEF CompletedChild
<1>11. /\ Mirror(sa, AnsweredChild(p, r, draw).sa) /\ Mirror(AnsweredChild(p, r, draw).sa, sa)
  BY <1>10, MirrorOfAnswer, Zenon
<1>13. PICK new : new = [sa |-> sa, ts |-> {}, answered |-> FALSE]
  BY Zenon
<1>14. new.sa = sa /\ ~new.answered
  BY <1>13, Zenon
<1>15. /\ DOMAIN children' = Peers /\ children'[q] = children[q]
       /\ children'[p] = children[p] \cup {new}
  BY <1>1, <1>9, <1>13, <1>q, <1>t, Zenon DEF Tables
<1>16. /\ AnsweredChild(p, r, draw).answered
       /\ AnsweredChild(p, r, draw).ts = {AnsweredSelectors(q, full)}
  BY Zenon DEF AnsweredChild
<1>17. p = "I" => AnsweredSelectors(q, full) = [i |-> AssignedHost, r |-> FullTunnel]
  <2>1. p = "I" => q = "R"
    BY Zenon DEF Other
  <2>2. The({AssignedHost}) = AssignedHost
    BY TheOne, Zenon
  <2> QED
    BY <2>1, <2>2, Zenon DEF AnsweredSelectors, AssignedIp
<1>18. ASSUME NEW c \in children[q], c.answered, r.data.inner.nonce = {c.sa.inbound.key.ni}
       PROVE  Mirror(c.sa, new.sa)
  <2>1. r.from = c.sa.inbound.key.ni
    BY <1>5, <1>18, Zenon
  <2>2. PICK a \in ikes[q][r.data.spis].cached : \E x \in a.inner.sa : c = AnsweredChild(p, r, x)
    BY <1>4, <1>q, <1>18, <2>1 DEF IInv, ChildrenOk, IsChildOfAnswer
  <2>3. a = d.data
    BY <1>3, <2>2, Zenon
  <2>4. c = AnsweredChild(p, r, draw)
    BY <1>7, <2>2, <2>3, Zenon
  <2> QED
    BY <1>11, <1>14, <2>4, Zenon
<1>19. \A s : ~IsAlone(q, s)
  BY <1>4, <1>5, NoneAlone, Zenon
<1>20. /\ DOMAIN pending' = Peers /\ pending'[p] = {} /\ pending'[q] = pending[q]
       /\ \A e \in net' : e \in net /\ e.to # r.from
  BY <1>1, <1>2, <1>t, DoneEffect, Zenon
<1>21. \A c \in children'[p] :
          \/ c \in children[p]
          \/ /\ ~c.answered
             /\ \E o \in children[q] :
                  /\ o.answered /\ Mirror(c.sa, o.sa)
                  /\ p = "I" => o.ts = {[i |-> AssignedHost, r |-> FullTunnel]}
  BY <1>6, <1>11, <1>14, <1>15, <1>16, <1>17, Zenon
<1>22. \A c \in children[q] :
          c.answered /\ r.data.inner.nonce = {c.sa.inbound.key.ni} =>
              \E o \in children'[p] : Mirror(c.sa, o.sa)
  BY <1>15, <1>18, Zenon
<1>23. DOMAIN ikes' = Peers /\ ikes' = ikes
  BY <1>1, <1>t, Zenon DEF Tables
<1>24. CompleteStep(p, r)
  BY <1>1, <1>5, <1>15, <1>19, <1>20, <1>21, <1>22, <1>23, Zenon DEF CompleteStep
<1> QED
  BY <1>3, <1>24, CompleteStepKeeps, Zenon

\* The completion of an IKE SA rekey: the keys are those the other end derived.
LEMMA CompleteIkeRekeyKeeps ==
    ASSUME IInv, NEW p \in Peers, NEW d \in net, CompleteIkeRekey(p, d)
    PROVE  IInv'
<1> DEFINE q == Other(p)
<1>t. Tables /\ drawn \in [Peers -> Nat]
  BY Zenon DEF IInv, Tables
<1>q. /\ q \in Peers /\ q # p /\ Other(q) = p /\ \A x \in Peers : x = p \/ x = q
  BY Others, Zenon
<1>1. PICK r \in pending[p] :
          /\ Answers(p, r, d) /\ IsIkeSaRekey(r.data.inner)
          /\ ikes' = [ikes EXCEPT ![p] =
                Put(ikes[p], <<The(r.data.inner.sa), The(d.data.inner.sa)>>,
                    IkeSa("Initiator",
                        RekeySessionKeys(ikes[p][r.data.spis].keys, The(r.data.inner.sa),
                            The(d.data.inner.ke).public, The(r.data.inner.sa),
                            The(d.data.inner.nonce), The(r.data.inner.sa), The(d.data.inner.sa)),
                        0, 0))]
          /\ Done(p, d) /\ UNCHANGED <<children, drawn>>
  BY Zenon DEF CompleteIkeRekey
<1>2. d.to = r.from
  BY <1>1, Zenon DEF Answers
<1>3. /\ IsPending(p, r) /\ IsAnswered(p, r) /\ IsAnswerInner(p, r, d.data.inner)
      /\ ikes[q][r.data.spis].cached = {d.data}
  BY <1>2, AnswerAt, Zenon
<1>4. /\ pending[p] = {r} /\ IsRequestInner(p, r.from, r.data.inner) /\ r.data.spis \in DOMAIN ikes[p]
      /\ \A s \in DOMAIN ikes[p] : s[1] # r.from
  BY <1>3, Zenon DEF IsPending, SealedBy
<1>5. /\ r.data.inner.sa = {r.from} /\ r.data.inner.nonce = {r.from}
      /\ ~IsChildRekey(r.data.inner)
  BY <1>1, <1>4, RequestKinds, Zenon
<1>6. PICK draw \in Sockets(q) :
          /\ d.data.inner = IkeRekeyAnswer(draw)
          /\ <<r.from, draw>> \in DOMAIN ikes[q]
          /\ ikes[q][<<r.from, draw>>].role = "Responder"
          /\ ikes[q][<<r.from, draw>>].keys = AnsweredKeys(p, r, draw)
  BY <1>1, <1>3, <1>5, ChildRequestFields, ZenonT(30) DEF IsAnswerInner
<1>7. /\ d.data.inner.sa = {draw} /\ d.data.inner.nonce = {draw}
      /\ d.data.inner.ke = {[group |-> SuiteGroup, public |-> draw]}
  BY <1>6, AnswerFields, Zenon
<1>8. ikes[p][r.data.spis].keys = ikes[q][r.data.spis].keys
  BY <1>3, <1>4, Zenon DEF IsAnswered, IInv, SasOk, IsPaired
<1>9. /\ The(r.data.inner.sa) = r.from /\ The(d.data.inner.sa) = draw
      /\ The(d.data.inner.nonce) = draw
  BY <1>5, <1>7, TheOne, Zenon
<1>10. The(d.data.inner.ke).public = draw
  <2>1. The(d.data.inner.ke) = [group |-> SuiteGroup, public |-> draw]
    BY <1>7, TheOne, Zenon
  <2> QED
    BY <2>1
<1>11. PICK new : new = <<r.from, draw>>
  BY Zenon
<1>12. PICK sa : sa = IkeSa("Initiator", ikes[q][new].keys, 0, 0)
  BY Zenon
<1>13. ikes' = [ikes EXCEPT ![p] = Put(ikes[p], new, sa)]
  <2>1. ikes[q][new].keys =
            RekeySessionKeys(ikes[p][r.data.spis].keys, r.from, draw, r.from, draw, r.from, draw)
    BY <1>6, <1>8, <1>11, Zenon DEF AnsweredKeys
  <2> QED
    BY <1>1, <1>9, <1>10, <1>11, <1>12, <2>1, Zenon
<1>14. /\ DOMAIN ikes' = Peers /\ ikes'[q] = ikes[q] /\ ikes'[p] = Put(ikes[p], new, sa)
  BY <1>13, <1>q, <1>t, Zenon DEF Tables
<1>15. new \notin DOMAIN ikes[p] /\ new[1] = r.from /\ new[2] = draw
  BY <1>4, <1>11, Zenon
<1>16. /\ DOMAIN ikes'[p] = DOMAIN ikes[p] \cup {new}
       /\ \A s \in DOMAIN ikes[p] : ikes'[p][s] = ikes[p][s]
       /\ ikes'[p][new] = sa
  BY <1>14, <1>15, Zenon DEF Put
<1>17. ASSUME NEW s \in DOMAIN ikes[q], IsAlone(q, s)
       PROVE  s = new
  <2>1. s[1] = r.from /\ \E a \in ikes[q][r.data.spis].cached : a.inner.sa = {s[2]}
    BY <1>4, <1>q, <1>17, Zenon DEF IsAlone
  <2>2. s[2] = draw
    BY <1>3, <1>7, <2>1, Zenon
  <2>3. \E y \in Peers : s \in DrawsOf(y) \X DrawsOf(Other(y))
    BY <1>q, <1>t, Zenon DEF Tables
  <2>4. s = <<s[1], s[2]>>
    BY <2>3
  <2> QED
    BY <1>11, <2>1, <2>2, <2>4, Zenon
<1>18. ASSUME NEW c \in children[q], c.answered
       PROVE  r.data.inner.nonce # {c.sa.inbound.key.ni}
  <2>1. \A x \in pending[p] : x.from = c.sa.inbound.key.ni => IsChildRekey(x.data.inner)
    BY <1>q, <1>18, Zenon DEF IInv, ChildrenOk, IsChildOfAnswer
  <2> QED
    BY <1>4, <1>5, <2>1, Zenon
<1>19. /\ DOMAIN pending' = Peers /\ pending'[p] = {} /\ pending'[q] = pending[q]
       /\ \A e \in net' : e \in net /\ e.to # r.from
  BY <1>1, <1>2, <1>t, DoneEffect, Zenon
<1>20. \A s \in DOMAIN ikes'[p] :
          \/ s \in DOMAIN ikes[p]
          \/ /\ s \in DOMAIN ikes[q] /\ ikes[q][s].role = "Responder"
             /\ ikes'[p][s] = IkeSa("Initiator", ikes[q][s].keys, 0, 0)
  BY <1>6, <1>11, <1>12, <1>16, Zenon
<1>21. /\ DOMAIN children' = Peers /\ children' = children
  BY <1>1, <1>t, Zenon DEF Tables
<1>22. CompleteStep(p, r)
  BY <1>1, <1>5, <1>14, <1>16, <1>17, <1>18, <1>19, <1>20, <1>21, Zenon DEF CompleteStep
<1> QED
  BY <1>3, <1>22, CompleteStepKeeps, Zenon


-----------------------------------------------------------------------------
(* The theorems *)

\* After the handshake: one paired IKE SA, nothing asked.
LEMMA InitOk ==
    ASSUME Init
    PROVE  IInv
<1>1. PICK s0 : s0 = << <<"I", 0>>, <<"R", 0>> >>
  BY Zenon
<1>2. PICK keys : keys = [handshake |-> TRUE]
  BY Zenon
<1>3. PICK host : host = [i |-> AssignedHost, r |-> FullTunnel]
  BY Zenon
<1>4. PICK ci : ci = [sa |-> ChildSa(keys, s0[1], s0[2], "Initiator", s0[1], s0[2]), ts |-> {},
                      answered |-> FALSE]
  BY Zenon
<1>5. PICK cr : cr = [sa |-> ChildSa(keys, s0[1], s0[2], "Responder", s0[2], s0[1]), ts |-> {host},
                      answered |-> TRUE]
  BY Zenon
<1>6. /\ ikes = [p \in Peers |->
            Put([x \in {} |-> x], s0,
                IF p = "I" THEN IkeSa("Initiator", keys, 2, 0) ELSE IkeSa("Responder", keys, 0, 2))]
      /\ children = [p \in Peers |-> IF p = "I" THEN {ci} ELSE {cr}]
      /\ pending = [p \in Peers |-> {}]
      /\ drawn = [p \in Peers |-> 0]
      /\ net = {}
  <2>1. ("Initiator" = "Responder") = FALSE /\ ("Responder" = "Responder") = TRUE
    BY Zenon
  <2> QED
    BY <1>1, <1>2, <1>3, <1>4, <1>5, <2>1, Zenon DEF Init, NetInit
<1>7. /\ DOMAIN ikes = Peers /\ DOMAIN children = Peers /\ DOMAIN pending = Peers
      /\ drawn \in [Peers -> Nat] /\ drawn["I"] = 0 /\ drawn["R"] = 0
      /\ \A p \in Peers : pending[p] = {}
      /\ children["I"] = {ci} /\ children["R"] = {cr}
  BY <1>6, Zenon DEF Peers
<1>8. /\ \A p \in Peers : DOMAIN ikes[p] = {s0}
      /\ ikes["I"][s0] = IkeSa("Initiator", keys, 2, 0)
      /\ ikes["R"][s0] = IkeSa("Responder", keys, 0, 2)
  BY <1>6, Zenon DEF Peers, Put
<1>9. /\ ikes["I"][s0].role = "Initiator" /\ ikes["R"][s0].role = "Responder"
      /\ ikes["I"][s0].keys = keys /\ ikes["R"][s0].keys = keys
      /\ ikes["I"][s0].next = 2 /\ ikes["R"][s0].next = 0
      /\ ikes["I"][s0].expect = 0 /\ ikes["R"][s0].expect = 2
  BY <1>8 DEF IkeSa
<1>10. Other("I") = "R" /\ Other("R") = "I" /\ \A p \in Peers : p = "I" \/ p = "R"
  BY Zenon DEF Other, Peers
<1>11. Tables
  <2>1. s0 \in DrawsOf("I") \X DrawsOf(Other("I"))
    BY <1>1, <1>7, <1>10 DEF DrawsOf
  <2>2. ASSUME NEW p \in Peers
        PROVE  ikes[p][s0] \in [role : {"Initiator", "Responder"}, keys : {ikes[p][s0].keys},
                                next : Nat, expect : Nat, cached : {ikes[p][s0].cached}]
    BY <1>8, <1>10 DEF IkeSa
  <2>3. "I" \in Peers
    BY Zenon DEF Peers
  <2> QED
    BY <1>7, <1>8, <2>1, <2>2, <2>3 DEF Tables
<1>12. PendingOk /\ NetOk
  BY <1>6, <1>7, Zenon DEF PendingOk, NetOk
<1>13. SasOk
  BY <1>8, <1>9, <1>10, Others DEF SasOk, IsPaired, IsIdle
<1>14. /\ ci.sa = ChildSa(keys, s0[1], s0[2], "Initiator", s0[1], s0[2])
       /\ cr.sa = ChildSa(keys, s0[1], s0[2], "Responder", s0[2], s0[1])
       /\ cr.ts = {host} /\ ~ci.answered /\ cr.answered
  BY <1>4, <1>5, Zenon
<1>15. Mirror(ci.sa, cr.sa) /\ Mirror(cr.sa, ci.sa) /\ cr.sa.inbound.key.ni = s0[1]
  BY <1>14 DEF Mirror, ChildSa, EspSa, ChildKey
<1>16. ChildrenOk
  <2>1. s0[1] \in DrawsOf("I")
    BY <1>1, <1>7 DEF DrawsOf
  <2>2. IsChildOfAnswer("R", cr)
    BY <1>7, <1>10, <1>15, <2>1, Others, Zenon DEF IsChildOfAnswer, Peers
  <2> QED
    BY <1>7, <1>10, <1>14, <2>2, Zenon DEF ChildrenOk
<1>17. ChildrenMirror /\ NoOrphans
  BY <1>3, <1>7, <1>10, <1>14, <1>15 DEF ChildrenMirror, NoOrphans
<1> QED
  BY <1>11, <1>12, <1>13, <1>16, <1>17, Zenon DEF IInv

\* Every step, one lemma per action.
LEMMA StepOk ==
    ASSUME IInv, [Next]_vars
    PROVE  IInv'
<1>1. ASSUME NEW p \in Peers, Requests(p) \/ (RequestUpdate /\ p = "I")
      PROVE  IInv'
  <2>1. PICK draw : draw = Draw(p)
    BY Zenon
  <2>2. CASE RequestChildRekey(p)
    <3>1. PICK inner : inner = ChildRekeyRequest(draw)
      BY Zenon
    <3>2. PICK spis \in DOMAIN ikes[p] : Request(p, spis, inner)
      BY <2>1, <2>2, <3>1, Zenon DEF RequestChildRekey
    <3>3. IsRequestInner(p, Draw(p), inner)
      BY <2>1, <3>1, Zenon DEF IsRequestInner
    <3> QED
      BY <3>2, <3>3, RequestKeeps, Zenon
  <2>3. CASE RequestIkeRekey(p)
    <3>1. PICK spis \in DOMAIN ikes[p], g \in Groups : Request(p, spis, IkeRekeyRequest(draw, g))
      BY <2>1, <2>3, Zenon DEF RequestIkeRekey
    <3>2. PICK inner : inner = IkeRekeyRequest(draw, g)
      BY Zenon
    <3>3. Request(p, spis, inner) /\ IsRequestInner(p, Draw(p), inner)
      BY <2>1, <3>1, <3>2, Zenon DEF IsRequestInner
    <3> QED
      BY <3>3, RequestKeeps, Zenon
  <2>4. CASE RequestDpd(p)
    <3>1. PICK spis \in DOMAIN ikes[p] : Request(p, spis, DpdRequest)
      BY <2>4, Zenon DEF RequestDpd
    <3>2. IsRequestInner(p, Draw(p), DpdRequest)
      BY Zenon DEF IsRequestInner
    <3> QED
      BY <3>1, <3>2, RequestKeeps, Zenon
  <2>5. CASE RequestUpdate /\ p = "I"
    <3>1. PICK spis \in DOMAIN ikes[p] : Request(p, spis, UpdateRequest)
      BY <2>5, Zenon DEF RequestUpdate
    <3>2. IsRequestInner(p, Draw(p), UpdateRequest)
      BY <2>5, Zenon DEF IsRequestInner
    <3> QED
      BY <3>1, <3>2, RequestKeeps, Zenon
  <2> QED
    BY <1>1, <2>2, <2>3, <2>4, <2>5, Zenon DEF Requests
<1>2. ASSUME NEW q \in Peers, Serve(q)
      PROVE  IInv'
  <2>1. PICK d \in net :
            \/ AnswerChildRekey(q, d) \/ AnswerIkeRekey(q, d) \/ RejectIkeRekey(q, d)
            \/ AnswerInformational(q, d) \/ AnswerAgain(q, d)
    BY <1>2, Zenon DEF Serve, Served
  <2> QED
    BY <2>1, AnswerChildRekeyKeeps, AnswerIkeRekeyKeeps, RejectKeeps, AnswerInformationalKeeps,
       AnswerAgainKeeps, Zenon
<1>3. ASSUME NEW p \in Peers, Complete(p)
      PROVE  IInv'
  <2>1. PICK d \in net : CompleteChildRekey(p, d) \/ CompleteIkeRekey(p, d) \/ CompleteInformational(p, d)
    BY <1>3, Zenon DEF Complete, Arrived
  <2> QED
    BY <2>1, CompleteChildRekeyKeeps, CompleteIkeRekeyKeeps, CompleteInformationalKeeps, Zenon
<1>4. CASE UNCHANGED vars
  BY <1>4, QuietStep, Zenon DEF vars
<1>5. "I" \in Peers
  BY Zenon DEF Peers
<1> QED
  BY <1>1, <1>2, <1>3, <1>4, <1>5, LoseKeeps, Zenon DEF Next

\* The inductive invariant holds throughout: the Message IDs of the two ends are in
\* step, whatever is lost, repeated, reordered or asked at the same time.
THEOREM Invariance == Spec => []IInv
<1>1. Init => IInv
  BY InitOk, Zenon
<1>2. IInv /\ [Next]_vars => IInv'
  BY StepOk, Zenon
<1> QED
  BY <1>1, <1>2, PTL DEF Spec

\* initiator_complete_rekey and responder_process_rekey: every CHILD SA a requester
\* holds mirrors one its peer answered with, the initiator's with its own selectors.
THEOREM RekeysMirror == Spec => []ChildrenMirror
<1>1. IInv => ChildrenMirror
  BY Zenon DEF IInv
<1> QED
  BY <1>1, Invariance, PTL

\* responder_process_ike_rekey: every IKE SA held as its initiator is held by the peer
\* as its responder, under the same keys.
THEOREM IkeRekeysMirror == Spec => []IkeSasMirror
<1>1. ASSUME IInv
      PROVE  IkeSasMirror
  <2> SUFFICES ASSUME NEW p \in Peers, NEW s \in DOMAIN ikes[p], ikes[p][s].role = "Initiator"
               PROVE  /\ s \in DOMAIN ikes[Other(p)]
                      /\ OurSkE(ikes[p][s]) = PeerSkE(ikes[Other(p)][s])
                      /\ PeerSkE(ikes[p][s]) = OurSkE(ikes[Other(p)][s])
                      /\ OurSkE(ikes[p][s]) # PeerSkE(ikes[p][s])
    BY Zenon DEF IkeSasMirror
  <2>1. IsPaired(p, s)
    BY <1>1, Zenon DEF IInv, SasOk
  <2>2. ~IsAlone(p, s)
    BY Zenon DEF IsAlone
  <2>3. /\ s \in DOMAIN ikes[Other(p)] /\ ikes[Other(p)][s].role # "Initiator"
        /\ ikes[p][s].keys = ikes[Other(p)][s].keys
    BY <2>1, <2>2, Zenon DEF IsPaired
  <2> QED
    BY <2>3, Zenon DEF OurSkE, PeerSkE
<1> QED
  BY <1>1, Invariance, PTL

\* A CHILD SA derived for an answer is mirrored by the requester, or its request is
\* pending there: no repetition makes responder_process_rekey derive a second one.
THEOREM NoAnswerInVain == Spec => []NoOrphans
<1>1. IInv => NoOrphans
  BY Zenon DEF IInv
<1> QED
  BY <1>1, Invariance, PTL

\* our_sk_e and peer_sk_e: whatever arrives opens, under an IKE SA both ends hold and at
\* the socket of a request, however often either end has rekeyed.
THEOREM NothingArrivesClosed == Spec => []ArrivalsOpen
<1>1. ASSUME IInv
      PROVE  ArrivalsOpen
  <2>1. ASSUME NEW p \in Peers, NEW m, SealedBy(Other(p), m), m.spis \in DOMAIN ikes[p]
        PROVE  OpensAt(p, m)
    <3>1. /\ ikes[p][m.spis].role # ikes[Other(p)][m.spis].role
          /\ ikes[p][m.spis].keys = ikes[Other(p)][m.spis].keys
      BY <1>1, <2>1, Zenon DEF IInv, SasOk, IsPaired, SealedBy
    <3>2. /\ ikes[p][m.spis].role \in {"Initiator", "Responder"}
          /\ ikes[Other(p)][m.spis].role \in {"Initiator", "Responder"}
      BY <1>1, <2>1, Others DEF IInv, Tables, SealedBy
    <3>3. OurSkE(ikes[Other(p)][m.spis]) = PeerSkE(ikes[p][m.spis])
      <4>1. CASE ikes[p][m.spis].role = "Initiator"
        BY <3>1, <4>1, Zenon DEF OurSkE, PeerSkE
      <4>2. CASE ikes[p][m.spis].role = "Responder"
        <5>1. ikes[Other(p)][m.spis].role = "Initiator" /\ ikes[p][m.spis].role # "Initiator"
          BY <3>1, <3>2, <4>2
        <5> QED
          BY <3>1, <5>1, Zenon DEF OurSkE, PeerSkE
      <4> QED
        BY <3>2, <4>1, <4>2, Zenon
    <3> QED
      BY <2>1, <3>3, Zenon DEF SealedBy, OpensAt
  <2>2. ASSUME NEW p \in Peers, NEW d \in Served(p), d.data.spis \in DOMAIN ikes[p]
        PROVE  OpensAt(p, d.data)
    <3>1. IsRequestOf(Other(p), d)
      BY <1>1, <2>2, RequestAt, Zenon DEF IInv, Served
    <3> QED
      BY <2>1, <2>2, <3>1, Zenon DEF IsRequestOf
  <2>3. ASSUME NEW p \in Peers, NEW d \in Arrived(p)
        PROVE  OpensAt(p, d.data)
    <3>1. PICK r \in pending[p] : d \in net /\ d.to = r.from
      BY <2>3, Zenon DEF Arrived
    <3>2. IsPending(p, r) /\ d.data.spis = r.data.spis /\ SealedBy(Other(p), d.data)
      BY <1>1, <3>1, AnswerAt, Zenon
    <3> QED
      BY <2>1, <3>2, Zenon DEF IsPending, SealedBy
  <2> QED
    BY <2>2, <2>3, Zenon DEF ArrivalsOpen
<1> QED
  BY <1>1, Invariance, PTL
=============================================================================
