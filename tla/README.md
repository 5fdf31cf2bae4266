# A TLA+ model of ryke

ryke is a clean-room implementation of IKEv2 and IKEv1 with an ESP data plane.
This directory holds TLA+ modules translated from its Rust sources, TLC runs
that check them on small instances, and TLAPS proofs of the properties that
matter most for every instance. `PROJECT.json` maps each definition to the lines
it stands for, and lists the runs, the mutants, the hazards and the findings.

## The system

| Part | Source | State | Operations | Modelled in |
|---|---|---|---|---|
| IKEv2 client driver | `ikev2/client.rs` | one socket; per call: secrets, SA | `connect` = `sa_init`, `authenticate`, derive | `Handshake` |
| IKEv2 server driver | `ikev2/server.rs` | `sessions`, `children` by SPI pair | `handle_one` (IKE_SA_INIT, IKE_AUTH, ignored), `take_child` | `Handshake`, `DataPath` |
| IKE_SA_INIT | `ikev2/exchange.rs`, `negotiate.rs` | none on the responder before acceptance | request; COOKIE, INVALID_KE_PAYLOAD or acceptance; completion | `SaInit`, `Handshake` |
| IKE_AUTH | `ikev2/ike_auth.rs`, `auth.rs`, `sk.rs` | none | build, process, verify | `Handshake` |
| Key schedule | `crypto.rs` | none | DH, `prf+`, derivations | symbolic, everywhere |
| ESP | `esp.rs`, `tunnel.rs` | SPI, key, 32-bit counter per direction | `derive`, `seal`, `open`; `Tunnel::send`, `recv` | `EspOps`, `DataPath` |
| Transport | `transport.rs` | socket | `send_to`, `recv_from` | `UdpNet` |
| IKEv1 drivers | `ikev1/client.rs`, `server.rs` | `sessions` (Phase 1, Quick-Mode state), `children` by cookie | `connect`; four arms of `handle_one`; `take_child` | `IkeV1` |
| IKEv1 exchanges | `ikev1/phase1.rs`, `phase2.rs`, `quick.rs`, `crypto1.rs` | Phase-1 keys, IV chain | Aggressive and Quick Mode, three messages each | `IkeV1` |
| EAP-MSCHAPv2 | `ikev2/eap_auth.rs`, `eap.rs`, `mschapv2.rs` | challenge, NT response, verified flag, ids | `EapInitiator`, `EapResponder` | `Eap` |
| Rekeys, INFORMATIONAL, MOBIKE | `ikev2/rekey.rs`, `ike_rekey.rs`, `informational.rs`, `mobike.rs` | kept by the caller | build, process, complete | `Rekey` |
| Certificates | `ikev2/sign.rs` | none | `validate_chain`, `verify_cert_auth` | `Certificates`, `Eap` |
| Wire format | `ikev2/message.rs`, `payload.rs` | none | payload chain, payload bodies | `Wire` |
| Sealing, fragments, NAT-T marker | `ikev2/sk.rs`, `fragment.rs`, `natt.rs` | none | seal, open; cut, reassemble; mark, tell apart | `Framing` |
| ISAKMP encoding, Mode Config | `ikev1/isakmp.rs`, `payloads.rs`, `modecfg.rs` | none | encoders and parsers | no (byte layout) |

The server is a single thread that handles one datagram at a time; a client
blocks in one `recv_from` per exchange and retransmits nothing. EAP, rekeys and
fragments are offered as functions and state machines without a driver; the callers
they are written for are modelled from the examples and tests. What makes this
hard is between them: clients interleave, datagrams are lost, duplicated, delayed
and reordered, a client's socket outlives a failed `connect`, read timeouts race
late answers, and the ESP data plane starts on one side while the handshake may
still go on at the other.

## Modules

* `EspOps`: the ESP security association as operators. A key is the record of
  the inputs it is derived from. `ChildSa` is `ChildSa::derive`, `CanSeal`,
  `Sealed` and `EspPacket` are `EspSa::seal`, `Opens` is `EspSa::open`. `MaxSeq`
  stands for `u32::MAX`.
* `UdpNet`: the network as a set of datagrams. Delivery in any order; up to
  `MaxDup` deliveries leave a copy behind. A lost datagram is one that is never
  taken; only the fair specifications exclude that. A `send_to` that fails needs no
  action: the server returns before inserting anything, as if the request had been
  lost, and the client's `connect` fails as if the read had timed out.
* `Handshake`: `Client::connect` (`Connect`, `ClientSaInitResponse`,
  `ClientAuthResponse`, `ClientError`, `ClientTimeout`) against
  `Server::handle_one` (`ServerSaInit`, `ServerAuthRequest`, `ServerDrops`).
  `client`, `sessions` and `children` are the fields of the same names; `events`
  is the history of `ServerEvent::Established`. One draw `<<owner, n>>` stands for
  private value, nonce and SPI of a `LocalSecret`.
* `DataPath`: `Handshake` composed with the tunnels of both ends. An ESP packet,
  once sent, may reach any tunnel any number of times.
* `SaInit`: what can precede the key exchange: suite selection, cookie challenge,
  INVALID_KE_PAYLOAD. `Challenge`, `RefuseKe`, `Accept` and `Reject` are the four
  ways out of `responder_respond_inner`. The initiator that follows these requests
  is external (ryke's own client offers one group and gives up on a notify), and so
  are the caller that keeps half-open SAs and rotates the secret, and the NAT.
  Whether the gate is on changes at any time.
* `IkeV1`: `Client::connect` against `Server::handle_one` of IKEv1, with the
  cookies, the two Phase-1 hashes, the three Quick-Mode hashes and the CBC IV
  chain. Decryption under another key or IV garbles the HASH and fails.
* `TunnelService`: the abstract specification of what a pair of drivers promises
  its callers. A client calls; the responder grants tunnels to clients it admits, for
  calls they made, each on a fresh SPI; a call returns with the mirror image of a
  CHILD SA granted to that very call, or not at all. `Handshake` and `IkeV1` each
  define `Service`, an INSTANCE of it with their refinement mapping (a grant is an
  event of the server; a call holds what an established client holds), and
  `ProvidesService`, that every behaviour is one of the service.
* `Certificates`: a certificate is the record of the fields `sign.rs` reads.
  `ValidateChain` is the loop of `validate_chain`, one `ChainPass` per iteration:
  trusted CAs first, else the first intermediate that fits (`FirstIssuer`), one pass
  more than there are intermediates, never going back. `PathExists` is the definition
  it is held against: some sequence of intermediates, in whatever order, leads to a
  trusted CA.
* `Eap`: `EapInitiator` (its first request, its answers with its certificate check) against
  `EapResponder` (first request, identity, response, acknowledgement, final AUTH) over
  one completed IKE_SA_INIT. Values of MSCHAPv2 are records of their inputs, so the
  two MSKs agree exactly when both ends used the same password and NT response. Every
  arm of both is there, and each meets only the other: nothing is claimed of the
  responder with another client (its arms for the acknowledgement and the final AUTH,
  `eap_auth.rs:449` and `527`, ask for no earlier step), nor of the initiator with a
  server whose first message lacks IDr and AUTH.
* `Rekey`: CREATE_CHILD_SA for CHILD and IKE SAs, dead-peer detection and MOBIKE
  updates, asked by either end under any IKE SA it holds. `ikes` and `children` are the
  caller's tables, `pending` the request it waits for. A request leaves once, as in the
  examples, which give up when no answer comes; the network may lose or copy it.
  External: which handler a request is routed to, Message IDs and the answer kept for a
  copy (modelled from what `retransmit_probe` expects of a gateway), and the initiator
  of an IKE SA rekey, since the source offers the responder only.
* `Wire`: payload bodies and the payload chain, octet by octet, with `Octet` standing
  for 256: `Write*` is `to_bytes`, `Parse*` is `parse`, one pair per payload type.
  Counts and lengths are cut to one or two octets where the code casts. Every loop of a
  parser is `Loop`, a recursive function over the places the loop can be at. A parser
  returns a set, empty for an `IkeError`. `AllPayloads` is what the Rust types can hold,
  `BodyFits` what of that the format can carry.
* `Framing`: a message encoded by `Wire`, sealed in SK or cut into SKF fragments,
  marked for port 4500, carried with ESP by a network that reorders and duplicates,
  told apart, opened, reassembled and parsed. `FragLimit` and `IvLimit` stand for the
  16-bit fragment counters and the 64-bit IV. External: the caller that numbers
  messages and takes IVs from a counter (`build_fragments` leaves their uniqueness to
  it; the examples draw them at random), and the receive loop that takes IKE and ESP in
  any order and collects fragments by Message ID.
* `HandshakeProofs` (of `Handshake` and `DataPath`), `IkeV1Proofs`, `SaInitProofs`,
  `EapProofs`, `RekeyProofs`, `WireProofs` and `FramingProofs`: the theorems about the
  module each is named after. The inductive invariant of a component is at the end of
  the component's own module; the two of `Framing` are in `FramingSteps`.
* `FramingSteps`: the actions of `Framing` keep those two, given what cutting, sealing,
  opening and reassembling do to a message (`Codec`). `FramingProofs` proves `Codec` of
  the model (`CodecHolds`), so no theorem has it as a hypothesis.
* `MC*`: instances.

Cryptography is symbolic throughout: draws are fresh, a sealed payload opens under
exactly its key, a hash equals another only if every input does. Names beginning
with `Mut` are deliberately wrong variants of the definition after them; putting
one in place of that definition breaks the property named in `PROJECT.json`.

## Runs

| Run | Checks | Shows |
|---|---|---|
| `handshake_faults` | `TypeOK`, `SaAgreement`, `Authenticated`, `ChildAgreement`, `SessionsStable`, `ProvidesService` | client `a` connects up to twice, `b` once; `b` expects another server credential; one duplicate, any loss, any order, timeouts. What `connect` returns the server holds too, only accepted peers are reported, and every step is one of `TunnelService`. 125,803 states |
| `handshake_live` | `ConnectSucceeds` | same clients, nothing lost or duplicated, no timeouts |
| `datapath` | `NonceUnique`, `OpensOnlyPeer`, `TunnelsInStep`, `OneChildPerConnect` | without duplication, tunnels of both ends, up to the last sequence number. 344,149 states |
| `dup_auth_nonce` | `NonceUnique`, violated | a duplicated IKE_AUTH request leads to a repeated nonce |
| `dup_auth_spi` | `ChildInStep`, violated | a duplicated IKE_AUTH request leaves the server with an SA the client does not address |
| `sa_init` | `ReturnRoutable`, `KeysAgree`, `SuiteFromOneProposal`, `NegotiationConverges` | three offers, one rotation, one change of address, one duplicate, the gate free to change. 101,756 states |
| `ikev1_faults` | `TypeOK`, `ServerChildHasPeer`, `ReturnedAuthentic`, `ChildKeysFresh`, `ProvidesService` | as `handshake_faults`, for IKEv1. About 142,000 states |
| `ikev1_live` | `ConnectSucceeds` | as `handshake_live`, for IKEv1, reordering included |
| `ikev1_phase1` | `QuickAfterPhase1`, violated | Quick Mode is answered before HASH_I is verified |
| `eap` | `BothEstablished`, `CredentialsGuarded`, `EapCompletes` | right, wrong and unknown credentials; a PSK gateway and nine certificate chains (with and without the needed intermediates, expired, not a CA, another name, another key, pinned); two duplicates, timeouts. 364,674 states |
| `rekey` | `ChildrenMirror`, `IkeSasMirror`, `NoOrphans`, `ArrivalsOpen` | four requests of either end, crossing, under old and new IKE SAs; one lost datagram, one copy. 1,398,336 states |
| `framing` | `ReadAsSent`, `IvsUnique`, `EveryMessageRead`, `EspReachesDataPath` | every payload type; payload, SK and SKF lengths, the SPI sizes of proposals and notifies, attribute types, and the counts of transforms and selectors at their limit and one past it; up to three messages under way, one duplicate, an IV counter that wraps. 209,074 states |

Bounds. Two clients let one client's messages meet another's state; a second
attempt of one client lets a late answer meet a later call; one duplicate is
enough for every double processing of one message; `MaxSeq = 2` lets a counter
advance and run out. `SaInit` has one client because the responder keeps nothing
between requests that could mix two. In `eap` the second duplicate lets both the
challenge and the response to it be repeated; in `rekey` four requests let an IKE SA
rekeyed by one end be rekeyed by the other while two more requests are under way. `framing` counts in octets of 16 values, so a one-octet count
overflows at 16 and a two-octet length at 256. `MCFraming` has messages on either side
of each, except for the lengths within a body (a proposal's, a selector's, an
attribute's), which the length of the payload around them keeps in range. `ReadAsSent`
speaks of the messages that fit; those past a limit are sent too, and nothing is claimed
of how they are read. The runs turn the deadlock
check off: once every `connect` has returned and the network is empty, the
system rightly has nothing to do.

Fairness. `FairSpec` assumes weak fairness of the receiving steps only: both drivers
(and the callers they are written for) loop on `recv_from`, and a network that loses
nothing delivers in the end; in `Framing` it is stated of delivery as such. `Rekey` is
checked without fairness: its requests are sent once and may be lost.
Calling `connect`, timing out, rotating the secret, changing the address and switching
the cookie gate are never obliged.

### Findings

1. `ikev2/server.rs:94-108` does not recognise a repeated IKE_AUTH request. It is
   processed afresh: the same CHILD SA keys (they depend on SK_d and the nonces of
   IKE_SA_INIT) with the counter back at zero, against "which must never repeat
   under one key" (`esp.rs:75`). Run `dup_auth_nonce`.
2. The same step draws another SPI and overwrites `children`, so what the client
   seals no longer opens, against `esp.rs:161-162` and
   `tests/handshake_udp.rs:47-48`. Run `dup_auth_spi`.
3. `ikev1/server.rs:95-121` reports that HASH_I verified and records nothing, so
   Quick Mode does not wait for it, against the events' documentation
   (`ikev1/server.rs:21-23`) and the reason given for the client's pause
   (`ikev1/client.rs:53-55`). Run `ikev1_phase1`. `ReturnedAuthentic` and
   `ServerChildHasPeer` hold all the same: the Quick-Mode hashes are keyed from the
   PSK too.

One observation is not a finding. `ServerAuth::Cert` documents that after the leaf
"the rest are intermediates, any order" (`eap_auth.rs:50-52`), while `validate_chain`
takes the first intermediate of the wanted name that is a CA and signed the
certificate in hand, and goes no further back. With two such intermediates of which
one leads nowhere, the order decides. `EapCompletes` is therefore stated for chains
without that ambiguity (`Unambiguous`), for which `ValidateChainComplete` proves that a
path is always found; `CredentialsGuarded` holds for all.

Finding 1 is why `datapath` runs without duplication. `SaAgreement`,
`Authenticated` and `ChildAgreement` hold with it, and are proved with it.

## Proofs

Every invariant and action property of the passing runs is proved for every value of
the constants. A run shows its properties on one instance,
and that each can fail; a theorem covers any set of clients, any credentials, offers or
chains, any payloads and fragment sizes, and any number of calls, requests, losses and
copies.

| Module | Theorem | States |
|---|---|---|
| `HandshakeProofs` | `TypeCorrect`, `Agreement`, `MutualAuthentication`, `ChildrenAgree`, `SessionsNeverReplaced` | `TypeOK`, `SaAgreement`, `Authenticated`, `ChildAgreement`, `SessionsStable` |
| | `ServiceProvided` | `ProvidesService`: IKEv2 implements `TunnelService` |
| | `OnlyPeersOpened` | `OpensOnlyPeer`, on any network |
| | `OneChildEach`, `NoncesUnique`, `EndsInStep` | `OneChildPerConnect`, `NonceUnique`, `TunnelsInStep`, if `MaxDup = 0` |
| `IkeV1Proofs` | `TypeCorrect`, `ResponderNeverAlone`, `ReturnsAuthentic`, `ChildKeysNeverReused` | `TypeOK`, `ServerChildHasPeer`, `ReturnedAuthentic`, `ChildKeysFresh` |
| | `ServiceProvided` | `ProvidesService`: IKEv1 implements `TunnelService` |
| `SaInitProofs` | `GateRoutable`, `EndsAgree`, `OneProposal` | `ReturnRoutable`, `KeysAgree`, `SuiteFromOneProposal` |
| `EapProofs` | `EstablishedTogether`, `CredentialsKept` | `BothEstablished`, `CredentialsGuarded` |
| | `ValidateChainSound` | `ValidateChain` holds only of a current leaf with `PathExists` |
| | `ValidateChainComplete` | `ValidateChain` holds of every leaf with `PathExists`, if the intermediates are `Unambiguous` |
| `RekeyProofs` | `RekeysMirror`, `IkeRekeysMirror`, `NoAnswerInVain`, `NothingArrivesClosed` | `ChildrenMirror`, `IkeSasMirror`, `NoOrphans`, `ArrivalsOpen` |
| `WireProofs` | `ChainRead` | a payload chain that fits is read as the payloads it was made from, and as nothing else |
| `FramingProofs` | `WholeRead`, `FragmentsReadInAnyOrder` | the same through an SK payload, and through SKF fragments in any order; fewer fragments give nothing |
| | `MessagesReadAsSent`, `NoIvUsedTwice` | `ReadAsSent`, `IvsUnique` |

Where a component has an `IInv`, its module also proves that it holds throughout
(`Invariance`, `DataPathInvariance`). The assumptions are the named ASSUMEs of the
component modules, which the runs evaluate: the server is not a client, the bounds are
numbers, an octet has an even number of values, at least 16 (room for the scaled type
numbers and the format bit of an attribute), the caller sends payloads that the Rust
types can hold, and the like. `MaxDup = 0` is the one further hypothesis. Without it
three of the data path's properties are false, which is what `dup_auth_nonce` and
`dup_auth_spi` show.

None of the properties is inductive. That a message is accepted only by the end it is
meant for depends on who could have built it, so each `IInv` is an account of origins:
for whatever is in a table, an event or the network, what must have happened for it to
be there. Every inductive invariant was checked by TLC, within the bounds of the
component's run, before it was proved (of `Framing`'s, all but the types of its
sequences, which are infinite sets). The proofs have one shape: lemmas on the fields of
messages and keys; "kept" lemmas (what has an origin keeps it while calls, draws and
events only grow); one lemma per action, which has to account only for what the action
adds; and the theorem, which puts the actions together.

* **IKEv2.** Every session answers a request that some attempt sent (`SessionOrigin`);
  every event answers an attempt that proved an accepted credential (`EventOrigin`);
  every datagram is one of four messages built from what now exists (`NetOrigin`); a
  waiting client holds what `initiator_complete` makes of some session's response
  (`ClientOrigin`), possibly of another attempt's, since the header's SPIi is not
  compared. The step to `Agreed` is where that is ruled out: the keys contain both SPIs
  and both nonces, so the response opens only under the keys of the client's own
  attempt (`AcceptedResponse`, `BothSidesDerive`).
* **The tunnel service.** `Connect` is `Call`; an accepted IKE_AUTH request is `Grant`,
  where a second invariant, `SpisDrawn`, says that no event has an SPI the server has
  yet to draw; an accepted response is `Take`, of the event that `IInv` names. Every
  other step leaves the mapped variables as they are. The IKEv1 proof is the same, with
  the Quick-Mode draw for the SPI, although `Server.sessions` is keyed by one cookie
  and a repeated message 1 replaces the session.
* **The data path.** `DPInv` adds to the handshake's invariant that every tunnel is one
  end of the CHILD SA of an event with only its counter moved on, and that every packet
  is accounted for by the counter of the tunnel that sealed it. A packet opens under
  one key and SPI, and those name the session. Without duplication the
  IKE_AUTH request of a call is in flight, or was answered, at most once (`OnceInv`); so
  there is one CHILD SA per call, each key belongs to one tunnel, and its counter only
  grows.
* **IKEv1.** Everything is a function of the connect call's draw and of two draws of the
  server. The keys, the IV chain and the hashes of one Quick Mode name all three, so
  what verifies belongs to the state it verifies for.
* **IKE_SA_INIT.** The responder keeps nothing before acceptance, so the argument runs
  through the datagrams: a cookie in a request was read at the address it names, under
  the secret it names, and a response belongs to one half-open SA. The suite comes
  from lemmas on `select` over a list of proposals.
* **EAP.** Each message is evidence of how far the exchange has come: a success message
  of a verified NT response, a final AUTH of both ends' MSK. `CredentialsKept` also
  needs `ValidateChainSound`. That is an induction over the passes of the loop, written
  as a least counterexample (`LeastNatural`). So is `ValidateChainComplete`, along the
  path that exists: with unambiguous intermediates the next certificate of the path is
  the first that fits, and the passes left are always enough for the rest of the path.
* **Rekeys.** The argument is about Message IDs. Under each IKE SA the receiver
  expects the ID of the sender's pending request, or the next one and has kept its
  answer (`IsPending`, `IsIdle`). A request it takes for new is therefore the pending one
  and is answered once (`NewIsPending`); what arrives at a
  request's socket is the answer kept for it (`AnswerAt`). What the requester derives
  from that answer mirrors what the other end derived (`MirrorOfAnswer`), and an IKE SA
  held by one end alone is one whose answer is still awaited (`IsAlone`). `IInv` also
  keeps under which key and role each pending request and kept answer was sealed
  (`SealedBy`); with the mirror of the IKE SAs, that is the key its reader takes.
* **The codec.** One lemma per structure says that what the encoder wrote is read back,
  whatever octets come before and after it. They are put together from the inside out:
  key length and transform, proposal, security association; selectors and attributes;
  the payload bodies; the chain. A list is written by `Joined` and read by `Loop`, so
  the same two facts serve every level: where the parts of a `Joined` string lie, and
  that a loop whose reads there give the values in turn returns the list
  (`LeastNatural` again). That `Loop` is well defined needs that each read moves on
  (`Falls`). What can go wrong is in `BodyFits`: a count, a length or an attribute type
  that its cast cuts, and selectors with addresses of different lengths.
* **Framing.** Everything under way or held for a Message ID comes of one sealing of the
  message sent under it (`Traced`), and `held` has no fragment twice. Distinct fragments
  of one message have distinct numbers, so sorting them (`Ordered`) puts piece k at place k
  when all are there, the numbers are 1 to the total, and joining the pieces undoes
  `Chunks`. With fewer the count does not match and nothing is returned. The payloads
  then come from `ChainRead`.
* **IVs.** The IVs used lie at strictly increasing positions of one count that began at
  the caller's first IV (`Spread`); a message takes as many positions as it has
  fragments, or one, and skips at most one. While no more than `IvLimit`
  positions are taken, different positions are different IVs.

Most leaves name Zenon, or are Zenon's by the `USE Zenon` at the head of `WireProofs`
and `FramingProofs`, where a leaf that cites SMT overrides it. tlapm's SMT translation slows down with each obligation it has
translated in a run, so in modules of this size the SMT solver is left to the leaves
that need arithmetic or records. Each fact a leaf cites also costs time in proportion to
the statements in scope, which is why `FramingSteps` does not extend `WireProofs`.

Only model-checked:

* Liveness (`ConnectSucceeds` of both drivers, `NegotiationConverges`, `EapCompletes`,
  `EveryMessageRead`, `EspReachesDataPath`): fairness and ENABLED
  are outside what TLAPS proves.

The library's induction theorems take an operator as parameter, which the provers cannot
instantiate. Every induction here is therefore over numbers: loops are recursive
functions, not RECURSIVE operators, and the proof looks at the least number at which the
claim fails.

## Not modelled

* The 28 octets of the IKE header and the ISAKMP layouts (`isakmp.rs`, `payloads.rs`):
  records in the models. The Vendor ID payload and `modecfg.rs`: no driver uses them.
* DER, signature algorithms, ciphers, hashes, group arithmetic: symbolic.
* ESP padding and trailer, which `open` strips as `seal` adds them.
* NAT-detection hashes, and what a caller does with an assigned address: they carry
  values that no decision of the source depends on.
* What a caller does with a Delete payload or with the address an UPDATE_SA_ADDRESSES
  comes from, and when it retires an SA that was rekeyed: the source builds and parses
  the messages and leaves the rest to the caller.
* `Phase1State::resume`, and the choice of a Phase-1 transform (one is offered).
* The EAP identifier (echoed, compared with nothing) and the MSCHAPv2 authenticator
  response (the initiator does not verify it).
* `sessions` of both servers grow for ever in the code; the model bounds them only
  through the number of requests. `EspSa::open` keeps no replay window, and the model
  delivers packets any number of times.

## Plan

All components with state of their own are modelled, and every safety property that a
run checks is proved. What remains outside is liveness, which stays with TLC, and the
converse of `ChainRead`: what the parsers make of octets that no encoder wrote.
