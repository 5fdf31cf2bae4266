-------------------------------- MODULE Eap ---------------------------------
(***************************************************************************)
(* EAP-MSCHAPv2 inside IKE_AUTH (ikev2/eap_auth.rs, eap.rs, mschapv2.rs):  *)
(* EapInitiator, driven as examples/ike_client_eap.rs drives it, against   *)
(* EapResponder, over one completed IKE_SA_INIT.                           *)
(*                                                                         *)
(* The SA's keys admit these two parties only, so every datagram opens at  *)
(* the other end, and the signed octets of a side vary with its ID alone.  *)
(* NT responses, MSKs, AUTH values and signatures are the records of their *)
(* inputs.  Left out: the EAP identifier, which is echoed and compared     *)
(* with nothing, the MSCHAPv2 authenticator response, which the initiator  *)
(* does not verify, CERTREQ, which EapResponder ignores, and the           *)
(* configuration, traffic selectors and MOBIKE notify of the last message. *)
(*                                                                         *)
(* External, as exchange and tests use the responder: a gateway that       *)
(* creates it for the first EAP request, feeds it every datagram until it  *)
(* reports Established or Failed, and drops a datagram it answers with an  *)
(* error.                                                                  *)
(*                                                                         *)
(* The two ends are these two state machines and no others.  Every arm of  *)
(* both is here, so some of them are arms the other end never leads to (a  *)
(* request without SA, an answer without IDr and AUTH before the first),   *)
(* and the properties say what the pair does, not what either end does     *)
(* when it is met by another implementation.                               *)
(***************************************************************************)
EXTENDS UdpNet, Sequences, FiniteSets, Certificates

CONSTANTS
    Clients,        \* what the initiator may be configured with: user, password
    Accounts,       \* the responder's users: name -> password
    ServerAuths,    \* what the responder may authenticate itself with
    TrustedCas,     \* ServerVerify::TrustedCas.cas
    ExpectedDns,    \* .expected_dns
    Now,            \* .now_unix
    MaxSteps        \* passes of the client's loop (12)

ASSUME EapAssumption ==
    /\ MaxSteps \in Nat \ {0}
    /\ \A a \in ServerAuths : a.kind = "Cert" => a.chain \in Seq(InSeq(a.chain))

VARIABLES
    config,     \* the two ends' configuration; never changes
    ini,        \* EapInitiator, and where its driver is
    res         \* EapResponder, and what it has reported

vars == <<config, ini, res, net, dups>>

Client == "client"
Server == "server"

-----------------------------------------------------------------------------
(* mschapv2.rs, eap.rs, auth.rs: values *)

Zeros == [zeros |-> TRUE]

\* generate_nt_response.
NtResponse(authenticator, peer, user, password) ==
    [authenticator |-> authenticator, peer |-> peer, user |-> user, password |-> password]

\* derive_msk.
Msk(password, nt_response) == [password |-> password, nt_response |-> nt_response]

\* responder_signed_octets, initiator_signed_octets.
SignedOctets(role, id) == [role |-> role, id |-> id]

\* psk_auth in an Authentication payload.
SharedKeyAuth(key, octets) == [method |-> "SHARED_KEY", data |-> [key |-> key, octets |-> octets]]

\* The identity payloads: the client presents its user name, the gateway its own.
Idi == config.user
Idr == "gateway"

\* The ESP SPIs of SAi2 and SAr2.
ClientChildSpi == 1
ServerChildSpi == 2

\* An EAP packet.  Options are sets of at most one element.
EapPacket(code, type) == [code |-> code, type |-> type, user |-> {}, challenge |-> {}, response |-> {}]

EapSuccess == EapPacket("SUCCESS", "none")

\* build_challenge.
BuildChallenge(challenge) == [EapPacket("REQUEST", "CHALLENGE") EXCEPT !.challenge = {challenge}]

\* build_response.
BuildResponse(authenticator, peer, user, password) ==
    [EapPacket("RESPONSE", "RESPONSE") EXCEPT
        !.response = {[peer |-> peer, name |-> user,
                       nt |-> NtResponse(authenticator, peer, user, password)]}]

\* The payloads of an SK{}: the ID of the sender, CERTs, AUTH, EAP, the SA's SPI.
NoPayloads == [id |-> {}, cert |-> <<>>, auth |-> {}, eap |-> {}, sa |-> {}]

EapPayload(packet) == [NoPayloads EXCEPT !.eap = {packet}]

\* build_sk: the message in its datagram.
Sk(from, msg_id, payloads) ==
    Datagram(from, IF from = Client THEN Server ELSE Client, [id |-> msg_id, ps |-> payloads])

The(option) == CHOOSE x \in option : TRUE

-----------------------------------------------------------------------------
(* EapInitiator *)

\* initiator_eap_request, with or without the CERTREQ: no AUTH asks for EAP.
EapRequest == [NoPayloads EXCEPT !.id = {Idi}, !.sa = {ClientChildSpi}]

\* EapInitiator::start and the first send of the driver; IKE_AUTH starts at id 1.
Start ==
    /\ ini.phase = "new"
    /\ ini' = [ini EXCEPT !.phase = "waiting"]
    /\ Send({Sk(Client, 1, EapRequest)})
    /\ UNCHANGED <<config, res>>

\* verify_server.
VerifyServer(ps) ==
    \/ config.verify = "Insecure"
    \/ /\ ps.cert # <<>>
       /\ The(ps.auth).method = "DIGITAL_SIGNATURE"
       /\ VerifyCertAuth(Head(ps.cert), Tail(ps.cert), TrustedCas, ExpectedDns, Now,
                         The(ps.auth).data, SignedOctets("responder", The(ps.id)))

\* The message carries what verify_server looks at.
Presents(ps) == ps.id # {} /\ ps.auth # {}

\* The two checks at the head of handle: the server's authentication, when it
\* first presents it, and the credential firewall, which EapResponder never meets
\* because its first message presents what verify_server looks at.
Refused(ps) ==
    /\ ~ini.server_verified
    /\ IF Presents(ps) THEN ~VerifyServer(ps) ELSE config.verify = "TrustedCas"

\* Mutant: the flag is never set.
MutVerifiedNotKept(ps) == ini.server_verified

\* self.server_verified once the checks are passed.
VerifiedAfter(ps) == ini.server_verified \/ Presents(ps)

Waiting(d) == ini.phase = "waiting" /\ d.to = Client

ClientEnds(d, phase, verified) ==
    /\ ini' = [ini EXCEPT !.phase = phase, !.server_verified = verified]
    /\ Receive(d, {})
    /\ UNCHANGED <<config, res>>

\* EapEvent::Reply: the driver sends it, unless this was the loop's last pass.
ClientReplies(d, payloads, next) ==
    LET last == ini.step + 1 = MaxSteps IN
    /\ ini' = [next EXCEPT !.step = @ + 1, !.phase = IF last THEN "stopped" ELSE "waiting"]
    /\ Receive(d, IF last THEN {} ELSE {Sk(Client, d.data.id + 1, payloads)})
    /\ UNCHANGED <<config, res>>

ClientRefuses(d) ==
    /\ Waiting(d)
    /\ Refused(d.data.ps)
    /\ ClientEnds(d, "failed", FALSE)

\* Mutant: the responder's last AUTH only has to be there.
MutConfirmsPresence(ps) == ps.auth # {} /\ ps.sa # {}

\* The responder's last message proves the MSK.
Confirms(ps) ==
    /\ ps.auth # {} /\ ps.sa # {}
    /\ The(ps.auth) = SharedKeyAuth(Msk(config.password, ini.nt_response),
                                    SignedOctets("responder", The(ps.id)))

ClientFinal(d) ==
    LET ps == d.data.ps IN
    /\ Waiting(d)
    /\ ~Refused(ps)
    /\ ps.eap = {}
    /\ ClientEnds(d, IF Confirms(ps) THEN "established" ELSE "failed", VerifiedAfter(ps))

\* EAP-Success: AUTH keyed with the MSK of the last NT response.
ClientSuccess(d) ==
    LET ps == d.data.ps IN
    /\ Waiting(d)
    /\ ~Refused(ps)
    /\ EapSuccess \in ps.eap
    /\ ClientReplies(d,
            [NoPayloads EXCEPT !.auth = {SharedKeyAuth(Msk(config.password, ini.nt_response),
                                                       SignedOctets("initiator", Idi))}],
            [ini EXCEPT !.server_verified = VerifiedAfter(ps)])

\* EAP Request: Identity, MSCHAPv2 Challenge or MSCHAPv2 Success.
ClientEapRequest(d) ==
    LET ps == d.data.ps
        next == [ini EXCEPT !.server_verified = VerifiedAfter(ps)]
    IN
    /\ Waiting(d)
    /\ ~Refused(ps)
    /\ \E packet \in ps.eap :
        /\ packet.code = "REQUEST"
        /\ \/ /\ packet.type = "IDENTITY"
              /\ ClientReplies(d, EapPayload([EapPacket("RESPONSE", "IDENTITY") EXCEPT
                                                !.user = {config.user}]), next)
           \/ \E authenticator \in packet.challenge :
                LET peer == <<Client, ini.drawn + 1>> IN
                ClientReplies(d,
                    EapPayload(BuildResponse(authenticator, peer, config.user, config.password)),
                    [next EXCEPT !.drawn = @ + 1,
                        !.nt_response = NtResponse(authenticator, peer, config.user, config.password)])
           \/ /\ packet.type = "SUCCESS"
              /\ ClientReplies(d, EapPayload(EapPacket("RESPONSE", "SUCCESS")), next)

\* recv_from times out: "no EAP response", and the driver panics.
ClientTimeout ==
    /\ ini.phase = "waiting"
    /\ ini' = [ini EXCEPT !.phase = "stopped"]
    /\ UNCHANGED <<config, res, net, dups>>

-----------------------------------------------------------------------------
(* EapResponder *)

\* cert_auth_payload: an RSA key has no classic form and is an error.
CertAuthPayloads(key, octets) ==
    {[method |-> m, data |-> Signature(key, octets)] :
        m \in IF config.hashes THEN {"DIGITAL_SIGNATURE"}
              ELSE IF key.alg = "ecdsa" THEN {"ECDSA_SHA256_P256"} ELSE {}}

\* The responder's own AUTH, and the chain sent with it.
ServerAuthPayloads ==
    LET octets == SignedOctets("responder", Idr) IN
    IF config.auth.kind = "Psk" THEN {SharedKeyAuth([psk |-> config.auth.psk], octets)}
    ELSE CertAuthPayloads(config.auth.key, octets)

Running(d) == res.phase \in {"idle", "running"} /\ d.to = Server

\* is_eap_request: what makes the gateway create the responder.
IsEapRequest(ps) == ps.auth = {}

\* EapResponder::new_multi.
NewResponder ==
    [phase |-> "idle", user |-> "", password |-> "", challenge |-> Zeros, nt_response |-> Zeros,
     peer_idi |-> {}, peer_child_spi |-> {}, drawn |-> 0]

ServerReplies(d, next, payloads) ==
    /\ res' = [next EXCEPT !.phase = "running"]
    /\ Receive(d, {Sk(Server, d.data.id, p) : p \in payloads})
    /\ UNCHANGED <<config, ini>>

ServerFails(d, next) ==
    /\ res' = [next EXCEPT !.phase = "failed"]
    /\ Receive(d, {})
    /\ UNCHANGED <<config, ini>>

\* The first message: authenticate ourselves and ask for the identity.  Without SA
\* the handler fails; with no usable AUTH it returns an error, the two fields already
\* assigned.
ServerFirst(d) ==
    LET ps == d.data.ps IN
    /\ Running(d)
    /\ ps.eap = {} /\ IsEapRequest(ps)
    /\ IF ps.sa = {}
       THEN ServerFails(d, res)
       ELSE ServerReplies(d, [res EXCEPT !.peer_child_spi = ps.sa, !.peer_idi = ps.id],
            {[NoPayloads EXCEPT !.id = {Idr}, !.auth = {auth},
                !.cert = IF config.auth.kind = "Cert" THEN config.auth.chain ELSE <<>>,
                !.eap = {EapPacket("REQUEST", "IDENTITY")}] : auth \in ServerAuthPayloads})

\* The initiator's AUTH, accepted in any state, keyed with the MSK of whatever
\* password and NT response are stored.
ServerFinal(d) ==
    LET ps == d.data.ps
        msk == Msk(res.password, res.nt_response)
        octets == SignedOctets("initiator", The(res.peer_idi))
    IN
    /\ Running(d)
    /\ ps.eap = {} /\ ps.auth # {}
    /\ \/ /\ The(ps.auth).data = SharedKeyAuth(msk, octets).data
          /\ res' = [res EXCEPT !.phase = "established"]
          /\ Receive(d, {Sk(Server, d.data.id,
                [NoPayloads EXCEPT !.id = {Idr}, !.sa = {ServerChildSpi},
                    !.auth = {SharedKeyAuth(msk, SignedOctets("responder", Idr))}])})
          /\ UNCHANGED <<config, ini>>
       \/ /\ The(ps.auth).data # SharedKeyAuth(msk, octets).data
          /\ ServerFails(d, res)

\* Identity: select the account and challenge it.
ServerIdentity(d) ==
    LET challenge == <<Server, res.drawn + 1>> IN
    /\ Running(d)
    /\ \E packet \in d.data.ps.eap : \E claimed \in packet.user :
        \/ /\ claimed \in DOMAIN Accounts
           /\ ServerReplies(d,
                [res EXCEPT !.user = claimed, !.password = Accounts[claimed],
                            !.challenge = challenge, !.drawn = @ + 1],
                {EapPayload(BuildChallenge(challenge))})
        \/ /\ claimed \notin DOMAIN Accounts
           /\ ServerFails(d, res)

\* The NT response is the one the stored challenge and account call for.
ResponseMatches(stored, r) == stored = r.nt

\* MSCHAPv2 Response: the expected NT response is stored, matching or not.
ServerResponse(d) ==
    /\ Running(d)
    /\ \E packet \in d.data.ps.eap : \E r \in packet.response :
        LET expected == NtResponse(res.challenge, r.peer, res.user, res.password)
            next == [res EXCEPT !.nt_response = expected]
        IN
        \/ /\ ResponseMatches(expected, r)
           /\ ServerReplies(d, next, {EapPayload(EapPacket("REQUEST", "SUCCESS"))})
        \/ /\ ~ResponseMatches(expected, r)
           /\ ServerFails(d, next)

\* MSCHAPv2 Success acknowledged, in any state: EAP-Success.
ServerAcked(d) ==
    /\ Running(d)
    /\ EapPacket("RESPONSE", "SUCCESS") \in d.data.ps.eap
    /\ ServerReplies(d, res, {EapPayload(EapSuccess)})

-----------------------------------------------------------------------------

Init ==
    /\ \E c \in Clients, v \in {"Insecure", "TrustedCas"}, a \in ServerAuths, h \in BOOLEAN :
        config = [user |-> c.user, password |-> c.password, verify |-> v, auth |-> a, hashes |-> h]
    /\ ini = [phase |-> "new", step |-> 0, nt_response |-> Zeros, server_verified |-> FALSE, drawn |-> 0]
    /\ res = NewResponder
    /\ NetInit

ClientReceive ==
    \E d \in net : ClientRefuses(d) \/ ClientFinal(d) \/ ClientSuccess(d) \/ ClientEapRequest(d)

ServerReceive ==
    \E d \in net : \/ ServerFirst(d) \/ ServerFinal(d) \/ ServerIdentity(d)
                   \/ ServerResponse(d) \/ ServerAcked(d)

Next == Start \/ ClientReceive \/ ClientTimeout \/ ServerReceive

Spec == Init /\ [][Next]_vars

\* Both ends call recv_from in a loop; starting and timing out are not obliged.
FairSpec == Spec /\ WF_vars(ClientReceive) /\ WF_vars(ServerReceive)

-----------------------------------------------------------------------------
(* Properties *)

\* The client's credential is the one on file.
OnFile == config.user \in DOMAIN Accounts /\ Accounts[config.user] = config.password

\* The server is who a TrustedCas client means to reach: whatever the order of
\* its chain, some path leads to a trusted CA, and the leaf's key signs.
Trustworthy ==
    /\ config.auth.kind = "Cert"
    /\ LET leaf == Head(config.auth.chain) IN
        /\ config.auth.key = leaf.key
        /\ ExpectedDns \in leaf.dns
        /\ WithinValidity(leaf, Now)
        /\ \/ \E i \in DOMAIN TrustedCas : TrustedCas[i] = leaf
           \/ PathExists(leaf, Tail(config.auth.chain), TrustedCas, Now)

\* A client that has reported Established shares the MSK with a responder that
\* has too, for the account it asked for, and the responder has its ESP SPI:
\* duplicated challenges and responses may break the exchange, never its result.
BothEstablished ==
    ini.phase = "established" =>
        /\ res.phase = "established"
        /\ Msk(res.password, res.nt_response) = Msk(config.password, ini.nt_response)
        /\ res.user = config.user
        /\ res.peer_child_spi = {ClientChildSpi}

\* A client told to verify its server answers no EAP request of one that is not
\* the server it means to reach: the name, an MSCHAPv2 response or an AUTH from
\* it are in the network only if the server is trustworthy.
CredentialsGuarded ==
    config.verify = "TrustedCas" /\ ~Trustworthy =>
        \A d \in net : d.from = Client => d.data.ps = EapRequest

\* A client with its password on file, and a server it does not insist on
\* verifying or that can prove itself, end with both reporting Established once the
\* client has started, unless a datagram is duplicated or a read times out.
EapCompletes ==
    LET signs == config.auth.kind = "Psk" \/ config.hashes \/ config.auth.key.alg = "ecdsa"
        believed == \/ config.verify = "Insecure"
                    \/ config.hashes /\ Trustworthy /\ Unambiguous(Tail(config.auth.chain))
    IN
    []<>(OnFile /\ signs /\ believed =>
            \/ ini.phase = "new"
            \/ ini.phase = "established" /\ res.phase = "established"
            \/ dups > 0 \/ ini.phase = "stopped")
-----------------------------------------------------------------------------
(* The inductive invariant.  A message is evidence of how far the exchange   *)
(* has come, since each end sends the next one only after the last.          *)

\* ServerFirst has run: the responder has the initiator's ID and ESP SPI.
Begun == res.peer_child_spi = {ClientChildSpi} /\ res.peer_idi = {Idi}

\* The responder has selected the account of the initiator's user.
Selected ==
    /\ Begun
    /\ res.user = config.user /\ config.user \in DOMAIN Accounts
    /\ res.password = Accounts[config.user]

\* The responder has accepted the initiator's NT response.
Accepted == Selected /\ OnFile

\* The responder's first message, with one of the AUTH payloads it can make.
FirstAnswer(auth) ==
    [NoPayloads EXCEPT !.id = {Idr}, !.auth = {auth},
        !.cert = IF config.auth.kind = "Cert" THEN config.auth.chain ELSE <<>>,
        !.eap = {EapPacket("REQUEST", "IDENTITY")}]

LastAnswer ==
    [NoPayloads EXCEPT !.id = {Idr}, !.sa = {ServerChildSpi},
        !.auth = {SharedKeyAuth(Msk(res.password, res.nt_response), SignedOctets("responder", Idr))}]

IdentityResponse == [EapPacket("RESPONSE", "IDENTITY") EXCEPT !.user = {config.user}]

\* A server the initiator is content with: it verifies none, or its check of the
\* responder's first message succeeds.
Believed ==
    config.verify = "TrustedCas" => \E auth \in ServerAuthPayloads : VerifyServer(FirstAnswer(auth))

\* What the initiator sends after its first message, and what that shows.
ClientSends(ps) ==
    /\ Begun /\ Believed
    /\ \/ ps = EapPayload(IdentityResponse)
       \/ /\ Selected
          /\ \E packet \in ps.eap : \E r \in packet.response :
                /\ r.nt.user = config.user /\ r.nt.password = config.password
                /\ packet.code = "RESPONSE" /\ packet.type = "RESPONSE" /\ packet.user = {}
                /\ packet.response = {r} /\ ps = EapPayload(packet)
       \/ Accepted /\ ps = EapPayload(EapPacket("RESPONSE", "SUCCESS"))
       \/ Accepted /\ ps = [NoPayloads EXCEPT !.auth = ps.auth] /\ ps.auth # {}

\* What the responder sends, and what that shows.
ServerSends(ps) ==
    /\ Begun
    /\ \/ \E auth \in ServerAuthPayloads : ps = FirstAnswer(auth)
       \/ Selected /\ \E packet \in ps.eap :
            /\ packet.code = "REQUEST" /\ packet.type = "CHALLENGE"
            /\ packet = [EapPacket("REQUEST", "CHALLENGE") EXCEPT !.challenge = packet.challenge]
            /\ ps = EapPayload(packet)
       \/ Accepted /\ ps = EapPayload(EapPacket("REQUEST", "SUCCESS"))
       \/ Accepted /\ ps = EapPayload(EapSuccess)
       \/ Accepted /\ res.phase = "established" /\ ps = LastAnswer

MessageOrigin(d) ==
    \/ /\ d.from = Client /\ d.to = Server
       /\ d.data.ps = EapRequest \/ ClientSends(d.data.ps)
    \/ /\ d.from = Server /\ d.to = Client
       /\ ServerSends(d.data.ps)

IniShape ==
    ini \in [phase : {"new", "waiting", "stopped", "failed", "established"}, step : Nat,
             nt_response : {ini.nt_response}, server_verified : BOOLEAN, drawn : Nat]

ResShape ==
    res \in [phase : {"idle", "running", "failed", "established"}, user : {res.user},
             password : {res.password}, challenge : {res.challenge},
             nt_response : {res.nt_response}, peer_idi : {res.peer_idi},
             peer_child_spi : {res.peer_child_spi}, drawn : Nat]

IInv ==
    /\ config.verify \in {"Insecure", "TrustedCas"} /\ config.auth \in ServerAuths
    /\ IniShape /\ ResShape
    /\ ini.server_verified => Believed
    /\ res.phase = "established" => Accepted
    /\ \A d \in net : MessageOrigin(d)
    /\ BothEstablished
=============================================================================
