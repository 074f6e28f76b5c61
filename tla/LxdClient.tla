----------------------------- MODULE LxdClient -----------------------------
(***************************************************************************)
(* The HTTP client of LXD: which servers it speaks to, and what it makes   *)
(* of their responses.  Pure operators; NewSandbox and ImageUpload use     *)
(* them.                                                                   *)
(*                                                                         *)
(* A server is the certificate that it presents, who issued it, whether    *)
(* it carries the name in the URL, and whether the server has its key.     *)
(* What the PEM files hold is a function from the flag that names the file *)
(* to the sequence of its certificates, None where it cannot be read.  A   *)
(* response is its HTTP status and its body: an LXD envelope, or None.     *)
(***************************************************************************)
EXTENDS DriverOptions, Sequences

(* parse_fingerprint: 64 hex digits, in either case, with or without       *)
(* colons, name one certificate.                                           *)
ParseFingerprint(fingerprint) ==
    IF fingerprint.digits = 64 /\ fingerprint.hex THEN fingerprint.of ELSE None

(* Mutant: the operator's authorities come on top of the public ones. *)
TrustPublicToo(o, fingerprint, pem) ==
    IF "lxd_server_fingerprint" \in o.given
    THEN [by |-> "digest", anchors |-> << ParseFingerprint(fingerprint) >>]
    ELSE IF "lxd_server_cert" \in o.given
    THEN [by |-> "bytes", anchors |-> pem["lxd_server_cert"]]
    ELSE IF "lxd_server_ca" \in o.given /\ pem["lxd_server_ca"] # None
    THEN [by |-> "issuer", anchors |-> << "webpki" >> \o pem["lxd_server_ca"]]
    ELSE [by |-> "issuer", anchors |-> << "webpki" >>]

(* What a server is held to: LxdHttpsConfig::build_connector, where the    *)
(* fingerprint counts before the certificate, that before the authority    *)
(* and that before the public authorities.                                 *)
Trust(o, fingerprint, pem) ==
    IF "lxd_server_fingerprint" \in o.given
    THEN [by |-> "digest", anchors |-> << ParseFingerprint(fingerprint) >>]
    ELSE IF "lxd_server_cert" \in o.given
    THEN [by |-> "bytes", anchors |-> pem["lxd_server_cert"]]
    ELSE IF "lxd_server_ca" \in o.given
    THEN [by |-> "issuer", anchors |-> pem["lxd_server_ca"]]
    ELSE [by |-> "issuer", anchors |-> << "webpki" >>]

(* LxdClient::new: the URL has a host, the client has a certificate and a  *)
(* key, and what the server is held to can be read; a pinned certificate   *)
(* is a single one.                                                        *)
ClientBuilt(o, url, fingerprint, pem) ==
    "lxd_url" \in o.given =>
        LET trust == Trust(o, fingerprint, pem)
        IN /\ url.host # None
           /\ pem["lxd_client_cert"] \notin {None, <<>>}
           /\ pem["lxd_client_key"] \notin {None, <<>>}
           /\ trust.anchors # None
           /\ trust.by = "digest" => trust.anchors # << None >>
           /\ trust.by = "bytes" => Len(trust.anchors) = 1

(* FingerprintVerifier, PinnedServerCert and rustls' own verifier.  A      *)
(* pinned certificate may carry any name; the handshake's signature is     *)
(* always checked.                                                         *)
Verified(trust, server) ==
    /\ server.holdsKey
    /\ IF trust.by = "issuer"
       THEN server.named /\ \E i \in DOMAIN trust.anchors : trust.anchors[i] = server.issuer
       ELSE trust.anchors = << server.certificate >>

(* connect_raw: the Unix socket, or TLS. *)
Connects(o, fingerprint, pem, server) ==
    "lxd_url" \in o.given => Verified(Trust(o, fingerprint, pem), server)

-----------------------------------------------------------------------------
Success(response) == response.status \in 200..299
IsError(body) == body # None /\ body.type = "error"

(* The common end of request, post_raw_response and post_streaming_response: *)
(* LXD's own code where there is an error envelope, whatever the HTTP status *)
(* is, and the HTTP status where something else answered; into_metadata    *)
(* asks for what the caller needs of the envelope.                         *)
Interpret(response) ==
    IF IsError(response.body) THEN [is |-> "Api", code |-> response.body.code]
    ELSE IF ~ Success(response) THEN [is |-> "Api", code |-> response.status]
    ELSE IF response.body = None THEN [is |-> "Json", code |-> 0]
    ELSE IF ~ response.body.metadata THEN [is |-> "Api", code |-> response.body.code]
    ELSE [is |-> "ok", code |-> 0]

=============================================================================
