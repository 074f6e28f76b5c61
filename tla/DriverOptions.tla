--------------------------- MODULE DriverOptions ---------------------------
(***************************************************************************)
(* The driver's command line, as far as it decides how sandboxes reach the *)
(* gateway and how the driver reaches LXD: which options clap takes        *)
(* together, what Config::validate adds, and the gateway endpoint that a   *)
(* sandbox is given.  Pure operators; NewSandbox uses them.                *)
(*                                                                         *)
(* Options are a record: given is the set of flags that have a value or    *)
(* are switched on, endpoint and listener are the values as they were      *)
(* typed (None when absent), the rest are the defaults for a sandbox.      *)
(***************************************************************************)
EXTENDS Naturals

CONSTANT None   \* an option or a field that was not given

LxdFlags == {"lxd_url", "lxd_client_cert", "lxd_client_key", "lxd_server_ca",
             "lxd_server_cert", "lxd_server_fingerprint"}
GuestTlsFlags == {"guest_tls_ca", "guest_tls_cert", "guest_tls_key"}
Switches == {"allow_plaintext_gateway", "gateway_tls_server_name", "sandbox_nesting",
             "restrict_sandbox_egress"}
Flags == LxdFlags \cup GuestTlsFlags \cup Switches

(* requires and requires_all of the arguments *)
Requires == [f \in Flags |->
    CASE f \in {"lxd_url", "lxd_client_cert", "lxd_client_key"} ->
            {"lxd_url", "lxd_client_cert", "lxd_client_key"}
      [] f \in {"lxd_server_ca", "lxd_server_cert", "lxd_server_fingerprint"} -> {"lxd_url"}
      [] f \in GuestTlsFlags -> GuestTlsFlags
      [] OTHER -> {}]

(* conflicts_with_all of the arguments *)
Conflicts == [f \in Flags |->
    LET trust == {"lxd_server_ca", "lxd_server_cert", "lxd_server_fingerprint"}
    IN CASE f \in trust -> trust \ {f}
         [] f = "allow_plaintext_gateway" -> GuestTlsFlags
         [] OTHER -> {}]

ClapTakes(o) ==
    \A f \in o.given : Requires[f] \subseteq o.given /\ Conflicts[f] \cap o.given = {}

(* A URL as typed is a record of its scheme, host, port and whatever       *)
(* follows; Url::parse lowercases the scheme.                              *)
Lowercase(scheme) ==
    CASE scheme = "HTTPS" -> "https" [] scheme = "HTTP" -> "http" [] OTHER -> scheme

(* parse_gateway_endpoint: an http or https URL with a host and nothing    *)
(* past the port, normalised; None when it is refused.                     *)
ParseGatewayEndpoint(url) ==
    IF /\ Lowercase(url.scheme) \in {"http", "https"}
       /\ url.host # None
       /\ url.rest = None       \* no path, query, fragment or credentials
    THEN [scheme |-> Lowercase(url.scheme), host |-> url.host, port |-> url.port]
    ELSE None

(* parse_callback_listener: one unicast address and a port. *)
ListenerTaken(listener) ==
    listener # None => listener.ip = "unicast" /\ listener.port # 0

(* Config::parse: the options with the endpoint as the parser leaves it,   *)
(* or None.                                                                *)
Parse(o) ==
    LET endpoint == IF o.endpoint = None THEN None ELSE ParseGatewayEndpoint(o.endpoint)
    IN IF ClapTakes(o) /\ ListenerTaken(o.listener) /\ (endpoint = None => o.endpoint = None)
       THEN [o EXCEPT !.endpoint = endpoint] ELSE None

GuestTls(o) == GuestTlsFlags \subseteq o.given

GatewayScheme(o) == IF GuestTls(o) THEN "https" ELSE "http"

(* Config::validate *)
Validate(o) ==
    /\ GuestTls(o) \/ "allow_plaintext_gateway" \in o.given
    /\ "gateway_tls_server_name" \in o.given => GuestTls(o)
    /\ o.endpoint # None => o.endpoint.scheme = GatewayScheme(o)

(* resolve_gateway_endpoint, for a network that was read; None where it    *)
(* fails: an OVN network's address is its router's, and a network without  *)
(* an address has none to give.                                            *)
ResolveGatewayEndpoint(o, network) ==
    IF o.endpoint # None THEN o.endpoint
    ELSE IF network.type = "ovn" \/ network.address = None THEN None
    ELSE [scheme |-> GatewayScheme(o), host |-> network.address, port |-> o.grpcPort]

============================================================================
