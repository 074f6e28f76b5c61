----------------------------- MODULE NewSandbox -----------------------------
(***************************************************************************)
(* How a sandbox comes to be as the operator meant it: the driver's        *)
(* start-up (main), and create_sandbox up to the instance that LXD is      *)
(* asked for.  Several drivers may run against one LXD project, and        *)
(* several creates at a time in each; meanwhile the operator may rotate    *)
(* certificates, change DNS, replace the host's DHCP client, remove a      *)
(* network and edit or delete the ACL.                                     *)
(*                                                                         *)
(* The supervisor, the image and the volumes are one step that succeeds or *)
(* fails: ImageCache and VolumeUse have them.  So is everything after the  *)
(* instance exists: SandboxLifecycle has it.  LXD's reads may fail.        *)
(***************************************************************************)
EXTENDS InstanceConfig, EgressPolicy, DhcpClient, LxdClient

CONSTANTS
    Drivers,    \* driver processes
    Tasks,      \* CreateSandbox calls
    Scenarios,  \* command lines, requests, and what LXD and the host hold at first
    MaxChanges  \* bound: how often the operator changes something

ASSUME ChangesAssumption == MaxChanges \in Nat

(* What a driver that serves has found: its options are valid, and the     *)
(* LXD that it reaches is the one that they name.                          *)
Admitted(s, d) ==
    LET o == Parse(s.options[d])
    IN /\ o # None /\ Validate(o)
       /\ ClientBuilt(o, s.url, s.fingerprint, s.pem)
       /\ Connects(o, s.fingerprint, s.pem, s.server)

(* A host is a name, which DNS knows, or an address. *)
HostIs(host) == host.is = "name" \/ host.ip \in Addresses

(* A scenario starts with drivers that are yet to come up, have exited or  *)
(* serve, and with no ACL that stands for a gateway; it knows of every     *)
(* network that a sandbox may be placed on whether LXD has it, and lists   *)
(* the candidates for a DHCP client in their order.  Hosts and ports are   *)
(* what the parsers make of them.                                          *)
ASSUME ScenariosAssumption ==
    \A s \in Scenarios :
        /\ s.phase \in [Drivers -> {"new", "exited", "serving"}]
        /\ s.home \in [Tasks -> Drivers]
        /\ \A d \in Drivers :
            /\ {"given", "endpoint", "grpcPort"} \subseteq DOMAIN s.options[d]
            /\ s.options[d].grpcPort \in Nat
            /\ LET url == s.options[d].endpoint
               IN url # None => /\ url.host # None => HostIs(url.host)
                                /\ url.port \in Nat \cup {None}
            /\ s.phase[d] = "serving" => Admitted(s, d)
        /\ \A n \in DOMAIN s.networks :
            s.networks[n] # None /\ s.networks[n].address # None => HostIs(s.networks[n].address)
        /\ s.dns \subseteq Addresses /\ s.names \subseteq SUBSET Addresses
        /\ s.socket \in {"none", "file", "stale"} \cup Drivers
        /\ \A t \in Tasks :
            LET o == Parse(s.options[s.home[t]])
            IN s.requests[t] # None =>
                /\ s.requests[t].token \in BOOLEAN
                /\ o # None => Placement(s.requests[t], o).network \in DOMAIN s.networks
        /\ s.acl # None => s.acl.gateway = {}
        /\ DOMAIN s.candidates \subseteq Nat
        /\ s.ranges \in Seq([address : Nat, prefix : 0..Width])

VARIABLES
    given,      \* the scenario: command lines, requests, non-public ranges; never changes
    phase,      \* how far each driver's start-up is
    socket,     \* the gateway's socket path: none, file, stale or the driver that bound it
    networks,   \* LXD's networks
    acl,        \* the egress ACL of the project's network, None if there is none
    tls,        \* generation of each TLS file on the host, None where it is missing
    dns,        \* the addresses that the gateway's name has
    files,      \* the host's candidates for a DHCP client
    task,       \* where each create is, and what it has read
    job,        \* LXD's operation for a task's PUT of the ACL: none, pending, ok or failed
    instances,  \* what each create asked LXD for, None as long as it has not
    changes,    \* history: how often the operator changed something
    swept,      \* history: whether the operator changed the ACL
    changed,    \* history: tasks whose ACL was changed by others since they left it right
    swapped     \* history: tasks whose DHCP client was replaced after they checked it and
                \* before they read it

lxd == <<networks, acl, job, swept, changed>>
host == <<tls, dns, files, changes, swapped>>
start == <<given, phase, socket>>
vars == <<given, phase, socket, networks, acl, tls, dns, files, task, job, instances,
          changes, swept, changed, swapped>>

Options(d) == Parse(given.options[d])
Mine(t) == Options(given.home[t])
Request(t) == given.requests[t]

GuestTlsFiles == << "ca", "cert", "key" >>

Idle == [pc |-> "idle", network |-> None, endpoint |-> None, gateway |-> {}, want |-> {},
         files |-> <<>>, client |-> None, answer |-> None]

Steps == {"idle", "network", "pool", "lookup", "get", "put", "post", "wait", "build", "tls",
          "provision", "client", "read", "create", "done"}
Answers == {None, "ok", "refused", "failed", "conflict", "missing"}

TypeOK ==
    /\ phase \in [Drivers -> {"new", "look", "remove", "bind", "client", "project",
                              "architecture", "serving", "exited"}]
    /\ socket \in {"none", "file", "stale"} \cup Drivers
    /\ \A d \in Drivers : phase[d] \notin {"new", "exited"} => Options(d) # None
    /\ \A t \in Tasks :
        /\ task[t].pc \in Steps /\ task[t].answer \in Answers
        /\ task[t].pc = "done" <=> task[t].answer # None
        /\ task[t].gateway \subseteq [ip : Addresses, port : Nat]
        /\ instances[t] # None <=> task[t].answer = "ok"
    /\ job \in [Tasks -> {"none", "pending", "ok", "failed"}]
    /\ dns \subseteq Addresses
    /\ changes \in 0..MaxChanges /\ swept \in BOOLEAN
    /\ changed \subseteq Tasks /\ swapped \subseteq Tasks

Init ==
    /\ given \in Scenarios
    /\ phase = given.phase       \* a driver that serves has been through its start-up
    /\ socket = given.socket
    /\ networks = given.networks
    /\ acl = given.acl
    /\ tls = given.tls
    /\ dns = given.dns
    /\ files = given.files
    /\ task = [t \in Tasks |-> Idle]
    /\ job = [t \in Tasks |-> "none"]
    /\ instances = [t \in Tasks |-> None]
    /\ changes = 0 /\ swept = FALSE
    /\ changed = {} /\ swapped = {}

-----------------------------------------------------------------------------
(* Start-up *)

Enter(d, p) ==
    /\ phase' = [phase EXCEPT ![d] = p]
    /\ UNCHANGED <<given, lxd, host, task, instances>>

(* The command line, Config::validate, and that the TLS files open. *)
CheckOptions(d) ==
    /\ phase[d] = "new"
    /\ Enter(d, IF /\ Options(d) # None
                   /\ Validate(Options(d))
                   /\ GuestTls(Options(d)) => \A f \in ToSet(GuestTlsFiles) : tls[f] # None
                THEN "look" ELSE "exited")
    /\ UNCHANGED socket

(* Only a socket is removed from the path ... *)
LookAtSocket(d) ==
    /\ phase[d] = "look"
    /\ Enter(d, CASE socket = "none" -> "bind" [] socket = "file" -> "exited" [] OTHER -> "remove")
    /\ UNCHANGED socket

(* ... which the driver does not look at again. *)
RemoveSocket(d) ==
    /\ phase[d] = "remove"
    /\ Enter(d, IF socket = "none" THEN "exited" ELSE "bind")
    /\ socket' = "none"

Bind(d) ==
    /\ phase[d] = "bind"
    /\ Enter(d, IF socket = "none" THEN "client" ELSE "exited")
    /\ socket' = IF socket = "none" THEN d ELSE socket

BuildClient(d) ==
    /\ phase[d] = "client"
    /\ Enter(d, IF ClientBuilt(Options(d), given.url, given.fingerprint, given.pem)
                THEN "project" ELSE "exited")
    /\ UNCHANGED socket

Reaches(d) == Connects(Options(d), given.fingerprint, given.pem, given.server)

(* A project that is missing ends the driver; a question that fails does not. *)
CheckProject(d) ==
    /\ phase[d] = "project"
    /\ \/ Reaches(d) /\ Enter(d, IF given.project THEN "architecture" ELSE "exited")
       \/ Enter(d, "architecture")
    /\ UNCHANGED socket

(* verify_architecture: an LXD that names no architectures is taken. *)
CheckArchitecture(d) ==
    /\ phase[d] = "architecture"
    /\ \/ /\ Reaches(d)
          /\ Enter(d, IF given.architectures = {} \/ "host" \in given.architectures
                      THEN "serving" ELSE "exited")
       \/ Enter(d, "exited")
    /\ UNCHANGED socket

-----------------------------------------------------------------------------
(* create_sandbox *)

Step(t, state) ==
    /\ task' = [task EXCEPT ![t] = state]
    /\ UNCHANGED start

Go(t, pc) == Step(t, [task[t] EXCEPT !.pc = pc])
Answer(t, answer) == Step(t, [task[t] EXCEPT !.pc = "done", !.answer = answer])

Receive(t) ==
    /\ task[t].pc = "idle" /\ phase[given.home[t]] = "serving" /\ Request(t) # None
    /\ IF RequestTaken(Request(t)) THEN Go(t, "network") ELSE Answer(t, "refused")
    /\ UNCHANGED <<lxd, host, instances>>

(* check_placement: the network ... *)
ReadNetwork(t) ==
    /\ task[t].pc = "network"
    /\ LET network == networks[Placement(Request(t), Mine(t)).network]
       IN \/ IF network = None THEN Answer(t, "refused")
             ELSE Step(t, [task[t] EXCEPT !.pc = "pool", !.network = network])
          \/ Answer(t, "failed")
    /\ UNCHANGED <<lxd, host, instances>>

(* The default of the scheme, if the URL names no port. *)
Port(endpoint) ==
    IF endpoint.port # None THEN endpoint.port
    ELSE IF endpoint.scheme = "https" THEN 443 ELSE 80

Wanting(state, gateway) ==
    [state EXCEPT !.pc = "get", !.gateway = gateway, !.want = Rules(gateway, given.ranges)]

(* ... and the pool; then the endpoint, and what the egress ACL needs of   *)
(* it.  Up to the lookup of a name nothing is awaited.                     *)
ReadPool(t) ==
    /\ task[t].pc = "pool"
    /\ LET endpoint == ResolveGatewayEndpoint(Mine(t), task[t].network)
           state == [task[t] EXCEPT !.endpoint = endpoint]
           restricted == "restrict_sandbox_egress" \in Mine(t).given
           fit == /\ Placement(Request(t), Mine(t)).pool \in given.pools
                  /\ endpoint # None
                  /\ restricted => task[t].network.type = "ovn"
       IN \/ ~ fit /\ Answer(t, "refused")
          \/ fit /\ ~ restricted /\ Step(t, [state EXCEPT !.pc = "build"])
          \/ /\ fit /\ restricted
             /\ Step(t, IF endpoint.host.is = "name" THEN [state EXCEPT !.pc = "lookup"]
                        ELSE Wanting(state, {[ip |-> endpoint.host.ip, port |-> Port(endpoint)]}))
          \/ Answer(t, "failed")
    /\ UNCHANGED <<lxd, host, instances>>

LookUp(t) ==
    /\ task[t].pc = "lookup"
    /\ IF dns = {} THEN Answer(t, "refused")
       ELSE Step(t, Wanting(task[t], {[ip |-> a, port |-> Port(task[t].endpoint)] : a \in dns}))
    /\ UNCHANGED <<lxd, host, instances>>

-----------------------------------------------------------------------------
(* ensure_network_acl *)

(* acl_matches *)
Matches(t) == acl.ours /\ acl.egress = task[t].want /\ acl.ingress = {}

Written(t) == [ours |-> TRUE, egress |-> task[t].want, ingress |-> {}, gateway |-> task[t].gateway]

(* The ACL becomes new by t's doing; the others may no longer have theirs. *)
AclBecomes(new, t) ==
    /\ acl' = new
    /\ changed' = IF new = acl THEN changed \ {t} ELSE Tasks \ {t}

GetAcl(t) ==
    /\ task[t].pc = "get"
    /\ \/ /\ acl = None
          /\ Go(t, "post")
          /\ UNCHANGED changed
       \/ /\ acl # None
          /\ Go(t, IF Matches(t) THEN "build" ELSE "put")
          /\ changed' = changed \ {t}
       \/ Answer(t, "failed") /\ UNCHANGED changed
    /\ UNCHANGED <<networks, acl, job, swept, host, instances>>

(* Mutant: the operation is not waited for. *)
PutWithoutWait(t) ==
    /\ task[t].pc = "put"
    /\ IF acl = None THEN Answer(t, "missing") /\ UNCHANGED job
       ELSE Go(t, "build") /\ job' = [job EXCEPT ![t] = "pending"]
    /\ UNCHANGED <<networks, acl, swept, changed, host, instances>>

(* The write is an operation of LXD, which runs on. *)
PutAcl(t) ==
    /\ task[t].pc = "put"
    /\ IF acl = None THEN Answer(t, "missing") /\ UNCHANGED job
       ELSE Go(t, "wait") /\ job' = [job EXCEPT ![t] = "pending"]
    /\ UNCHANGED <<networks, acl, swept, changed, host, instances>>

(* LXD has the new ACL, or its operation failed. *)
AclCreated(t) ==
    /\ Go(t, "wait")
    /\ \/ AclBecomes(Written(t), t) /\ job' = [job EXCEPT ![t] = "ok"]
       \/ job' = [job EXCEPT ![t] = "failed"] /\ UNCHANGED <<acl, changed>>

(* Mutant: a conflict is an error as any other. *)
PostRefused(t) ==
    /\ task[t].pc = "post"
    /\ IF acl # None THEN Answer(t, "conflict") /\ UNCHANGED <<acl, changed, job>>
       ELSE AclCreated(t)
    /\ UNCHANGED <<networks, swept, host, instances>>

(* The name is taken at once; a caller that comes second is told so and    *)
(* replaces the rules.                                                     *)
PostAcl(t) ==
    /\ task[t].pc = "post"
    /\ IF acl # None THEN Go(t, "put") /\ UNCHANGED <<acl, changed, job>>
       ELSE AclCreated(t)
    /\ UNCHANGED <<networks, swept, host, instances>>

(* LXD carries the PUT out, or fails to. *)
AclOperationEnds(t) ==
    /\ job[t] = "pending"
    /\ \/ acl # None /\ AclBecomes(Written(t), t) /\ job' = [job EXCEPT ![t] = "ok"]
       \/ job' = [job EXCEPT ![t] = "failed"] /\ UNCHANGED <<acl, changed>>
    /\ UNCHANGED <<start, networks, swept, host, task, instances>>

(* The operation failed; or its reply or the wait is lost, or the request  *)
(* dropped, and it may still be under way.                                 *)
AwaitAcl(t) ==
    /\ task[t].pc = "wait"
    /\ \/ job[t] = "ok" /\ Go(t, "build")
       \/ Answer(t, "failed")
    /\ UNCHANGED <<lxd, host, instances>>

-----------------------------------------------------------------------------
(* The configuration, the files and the instance *)

(* build_create_config may still refuse the quantities. *)
Build(t) ==
    /\ task[t].pc = "build"
    /\ IF ~ QuantitiesTaken(Request(t)) THEN Answer(t, "refused")
       ELSE Go(t, IF GuestTls(Mine(t)) THEN "tls" ELSE "provision")
    /\ UNCHANGED <<lxd, host, instances>>

(* read_guest_tls_files, one after the other *)
ReadTls(t) ==
    /\ task[t].pc = "tls"
    /\ LET n == Len(task[t].files) + 1
           generation == tls[GuestTlsFiles[n]]
       IN IF generation = None THEN Answer(t, "refused")
          ELSE Step(t, [task[t] EXCEPT !.files = Append(@, generation),
                                       !.pc = IF n = Len(GuestTlsFiles) THEN "provision" ELSE "tls"])
    /\ UNCHANGED <<lxd, host, instances>>

Provision(t) ==
    /\ task[t].pc = "provision"
    /\ Go(t, "client") \/ Answer(t, "failed")
    /\ UNCHANGED <<lxd, host, instances>>

(* load_dhcp_client looks for the client, and reads the one that it found. *)
ResolveClient(t) ==
    /\ task[t].pc = "client"
    /\ LET path == ResolveBinary(Mine(t).dhcpClient, given.candidates, files)
       IN IF path = None THEN Answer(t, "failed")
          ELSE Step(t, [task[t] EXCEPT !.pc = "read", !.client = path])
    /\ swapped' = swapped \ {t}
    /\ UNCHANGED <<lxd, tls, dns, files, changes, instances>>

(* The file goes to a volume, which may fail as well. *)
ReadClient(t) ==
    /\ task[t].pc = "read"
    /\ LET file == files[task[t].client]
       IN \/ /\ file.is = "file"
             /\ Step(t, [task[t] EXCEPT !.pc = "create", !.client = file])
          \/ Answer(t, "failed")
    /\ UNCHANGED <<lxd, host, instances>>

(* The instance that LXD is asked for. *)
Instance(t) ==
    LET o == Mine(t)
        r == Request(t)
        behind == IF task[t].gateway = {} THEN None ELSE "openshell-egress"
        server == "gateway_tls_server_name" \in o.given /\ GuestTls(o)
    IN [environment |-> Environment(r, task[t].endpoint, GuestTls(o), server),
        limits |-> Limits(r, o),
        nesting |-> "sandbox_nesting" \in o.given,
        devices |-> Devices(r, o, behind, [supervisor |-> "supervisor", dhcpClient |-> task[t].client]),
        profiles |-> Profiles(r),
        endpoint |-> task[t].endpoint, token |-> r.token, files |-> task[t].files]

(* LXD needs what the instance names. *)
LxdTakes(nic) == networks[nic.network] # None /\ (nic.acl # None => acl # None)

(* Mutant: the answer does not depend on LXD's. *)
CreateAnyway(t) ==
    /\ task[t].pc = "create"
    /\ Answer(t, "ok")
    /\ instances' = [instances EXCEPT ![t] =
            IF LxdTakes(Instance(t).devices.nic) THEN Instance(t) ELSE None]
    /\ UNCHANGED <<lxd, host>>

(* create_instance; LXD may have reasons of its own to refuse. *)
CreateInstance(t) ==
    /\ task[t].pc = "create"
    /\ \/ /\ LxdTakes(Instance(t).devices.nic)
          /\ Answer(t, "ok")
          /\ instances' = [instances EXCEPT ![t] = Instance(t)]
       \/ Answer(t, "failed") /\ UNCHANGED instances
    /\ UNCHANGED <<lxd, host>>

-----------------------------------------------------------------------------
(* The operator *)

Change ==
    /\ changes < MaxChanges
    /\ changes' = changes + 1
    /\ UNCHANGED <<start, job, task, instances>>

(* The TLS files are rotated one by one; one may be missing meanwhile. *)
RotateTls ==
    /\ "tls" \in given.changing /\ Change
    /\ \E f \in ToSet(GuestTlsFiles), generation \in {None, changes + 2} :
            tls' = [tls EXCEPT ![f] = generation]
    /\ UNCHANGED <<networks, acl, dns, files, swept, changed, swapped>>

ChangeDns ==
    /\ "dns" \in given.changing /\ Change
    /\ dns' \in given.names \ {dns}
    /\ UNCHANGED <<networks, acl, tls, files, swept, changed, swapped>>

EditAcl ==
    /\ "acl" \in given.changing /\ Change
    /\ acl # None
    /\ acl' \in {None, [acl EXCEPT !.egress = {}], [acl EXCEPT !.ingress = {"any"}]} \ {acl}
    /\ swept' = TRUE /\ changed' = Tasks
    /\ UNCHANGED <<networks, tls, dns, files, swapped>>

ReplaceClient ==
    /\ "client" \in given.changing /\ Change
    /\ \E path \in DOMAIN files, file \in given.builds : files' = [files EXCEPT ![path] = file]
    /\ swapped' = swapped \cup {t \in Tasks : task[t].pc = "read"}
    /\ UNCHANGED <<networks, acl, tls, dns, swept, changed>>

RemoveNetwork ==
    /\ "network" \in given.changing /\ Change
    /\ \E n \in DOMAIN networks : networks' = [networks EXCEPT ![n] = None]
    /\ UNCHANGED <<acl, tls, dns, files, swept, changed, swapped>>

-----------------------------------------------------------------------------
StartUp(d) ==
    \/ CheckOptions(d) \/ LookAtSocket(d) \/ RemoveSocket(d) \/ Bind(d)
    \/ BuildClient(d) \/ CheckProject(d) \/ CheckArchitecture(d)

Create(t) ==
    \/ Receive(t) \/ ReadNetwork(t) \/ ReadPool(t) \/ LookUp(t)
    \/ GetAcl(t) \/ PutAcl(t) \/ PostAcl(t) \/ AwaitAcl(t)
    \/ Build(t) \/ ReadTls(t) \/ Provision(t) \/ ResolveClient(t) \/ ReadClient(t)
    \/ CreateInstance(t)

Operator == RotateTls \/ ChangeDns \/ EditAcl \/ ReplaceClient \/ RemoveNetwork

Next ==
    \/ \E d \in Drivers : StartUp(d)
    \/ \E t \in Tasks : Create(t) \/ AclOperationEnds(t)
    \/ Operator

Spec == Init /\ [][Next]_vars

-----------------------------------------------------------------------------
(* A driver serves only if the LXD it reached is the one that its trust    *)
(* options name: it has the certificate of the fingerprint or the file, or *)
(* the name of the URL and an issuer in the CA file, or a public one only  *)
(* where there is no such file.  A sandbox is sent to its driver's gateway *)
(* endpoint, whatever variables the request sets; over TLS exactly if it   *)
(* is given the three TLS files and told where they are; and in plaintext  *)
(* only if the operator allowed it (LxdClient::new, Config::validate,      *)
(* resolve_gateway_endpoint, build_create_config,                          *)
(* insert_guest_tls_environment).                                          *)
PeersAreTrusted ==
    /\ \A d \in Drivers : phase[d] = "serving" /\ "lxd_url" \in given.options[d].given =>
        LET has(flag) == flag \in given.options[d].given
        IN /\ given.server.holdsKey
           /\ has("lxd_server_fingerprint") => given.fingerprint.of = given.server.certificate
           /\ has("lxd_server_cert") => given.pem["lxd_server_cert"] = << given.server.certificate >>
           /\ ~ has("lxd_server_fingerprint") /\ ~ has("lxd_server_cert") =>
                /\ given.server.named
                /\ IF has("lxd_server_ca")
                   THEN \E k \in DOMAIN given.pem["lxd_server_ca"] :
                            given.pem["lxd_server_ca"][k] = given.server.issuer
                   ELSE given.server.issuer = "webpki"
    /\ \A t \in Tasks : instances[t] # None =>
        LET i == instances[t]
            env(name) == name \in DOMAIN i.environment /\ i.environment[name].by = "driver"
            https == i.endpoint.scheme = "https"
        IN /\ env("OPENSHELL_ENDPOINT") /\ i.environment["OPENSHELL_ENDPOINT"].value = i.endpoint
           /\ env("OPENSHELL_SANDBOX_ID") /\ env("OPENSHELL_MAIN_PROCESS_SPEC")
           /\ i.token <=> env("OPENSHELL_SANDBOX_TOKEN_FILE")
           /\ https <=> Len(i.files) = Len(GuestTlsFiles)
           /\ https <=> env("OPENSHELL_TLS_CA") /\ env("OPENSHELL_TLS_CERT") /\ env("OPENSHELL_TLS_KEY")
           /\ ~ https => "allow_plaintext_gateway" \in given.options[given.home[t]].given

(* Where egress is restricted, a sandbox's NIC is on an OVN network and    *)
(* behind the ACL, with everything rejected that the ACL does not allow;   *)
(* and an ACL that a driver wrote allows exactly the gateway it was        *)
(* written for and the addresses in no non-public range (build_create_     *)
(* devices, ensure_egress_acl, rules, public_ipv4_cidrs).                  *)
EgressIsConfined ==
    /\ \A t \in Tasks :
        instances[t] # None /\ "restrict_sandbox_egress" \in Mine(t).given =>
            /\ instances[t].devices.nic.acl # None
            /\ instances[t].devices.nic.otherwise = "reject"
            /\ given.networks[instances[t].devices.nic.network].type = "ovn"
    /\ acl # None /\ acl.gateway # {} /\ ~ swept =>
            /\ Reachable(acl.egress) = Promised(acl.gateway, given.ranges)
            /\ acl.ingress = {}

(* From the moment a sandbox is created, the ACL is the one for its own    *)
(* gateway, unless the operator or another create has changed it since     *)
(* this create found or left it right (ensure_network_acl, which waits for *)
(* its writes).                                                            *)
GatewayIsAllowed ==
    \A t \in Tasks :
        instances[t] # None /\ instances[t].devices.nic.acl # None =>
            \/ t \in changed
            \/ /\ acl # None /\ acl.ingress = {}
               /\ Reachable(acl.egress) = Promised(task[t].gateway, given.ranges)

(* Creates that race for the ACL do not make each other fail: one that     *)
(* fails on a conflict or a missing ACL does so since the operator deleted *)
(* it (ensure_network_acl, "A concurrent caller created the ACL").         *)
RacesEndWell ==
    \A t \in Tasks : task[t].answer \in {"conflict", "missing"} => swept

(* The DHCP client that a sandbox mounts needs no interpreter, unless the  *)
(* host's file was replaced between the check and the read (is_static_elf, *)
(* load_dhcp_client).                                                      *)
DhcpClientIsStatic ==
    \A t \in Tasks : instances[t] # None =>
        t \in swapped \/ ~ NeedsInterpreter(instances[t].devices.dhcpClient.volume)

=============================================================================
