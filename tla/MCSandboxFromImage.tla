------------------------ MODULE MCSandboxFromImage -------------------------
(***************************************************************************)
(* Scenarios of SandboxFromImage.  Of NewSandbox: one create over many     *)
(* command lines and requests, lists of non-public ranges, two creates in  *)
(* one or in two drivers that race for the ACL, and the operator's changes *)
(* one kind at a time, all from an image that LXD has.  Of ImageUpload:    *)
(* one create from every small tree of links on the way to the init, from  *)
(* every pair of owners with the record that umoci makes of it, and from   *)
(* files of several lengths.                                               *)
(***************************************************************************)
EXTENDS SandboxFromImage

CONSTANTS d1, d2, t1, t2

MCDrivers == {d1, d2}
MCTasks == {t1, t2}

String(v) == [kind |-> "string", value |-> v]
Number(v, whole) == [kind |-> "number", value |-> v, whole |-> whole]
Ip(a) == [is |-> "ip", ip |-> a]
Name == [is |-> "name"]
Url(scheme, at) == [scheme |-> scheme, host |-> at, port |-> None, rest |-> None]

-----------------------------------------------------------------------------
(* Command lines *)

Plain == [given |-> {"allow_plaintext_gateway"}, endpoint |-> None, listener |-> None,
          grpcPort |-> 17670, defaultNetwork |-> "bridge", defaultPool |-> "default",
          auxPool |-> None, defaultMaxProcesses |-> 2, maxU32 |-> 3, dhcpClient |-> None]
Tls == [Plain EXCEPT !.given = GuestTlsFlags]
Confined == [Tls EXCEPT !.given = @ \cup {"restrict_sandbox_egress"}, !.defaultNetwork = "ovn",
                        !.endpoint = Url("HTTPS", Ip(6))]
Named == [Confined EXCEPT !.endpoint.host = Name]
Elsewhere == [Confined EXCEPT !.endpoint.host = Ip(5)]

Remote == {"allow_plaintext_gateway", "lxd_url", "lxd_client_cert", "lxd_client_key"}

CommandLines ==
    {Plain, Tls, Confined, Named}
    \cup {[Plain EXCEPT !.given = g] : g \in
            {{}, {"guest_tls_ca"}, GuestTlsFlags \cup {"allow_plaintext_gateway"},
             {"allow_plaintext_gateway", "gateway_tls_server_name"},
             GuestTlsFlags \cup {"gateway_tls_server_name", "sandbox_nesting"},
             {"allow_plaintext_gateway", "restrict_sandbox_egress"},
             {"allow_plaintext_gateway", "lxd_url"},
             Remote \cup {"lxd_server_ca", "lxd_server_fingerprint"}}}
    \cup {[o EXCEPT !.endpoint = e] : o \in {Plain, Tls}, e \in
            {Url("http", Name), Url("HTTPS", Name), Url("ftp", Name), Url("https", None),
             [Url("https", Name) EXCEPT !.rest = "path"], [Url("http", Ip(3)) EXCEPT !.port = 8080]}}
    \cup {[Plain EXCEPT !.listener = [ip |-> ip, port |-> port]] : ip \in {"unicast", "any"}, port \in {0, 1}}
    \cup {[Plain EXCEPT !.auxPool = "pinned", !.dhcpClient = c] : c \in {"busybox", "big"}}

-----------------------------------------------------------------------------
(* Requests *)

Simple == [name |-> "n", id |-> "i", template |-> TRUE, image |-> None, labels |-> {}, gpu |-> None,
           network |-> None, pool |-> None, profiles |-> None, maxProcesses |-> None,
           specEnv |-> {}, templateEnv |-> {}, token |-> TRUE, command |-> None, tty |-> FALSE,
           attach |-> FALSE, cpuLimit |-> None, cpuRequest |-> None, memoryLimit |-> None,
           memoryRequest |-> None]

Cores(n) == [form |-> "number", milli |-> n]
Bytes(n, suffix) == [digits |-> n, suffix |-> suffix]

Requests ==
    {Simple,
     [Simple EXCEPT !.name = None], [Simple EXCEPT !.id = None], [Simple EXCEPT !.template = FALSE],
     [Simple EXCEPT !.image = "invalid"], [Simple EXCEPT !.labels = {"valid", "invalid"}],
     [Simple EXCEPT !.gpu = [count |-> 0]], [Simple EXCEPT !.gpu = [count |-> None]],
     [Simple EXCEPT !.network = String("ovn"), !.pool = String("other")],
     [Simple EXCEPT !.network = Number(1, TRUE)], [Simple EXCEPT !.network = String("bare")],
     [Simple EXCEPT !.network = String("missing")], [Simple EXCEPT !.pool = String("missing")],
     [Simple EXCEPT !.profiles = [kind |-> "list", value |-> << String("p"), Number(1, TRUE) >>]],
     [Simple EXCEPT !.maxProcesses = Number(0, TRUE)], [Simple EXCEPT !.maxProcesses = Number(1, FALSE)],
     [Simple EXCEPT !.maxProcesses = Number(4, TRUE)],
     [Simple EXCEPT !.token = FALSE, !.command = "c", !.tty = TRUE,
                    !.specEnv = {"OPENSHELL_ENDPOINT", "OPENSHELL_TLS_CA", "OPENSHELL_SANDBOX_ID", "MINE"},
                    !.templateEnv = {"OPENSHELL_MAIN_PROCESS_SPEC", "OPENSHELL_SANDBOX_TOKEN_FILE", "MINE"}],
     [Simple EXCEPT !.cpuLimit = Cores(1500), !.memoryRequest = Bytes(512, "Mi")],
     [Simple EXCEPT !.cpuRequest = Cores(0)], [Simple EXCEPT !.cpuLimit = [form |-> "text"]],
     [Simple EXCEPT !.memoryLimit = Bytes(1, "k"), !.memoryRequest = Bytes(1, "")]}

-----------------------------------------------------------------------------
(* The host, LXD and the scenarios *)

Elf(types) == [is |-> "file", executable |-> TRUE, elf |-> TRUE, class |-> 2, type |-> 3,
               length |-> 8, phoff |-> 1, phentsize |-> 2, phnum |-> Len(types),
               types |-> [o \in 0..9 |-> IF o % 2 = 1 /\ (o + 1) \div 2 \in DOMAIN types
                                         THEN types[(o + 1) \div 2] ELSE 0]]
Static == Elf(<< 1, 1 >>)
Dynamic == Elf(<< 1, 3 >>)
FarInterpreter == Elf(<< 1, 1, 1, 3 >>)     \* its last header is past ReadLimit
NoElf == [Static EXCEPT !.elf = FALSE]
Absent == [Static EXCEPT !.is = "none"]

World == [phase |-> [d \in MCDrivers |-> IF d = d1 THEN "new" ELSE "exited"], options |-> [d \in MCDrivers |-> Plain], requests |-> [t \in MCTasks |-> None],
          url |-> [host |-> "lxd"], fingerprint |-> [digits |-> 64, hex |-> TRUE, of |-> "c1"],
          pem |-> [f \in {"lxd_client_cert", "lxd_client_key", "lxd_server_cert", "lxd_server_ca"} |->
                CASE f = "lxd_server_cert" -> << "c1" >> [] f = "lxd_server_ca" -> << "a1", "a2" >>
                  [] OTHER -> << "client" >>],
          server |-> [certificate |-> "c1", issuer |-> "c1", named |-> FALSE, holdsKey |-> TRUE],
          home |-> [t \in MCTasks |-> d1], socket |-> "stale", project |-> TRUE,
          architectures |-> {"host"}, pools |-> {"default", "other", "pinned"},
          networks |-> [n \in {"bridge", "ovn", "bare", "missing"} |->
                CASE n = "bridge" -> [type |-> "bridge", address |-> Ip(3)]
                  [] n = "ovn" -> [type |-> "ovn", address |-> Ip(2)]
                  [] n = "bare" -> [type |-> "bridge", address |-> None]
                  [] OTHER -> None],
          acl |-> None, tls |-> [f \in {"ca", "cert", "key"} |-> 1], dns |-> {6},
          files |-> [p \in {"udhcpc", "busybox", "big"} |->
                CASE p = "udhcpc" -> Dynamic [] p = "busybox" -> Static [] OTHER -> FarInterpreter],
          cached |-> TRUE, candidates |-> << "udhcpc", "big", "busybox" >>,
          ranges |-> << [address |-> 0, prefix |-> 2], [address |-> 6, prefix |-> 3] >>,
          names |-> {{6}, {5, 6}, {}}, builds |-> {Static, Dynamic, NoElf, Absent}, changing |-> {}]

One(o, r) == [World EXCEPT !.options[d1] = o, !.requests[t1] = r]
Serving(w) == [w EXCEPT !.phase = [d \in MCDrivers |-> "serving"]]

(* Every command line with a few requests, every request with a few command lines. *)
Single == {One(o, r) : o \in CommandLines, r \in {Simple, [Simple EXCEPT !.network = String("ovn")]}}
          \cup {One(o, r) : o \in {Tls, Confined}, r \in Requests}

(* Lists of non-public ranges of a small address space. *)
Aligned == {r \in [address : Addresses, prefix : 0..Width] : r.address % 2^(Width - r.prefix) = 0}
Ranges == {[Serving(One(Confined, Simple)) EXCEPT !.ranges = << a, b >>] : a, b \in Aligned}

(* What the host and LXD hold when the driver comes up. *)
Settings ==
    LET w == One(Tls, Simple)
    IN {[w EXCEPT !.socket = "none"], [w EXCEPT !.socket = "file"], [w EXCEPT !.project = FALSE],
        [w EXCEPT !.architectures = {}], [w EXCEPT !.architectures = {"other"}],
        [w EXCEPT !.tls["key"] = None], [w EXCEPT !.files = [p \in DOMAIN @ |-> Absent]],
        [One(Named, Simple) EXCEPT !.dns = {}],
        [w EXCEPT !.phase[d2] = "new", !.home[t2] = d2, !.requests[t2] = Simple]}

(* LXD over HTTPS: what the server presents, and what it is held to. *)
Servers ==
    LET remote(trust) == One([Plain EXCEPT !.given = Remote \cup trust], None)
        presented == [certificate : {"c1", "c2"}, issuer : {"a1", "webpki"}, named : BOOLEAN,
                      holdsKey : BOOLEAN]
    IN {[remote(trust) EXCEPT !.server = s] : s \in presented,
            trust \in {{}, {"lxd_server_ca"}, {"lxd_server_cert"}, {"lxd_server_fingerprint"}}}
       \cup {[remote({"lxd_server_cert"}) EXCEPT !.pem["lxd_server_cert"] = p] :
                p \in {None, <<>>, << "c1", "c2" >>}}
       \cup {[remote({"lxd_server_fingerprint"}) EXCEPT !.fingerprint.digits = 40],
             [remote({}) EXCEPT !.pem["lxd_client_key"] = <<>>],
             [remote({}) EXCEPT !.pem["lxd_client_cert"] = <<>>],
             [remote({"lxd_server_ca"}) EXCEPT !.pem["lxd_server_ca"] = None],
             [remote({}) EXCEPT !.url.host = None]}

Stale == [ours |-> TRUE, egress |-> {}, ingress |-> {}, gateway |-> {}]

(* Two creates, in one driver or in two. *)
Races == {[Serving(World) EXCEPT !.options = (d1 :> o @@ d2 :> p), !.home[t2] = h, !.acl = a,
                        !.requests = [t \in MCTasks |-> Simple], !.changing = c] :
            o \in {Confined}, p \in {Confined, Elsewhere}, h \in MCDrivers,
            a \in {None, Stale}, c \in {{}, {"acl"}}}

Changing == {[Serving(One(o, Simple)) EXCEPT !.changing = {c}] : o \in {Tls, Named}, c \in
                {"tls", "dns", "client", "network"}}

(* One create from an image that is to be imported. *)
Uncached == {[Serving(One(Tls, Simple)) EXCEPT !.cached = FALSE]}

MCScenarios == Single \cup Ranges \cup Settings \cup Servers \cup Races \cup Changing \cup Uncached

-----------------------------------------------------------------------------
(* Images *)

Rootfs == INSTANCE GuestRootfs

(* The links that sbin may be. *)
Parts == {"usr", "x", "..", "openshell-init.sh"}
Targets == [1..1 -> Parts] \cup [1..2 -> Parts] \cup [1..3 -> {"usr", "x", ".."}]
Links == {Rootfs!Link(absolute, target) : absolute \in BOOLEAN, target \in Targets}
Nothing == Rootfs!Entry("nothing")

Tree(nodes) ==
    [p \in {q \in DOMAIN nodes : /\ nodes[q].kind # "nothing"
                                 /\ q = << Head(q) >> \/ nodes[Rootfs!Up(q)].kind = "directory"} |-> nodes[p]]

Trees ==
    {Tree([p \in {<< "sbin" >>, << "usr" >>, << "x" >>, << "sbin", "init" >>, << "usr", "init" >>,
                  << "usr", "x" >>} |->
            CASE p = << "sbin" >> -> sbin [] p = << "usr" >> -> usr [] p = << "x" >> -> x
              [] p = << "usr", "x" >> -> Rootfs!Link(TRUE, << "x" >>)
              [] OTHER -> init]) :
        sbin \in Links \cup {Nothing, Rootfs!File, Rootfs!Directory},
        usr \in {Rootfs!Directory, Nothing, Rootfs!File, Rootfs!Link(FALSE, << "x" >>)},
        x \in {Rootfs!Directory, Nothing, Rootfs!Link(FALSE, << "usr" >>)},
        init \in {Rootfs!File, Rootfs!Directory, Rootfs!Link(TRUE, << "x", "bin" >>)}}
    \cup {(<< "sbin" >> :> Rootfs!Link(TRUE, sbin) @@ << "x" >> :> Rootfs!Link(TRUE, x)
           @@ << "usr" >> :> Rootfs!Directory @@ << "usr", "init" >> :> init) :
            sbin \in {<< "usr", "init" >>, << "x" >>}, x \in {<< "usr", "init" >>, << "usr", "init", ".." >>},
            init \in {Rootfs!File, Rootfs!Link(TRUE, << "usr" >>)}}
    \cup {(Rootfs!Script :> script @@ << "sbin" >> :> Rootfs!Directory) : script \in {Rootfs!File, Rootfs!Directory, Rootfs!Link(TRUE, << "x" >>)}}

(* umoci's record: a field for each id that is not 0. *)
RECURSIVE Encode(_)
Encode(id) == IF id < 128 THEN << id >> ELSE << (id % 128) + 128 >> \o Encode(id \div 128)
Record(owner) ==
    (IF owner[1] = 0 THEN <<>> ELSE << 8 >> \o Encode(owner[1]))
    \o (IF owner[2] = 0 THEN <<>> ELSE << 16 >> \o Encode(owner[2]))

Bare == [p \in {<< "sbin" >>, << "usr" >>} |-> Rootfs!Directory]
Unrecorded(tree_) == [tree |-> tree_, owners |-> [p \in DOMAIN tree_ |-> << 0, 0 >>],
                      records |-> << >>, lengths |-> {0}]

Ids == {0, 1, 127, 128, 1000, MaxId - 1, MaxId}

Owned(owner) ==
    [Unrecorded(Bare) EXCEPT !.owners[<< "usr" >>] = owner,
                              !.records = [p \in {<< "usr" >>} |-> Record(owner)]]

Recorded(bytes) ==      \* records that umoci does not make, of root's files
    [Unrecorded(Bare) EXCEPT !.records = [p \in {<< "usr" >>} |-> bytes]]

(* The file's length matters to the upload alone. *)
Uploaded == [Unrecorded(Bare) EXCEPT !.lengths = 0..5]

MCImages ==
    {Unrecorded(t) : t \in Trees}
    \cup {Uploaded}
    \cup {Owned(<< uid, gid >>) : uid, gid \in Ids}
    \cup {Recorded(b) : b \in {<< 8 >>, << 9, 1 >>, << 8, 128 >>, << 8, 129, 129, 129, 1 >>,
                               << 24, 5 >>, << 8, 5, 8, 0 >>, << 8, 255, 255, 127 >>}}
    \cup {[Unrecorded([p \in {<< "sbin" >>, << "line\nbreak" >>} |-> Rootfs!Directory])
            EXCEPT !.owners[<< "line\nbreak" >>] = << 5, 5 >>,
                   !.records = [p \in {<< "line\nbreak" >>} |-> Record(<< 5, 5 >>)]]}

MCUnnameable == {"line\nbreak"}
MCNames == Parts \cup {"sbin", "init", "bin"} \cup MCUnnameable

Envelope(code) == [type |-> "error", code |-> code, metadata |-> FALSE]
MCResponses == {[status |-> 400, body |-> Envelope(400)], [status |-> 200, body |-> Envelope(500)],
                [status |-> 502, body |-> None], [status |-> 200, body |-> None]}

=============================================================================
