--------------------------- MODULE InstanceConfig ---------------------------
(***************************************************************************)
(* From a CreateSandbox request to the instance that LXD is asked for:     *)
(* what is refused, where the sandbox is placed, its configuration, its    *)
(* devices and its profiles.  Pure operators; NewSandbox uses them.        *)
(*                                                                         *)
(* A request is a record, None standing for an absent or empty field; the  *)
(* fields of driver_config carry the kind of the value, since one of the   *)
(* wrong kind counts as absent.  Values of environment variables say who   *)
(* set them.                                                               *)
(***************************************************************************)
EXTENDS DriverOptions, Integers, Sequences

(* validate_sandbox_create, and is_valid_label_key for every label *)
RequestTaken(r) ==
    /\ r.name # None /\ r.id # None
    /\ r.template
    /\ r.image # "invalid"              \* an empty image is the default one
    /\ "invalid" \notin r.labels
    /\ r.gpu # None => r.gpu.count # 0

(* struct_get_str *)
StringOr(field, default) ==
    IF field # None /\ field.kind = "string" THEN field.value ELSE default

(* Placement::resolve *)
Placement(r, o) ==
    [network |-> StringOr(r.network, o.defaultNetwork), pool |-> StringOr(r.pool, o.defaultPool)]

(* struct_get_str_list: the strings of a list *)
Strings(field) ==
    LET strings == SelectSeq(field.value, LAMBDA element : element.kind = "string")
    IN IF field # None /\ field.kind = "list"
       THEN [i \in DOMAIN strings |-> strings[i].value] ELSE <<>>

(* build_profiles *)
Profiles(r) == << "default" >> \o Strings(r.profiles)

(* max_processes: a whole number in a number or in a string, else the      *)
(* driver's default; 0 sets no limit.                                      *)
MaxProcesses(r, o) ==
    IF /\ r.maxProcesses # None
       /\ r.maxProcesses.kind \in {"number", "string"}
       /\ r.maxProcesses.whole /\ r.maxProcesses.value \in 0..o.maxU32
    THEN r.maxProcesses.value ELSE o.defaultMaxProcesses

(* cpu_limit_to_lxd: whole cores, rounded up; the quantity is a number of  *)
(* thousandths, or what no finite number is.                               *)
CpuTaken(q) == q.form = "number" /\ q.milli > 0
CpuLimit(q) == (q.milli + 999) \div 1000

(* memory_limit_to_lxd: digits with an IEC suffix, or a bare byte count. *)
MemoryTaken(q) == q.digits # None /\ q.suffix \in {"", "Ki", "Mi", "Gi", "Ti"}
MemoryLimit(q) == [digits |-> q.digits, unit |-> q.suffix]   \* LXD writes Ki as KiB

(* A limit counts before a request for it. *)
Cpu(r) == IF r.cpuLimit # None THEN r.cpuLimit ELSE r.cpuRequest
Memory(r) == IF r.memoryLimit # None THEN r.memoryLimit ELSE r.memoryRequest

QuantitiesTaken(r) ==
    /\ Cpu(r) # None => CpuTaken(Cpu(r))
    /\ Memory(r) # None => MemoryTaken(Memory(r))

(* main_process_spec: the command with its terminal, or a login shell *)
MainProcessSpec(r) ==
    IF r.command = None THEN [command |-> "shell", tty |-> TRUE, attach |-> FALSE]
    ELSE [command |-> r.command, tty |-> r.tty, attach |-> r.attach]

(* The variables that the driver sets: build_create_config,                *)
(* insert_guest_tls_environment and the server name.                       *)
DriverSets(r, tls, serverName) ==
    {"OPENSHELL_SANDBOX_ID", "OPENSHELL_SANDBOX", "OPENSHELL_SSH_SOCKET_PATH",
     "OPENSHELL_MAIN_PROCESS_SPEC", "OPENSHELL_ENDPOINT"}
    \cup (IF r.token THEN {"OPENSHELL_SANDBOX_TOKEN_FILE"} ELSE {})
    \cup (IF tls THEN {"OPENSHELL_TLS_CA", "OPENSHELL_TLS_CERT", "OPENSHELL_TLS_KEY"} ELSE {})
    \cup (IF serverName THEN {"OPENSHELL_GATEWAY_TLS_SERVER_NAME"} ELSE {})

DriverValue(r, endpoint, name) ==
    CASE name = "OPENSHELL_SANDBOX_ID" -> r.id
      [] name = "OPENSHELL_SANDBOX" -> r.name
      [] name = "OPENSHELL_MAIN_PROCESS_SPEC" -> MainProcessSpec(r)
      [] name = "OPENSHELL_ENDPOINT" -> endpoint
      [] name = "OPENSHELL_GATEWAY_TLS_SERVER_NAME" -> "name"
      [] OTHER -> "guestPath"

(* The environment: the request's own variables are inserted first, those  *)
(* of its spec before those of its template, and the last one counts.      *)
Environment(r, endpoint, tls, serverName) ==
    LET set == DriverSets(r, tls, serverName)
    IN [n \in set \cup r.templateEnv \cup r.specEnv |->
            [by |-> IF n \in set THEN "driver" ELSE IF n \in r.templateEnv THEN "template" ELSE "spec",
             value |-> IF n \in set THEN DriverValue(r, endpoint, n) ELSE None]]

(* The rest of build_create_config. *)
Limits(r, o) ==
    [cpu |-> IF Cpu(r) = None THEN None ELSE CpuLimit(Cpu(r)),
     memory |-> IF Memory(r) = None THEN None ELSE MemoryLimit(Memory(r)),
     processes |-> IF MaxProcesses(r, o) > 0 THEN MaxProcesses(r, o) ELSE None]

(* build_create_devices: the auxiliary volumes are on the sandbox's own    *)
(* pool unless the operator pinned them; both are read-only.               *)
Devices(r, o, acl, volumes) ==
    LET placement == Placement(r, o)
        auxPool == IF o.auxPool = None THEN placement.pool ELSE o.auxPool
    IN [root |-> placement.pool,
        nic |-> [network |-> placement.network, acl |-> acl,
                 otherwise |-> IF acl = None THEN "allow" ELSE "reject"],
        supervisor |-> [pool |-> auxPool, volume |-> volumes.supervisor],
        dhcpClient |-> [pool |-> auxPool, volume |-> volumes.dhcpClient],
        gpu |-> r.gpu # None]

=============================================================================
