----------------------- MODULE SandboxFromImageProofs -----------------------
(***************************************************************************)
(* Promises of a create, of the import that it waits for, and of both      *)
(* together.  For any number of drivers and creates and any changes of the *)
(* operator's, creates that race for the egress ACL do not make each other *)
(* fail; a driver that serves has reached the LXD that its options name,   *)
(* and a sandbox the gateway that they name; the ACL allows that gateway   *)
(* and the public addresses, which are computed as the blocks that are     *)
(* left of the whole address space; and no sandbox gets a DHCP client that *)
(* needs an interpreter, unless the file was replaced.  Whatever the file, *)
(* the chunks that the reads return and the responses are, LXD never works *)
(* on less than the file that the driver measured, and the driver never    *)
(* takes another's answer for LXD's.  However an image's links lead, what  *)
(* the driver writes is below the rootfs and the container's init is its   *)
(* script; and the owners that umoci recorded are those of the packed      *)
(* image.  A create together with its import is still a create, and the    *)
(* import still an import.                                                 *)
(***************************************************************************)
EXTENDS SandboxFromImage, TLAPS, WellFoundedInduction, NaturalsInduction, SequenceTheorems

-----------------------------------------------------------------------------
(* The create *)

(* A create's state has the fields that Idle has. *)
TaskFields == {"pc", "network", "endpoint", "gateway", "want", "files", "client", "answer"}

Formed(s) == DOMAIN s = TaskFields /\ s = [f \in DOMAIN s |-> s[f]]

(* None, which stands for what is not there, is no answer, no end of a     *)
(* lookup, and nothing that has fields.                                    *)
NoneIsNoFunction == \A f : f = [x \in DOMAIN f |-> f[x]] => f # None

NoneIsApart ==
    /\ None \notin {"ok", "refused", "failed", "conflict", "missing", "loop", "openshell-egress"}
    /\ NoneIsNoFunction

TasksFormed ==
    /\ given \in Scenarios
    /\ task = [t \in Tasks |-> task[t]]
    /\ \A t \in Tasks : Formed(task[t])

(* The ACL that a create is about to replace is still there, or the        *)
(* operator deleted it.                                                    *)
AclStays ==
    \A t \in Tasks :
        /\ task[t].pc = "put" => acl # None \/ swept
        /\ task[t].answer \in {"conflict", "missing"} => swept

(* What was checked is what is read, mounted and kept. *)
ClientStays ==
    /\ instances = [t \in Tasks |-> instances[t]]
    /\ \A t \in Tasks :
        /\ task[t].pc = "read" => t \in swapped \/ IsStaticElf(files[task[t].client])
        /\ task[t].pc = "create" => t \in swapped \/ IsStaticElf(task[t].client)
        /\ instances[t] # None =>
                /\ task[t].pc = "done"
                /\ t \in swapped \/ IsStaticElf(instances[t].devices.dhcpClient.volume)

CreateInv == TasksFormed /\ AclStays /\ ClientStays

-----------------------------------------------------------------------------
LEMMA NoAclIsNone == ASSUME NoneIsApart, NEW t PROVE Written(t) # None
<1> DEFINE new == Written(t)
<1>1. new = [x \in DOMAIN new |-> new[x]] BY DEF Written
<1> HIDE DEF new
<1>2. new # None BY <1>1 DEF NoneIsApart, NoneIsNoFunction
<1> QED BY <1>2 DEF new

(* A file that the check takes needs no interpreter. *)
LEMMA StaticNeedsNoInterpreter ==
    ASSUME NEW file, IsStaticElf(file)
    PROVE  ~ NeedsInterpreter(file)
<1>1. ASSUME NEW i \in 0..(file.phnum - 1)
      PROVE  file.types[file.phoff + i * file.phentsize] # PT_INTERP
  <2>1. HeaderType(file, i) # None /\ HeaderType(file, i) # PT_INTERP
    BY DEF IsStaticElf
  <2> QED BY <2>1 DEF HeaderType
<1> QED BY <1>1 DEF NeedsInterpreter

(* The path that resolve_dhcp_client_binary settles for names a file that  *)
(* passed the check.                                                       *)
LEMMA ResolvedIsCandidate ==
    ASSUME NEW override, NEW candidates, DOMAIN candidates \subseteq Nat, NEW held,
           ResolveBinary(override, candidates, held) # None
    PROVE  IsStaticElf(held[ResolveBinary(override, candidates, held)])
<1> DEFINE fit == {i \in DOMAIN candidates : IsCandidate(held[candidates[i]])}
<1>1. CASE override # None BY <1>1 DEF ResolveBinary, IsCandidate
<1>2. CASE override = None
  <2>1. fit # {} /\ fit \subseteq Nat
    BY <1>2 DEF ResolveBinary
  <2>2. \E i \in fit : \A j \in fit : i <= j
    <3> DEFINE less == OpToRel(<, Nat)
    <3>1. \E i \in fit : \A j \in fit : ~ (<<j, i>> \in less)
      BY <2>1, NatLessThanWellFounded, WFMin
    <3>2. \A i, j \in Nat : j < i => <<j, i>> \in less
      BY DEF OpToRel
    <3> HIDE DEF less, fit
    <3>3. PICK i \in fit : \A j \in fit : ~ (<<j, i>> \in less) BY <3>1
    <3>4. ASSUME NEW j \in fit PROVE i <= j
      <4>1. i \in Nat /\ j \in Nat BY <2>1
      <4>2. ~ (j < i) BY <3>2, <3>3, <4>1
      <4> QED BY <4>1, <4>2
    <3> QED BY <3>4
  <2> DEFINE first == CHOOSE i \in fit : \A j \in fit : i <= j
  <2>3. first \in fit BY <2>2
  <2>4. ResolveBinary(override, candidates, held) = candidates[first]
    BY <1>2, <2>1 DEF ResolveBinary
  <2> QED BY <2>3, <2>4 DEF IsCandidate
<1> QED BY <1>1, <1>2

(* A step of one create leaves the others as they are. *)
LEMMA StepOfOne ==
    ASSUME TasksFormed, NEW t \in Tasks, NEW state, Formed(state), Step(t, state)
    PROVE  /\ TasksFormed'
           /\ task'[t] = state
           /\ \A u \in Tasks : u # t => task'[u] = task[u]
<1>1. task' = [task EXCEPT ![t] = state] BY DEF Step
<1>2. task'[t] = state /\ \A u \in Tasks : u # t => task'[u] = task[u]
  BY <1>1 DEF TasksFormed
<1>3. \A u \in Tasks : Formed(task'[u])
  BY <1>2 DEF TasksFormed
<1>4. task' = [u \in Tasks |-> task'[u]]
  BY <1>1 DEF TasksFormed
<1> QED BY <1>2, <1>3, <1>4 DEF TasksFormed, Step, start

-----------------------------------------------------------------------------
(* A step of one create keeps the invariant if the state it goes to is one *)
(* that the invariant allows and it takes nothing from the other creates.  *)
LEMMA StepKeeps ==
    ASSUME CreateInv, NEW t \in Tasks, NEW state, Formed(state), Step(t, state),
           task[t].pc # "done",
           acl # None => acl' # None, swept' = swept, files' = files,
           \A u \in Tasks : u # t => (u \in swapped <=> u \in swapped'),
           instances' = [u \in Tasks |-> instances'[u]],
           \A u \in Tasks : u # t => instances'[u] = instances[u],
           state.pc = "put" => acl' # None \/ swept,
           state.answer \in {"conflict", "missing"} => swept,
           state.pc = "read" => t \in swapped' \/ IsStaticElf(files[state.client]),
           state.pc = "create" => t \in swapped' \/ IsStaticElf(state.client),
           instances'[t] # None =>
                /\ state.pc = "done"
                /\ t \in swapped' \/ IsStaticElf(instances'[t].devices.dhcpClient.volume)
    PROVE  CreateInv'
<1>1. /\ TasksFormed'
      /\ task'[t] = state
      /\ \A u \in Tasks : u # t => task'[u] = task[u]
  BY StepOfOne DEF CreateInv
<1>2. AclStays'
  BY <1>1 DEF CreateInv, AclStays
<1>3. ClientStays'
  BY <1>1 DEF CreateInv, ClientStays
<1> QED BY <1>1, <1>2, <1>3 DEF CreateInv

(* The same for the steps that come before the DHCP client. *)
LEMMA PlainStepKeeps ==
    ASSUME CreateInv, NEW t \in Tasks, NEW state, Formed(state), Step(t, state),
           task[t].pc # "done",
           acl # None => acl' # None, swept' = swept, files' = files,
           \A u \in Tasks : u # t => (u \in swapped <=> u \in swapped'),
           instances' = instances,
           state.pc = "put" => acl' # None \/ swept,
           state.answer \in {"conflict", "missing"} => swept,
           state.pc \notin {"read", "create"}
    PROVE  CreateInv'
<1>1. instances' = [u \in Tasks |-> instances'[u]] /\ instances'[t] = None
  BY DEF CreateInv, ClientStays
<1> QED BY <1>1, StepKeeps

(* Where nothing more happens than that a create goes on or is answered. *)
LEMMA QuietStepKeeps ==
    ASSUME CreateInv, NEW t \in Tasks, NEW state, Formed(state), Step(t, state),
           task[t].pc # "done", UNCHANGED <<lxd, host, instances>>,
           state.answer \in {task[t].answer, "refused", "failed"},
           state.pc \notin {"put", "read", "create"}
    PROVE  CreateInv'
<1>1. task[t].answer \in {"conflict", "missing"} => swept
  BY DEF CreateInv, AclStays
<1>2. acl' = acl /\ swept' = swept /\ files' = files /\ swapped' = swapped /\ instances' = instances
  BY DEF lxd, host
<1> QED BY <1>1, <1>2, PlainStepKeeps

LEMMA QuietGoKeeps ==
    ASSUME CreateInv, NEW t \in Tasks, task[t].pc # "done", UNCHANGED <<lxd, host, instances>>,
           NEW pc, Go(t, pc), pc \notin {"put", "read", "create"}
    PROVE  CreateInv'
<1> DEFINE state == [task[t] EXCEPT !.pc = pc]
<1>1. Formed(task[t]) BY DEF CreateInv, TasksFormed
<1>2. Formed(state) /\ state.pc = pc /\ state.answer = task[t].answer BY <1>1 DEF Formed, TaskFields
<1>3. Step(t, state) BY DEF Go
<1> HIDE DEF state
<1> QED BY <1>2, <1>3, QuietStepKeeps

LEMMA QuietAnswerKeeps ==
    ASSUME CreateInv, NEW t \in Tasks, task[t].pc # "done", UNCHANGED <<lxd, host, instances>>,
           NEW answer \in {"refused", "failed"}, Answer(t, answer)
    PROVE  CreateInv'
<1> DEFINE state == [task[t] EXCEPT !.pc = "done", !.answer = answer]
<1>1. Formed(task[t]) BY DEF CreateInv, TasksFormed
<1>2. Formed(state) /\ state.pc = "done" /\ state.answer = answer BY <1>1 DEF Formed, TaskFields
<1>3. Step(t, state) BY DEF Answer
<1> HIDE DEF state
<1> QED BY <1>2, <1>3, QuietStepKeeps

(* Whatever does not concern the creates keeps the invariant if it deletes *)
(* the ACL only by the operator's hand and replaces a client that was      *)
(* checked and is yet to be read only with a record of it.                 *)
LEMMA RestKeeps ==
    ASSUME CreateInv, UNCHANGED <<given, task, instances>>,
           acl # None => acl' # None \/ swept', swept => swept',
           swapped \subseteq swapped',
           \A t \in Tasks : task[t].pc = "read" =>
                t \in swapped' \/ files'[task[t].client] = files[task[t].client]
    PROVE  CreateInv'
<1>1. TasksFormed' BY DEF CreateInv, TasksFormed
<1>2. AclStays' BY DEF CreateInv, AclStays
<1>3. ClientStays' BY DEF CreateInv, ClientStays
<1> QED BY <1>1, <1>2, <1>3 DEF CreateInv

LEMMA StartUpKeeps ==
    ASSUME CreateInv, NEW d \in Drivers, StartUp(d)
    PROVE  CreateInv'
<1>1. UNCHANGED <<given, lxd, host, task, instances>>
  BY DEF StartUp, CheckOptions, LookAtSocket, RemoveSocket, Bind, BuildClient, CheckProject,
         CheckArchitecture, Enter
<1> QED BY <1>1, RestKeeps DEF lxd, host

LEMMA OperatorKeeps ==
    ASSUME CreateInv, Operator
    PROVE  CreateInv'
<1>1. UNCHANGED <<given, task, instances>>
  BY DEF Operator, RotateTls, ChangeDns, EditAcl, ReplaceClient, RemoveNetwork, Change, start
<1>2. CASE RotateTls \/ ChangeDns \/ RemoveNetwork
  <2>1. UNCHANGED <<acl, files, swept, swapped>>
    BY <1>2 DEF RotateTls, ChangeDns, RemoveNetwork
  <2> QED BY <1>1, <2>1, RestKeeps
<1>3. CASE EditAcl BY <1>1, <1>3, RestKeeps DEF EditAcl
<1>4. CASE ReplaceClient
  <2>1. UNCHANGED <<acl, swept>> /\ swapped' = swapped \cup {t \in Tasks : task[t].pc = "read"}
    BY <1>4 DEF ReplaceClient
  <2> QED BY <1>1, <2>1, RestKeeps
<1> QED BY <1>2, <1>3, <1>4 DEF Operator

LEMMA OperationKeeps ==
    ASSUME CreateInv, NoneIsApart, NEW t \in Tasks, AclOperationEnds(t)
    PROVE  CreateInv'
<1>1. UNCHANGED <<given, task, instances, swept, files, swapped>>
  BY DEF AclOperationEnds, start, host
<1>2. acl' = acl \/ acl' = Written(t)
  BY DEF AclOperationEnds, AclBecomes
<1>3. Written(t) # None BY NoAclIsNone
<1> QED BY <1>1, <1>2, <1>3, RestKeeps

-----------------------------------------------------------------------------
(* The steps of a create that only go on or answer. *)
LEMMA QuietActionsKeep ==
    ASSUME CreateInv, NEW t \in Tasks,
           \/ Receive(t) \/ ReadNetwork(t) \/ ReadPool(t) \/ LookUp(t) \/ AwaitAcl(t)
           \/ Build(t) \/ ReadTls(t) \/ Provision(t)
    PROVE  CreateInv'
<1>1. Formed(task[t]) BY DEF CreateInv, TasksFormed
<1>2. CASE Receive(t)
  BY <1>2, QuietGoKeeps, QuietAnswerKeeps DEF Receive
<1>3. CASE ReadNetwork(t)
  <2>1. PICK network :
          \/ Answer(t, "refused") \/ Answer(t, "failed")
          \/ Step(t, [task[t] EXCEPT !.pc = "pool", !.network = network])
    BY <1>3 DEF ReadNetwork
  <2> DEFINE state == [task[t] EXCEPT !.pc = "pool", !.network = network]
  <2>2. Formed(state) /\ state.pc = "pool" /\ state.answer = task[t].answer
    BY <1>1 DEF Formed, TaskFields
  <2>3. task[t].pc # "done" /\ UNCHANGED <<lxd, host, instances>> BY <1>3 DEF ReadNetwork
  <2>4. CASE Step(t, state)
    <3> HIDE DEF state
    <3> QED BY <2>2, <2>3, <2>4, QuietStepKeeps
  <2> QED BY <2>1, <2>3, <2>4, QuietAnswerKeeps
<1>4. CASE ReadPool(t)
  <2>1. PICK endpoint, ready, gateway :
          \/ Answer(t, "refused") \/ Answer(t, "failed")
          \/ Step(t, [ready EXCEPT !.pc = "build"]) /\ ready = [task[t] EXCEPT !.endpoint = endpoint]
          \/ Step(t, [ready EXCEPT !.pc = "lookup"]) /\ ready = [task[t] EXCEPT !.endpoint = endpoint]
          \/ Step(t, Wanting(ready, gateway)) /\ ready = [task[t] EXCEPT !.endpoint = endpoint]
    BY <1>4 DEF ReadPool
  <2>3. task[t].pc # "done" /\ UNCHANGED <<lxd, host, instances>> BY <1>4 DEF ReadPool
  <2>4. CASE Answer(t, "refused") \/ Answer(t, "failed")
    BY <2>3, <2>4, QuietAnswerKeeps
  <2>5. CASE ready = [task[t] EXCEPT !.endpoint = endpoint]
    <3>1. Formed(ready) /\ ready.answer = task[t].answer
      BY <1>1, <2>5 DEF Formed, TaskFields
    <3> DEFINE built == [ready EXCEPT !.pc = "build"]
               looked == [ready EXCEPT !.pc = "lookup"]
               wanted == Wanting(ready, gateway)
    <3>2. /\ Formed(built) /\ built.pc = "build" /\ built.answer = task[t].answer
          /\ Formed(looked) /\ looked.pc = "lookup" /\ looked.answer = task[t].answer
      BY <3>1 DEF Formed, TaskFields
    <3>3. Formed(wanted) /\ wanted.pc = "get" /\ wanted.answer = task[t].answer
      BY <3>1 DEF Formed, TaskFields, Wanting
    <3>4. Answer(t, "refused") \/ Answer(t, "failed") \/ Step(t, built) \/ Step(t, looked) \/ Step(t, wanted)
      BY <2>1
    <3> HIDE DEF built, looked, wanted
    <3> QED BY <2>3, <2>4, <3>2, <3>3, <3>4, QuietStepKeeps
  <2> QED BY <2>1, <2>4, <2>5
<1>5. CASE LookUp(t)
  <2>1. PICK gateway : Answer(t, "refused") \/ Step(t, Wanting(task[t], gateway))
    BY <1>5 DEF LookUp
  <2> DEFINE state == Wanting(task[t], gateway)
  <2>2. Formed(state) /\ state.pc = "get" /\ state.answer = task[t].answer
    BY <1>1 DEF Formed, TaskFields, Wanting
  <2>3. task[t].pc # "done" /\ UNCHANGED <<lxd, host, instances>> BY <1>5 DEF LookUp
  <2>4. CASE Step(t, state)
    <3> HIDE DEF state
    <3> QED BY <2>2, <2>3, <2>4, QuietStepKeeps
  <2> QED BY <2>1, <2>3, <2>4, QuietAnswerKeeps
<1>6. CASE AwaitAcl(t)
  BY <1>6, QuietGoKeeps, QuietAnswerKeeps DEF AwaitAcl
<1>7. CASE Build(t)
  <2>1. PICK pc \in {"tls", "provision"} : Answer(t, "refused") \/ Go(t, pc)
    BY <1>7 DEF Build
  <2>2. task[t].pc # "done" /\ UNCHANGED <<lxd, host, instances>> BY <1>7 DEF Build
  <2> QED BY <2>1, <2>2, QuietGoKeeps, QuietAnswerKeeps
<1>8. CASE ReadTls(t)
  <2> DEFINE n == Len(task[t].files) + 1
             read == Append(task[t].files, tls[GuestTlsFiles[n]])
             pc == IF n = Len(GuestTlsFiles) THEN "provision" ELSE "tls"
             state == [task[t] EXCEPT !.files = read, !.pc = pc]
  <2>1. Answer(t, "refused") \/ Step(t, state)
    BY <1>8 DEF ReadTls
  <2>2. Formed(state) /\ state.pc \in {"tls", "provision"} /\ state.answer = task[t].answer
    <3>1. pc \in {"tls", "provision"} OBVIOUS
    <3> HIDE DEF n, read, pc
    <3> QED BY <1>1, <3>1 DEF Formed, TaskFields
  <2>3. task[t].pc # "done" /\ UNCHANGED <<lxd, host, instances>> BY <1>8 DEF ReadTls
  <2>4. CASE Step(t, state)
    <3> HIDE DEF state
    <3> QED BY <2>1, <2>2, <2>3, <2>4, QuietStepKeeps
  <2> QED BY <2>1, <2>3, <2>4, QuietAnswerKeeps
<1>9. CASE Provision(t)
  BY <1>9, QuietGoKeeps, QuietAnswerKeeps DEF Provision
<1> QED BY <1>2, <1>3, <1>4, <1>5, <1>6, <1>7, <1>8, <1>9

-----------------------------------------------------------------------------
(* A create asks to replace an ACL only where it has seen one, and goes on *)
(* to write one only by a step that leaves one.                            *)
LEMMA AclActionsKeep ==
    ASSUME CreateInv, NoneIsApart, NEW t \in Tasks, GetAcl(t) \/ PutAcl(t) \/ PostAcl(t)
    PROVE  CreateInv'
<1>1. /\ Formed(task[t])
      /\ task[t].pc = "put" => acl # None \/ swept
      /\ task[t].answer \in {"conflict", "missing"} => swept
  BY DEF CreateInv, TasksFormed, AclStays
<1>2. /\ UNCHANGED <<swept, files, swapped, instances>>
      /\ task[t].pc # "done"
  BY DEF GetAcl, PutAcl, PostAcl, host
<1>3. acl' = acl \/ (acl = None /\ acl' = Written(t))
  BY DEF GetAcl, PutAcl, PostAcl, AclCreated, AclBecomes
<1>4. Written(t) # None BY NoAclIsNone
<1>5. ASSUME NEW pc, Go(t, pc), pc \notin {"read", "create"}, pc = "put" => acl' # None
      PROVE  CreateInv'
  <2> DEFINE state == [task[t] EXCEPT !.pc = pc]
  <2>1. Formed(state) /\ state.pc = pc /\ state.answer = task[t].answer
    BY <1>1 DEF Formed, TaskFields
  <2>2. Step(t, state) BY <1>5 DEF Go
  <2> HIDE DEF state
  <2> QED BY <1>1, <1>2, <1>3, <1>4, <1>5, <2>1, <2>2, PlainStepKeeps
<1>6. ASSUME NEW answer, Answer(t, answer), answer \in {"conflict", "missing"} => swept
      PROVE  CreateInv'
  <2> DEFINE state == [task[t] EXCEPT !.pc = "done", !.answer = answer]
  <2>1. Formed(state) /\ state.pc = "done" /\ state.answer = answer
    BY <1>1 DEF Formed, TaskFields
  <2>2. Step(t, state) BY <1>6 DEF Answer
  <2> HIDE DEF state
  <2> QED BY <1>2, <1>3, <1>4, <1>6, <2>1, <2>2, PlainStepKeeps
<1>7. CASE GetAcl(t)
  <2>1. \/ Go(t, "post") \/ Go(t, "build") \/ Answer(t, "failed")
        \/ Go(t, "put") /\ acl # None
    BY <1>7 DEF GetAcl
  <2> QED BY <1>3, <1>4, <1>5, <1>6, <2>1
<1>8. CASE PutAcl(t)
  <2>1. \/ Go(t, "wait")
        \/ Answer(t, "missing") /\ acl = None /\ task[t].pc = "put"
    BY <1>8 DEF PutAcl
  <2> QED BY <1>1, <1>5, <1>6, <2>1
<1>9. CASE PostAcl(t)
  <2>1. CASE acl # None
    <3>1. Go(t, "put") BY <1>9, <2>1 DEF PostAcl
    <3> QED BY <1>3, <1>5, <2>1, <3>1
  <2>2. CASE acl = None
    <3>1. Go(t, "wait") BY <1>9, <2>2 DEF PostAcl, AclCreated
    <3> QED BY <1>5, <3>1
  <2> QED BY <2>1, <2>2
<1> QED BY <1>7, <1>8, <1>9

(* What ResolveBinary settles for was checked; it is what is read, unless  *)
(* it was replaced; and what was read is what the instance mounts.         *)
LEMMA ClientActionsKeep ==
    ASSUME CreateInv, NEW t \in Tasks,
           ResolveClient(t) \/ ReadClient(t) \/ CreateInstance(t)
    PROVE  CreateInv'
<1>1. /\ Formed(task[t])
      /\ task[t].answer \in {"conflict", "missing"} => swept
      /\ instances = [u \in Tasks |-> instances[u]]
  BY DEF CreateInv, TasksFormed, AclStays, ClientStays
<1>2. task[t].pc # "done" /\ UNCHANGED <<acl, swept, files>>
  BY DEF ResolveClient, ReadClient, CreateInstance, lxd, host
<1>3. instances[t] = None
  BY <1>2 DEF CreateInv, ClientStays
<1>4. ASSUME NEW answer \in {"failed", "ok"}, Answer(t, answer),
             \A u \in Tasks : u # t => (u \in swapped <=> u \in swapped'),
             instances' = instances
      PROVE  CreateInv'
  <2> DEFINE state == [task[t] EXCEPT !.pc = "done", !.answer = answer]
  <2>1. Formed(state) /\ state.pc = "done" /\ state.answer = answer
    BY <1>1 DEF Formed, TaskFields
  <2>2. Step(t, state) BY <1>4 DEF Answer
  <2> HIDE DEF state
  <2> QED BY <1>2, <1>4, <2>1, <2>2, PlainStepKeeps
<1>5. ASSUME NEW client, NEW pc \in {"read", "create"},
             Step(t, [task[t] EXCEPT !.pc = pc, !.client = client]),
             \A u \in Tasks : u # t => (u \in swapped <=> u \in swapped'),
             instances' = instances,
             pc = "read" => IsStaticElf(files[client]),
             pc = "create" => t \in swapped' \/ IsStaticElf(client)
      PROVE  CreateInv'
  <2> DEFINE state == [task[t] EXCEPT !.pc = pc, !.client = client]
  <2>1. /\ Formed(state) /\ state.pc = pc /\ state.answer = task[t].answer
        /\ state.client = client
    BY <1>1 DEF Formed, TaskFields
  <2>2. Step(t, state) BY <1>5
  <2> HIDE DEF state
  <2> QED BY <1>1, <1>2, <1>3, <1>5, <2>1, <2>2, StepKeeps
<1>6. CASE ResolveClient(t)
  <2> DEFINE path == ResolveBinary(Mine(t).dhcpClient, given.candidates, files)
  <2>1. /\ \/ Answer(t, "failed")
           \/ path # None /\ Step(t, [task[t] EXCEPT !.pc = "read", !.client = path])
        /\ \A u \in Tasks : u # t => (u \in swapped <=> u \in swapped')
        /\ instances' = instances
    BY <1>6 DEF ResolveClient
  <2>2. path # None => IsStaticElf(files[path])
    <3>1. DOMAIN given.candidates \subseteq Nat
      BY ScenariosAssumption DEF CreateInv, TasksFormed
    <3> QED BY <3>1, ResolvedIsCandidate
  <2> HIDE DEF path
  <2> QED BY <1>4, <1>5, <2>1, <2>2
<1>7. CASE ReadClient(t)
  <2> DEFINE file == files[task[t].client]
  <2>1. /\ \/ Answer(t, "failed")
           \/ Step(t, [task[t] EXCEPT !.pc = "create", !.client = file])
        /\ swapped' = swapped /\ instances' = instances
    BY <1>7 DEF ReadClient, host
  <2>2. t \in swapped \/ IsStaticElf(file)
    BY <1>7 DEF ReadClient, CreateInv, ClientStays
  <2> HIDE DEF file
  <2> QED BY <1>4, <1>5, <2>1, <2>2
<1>8. CASE CreateInstance(t)
  <2>1. swapped' = swapped BY <1>8 DEF CreateInstance, host
  <2>2. CASE Answer(t, "failed") /\ UNCHANGED instances
    BY <1>4, <2>1, <2>2
  <2>3. CASE Answer(t, "ok") /\ instances' = [instances EXCEPT ![t] = Instance(t)]
    <3> DEFINE state == [task[t] EXCEPT !.pc = "done", !.answer = "ok"]
    <3>1. Formed(state) /\ state.pc = "done" /\ state.answer = "ok"
      BY <1>1 DEF Formed, TaskFields
    <3>2. Step(t, state) BY <2>3 DEF Answer
    <3>3. /\ instances' = [u \in Tasks |-> instances'[u]]
          /\ instances'[t] = Instance(t)
          /\ \A u \in Tasks : u # t => instances'[u] = instances[u]
      BY <1>1, <2>3
    <3>4. Instance(t).devices.dhcpClient.volume = task[t].client
      BY DEF Instance, Devices
    <3>5. t \in swapped \/ IsStaticElf(task[t].client)
      BY <1>8 DEF CreateInstance, CreateInv, ClientStays
    <3> HIDE DEF state
    <3> QED BY <1>2, <2>1, <3>1, <3>2, <3>3, <3>4, <3>5, StepKeeps
  <2> QED BY <1>8, <2>2, <2>3 DEF CreateInstance
<1> QED BY <1>6, <1>7, <1>8

-----------------------------------------------------------------------------
(* The invariant is inductive. *)
LEMMA CreateInvHolds ==
    ASSUME NoneIsApart
    PROVE  Spec => []CreateInv
<1>1. Init => CreateInv
  <2> SUFFICES ASSUME Init PROVE CreateInv OBVIOUS
  <2>1. /\ given \in Scenarios
        /\ task = [t \in Tasks |-> Idle]
        /\ instances = [t \in Tasks |-> None]
    BY DEF Init
  <2>2. Formed(Idle) /\ Idle.pc = "idle" /\ Idle.answer = None
    BY DEF Formed, TaskFields, Idle
  <2>3. TasksFormed BY <2>1, <2>2 DEF TasksFormed
  <2>4. AclStays BY <2>1, <2>2 DEF AclStays, NoneIsApart
  <2>5. ClientStays BY <2>1, <2>2 DEF ClientStays
  <2> QED BY <2>3, <2>4, <2>5 DEF CreateInv
<1>2. CreateInv /\ [Next]_vars => CreateInv'
  <2> SUFFICES ASSUME CreateInv, [Next]_vars PROVE CreateInv' OBVIOUS
  <2>1. CASE UNCHANGED vars BY <2>1, RestKeeps DEF vars
  <2>2. ASSUME NEW d \in Drivers, StartUp(d) PROVE CreateInv' BY <2>2, StartUpKeeps
  <2>3. ASSUME NEW t \in Tasks, Create(t) PROVE CreateInv'
    BY <2>3, QuietActionsKeep, AclActionsKeep, ClientActionsKeep DEF Create
  <2>4. ASSUME NEW t \in Tasks, AclOperationEnds(t) PROVE CreateInv' BY <2>4, OperationKeeps
  <2>5. CASE Operator BY <2>5, OperatorKeeps
  <2> QED BY <2>1, <2>2, <2>3, <2>4, <2>5 DEF Next
<1> QED BY <1>1, <1>2, PTL DEF Spec

(* However many drivers and creates race for the ACL, and whatever the     *)
(* operator does meanwhile, a create fails on a conflict or on a missing   *)
(* ACL only after the operator has touched the ACL (ensure_network_acl).   *)
THEOREM AclRacesEndWell ==
    ASSUME NoneIsApart
    PROVE  Spec => []RacesEndWell
<1>1. CreateInv => RacesEndWell
  BY DEF CreateInv, AclStays, RacesEndWell
<1> QED BY <1>1, CreateInvHolds, PTL

(* No sandbox mounts a DHCP client that needs an interpreter, unless the   *)
(* host's file was replaced between the driver's check and its read, for   *)
(* files of any size and shape, any search order and any limit on how much *)
(* of a file is read (is_static_elf, resolve_dhcp_client_binary,           *)
(* load_dhcp_client).                                                      *)
THEOREM DhcpClientsAreStatic ==
    ASSUME NoneIsApart
    PROVE  Spec => []DhcpClientIsStatic
<1>1. CreateInv => DhcpClientIsStatic
  BY StaticNeedsNoInterpreter DEF CreateInv, ClientStays, DhcpClientIsStatic
<1> QED BY <1>1, CreateInvHolds, PTL

-----------------------------------------------------------------------------
(* What the operator is promised *)

Before == {"idle", "network", "pool", "lookup"}
AtAcl == {"get", "put", "post", "wait"}
After == {"build", "tls", "provision", "client", "read", "create"}

(* The options and the network of a create, in a scenario. *)
Choice(g, t) == Parse(g.options[g.home[t]])
Place(g, t) == g.networks[Placement(g.requests[t], Choice(g, t)).network]
Restricted(g, t) == "restrict_sandbox_egress" \in Choice(g, t).given

(* What start-up has checked by the time it is in a phase. *)
PhasesAreEarned ==
    /\ phase = [d \in Drivers |-> phase[d]]
    /\ \A d \in Drivers :
        /\ phase[d] \notin {"new", "exited"} => Options(d) # None /\ Validate(Options(d))
        /\ phase[d] \in {"project", "architecture"} =>
                ClientBuilt(Options(d), given.url, given.fingerprint, given.pem)
        /\ phase[d] = "serving" => Admitted(given, d)

(* LXD's networks are those of the beginning, as long as it has them. *)
NetworksOnlyGo ==
    /\ DOMAIN networks = DOMAIN given.networks
    /\ \A n \in DOMAIN networks : networks[n] \in {None, given.networks[n]}

(* What a create whose state is s has found out by the time it is at a     *)
(* step: that its driver serves, where the sandbox is placed, what the ACL *)
(* is to allow, and the TLS files.                                         *)
Grounded(g, t, at) ==
    at # "idle" => Admitted(g, g.home[t]) /\ g.requests[t] # None

Placed(g, t, s, at) ==
    /\ at = "pool" => s.network = Place(g, t)
    /\ at \in {"lookup"} \cup AtAcl \cup After =>
            /\ s.endpoint.scheme = GatewayScheme(Choice(g, t))
            /\ Restricted(g, t) => Place(g, t).type = "ovn"

Aimed(g, t, s, at) ==
    /\ at \in Before => s.gateway = {}
    /\ at \in AtAcl => s.gateway # {}
    /\ at \in After /\ Restricted(g, t) => s.gateway # {}
    /\ s.gateway # {} => s.want = Rules(s.gateway, g.ranges)

Supplied(g, t, s, at) ==
    /\ \E S : s.files \in Seq(S)
    /\ at \in Before \cup AtAcl \cup {"build"} => Len(s.files) = 0
    /\ at = "tls" => GuestTls(Choice(g, t)) /\ Len(s.files) < 3
    /\ at \in {"provision", "client", "read", "create"} =>
            Len(s.files) = IF GuestTls(Choice(g, t)) THEN 3 ELSE 0

Fits(g, t, s, at) ==
    Grounded(g, t, at) /\ Placed(g, t, s, at) /\ Aimed(g, t, s, at) /\ Supplied(g, t, s, at)

(* A create that ended well stands where it was when it asked for the      *)
(* instance, and the instance is the one of its state.                     *)
At(t) == IF instances[t] # None THEN "create" ELSE task[t].pc

TasksFit ==
    \A t \in Tasks :
        /\ Fits(given, t, task[t], At(t))
        /\ instances[t] # None => task[t].pc = "done" /\ instances[t] = Instance(t)

(* A create that has passed the ACL left it right, or found it right, and  *)
(* it is so still unless others have changed it since.                     *)
Passed(t) ==
    /\ task[t].gateway # {}
    /\ At(t) \in After \/ (At(t) = "wait" /\ job[t] = "ok")

AclIsRight(t) == acl # None /\ acl.egress = task[t].want /\ acl.ingress = {}

(* A write of LXD's that is under way is that of a create which waits for  *)
(* it, or has given it up.                                                 *)
Pends(t) ==
    task[t].pc \in {"wait", "done"} /\ instances[t] = None /\ task[t].gateway # {}

AclInv ==
    /\ job = [t \in Tasks |-> job[t]]
    /\ \A t \in Tasks :
        /\ job[t] = "pending" => Pends(t)
        /\ Passed(t) => t \in changed \/ AclIsRight(t)
    /\ acl # None /\ acl.gateway # {} /\ ~ swept =>
            acl.egress = Rules(acl.gateway, given.ranges) /\ acl.ingress = {}

PromiseInv == PhasesAreEarned /\ NetworksOnlyGo /\ TasksFit /\ AclInv

-----------------------------------------------------------------------------
(* The public addresses *)

(* A set of numbers that has 0, and with every number the next one, has    *)
(* them all.                                                               *)
LEMMA Induction ==
    ASSUME NEW S, 0 \in S, \A n \in Nat : n \in S => n + 1 \in S
    PROVE  Nat \subseteq S
<1> DEFINE missing == Nat \ S
           less == OpToRel(<, Nat)
<1> SUFFICES ASSUME missing # {} PROVE FALSE OBVIOUS
<1>1. PICK n \in missing : \A m \in missing : ~ (<<m, n>> \in less)
  BY NatLessThanWellFounded, WFMin
<1>2. n # 0 /\ n - 1 \in Nat OBVIOUS
<1>3. <<n - 1, n>> \in less BY <1>2 DEF OpToRel
<1>4. n - 1 \in S BY <1>1, <1>2, <1>3
<1>5. n - 1 + 1 \in S BY <1>2, <1>4
<1> QED BY <1>5

(* The same for the numbers up to a bound. *)
LEMMA InductionUpTo ==
    ASSUME NEW bound \in Nat, NEW S, 0 \in S,
           \A n \in Nat : n < bound /\ n \in S => n + 1 \in S
    PROVE  0..bound \subseteq S
<1> DEFINE T == {n \in Nat : n <= bound => n \in S}
<1>1. 0 \in T OBVIOUS
<1>2. \A n \in Nat : n \in T => n + 1 \in T OBVIOUS
<1> HIDE DEF T
<1>3. Nat \subseteq T BY <1>1, <1>2, Induction
<1> QED BY <1>3 DEF T

(* A bounded set of numbers that is not empty has a greatest one. *)
LEMMA MaxExists ==
    ASSUME NEW bound \in Nat, NEW S, S \subseteq 0..bound, S # {}
    PROVE  Max(S) \in S
<1> DEFINE T == {n \in Nat : (\E x \in S : x >= bound - n) => \E x \in S : \A y \in S : x >= y}
<1>1. 0 \in T OBVIOUS
<1>2. ASSUME NEW n \in Nat, n < bound, n \in T PROVE n + 1 \in T
  <2> SUFFICES ASSUME NEW x \in S, x >= bound - (n + 1), ~ \E z \in S : z >= bound - n
               PROVE  \A y \in S : x >= y
    BY <1>2
  <2> QED BY <1>2
<1> HIDE DEF T
<1>3. 0..bound \subseteq T BY <1>1, <1>2, InductionUpTo
<1>4. bound \in T BY <1>3
<1>5. \A x \in S : x >= bound - bound OBVIOUS
<1>6. \E x \in S : \A y \in S : x >= y BY <1>4, <1>5 DEF T
<1> QED BY <1>6 DEF Max

-----------------------------------------------------------------------------
(* The recursive definitions define what they say: a function that is      *)
(* given by its value at 0 and by a step exists.                           *)
LEMMA SizeDefined ==
    /\ Size[0] = 1
    /\ \A k \in 0..Width : k # 0 => Size[k] = 2 * Size[k - 1]
<1> DEFINE Is(f, n) == f = [k \in 0..n |-> IF k = 0 THEN 1 ELSE 2 * f[k - 1]]
           S == {n \in Nat : \E f : Is(f, n)}
<1>1. 0 \in S
  <2> DEFINE f == [k \in 0..0 |-> 1]
  <2>1. \A k \in 0..0 : k = 0 OBVIOUS
  <2>2. Is(f, 0) BY <2>1
  <2> QED BY <2>2
<1>2. ASSUME NEW n \in Nat, n \in S PROVE n + 1 \in S
  <2>1. PICK f : Is(f, n) BY <1>2
  <2> DEFINE g == [k \in 0..(n + 1) |-> IF k = n + 1 THEN 2 * f[n] ELSE f[k]]
  <2>2. \A k \in 0..n : f[k] = IF k = 0 THEN 1 ELSE 2 * f[k - 1] BY <2>1
  <2>3. ASSUME NEW k \in 0..(n + 1) PROVE g[k] = IF k = 0 THEN 1 ELSE 2 * g[k - 1]
    <3>1. CASE k = n + 1 BY <3>1
    <3>2. CASE k # n + 1
      <4>1. k \in 0..n BY <3>2
      <4>2. k # 0 => k - 1 \in 0..(n + 1) /\ k - 1 # n + 1 BY <4>1
      <4> QED BY <2>2, <4>1, <4>2
    <3> QED BY <3>1, <3>2
  <2>4. Is(g, n + 1) BY <2>3
  <2> HIDE DEF Is, g
  <2> QED BY <2>4
<1> HIDE DEF S
<1>3. Nat \subseteq S BY <1>1, <1>2, Induction
<1>4. \E f : Is(f, Width) BY <1>3, WidthAssumption DEF S
<1>5. Size = CHOOSE f : Is(f, Width) BY DEF Size
<1>6. Is(Size, Width) BY <1>4, <1>5
<1>7. \A k \in 0..Width : Size[k] = IF k = 0 THEN 1 ELSE 2 * Size[k - 1] BY <1>6
<1> QED BY <1>7, WidthAssumption

LEMMA SizeTyped == \A k \in 0..Width : Size[k] \in Nat \ {0}
<1> DEFINE S == {k \in Nat : k <= Width => Size[k] \in Nat \ {0}}
<1>1. 0 \in S BY SizeDefined
<1>2. ASSUME NEW n \in Nat, n \in S PROVE n + 1 \in S
  <2> SUFFICES ASSUME n + 1 <= Width PROVE Size[n + 1] \in Nat \ {0} OBVIOUS
  <2>1. n + 1 \in 0..Width /\ n + 1 # 0 /\ n <= Width BY WidthAssumption
  <2>2. Size[n + 1] = 2 * Size[n] BY <2>1, SizeDefined
  <2>3. Size[n] \in Nat \ {0} BY <1>2, <2>1
  <2> QED BY <2>2, <2>3
<1> HIDE DEF S
<1>3. Nat \subseteq S BY <1>1, <1>2, Induction
<1> QED BY <1>3, WidthAssumption DEF S

-----------------------------------------------------------------------------
(* A span is not empty. *)
IsSpan(span) == span[1] \in Nat /\ span[2] \in Nat /\ span[1] <= span[2]

IsRange(range) == range.address \in Nat /\ range.prefix \in 0..Width

Within(a, span) == span[1] <= a /\ a <= span[2]

(* What is left of a span has the addresses that the range has not. *)
LEMMA SubtractIsDifference ==
    ASSUME NEW span, IsSpan(span), NEW range, IsRange(range)
    PROVE  /\ \A s \in Subtract(span, range) : IsSpan(s)
           /\ \A a \in Nat : (\E s \in Subtract(span, range) : Within(a, s))
                    <=> Within(a, span) /\ a \notin Members(range)
<1> DEFINE lo == span[1]
           hi == span[2]
           first == Start(range)
           end == End(range)
           below == <<lo, first - 1>>
           above == <<end + 1, hi>>
<1>1. lo \in Nat /\ hi \in Nat BY DEF IsSpan
<1>2. first \in Nat /\ end \in Nat /\ first <= end
  <2>1. Width - range.prefix \in 0..Width BY WidthAssumption DEF IsRange
  <2>2. Size[Width - range.prefix] \in Nat \ {0} BY <2>1, SizeTyped
  <2> QED BY <2>2 DEF Start, End, IsRange
<1>3. \A a \in Nat : a \in Members(range) <=> first <= a /\ a <= end
  BY <1>2 DEF Members
<1>4. /\ below[1] = lo /\ below[2] = first - 1 /\ above[1] = end + 1 /\ above[2] = hi
  OBVIOUS
<1>5. CASE end < lo \/ first > hi
  <2>1. Subtract(span, range) = {span} BY <1>5 DEF Subtract
  <2> QED BY <1>1, <1>2, <1>3, <1>5, <2>1 DEF Within
<1>6. CASE ~ (end < lo \/ first > hi)
  <2>1. Subtract(span, range) = (IF first > lo THEN {below} ELSE {}) \cup (IF end < hi THEN {above} ELSE {})
    BY <1>6 DEF Subtract
  <2>2. first > lo => IsSpan(below) BY <1>1, <1>2, <1>4 DEF IsSpan
  <2>3. end < hi => IsSpan(above) BY <1>1, <1>2, <1>4 DEF IsSpan
  <2> HIDE DEF lo, hi, first, end, below, above
  <2>4. \A s \in Subtract(span, range) : IsSpan(s) BY <2>1, <2>2, <2>3
  <2>5. ASSUME NEW a \in Nat
        PROVE  (\E s \in Subtract(span, range) : Within(a, s))
                    <=> Within(a, span) /\ a \notin Members(range)
    <3>1. Within(a, below) <=> lo <= a /\ a < first BY <1>1, <1>2, <1>4 DEF Within
    <3>2. Within(a, above) <=> end < a /\ a <= hi BY <1>1, <1>2, <1>4 DEF Within
    <3>3. Within(a, span) <=> lo <= a /\ a <= hi BY DEF Within, lo, hi
    <3>4. (\E s \in Subtract(span, range) : Within(a, s))
            <=> (first > lo /\ Within(a, below)) \/ (end < hi /\ Within(a, above))
      BY <2>1
    <3> QED BY <1>1, <1>2, <1>3, <1>6, <3>1, <3>2, <3>3, <3>4
  <2> QED BY <2>4, <2>5
<1> QED BY <1>5, <1>6

(* What the ranges leave, one after the other: the recursion of            *)
(* PublicSpans, which is well-founded.                                     *)
SpansBy(left, ranges) ==
    /\ left[0] = {<<0, Size[Width] - 1>>}
    /\ \A n \in 1..Len(ranges) : left[n] = UNION {Subtract(s, ranges[n]) : s \in left[n - 1]}

LEMMA SpansDefined ==
    ASSUME NEW ranges, Len(ranges) \in Nat
    PROVE  \E left : PublicSpans(ranges) = left[Len(ranges)] /\ SpansBy(left, ranges)
<1> DEFINE all == {<<0, Size[Width] - 1>>}
           less(spans, n) == UNION {Subtract(s, ranges[n]) : s \in spans}
           Is(f, n) == f = [k \in 0..n |-> IF k = 0 THEN all ELSE less(f[k - 1], k)]
           S == {n \in Nat : \E f : Is(f, n)}
           left == CHOOSE f : Is(f, Len(ranges))
<1>1. PublicSpans(ranges) = left[Len(ranges)] BY DEF PublicSpans
<1> HIDE DEF all, less
<1>2. 0 \in S
  <2> DEFINE f == [k \in 0..0 |-> all]
  <2>1. \A k \in 0..0 : k = 0 OBVIOUS
  <2>2. Is(f, 0) BY <2>1
  <2> QED BY <2>2
<1>3. ASSUME NEW n \in Nat, n \in S PROVE n + 1 \in S
  <2>1. PICK f : Is(f, n) BY <1>3
  <2> DEFINE g == [k \in 0..(n + 1) |-> IF k = n + 1 THEN less(f[n], n + 1) ELSE f[k]]
  <2>2. \A k \in 0..n : f[k] = IF k = 0 THEN all ELSE less(f[k - 1], k) BY <2>1
  <2>3. ASSUME NEW k \in 0..(n + 1) PROVE g[k] = IF k = 0 THEN all ELSE less(g[k - 1], k)
    <3>1. CASE k = n + 1
      <4>1. k # 0 /\ k - 1 = n /\ n \in 0..(n + 1) /\ n # n + 1 BY <3>1
      <4>2. g[n] = f[n] BY <4>1
      <4> QED BY <3>1, <4>1, <4>2
    <3>2. CASE k # n + 1
      <4>1. k \in 0..n BY <3>2
      <4>2. k # 0 => k - 1 \in 0..(n + 1) /\ k - 1 # n + 1 BY <4>1
      <4> QED BY <2>2, <4>1, <4>2
    <3> QED BY <3>1, <3>2
  <2>4. Is(g, n + 1) BY <2>3
  <2> HIDE DEF Is, g
  <2> QED BY <2>4
<1> HIDE DEF S
<1>4. Nat \subseteq S BY <1>2, <1>3, Induction
<1>5. \E f : Is(f, Len(ranges)) BY <1>4 DEF S
<1>6. Is(left, Len(ranges)) BY <1>5
<1> HIDE DEF left
<1>7. \A k \in 0..Len(ranges) : left[k] = IF k = 0 THEN all ELSE less(left[k - 1], k) BY <1>6
<1>8. left[0] = all BY <1>7
<1>9. \A n \in 1..Len(ranges) : left[n] = less(left[n - 1], n) BY <1>7
<1>10. SpansBy(left, ranges) BY <1>8, <1>9 DEF all, less, SpansBy
<1> QED BY <1>1, <1>10

(* The spans that remain have the addresses that no range has. *)
LEMMA SpansAreComplement ==
    ASSUME NEW ranges, ranges \in Seq([address : Nat, prefix : 0..Width])
    PROVE  /\ \A s \in PublicSpans(ranges) : IsSpan(s)
           /\ \A a \in Nat : (\E s \in PublicSpans(ranges) : Within(a, s))
                    <=> a \in Addresses /\ ~ \E i \in DOMAIN ranges : a \in Members(ranges[i])
<1> DEFINE N == Len(ranges)
<1>1. N \in Nat /\ DOMAIN ranges = 1..N OBVIOUS
<1>2. ASSUME NEW i \in 1..N PROVE IsRange(ranges[i])
  <2> DEFINE R == [address : Nat, prefix : 0..Width]
  <2>1. \A r \in R : IsRange(r) BY DEF IsRange
  <2>2. ranges \in Seq(R) OBVIOUS
  <2> HIDE DEF R
  <2>3. ranges[i] \in R BY <2>2
  <2> QED BY <2>1, <2>3
<1>3. PICK left : PublicSpans(ranges) = left[N] /\ SpansBy(left, ranges)
  BY <1>1, SpansDefined
<1> DEFINE Right(n) ==
             /\ \A s \in left[n] : IsSpan(s)
             /\ \A a \in Nat : (\E s \in left[n] : Within(a, s))
                    <=> a \in Addresses /\ ~ \E i \in 1..n : a \in Members(ranges[i])
           S == {n \in Nat : Right(n)}
<1>4. 0 \in S
  <2> DEFINE all == <<0, Size[Width] - 1>>
  <2>1. Size[Width] \in Nat \ {0} BY SizeTyped, WidthAssumption
  <2>2. IsSpan(all) BY <2>1 DEF IsSpan
  <2>3. \A a \in Nat : Within(a, all) <=> a \in Addresses BY <2>1 DEF Within, Addresses
  <2>4. \A i : i \notin 1..0 OBVIOUS
  <2> HIDE DEF all
  <2>5. left[0] = {all} BY <1>3 DEF all, SpansBy
  <2> QED BY <2>2, <2>3, <2>4, <2>5
<1>5. ASSUME NEW n \in Nat, n < N, n \in S PROVE n + 1 \in S
  <2> DEFINE range == ranges[n + 1]
  <2>1. n + 1 \in 1..N /\ (n + 1) - 1 = n BY <1>1, <1>5
  <2>2. left[n + 1] = UNION {Subtract(s, range) : s \in left[n]} BY <1>3, <2>1 DEF SpansBy
  <2>3. IsRange(range) BY <1>2, <2>1
  <2>4. Right(n) BY <1>5
  <2> HIDE DEF range
  <2>5. \A s \in left[n + 1] : IsSpan(s)
    BY <2>2, <2>3, <2>4, SubtractIsDifference
  <2>6. ASSUME NEW a \in Nat
        PROVE  (\E s \in left[n + 1] : Within(a, s))
                 <=> a \in Addresses /\ ~ \E i \in 1..(n + 1) : a \in Members(ranges[i])
    <3>1. (\E s \in left[n + 1] : Within(a, s))
            <=> \E s \in left[n] : Within(a, s) /\ a \notin Members(range)
      <4>1. \A s \in left[n] : (\E p \in Subtract(s, range) : Within(a, p))
                <=> Within(a, s) /\ a \notin Members(range)
        BY <2>3, <2>4, SubtractIsDifference
      <4>2. (\E s \in left[n + 1] : Within(a, s))
                <=> \E s \in left[n] : \E p \in Subtract(s, range) : Within(a, p)
        BY <2>2
      <4> QED BY <4>1, <4>2
    <3>2. (\E s \in left[n] : Within(a, s))
            <=> a \in Addresses /\ ~ \E i \in 1..n : a \in Members(ranges[i])
      BY <2>4
    <3>3. (\E i \in 1..(n + 1) : a \in Members(ranges[i]))
            <=> (\E i \in 1..n : a \in Members(ranges[i])) \/ a \in Members(range)
      <4>1. 1..(n + 1) = (1..n) \cup {n + 1} OBVIOUS
      <4> QED BY <4>1 DEF range
    <3> QED BY <3>1, <3>2, <3>3
  <2>7. Right(n + 1) BY <2>5, <2>6
  <2> QED BY <2>7
<1> HIDE DEF S
<1>6. 0..N \subseteq S BY <1>1, <1>4, <1>5, InductionUpTo
<1>7. N \in S BY <1>1, <1>6
<1>8. Right(N) BY <1>7 DEF S
<1> HIDE DEF Right, N
<1>9. /\ \A s \in left[N] : IsSpan(s)
      /\ \A a \in Nat : (\E s \in left[N] : Within(a, s))
            <=> a \in Addresses /\ ~ \E i \in 1..N : a \in Members(ranges[i])
  BY <1>8 DEF Right
<1> QED BY <1>1, <1>3, <1>9

-----------------------------------------------------------------------------
(* There is a block for every beginning: one address, if nothing larger. *)
LEMMA BlockFits ==
    ASSUME NEW first \in Nat, NEW last \in Nat, first <= last
    PROVE  LET k == BlockBits(first, last)
           IN k \in 0..Width /\ first % Size[k] = 0 /\ Size[k] <= last - first + 1
<1> DEFINE S == {k \in 0..Width : first % Size[k] = 0 /\ Size[k] <= last - first + 1}
<1>1. first % 1 = 0 /\ 1 <= last - first + 1 OBVIOUS
<1>2. 0 \in S BY <1>1, SizeDefined, WidthAssumption
<1>3. S \subseteq 0..Width /\ S # {} BY <1>2
<1>4. BlockBits(first, last) = Max(S) BY DEF BlockBits
<1> HIDE DEF S
<1>5. Max(S) \in S BY <1>3, WidthAssumption, MaxExists
<1> QED BY <1>4, <1>5 DEF S

Block(first, last) == [address |-> first, prefix |-> Width - BlockBits(first, last)]
NextStart(first, last) == first + Size[BlockBits(first, last)]

(* A block is within the span, and the next one begins where it ends. *)
LEMMA BlockStep ==
    ASSUME NEW first \in Nat, NEW last \in Nat, first <= last
    PROVE  /\ NextStart(first, last) \in (first + 1)..(last + 1)
           /\ \A a \in Nat : a \in Members(Block(first, last))
                    <=> first <= a /\ a < NextStart(first, last)
           /\ Block(first, last).prefix \in 0..Width
           /\ Block(first, last).address % Size[Width - Block(first, last).prefix] = 0
<1> DEFINE k == BlockBits(first, last)
<1>1. k \in 0..Width /\ first % Size[k] = 0 /\ Size[k] <= last - first + 1 BY BlockFits
<1>2. Size[k] \in Nat \ {0} BY <1>1, SizeTyped
<1>3. /\ Block(first, last).address = first /\ Block(first, last).prefix = Width - k
  BY DEF Block
<1>4. NextStart(first, last) = first + Size[k] BY DEF NextStart
<1> HIDE DEF k
<1>5. Width - k \in 0..Width /\ Width - (Width - k) = k BY <1>1, WidthAssumption
<1>6. NextStart(first, last) \in (first + 1)..(last + 1) BY <1>1, <1>2, <1>4
<1>7. Members(Block(first, last)) = first..(first + Size[k] - 1)
  BY <1>3, <1>5 DEF Members, Start, End
<1>8. \A a \in Nat : a \in Members(Block(first, last))
            <=> first <= a /\ a < NextStart(first, last)
  BY <1>2, <1>4, <1>7
<1> QED BY <1>1, <1>3, <1>5, <1>6, <1>8

(* The recursion of Blocks, which is well-founded as no block is empty. *)
BlocksBy(from, lo, hi) ==
    /\ from[hi + 1] = {}
    /\ \A x \in lo..hi : from[x] = {Block(x, hi)} \cup from[NextStart(x, hi)]

LEMMA BlocksDefined ==
    ASSUME NEW span, IsSpan(span)
    PROVE  \E from : Blocks(span) = from[span[1]] /\ BlocksBy(from, span[1], span[2])
<1> DEFINE lo == span[1]
           hi == span[2]
           Is(f, b) == f = [x \in b..(hi + 1) |->
                            IF x > hi THEN {} ELSE {Block(x, hi)} \cup f[NextStart(x, hi)]]
           S == {n \in Nat : \E f : Is(f, hi + 1 - n)}
           from == CHOOSE f : Is(f, lo)
<1>1. Blocks(span) = from[lo] BY DEF Blocks, Block, NextStart
<1>2. lo \in Nat /\ hi \in Nat /\ lo <= hi BY DEF IsSpan
<1> HIDE DEF lo, hi
<1>3. 0 \in S
  <2> DEFINE f == [x \in (hi + 1)..(hi + 1) |-> {}]
  <2>1. \A x \in (hi + 1)..(hi + 1) : x > hi BY <1>2
  <2>2. Is(f, hi + 1) BY <2>1
  <2>3. hi + 1 - 0 = hi + 1 BY <1>2
  <2> HIDE DEF Is, f
  <2> QED BY <2>2, <2>3
<1>4. ASSUME NEW n \in Nat, n < hi + 1 - lo, n \in S PROVE n + 1 \in S
  <2> DEFINE b == hi + 1 - n
             c == hi + 1 - (n + 1)
  <2>1. b \in Nat /\ c \in Nat /\ b = c + 1 /\ c <= hi /\ b <= hi + 1 BY <1>2, <1>4
  <2>2. PICK f : Is(f, b) BY <1>4
  <2> HIDE DEF b, c
  <2> DEFINE g == [x \in c..(hi + 1) |->
                    IF x = c THEN {Block(c, hi)} \cup f[NextStart(c, hi)] ELSE f[x]]
  <2>3. \A x \in b..(hi + 1) : f[x] = IF x > hi THEN {} ELSE {Block(x, hi)} \cup f[NextStart(x, hi)]
    BY <2>2
  <2>4. ASSUME NEW x \in c..(hi + 1)
        PROVE  g[x] = IF x > hi THEN {} ELSE {Block(x, hi)} \cup g[NextStart(x, hi)]
    <3>1. x \in Nat BY <2>1
    <3>2. x <= hi => NextStart(x, hi) \in (x + 1)..(hi + 1) BY <1>2, <3>1, BlockStep
    <3>3. x <= hi => NextStart(x, hi) \in c..(hi + 1) /\ NextStart(x, hi) # c
      BY <1>2, <2>1, <3>1, <3>2
    <3>4. x <= hi => g[NextStart(x, hi)] = f[NextStart(x, hi)] BY <3>3
    <3>5. CASE x = c
      <4>1. x <= hi /\ ~ (x > hi) BY <1>2, <2>1, <3>5
      <4>2. g[x] = {Block(x, hi)} \cup f[NextStart(x, hi)] BY <3>5
      <4>3. g[x] = {Block(x, hi)} \cup g[NextStart(x, hi)] BY <3>4, <4>1, <4>2
      <4> QED BY <4>1, <4>3
    <3>6. CASE x # c
      <4>1. x \in b..(hi + 1) BY <1>2, <2>1, <3>1, <3>6
      <4>2. g[x] = f[x] BY <3>6
      <4>3. CASE x > hi BY <2>3, <4>1, <4>2, <4>3
      <4>4. CASE ~ (x > hi)
        <5>1. x <= hi BY <1>2, <3>1, <4>4
        <5>2. f[x] = {Block(x, hi)} \cup f[NextStart(x, hi)] BY <2>3, <4>1, <4>4
        <5>3. g[x] = {Block(x, hi)} \cup g[NextStart(x, hi)] BY <3>4, <4>2, <5>1, <5>2
        <5> QED BY <4>4, <5>3
      <4> QED BY <4>3, <4>4
    <3> QED BY <3>5, <3>6
  <2>5. Is(g, c) BY <2>4
  <2> HIDE DEF Is, g
  <2> QED BY <2>5 DEF c
<1> HIDE DEF S
<1>5. hi + 1 - lo \in Nat BY <1>2
<1>6. 0..(hi + 1 - lo) \subseteq S BY <1>3, <1>4, <1>5, InductionUpTo
<1>7. hi + 1 - lo \in S BY <1>5, <1>6
<1>8. hi + 1 - (hi + 1 - lo) = lo BY <1>2
<1>9. \E f : Is(f, lo) BY <1>7, <1>8 DEF S
<1>10. Is(from, lo) BY <1>9
<1> HIDE DEF from
<1>11. \A x \in lo..(hi + 1) :
        from[x] = IF x > hi THEN {} ELSE {Block(x, hi)} \cup from[NextStart(x, hi)]
  BY <1>10
<1>12. from[hi + 1] = {}
  <2>1. hi + 1 \in lo..(hi + 1) /\ hi + 1 > hi BY <1>2
  <2> QED BY <1>11, <2>1
<1>13. ASSUME NEW x \in lo..hi PROVE from[x] = {Block(x, hi)} \cup from[NextStart(x, hi)]
  <2>1. x \in lo..(hi + 1) /\ ~ (x > hi) BY <1>2
  <2> QED BY <1>11, <2>1
<1>14. BlocksBy(from, lo, hi) BY <1>12, <1>13 DEF BlocksBy
<1> QED BY <1>1, <1>14 DEF lo, hi

IsBlock(c) == c.prefix \in 0..Width /\ c.address % Size[Width - c.prefix] = 0

(* The blocks of a span have its addresses, and are aligned. *)
LEMMA BlocksCover ==
    ASSUME NEW span, IsSpan(span)
    PROVE  /\ \A c \in Blocks(span) : IsBlock(c)
           /\ \A a \in Nat : (\E c \in Blocks(span) : a \in Members(c)) <=> Within(a, span)
<1> DEFINE lo == span[1]
           hi == span[2]
<1>1. lo \in Nat /\ hi \in Nat /\ lo <= hi BY DEF IsSpan
<1>2. PICK from : Blocks(span) = from[lo] /\ BlocksBy(from, lo, hi) BY BlocksDefined
<1>3. \A a : Within(a, span) <=> lo <= a /\ a <= hi BY DEF Within
<1> HIDE DEF lo, hi
<1> DEFINE Right(x) ==
             /\ \A c \in from[x] : IsBlock(c)
             /\ \A a \in Nat : (\E c \in from[x] : a \in Members(c)) <=> x <= a /\ a <= hi
           S == {n \in Nat : \A x \in lo..(hi + 1) : x >= hi + 1 - n => Right(x)}
<1>4. 0 \in S
  <2> SUFFICES ASSUME NEW x \in lo..(hi + 1), x >= hi + 1 - 0 PROVE Right(x) OBVIOUS
  <2>1. x = hi + 1 BY <1>1
  <2>2. from[x] = {} BY <1>2, <2>1 DEF BlocksBy
  <2> QED BY <1>1, <2>1, <2>2
<1>5. ASSUME NEW n \in Nat, n < hi + 1 - lo, n \in S PROVE n + 1 \in S
  <2> SUFFICES ASSUME NEW x \in lo..(hi + 1), x >= hi + 1 - (n + 1) PROVE Right(x) OBVIOUS
  <2>1. CASE x >= hi + 1 - n BY <1>5, <2>1
  <2>2. CASE ~ (x >= hi + 1 - n)
    <3> DEFINE y == NextStart(x, hi)
               b == Block(x, hi)
    <3>1. x \in Nat /\ x <= hi /\ x \in lo..hi BY <1>1, <2>2
    <3>2. /\ y \in (x + 1)..(hi + 1) /\ IsBlock(b)
          /\ \A a \in Nat : a \in Members(b) <=> x <= a /\ a < y
      BY <1>1, <3>1, BlockStep DEF IsBlock
    <3>3. from[x] = {b} \cup from[y] BY <1>2, <3>1 DEF BlocksBy
    <3> HIDE DEF y, b
    <3>4. y \in lo..(hi + 1) /\ y >= hi + 1 - n BY <1>1, <2>2, <3>1, <3>2
    <3>5. Right(y) BY <1>5, <3>4
    <3>6. \A c \in from[x] : IsBlock(c) BY <3>2, <3>3, <3>5
    <3>7. ASSUME NEW a \in Nat
          PROVE  (\E c \in from[x] : a \in Members(c)) <=> x <= a /\ a <= hi
      <4>1. (\E c \in from[x] : a \in Members(c))
              <=> a \in Members(b) \/ \E c \in from[y] : a \in Members(c)
        BY <3>3
      <4>2. (\E c \in from[y] : a \in Members(c)) <=> y <= a /\ a <= hi BY <3>5
      <4> QED BY <1>1, <3>1, <3>2, <4>1, <4>2
    <3> QED BY <3>6, <3>7
  <2> QED BY <2>1, <2>2
<1> HIDE DEF S
<1>6. hi + 1 - lo \in Nat BY <1>1
<1>7. 0..(hi + 1 - lo) \subseteq S BY <1>4, <1>5, <1>6, InductionUpTo
<1>8. hi + 1 - lo \in S BY <1>6, <1>7
<1>9. lo \in lo..(hi + 1) /\ lo >= hi + 1 - (hi + 1 - lo) BY <1>1
<1>10. Right(lo) BY <1>8, <1>9 DEF S
<1>11. /\ \A c \in from[lo] : IsBlock(c)
       /\ \A a \in Nat : (\E c \in from[lo] : a \in Members(c)) <=> lo <= a /\ a <= hi
  BY <1>10
<1> QED BY <1>2, <1>3, <1>11

(* The blocks of public_ipv4_cidrs have the addresses that no non-public   *)
(* range has, and no other; each begins on a multiple of its size, as a    *)
(* CIDR block must.  This holds for every width of an address and every    *)
(* list of ranges, whether they overlap, touch, repeat or reach past the   *)
(* last address (public_ipv4_cidrs).                                       *)
THEOREM CidrsAreComplement ==
    ASSUME NEW ranges \in Seq([address : Nat, prefix : 0..Width])
    PROVE  /\ \A c \in PublicCidrs(ranges) : IsBlock(c)
           /\ \A a \in Nat : (\E c \in PublicCidrs(ranges) : a \in Members(c))
                    <=> a \in Addresses /\ ~ \E r \in ToSet(ranges) : a \in Members(r)
<1>1. /\ \A s \in PublicSpans(ranges) : IsSpan(s)
      /\ \A a \in Nat : (\E s \in PublicSpans(ranges) : Within(a, s))
            <=> a \in Addresses /\ ~ \E i \in DOMAIN ranges : a \in Members(ranges[i])
  BY SpansAreComplement
<1>2. PublicCidrs(ranges) = UNION {Blocks(s) : s \in PublicSpans(ranges)} BY DEF PublicCidrs
<1>3. \A c \in PublicCidrs(ranges) : IsBlock(c) BY <1>1, <1>2, BlocksCover
<1>4. ASSUME NEW a \in Nat
      PROVE  (\E c \in PublicCidrs(ranges) : a \in Members(c))
                <=> a \in Addresses /\ ~ \E r \in ToSet(ranges) : a \in Members(r)
  <2>1. \A s \in PublicSpans(ranges) : (\E c \in Blocks(s) : a \in Members(c)) <=> Within(a, s)
    BY <1>1, BlocksCover
  <2>2. (\E c \in PublicCidrs(ranges) : a \in Members(c))
            <=> \E s \in PublicSpans(ranges) : \E c \in Blocks(s) : a \in Members(c)
    BY <1>2
  <2>3. (\E r \in ToSet(ranges) : a \in Members(r)) <=> \E i \in DOMAIN ranges : a \in Members(ranges[i])
    BY DEF ToSet
  <2> QED BY <1>1, <2>1, <2>2, <2>3
<1> QED BY <1>3, <1>4

(* So the rules allow what was promised: one rule for each port reaches    *)
(* the same as one for each address.                                       *)
LEMMA ReachableIsPromised ==
    ASSUME NEW gateway, NEW ranges \in Seq([address : Nat, prefix : 0..Width])
    PROVE  Reachable(Rules(gateway, ranges)) = Promised(gateway, ranges)
<1> DEFINE public == UNION {Members(c) : c \in PublicCidrs(ranges)}
           ports == {b.port : b \in gateway}
           rule(p) == [to |-> {b.ip : b \in {c \in gateway : c.port = p}}, port |-> p]
           last == [to |-> public, port |-> AnyPort]
           rules == Rules(gateway, ranges)
           of(a) == {r.port : r \in {s \in rules : a \in s.to}}
           meant(a) == {b.port : b \in {c \in gateway : c.ip = a}}
           rest(a) == IF \E r \in ToSet(ranges) : a \in Members(r) THEN {} ELSE {AnyPort}
<1>1. rules = {rule(p) : p \in ports} \cup {last}
  BY DEF Rules
<1>2. ASSUME NEW a \in Addresses PROVE of(a) = meant(a) \cup rest(a)
  <2>1. a \in public <=> ~ \E r \in ToSet(ranges) : a \in Members(r)
    <3>1. a \in Nat BY SizeTyped, WidthAssumption DEF Addresses
    <3> QED BY <3>1, CidrsAreComplement
  <2> HIDE DEF public, rules
  <2>2. \A p : a \in rule(p).to <=> \E b \in gateway : b.port = p /\ b.ip = a
    OBVIOUS
  <2>3. ASSUME NEW x \in of(a) PROVE x \in meant(a) \cup rest(a)
    <3>1. PICK r \in rules : a \in r.to /\ x = r.port OBVIOUS
    <3>2. CASE r = last BY <2>1, <3>1, <3>2
    <3>3. CASE r # last
      <4>1. PICK p \in ports : r = rule(p) BY <1>1, <3>3
      <4>2. x = p BY <3>1, <4>1
      <4>3. PICK b \in gateway : b.port = p /\ b.ip = a BY <2>2, <3>1, <4>1
      <4> QED BY <4>2, <4>3
    <3> QED BY <3>2, <3>3
  <2>4. ASSUME NEW x \in meant(a) PROVE x \in of(a)
    <3>1. PICK b \in gateway : b.ip = a /\ x = b.port OBVIOUS
    <3>2. rule(x) \in rules BY <1>1, <3>1
    <3>3. a \in rule(x).to /\ rule(x).port = x BY <2>2, <3>1
    <3> HIDE DEF rule
    <3> QED BY <3>2, <3>3
  <2>5. ASSUME NEW x \in rest(a) PROVE x \in of(a)
    <3>1. a \in last.to /\ last.port = x /\ last \in rules BY <1>1, <2>1, <2>5
    <3> HIDE DEF last
    <3> QED BY <3>1
  <2> HIDE DEF of, meant, rest
  <2> QED BY <2>3, <2>4, <2>5
<1> HIDE DEF of, meant, rest
<1>3. Reachable(rules) = [a \in Addresses |-> of(a)] BY DEF Reachable, of
<1>4. Promised(gateway, ranges) = [a \in Addresses |-> meant(a) \cup rest(a)]
  BY DEF Promised, meant, rest
<1> QED BY <1>2, <1>3, <1>4

-----------------------------------------------------------------------------
(* Whatever does not concern the creates leaves them as they are. *)
LEMMA TasksStayFit ==
    ASSUME TasksFit, UNCHANGED <<given, task, instances>>
    PROVE  TasksFit'
<1> SUFFICES ASSUME NEW t \in Tasks
             PROVE  /\ Fits(given', t, task'[t], At(t)')
                    /\ instances'[t] # None => task'[t].pc = "done" /\ instances'[t] = Instance(t)'
  BY DEF TasksFit
<1>1. /\ Fits(given, t, task[t], At(t))
      /\ instances[t] # None => task[t].pc = "done" /\ instances[t] = Instance(t)
  BY DEF TasksFit
<1>2. At(t)' = At(t) BY DEF At
<1>3. Instance(t)' = Instance(t) BY DEF Instance, Mine, Options, Request
<1> QED BY <1>1, <1>2, <1>3

(* A create's step that asks for no instance keeps all creates fit if the  *)
(* state it goes to is.                                                    *)
LEMMA StepStaysFit ==
    ASSUME TasksFormed, TasksFit, NEW t \in Tasks, NEW state, Formed(state), Step(t, state),
           task[t].pc # "done", instances' = instances, Fits(given, t, state, state.pc)
    PROVE  TasksFit'
<1>1. /\ task'[t] = state
      /\ \A u \in Tasks : u # t => task'[u] = task[u]
  BY StepOfOne
<1>2. given' = given BY DEF Step, start
<1>3. instances[t] = None BY DEF TasksFit
<1> SUFFICES ASSUME NEW u \in Tasks
             PROVE  /\ Fits(given', u, task'[u], At(u)')
                    /\ instances'[u] # None => task'[u].pc = "done" /\ instances'[u] = Instance(u)'
  BY DEF TasksFit
<1>4. CASE u = t
  <2>1. At(u)' = state.pc BY <1>1, <1>3, <1>4 DEF At
  <2> QED BY <1>1, <1>2, <1>3, <1>4, <2>1
<1>5. CASE u # t
  <2>1. /\ Fits(given, u, task[u], At(u))
        /\ instances[u] # None => task[u].pc = "done" /\ instances[u] = Instance(u)
    BY DEF TasksFit
  <2>2. At(u)' = At(u) BY <1>1, <1>5 DEF At
  <2>3. Instance(u)' = Instance(u) BY <1>1, <1>2, <1>5 DEF Instance, Mine, Options, Request
  <2> QED BY <1>1, <1>2, <1>5, <2>1, <2>2, <2>3
<1> QED BY <1>4, <1>5

(* A step that leaves the ACL alone keeps its promises if it gets past the *)
(* ACL only where that is right.                                           *)
LEMMA StepKeepsAcl ==
    ASSUME TasksFormed, TasksFit, AclInv, NEW t \in Tasks, NEW state, Formed(state),
           Step(t, state), task[t].pc # "done", UNCHANGED <<acl, job, swept, instances>>,
           \A u \in Tasks : u # t => (u \in changed <=> u \in changed'),
           job[t] = "pending" => state.pc = "done" /\ state.gateway # {}, state.pc # "wait",
           state.gateway # {} /\ state.pc \in After =>
                t \in changed' \/ (acl # None /\ acl.egress = state.want /\ acl.ingress = {})
    PROVE  AclInv'
<1>1. /\ task'[t] = state
      /\ \A u \in Tasks : u # t => task'[u] = task[u]
  BY StepOfOne
<1>2. given' = given BY DEF Step, start
<1>3. instances[t] = None BY DEF TasksFit
<1>4. ASSUME NEW u \in Tasks, Passed(u)'
      PROVE  (u \in changed \/ AclIsRight(u))'
  <2>1. CASE u = t
    <3>1. state.gateway # {} /\ state.pc \in After
      BY <1>1, <1>3, <1>4, <2>1 DEF Passed, At
    <3> QED BY <1>1, <2>1, <3>1 DEF AclIsRight
  <2>2. CASE u # t
    <3>1. Passed(u) BY <1>1, <1>4, <2>2 DEF Passed, At
    <3>2. u \in changed \/ AclIsRight(u) BY <3>1 DEF AclInv
    <3> QED BY <1>1, <2>2, <3>2 DEF AclIsRight
  <2> QED BY <2>1, <2>2
<1> QED BY <1>1, <1>2, <1>3, <1>4 DEF AclInv, Pends

(* The steps of a create that write nothing, but may find the ACL right. *)
LEMMA ReadKeepsPromises ==
    ASSUME TasksFormed, PromiseInv, NEW t \in Tasks, NEW state, Formed(state),
           Step(t, state), task[t].pc # "done", UNCHANGED <<networks, acl, job, swept, instances>>,
           \A u \in Tasks : u # t => (u \in changed <=> u \in changed'),
           job[t] = "pending" => state.pc = "done" /\ state.gateway # {}, state.pc # "wait",
           state.gateway # {} /\ state.pc \in After =>
                t \in changed' \/ (acl # None /\ acl.egress = state.want /\ acl.ingress = {}),
           Fits(given, t, state, state.pc)
    PROVE  PromiseInv'
<1>1. UNCHANGED <<given, phase>> BY DEF Step, start
<1>2. TasksFit /\ AclInv BY DEF PromiseInv
<1>3. TasksFit' BY <1>2, StepStaysFit
<1>4. AclInv' BY <1>2, StepKeepsAcl
<1>5. PhasesAreEarned' /\ NetworksOnlyGo'
  BY <1>1 DEF PromiseInv, PhasesAreEarned, NetworksOnlyGo, Options
<1> QED BY <1>3, <1>4, <1>5 DEF PromiseInv

(* The steps of a create that ask LXD for nothing. *)
LEMMA StepKeepsPromises ==
    ASSUME TasksFormed, PromiseInv, NEW t \in Tasks, NEW state, Formed(state),
           Step(t, state), task[t].pc # "done", UNCHANGED <<lxd, instances>>,
           job[t] = "pending" => state.pc = "done" /\ state.gateway # {}, state.pc # "wait",
           state.gateway # {} /\ state.pc \in After => Passed(t) /\ state.want = task[t].want,
           Fits(given, t, state, state.pc)
    PROVE  PromiseInv'
<1>1. UNCHANGED <<networks, acl, job, swept, changed>> BY DEF lxd
<1>2. Passed(t) => t \in changed \/ AclIsRight(t) BY DEF PromiseInv, AclInv
<1>3. state.gateway # {} /\ state.pc \in After =>
        t \in changed' \/ (acl # None /\ acl.egress = state.want /\ acl.ingress = {})
  BY <1>1, <1>2 DEF AclIsRight
<1> QED BY <1>1, <1>3, ReadKeepsPromises

(* What a create has found out does not depend on where it is, on its DHCP *)
(* client and on its answer.                                               *)
LEMMA FitsByFields ==
    ASSUME NEW g, NEW t, NEW s, NEW r, NEW at, Fits(g, t, s, at),
           r.network = s.network, r.endpoint = s.endpoint, r.gateway = s.gateway,
           r.want = s.want, r.files = s.files
    PROVE  Fits(g, t, r, at)
BY DEF Fits, Placed, Aimed, Supplied

LEMMA PassedAfter ==
    ASSUME TasksFit, NEW t \in Tasks, task[t].pc \in After, task[t].gateway # {}
    PROVE  Passed(t)
<1>1. task[t].pc # "done" BY DEF After
<1>2. instances[t] = None BY <1>1 DEF TasksFit
<1> QED BY <1>2 DEF Passed, At

(* At a step before its end, what is known of a create. *)
LEMMA FitsNow ==
    ASSUME PromiseInv, NEW t \in Tasks, task[t].pc # "done"
    PROVE  Fits(given, t, task[t], task[t].pc) /\ instances[t] = None
<1>1. TasksFit BY DEF PromiseInv
<1>2. instances[t] = None BY <1>1 DEF TasksFit
<1> QED BY <1>1, <1>2 DEF TasksFit, At

(* To go on. *)
LEMMA GoKeepsPromises ==
    ASSUME TasksFormed, PromiseInv, NEW t \in Tasks, NEW pc, Go(t, pc), pc # "wait",
           task[t].pc # "done", UNCHANGED <<lxd, instances>>, job[t] # "pending",
           task[t].gateway # {} /\ pc \in After => Passed(t),
           Fits(given, t, task[t], pc)
    PROVE  PromiseInv'
<1> DEFINE state == [task[t] EXCEPT !.pc = pc]
<1>1. Formed(task[t]) BY DEF TasksFormed
<1>2. /\ Formed(state) /\ state.pc = pc
      /\ state.network = task[t].network /\ state.endpoint = task[t].endpoint
      /\ state.gateway = task[t].gateway /\ state.want = task[t].want /\ state.files = task[t].files
  BY <1>1 DEF Formed, TaskFields
<1>3. Step(t, state) BY DEF Go
<1> HIDE DEF state
<1>4. Fits(given, t, state, pc) BY <1>2, FitsByFields
<1> QED BY <1>2, <1>3, <1>4, StepKeepsPromises

(* To end without an instance. *)
LEMMA AnswerKeepsPromises ==
    ASSUME TasksFormed, PromiseInv, NEW t \in Tasks, NEW answer, Answer(t, answer),
           task[t].pc # "done", UNCHANGED <<lxd, instances>>,
           job[t] = "pending" => task[t].gateway # {},
           Grounded(given, t, "done")
    PROVE  PromiseInv'
<1> DEFINE state == [task[t] EXCEPT !.pc = "done", !.answer = answer]
<1>1. Formed(task[t]) BY DEF TasksFormed
<1>2. /\ Formed(state) /\ state.pc = "done"
      /\ state.network = task[t].network /\ state.endpoint = task[t].endpoint
      /\ state.gateway = task[t].gateway /\ state.want = task[t].want /\ state.files = task[t].files
  BY <1>1 DEF Formed, TaskFields
<1>3. Step(t, state) BY DEF Answer
<1> HIDE DEF state
<1>4. Fits(given, t, task[t], "done")
  BY FitsNow DEF Fits, Placed, Aimed, Supplied, Before, AtAcl, After
<1>5. Fits(given, t, state, "done") BY <1>2, <1>4, FitsByFields
<1> QED BY <1>2, <1>3, <1>5, StepKeepsPromises DEF After

-----------------------------------------------------------------------------
LEMMA ReceiveKeepsPromises ==
    ASSUME TasksFormed, PromiseInv, NEW t \in Tasks, Receive(t)
    PROVE  PromiseInv'
<1>1. /\ task[t].pc = "idle" /\ phase[given.home[t]] = "serving" /\ Request(t) # None
      /\ UNCHANGED <<lxd, instances>>
      /\ Go(t, "network") \/ Answer(t, "refused")
  BY DEF Receive
<1>2. given.home[t] \in Drivers
  BY ScenariosAssumption DEF TasksFormed
<1>3. Admitted(given, given.home[t]) /\ given.requests[t] # None
  BY <1>1, <1>2 DEF PromiseInv, PhasesAreEarned, Request
<1>4. job[t] # "pending" BY <1>1 DEF PromiseInv, AclInv, Pends
<1>5. Fits(given, t, task[t], "idle") BY <1>1, FitsNow
<1>6. Fits(given, t, task[t], "network")
  BY <1>3, <1>5 DEF Fits, Grounded, Placed, Aimed, Supplied, Before, AtAcl, After
<1>7. CASE Go(t, "network") BY <1>1, <1>4, <1>6, <1>7, GoKeepsPromises DEF After
<1>8. CASE Answer(t, "refused") BY <1>1, <1>3, <1>4, <1>8, AnswerKeepsPromises DEF Grounded
<1> QED BY <1>1, <1>7, <1>8

(* LXD knows a network as it was at first, or no longer. *)
LEMMA ReadNetworkKeepsPromises ==
    ASSUME TasksFormed, PromiseInv, NEW t \in Tasks, ReadNetwork(t)
    PROVE  PromiseInv'
<1> DEFINE n == Placement(Request(t), Mine(t)).network
           state == [task[t] EXCEPT !.pc = "pool", !.network = networks[n]]
<1>1. /\ task[t].pc = "network"
      /\ UNCHANGED <<lxd, instances>>
      /\ \/ networks[n] # None /\ Step(t, state)
         \/ Answer(t, "refused") \/ Answer(t, "failed")
  BY DEF ReadNetwork
<1>2. job[t] # "pending" BY <1>1 DEF PromiseInv, AclInv, Pends
<1>3. Fits(given, t, task[t], "network") BY <1>1, FitsNow
<1>4. Admitted(given, given.home[t]) /\ given.requests[t] # None
  BY <1>3 DEF Fits, Grounded
<1>5. CASE networks[n] # None /\ Step(t, state)
  <2>1. Choice(given, t) # None BY <1>4 DEF Admitted, Choice
  <2>2. Placement(given.requests[t], Choice(given, t)).network \in DOMAIN given.networks
    BY <1>4, <2>1, ScenariosAssumption DEF TasksFormed, Choice
  <2>3. n = Placement(given.requests[t], Choice(given, t)).network
    BY DEF Request, Mine, Options, Choice
  <2>4. networks[n] = Place(given, t)
    BY <1>5, <2>2, <2>3 DEF PromiseInv, NetworksOnlyGo, Place
  <2>5. Formed(task[t]) BY DEF TasksFormed
  <2> HIDE DEF n
  <2>6. /\ Formed(state) /\ state.pc = "pool" /\ state.network = Place(given, t)
        /\ state.gateway = task[t].gateway /\ state.want = task[t].want /\ state.files = task[t].files
    BY <2>4, <2>5 DEF Formed, TaskFields
  <2> HIDE DEF state
  <2>7. Fits(given, t, state, "pool")
    BY <1>3, <1>4, <2>6 DEF Fits, Grounded, Placed, Aimed, Supplied, Before, AtAcl, After
  <2> QED BY <1>1, <1>2, <1>5, <2>6, <2>7, StepKeepsPromises DEF After
<1>6. CASE Answer(t, "refused") \/ Answer(t, "failed")
  BY <1>1, <1>2, <1>4, <1>6, AnswerKeepsPromises DEF Grounded
<1> QED BY <1>1, <1>5, <1>6

(* The endpoint has the scheme of the options, whether it was given or     *)
(* derived from the network.                                               *)
LEMMA EndpointHasScheme ==
    ASSUME NEW o, NEW network, Validate(o), ResolveGatewayEndpoint(o, network) # None
    PROVE  ResolveGatewayEndpoint(o, network).scheme = GatewayScheme(o)
BY DEF ResolveGatewayEndpoint, Validate

(* A create that is to be confined goes on only with a network of OVN, and *)
(* past the ACL only with addresses for it.                                *)
LEMMA ReadPoolKeepsPromises ==
    ASSUME TasksFormed, PromiseInv, NEW t \in Tasks, ReadPool(t)
    PROVE  PromiseInv'
<1> DEFINE o == Choice(given, t)
           endpoint == ResolveGatewayEndpoint(o, task[t].network)
           ready == [task[t] EXCEPT !.endpoint = endpoint]
           built == [ready EXCEPT !.pc = "build"]
           looked == [ready EXCEPT !.pc = "lookup"]
           gateway == {[ip |-> endpoint.host.ip, port |-> Port(endpoint)]}
           wanted == Wanting(ready, gateway)
           fit == endpoint # None /\ (Restricted(given, t) => task[t].network.type = "ovn")
<1>1. Mine(t) = o BY DEF Mine, Options, Choice
<1>2. /\ task[t].pc = "pool"
      /\ UNCHANGED <<lxd, instances>>
      /\ \/ Answer(t, "refused") \/ Answer(t, "failed")
         \/ fit /\ ~ Restricted(given, t) /\ Step(t, built)
         \/ fit /\ Restricted(given, t) /\ Step(t, looked)
         \/ fit /\ Restricted(given, t) /\ Step(t, wanted)
  BY <1>1 DEF ReadPool, Restricted
<1>3. job[t] # "pending" BY <1>2 DEF PromiseInv, AclInv, Pends
<1>4. Fits(given, t, task[t], "pool") BY <1>2, FitsNow
<1>5. Admitted(given, given.home[t]) /\ given.requests[t] # None
  BY <1>4 DEF Fits, Grounded
<1>6. CASE Answer(t, "refused") \/ Answer(t, "failed")
  BY <1>2, <1>3, <1>5, <1>6, AnswerKeepsPromises DEF Grounded
<1>7. CASE fit
  <2>1. Validate(o) BY <1>5 DEF Admitted, Choice
  <2>2. endpoint.scheme = GatewayScheme(o) BY <1>7, <2>1, EndpointHasScheme
  <2>3. Restricted(given, t) => Place(given, t).type = "ovn"
    BY <1>4, <1>7 DEF Fits, Placed
  <2>4. task[t].gateway = {} /\ Len(task[t].files) = 0 /\ \E S : task[t].files \in Seq(S)
    BY <1>4 DEF Fits, Aimed, Supplied, Before
  <2>5. Formed(task[t]) BY DEF TasksFormed
  <2> HIDE DEF endpoint
  <2>6. /\ Formed(ready) /\ ready.endpoint = endpoint
        /\ ready.gateway = {} /\ ready.files = task[t].files
    BY <2>4, <2>5 DEF Formed, TaskFields
  <2> HIDE DEF ready, gateway
  <2>7. gateway # {} BY DEF gateway
  <2>8. /\ Formed(built) /\ built.pc = "build" /\ built.endpoint = endpoint
        /\ built.gateway = {} /\ built.files = task[t].files
        /\ Formed(looked) /\ looked.pc = "lookup" /\ looked.endpoint = endpoint
        /\ looked.gateway = {} /\ looked.files = task[t].files
    BY <2>6 DEF Formed, TaskFields
  <2>9. /\ Formed(wanted) /\ wanted.pc = "get" /\ wanted.endpoint = endpoint
        /\ wanted.gateway = gateway /\ wanted.files = task[t].files
        /\ wanted.want = Rules(gateway, given.ranges)
    BY <2>6 DEF Formed, TaskFields, Wanting
  <2> HIDE DEF built, looked, wanted
  <2>10. CASE ~ Restricted(given, t) /\ Step(t, built)
    <3>1. Fits(given, t, built, "build")
      BY <1>5, <2>2, <2>4, <2>8, <2>10 DEF Fits, Grounded, Placed, Aimed, Supplied, Before, AtAcl, After
    <3> QED BY <1>2, <1>3, <2>8, <2>10, <3>1, StepKeepsPromises
  <2>11. CASE Restricted(given, t) /\ Step(t, looked)
    <3>1. Fits(given, t, looked, "lookup")
      BY <1>5, <2>2, <2>3, <2>4, <2>8 DEF Fits, Grounded, Placed, Aimed, Supplied, Before, AtAcl, After
    <3> QED BY <1>2, <1>3, <2>8, <2>11, <3>1, StepKeepsPromises DEF After
  <2>12. CASE Restricted(given, t) /\ Step(t, wanted)
    <3>1. Fits(given, t, wanted, "get")
      BY <1>5, <2>2, <2>3, <2>4, <2>7, <2>9 DEF Fits, Grounded, Placed, Aimed, Supplied, Before, AtAcl, After
    <3> QED BY <1>2, <1>3, <2>9, <2>12, <3>1, StepKeepsPromises DEF After
  <2> QED BY <1>2, <1>6, <2>10, <2>11, <2>12
<1> HIDE DEF fit
<1> QED BY <1>2, <1>6, <1>7

LEMMA LookUpKeepsPromises ==
    ASSUME TasksFormed, PromiseInv, NEW t \in Tasks, LookUp(t)
    PROVE  PromiseInv'
<1> DEFINE gateway == {[ip |-> a, port |-> Port(task[t].endpoint)] : a \in dns}
           wanted == Wanting(task[t], gateway)
<1>1. /\ task[t].pc = "lookup"
      /\ UNCHANGED <<lxd, instances>>
      /\ Answer(t, "refused") \/ (dns # {} /\ Step(t, wanted))
  BY DEF LookUp
<1>2. job[t] # "pending" BY <1>1 DEF PromiseInv, AclInv, Pends
<1>3. Fits(given, t, task[t], "lookup") BY <1>1, FitsNow
<1>4. Admitted(given, given.home[t]) /\ given.requests[t] # None
  BY <1>3 DEF Fits, Grounded
<1>5. CASE Answer(t, "refused")
  BY <1>1, <1>2, <1>4, <1>5, AnswerKeepsPromises DEF Grounded
<1>6. CASE dns # {} /\ Step(t, wanted)
  <2>1. gateway # {} BY <1>6
  <2>2. Formed(task[t]) BY DEF TasksFormed
  <2> HIDE DEF gateway
  <2>3. /\ Formed(wanted) /\ wanted.pc = "get" /\ wanted.endpoint = task[t].endpoint
        /\ wanted.gateway = gateway /\ wanted.files = task[t].files
        /\ wanted.want = Rules(gateway, given.ranges)
    BY <2>2 DEF Formed, TaskFields, Wanting
  <2> HIDE DEF wanted
  <2>4. Fits(given, t, wanted, "get")
    BY <1>3, <1>4, <2>1, <2>3 DEF Fits, Grounded, Placed, Aimed, Supplied, Before, AtAcl, After
  <2> QED BY <1>1, <1>2, <1>6, <2>3, <2>4, StepKeepsPromises DEF After
<1> QED BY <1>1, <1>5, <1>6

(* The steps between the ACL and the instance that only go on or end. *)
LEMMA PlainStepsKeepPromises ==
    ASSUME TasksFormed, PromiseInv, NEW t \in Tasks, AwaitAcl(t) \/ Build(t) \/ Provision(t)
    PROVE  PromiseInv'
<1>1. task[t].pc # "done" /\ task[t].pc # "idle" /\ UNCHANGED <<lxd, instances>>
  BY DEF AwaitAcl, Build, Provision
<1>2. Fits(given, t, task[t], task[t].pc) /\ instances[t] = None BY <1>1, FitsNow
<1>3. Grounded(given, t, "done") BY <1>1, <1>2 DEF Fits, Grounded
<1>4. /\ job[t] = "pending" => task[t].gateway # {}
      /\ task[t].pc # "wait" => job[t] # "pending"
  BY <1>1 DEF PromiseInv, AclInv, Pends
<1>5. Mine(t) = Choice(given, t) BY DEF Mine, Options, Choice
<1>6. CASE AwaitAcl(t)
  <2>1. task[t].pc = "wait" BY <1>6 DEF AwaitAcl
  <2>2. CASE job[t] = "ok" /\ Go(t, "build")
    <3>1. task[t].gateway # {} => Passed(t) BY <1>2, <2>1, <2>2 DEF Passed, At
    <3>2. Fits(given, t, task[t], "build")
      BY <1>2, <2>1 DEF Fits, Grounded, Placed, Aimed, Supplied, Before, AtAcl, After
    <3> QED BY <1>1, <2>2, <3>1, <3>2, GoKeepsPromises
  <2> QED BY <1>1, <1>3, <1>4, <1>6, <2>2, AnswerKeepsPromises DEF AwaitAcl
<1>7. ASSUME task[t].pc \in After, NEW pc, pc # "wait", Go(t, pc), Fits(given, t, task[t], pc)
      PROVE  PromiseInv'
  <2>1. task[t].pc # "wait" BY <1>7 DEF After
  <2> QED BY <1>1, <1>4, <1>7, <2>1, PassedAfter, GoKeepsPromises DEF PromiseInv
<1>8. CASE Build(t)
  <2>1. task[t].pc = "build" BY <1>8 DEF Build
  <2>2. GuestTls(Choice(given, t)) => Fits(given, t, task[t], "tls")
    BY <1>2, <2>1 DEF Fits, Grounded, Placed, Aimed, Supplied, Before, AtAcl, After
  <2>3. ~ GuestTls(Choice(given, t)) => Fits(given, t, task[t], "provision")
    BY <1>2, <2>1 DEF Fits, Grounded, Placed, Aimed, Supplied, Before, AtAcl, After
  <2>4. \/ Answer(t, "refused")
        \/ GuestTls(Choice(given, t)) /\ Go(t, "tls")
        \/ ~ GuestTls(Choice(given, t)) /\ Go(t, "provision")
    BY <1>5, <1>8 DEF Build
  <2> QED BY <1>1, <1>3, <1>4, <1>7, <2>1, <2>2, <2>3, <2>4, AnswerKeepsPromises DEF After
<1>9. CASE Provision(t)
  <2>1. task[t].pc = "provision" BY <1>9 DEF Provision
  <2>2. Fits(given, t, task[t], "client")
    BY <1>2, <2>1 DEF Fits, Grounded, Placed, Aimed, Supplied, Before, AtAcl, After
  <2> QED BY <1>1, <1>3, <1>4, <1>7, <1>9, <2>1, <2>2, AnswerKeepsPromises DEF Provision, After
<1> QED BY <1>6, <1>8, <1>9

(* The TLS files are read until there are three. *)
LEMMA ReadTlsKeepsPromises ==
    ASSUME TasksFormed, PromiseInv, NEW t \in Tasks, ReadTls(t)
    PROVE  PromiseInv'
<1> DEFINE n == Len(task[t].files) + 1
           generation == tls[GuestTlsFiles[n]]
           read == Append(task[t].files, generation)
           pc == IF n = 3 THEN "provision" ELSE "tls"
           state == [task[t] EXCEPT !.files = read, !.pc = pc]
<1>1. Len(GuestTlsFiles) = 3 BY DEF GuestTlsFiles
<1>2. /\ task[t].pc = "tls"
      /\ UNCHANGED <<lxd, instances>>
      /\ Answer(t, "refused") \/ Step(t, state)
  BY <1>1 DEF ReadTls
<1>3. job[t] # "pending" BY <1>2 DEF PromiseInv, AclInv, Pends
<1>4. Fits(given, t, task[t], "tls") BY <1>2, FitsNow
<1>5. Grounded(given, t, "done") BY <1>4 DEF Fits, Grounded
<1>6. CASE Answer(t, "refused")
  BY <1>2, <1>3, <1>5, <1>6, AnswerKeepsPromises
<1>7. CASE Step(t, state)
  <2>1. PICK S : task[t].files \in Seq(S) BY <1>4 DEF Fits, Supplied
  <2>2. GuestTls(Choice(given, t)) /\ Len(task[t].files) < 3 BY <1>4 DEF Fits, Supplied
  <2> DEFINE T == S \cup {generation}
  <2>3. task[t].files \in Seq(T) /\ generation \in T
    <3> HIDE DEF generation
    <3>1. S \subseteq T OBVIOUS
    <3> HIDE DEF T
    <3> QED BY <2>1, <3>1, generation \in T DEF T
  <2> HIDE DEF T, generation
  <2>4. read \in Seq(T) /\ Len(read) = Len(task[t].files) + 1 BY <2>3
  <2>5. Len(task[t].files) \in Nat BY <2>3
  <2>6. pc \in {"provision", "tls"} /\ (pc = "tls" => Len(read) < 3) /\ (pc = "provision" => Len(read) = 3)
    BY <2>2, <2>4, <2>5
  <2>7. Formed(task[t]) BY DEF TasksFormed
  <2> HIDE DEF n, read, pc
  <2>8. /\ Formed(state) /\ state.pc = pc /\ state.endpoint = task[t].endpoint
        /\ state.gateway = task[t].gateway /\ state.want = task[t].want /\ state.files = read
    BY <2>7 DEF Formed, TaskFields
  <2> HIDE DEF state
  <2>9. Placed(given, t, state, state.pc)
    BY <1>4, <2>6, <2>8 DEF Fits, Placed, AtAcl, After
  <2>10. Aimed(given, t, state, state.pc)
    BY <1>4, <2>6, <2>8 DEF Fits, Aimed, Before, AtAcl, After
  <2>11. Supplied(given, t, state, state.pc)
    BY <2>2, <2>4, <2>6, <2>8 DEF Supplied, Before, AtAcl
  <2>12. Grounded(given, t, state.pc) BY <1>5 DEF Grounded
  <2>13. Fits(given, t, state, state.pc) BY <2>9, <2>10, <2>11, <2>12 DEF Fits
  <2>14. state.gateway # {} => Passed(t)
    BY <1>2, <2>8, PassedAfter DEF After, PromiseInv
  <2>15. state.pc # "wait" BY <2>6, <2>8
  <2> QED BY <1>2, <1>3, <1>7, <2>8, <2>13, <2>14, <2>15, StepKeepsPromises
<1> QED BY <1>2, <1>6, <1>7

(* The DHCP client is nothing that the promises are about. *)
LEMMA ClientKeepsPromises ==
    ASSUME TasksFormed, PromiseInv, NEW t \in Tasks, ResolveClient(t) \/ ReadClient(t)
    PROVE  PromiseInv'
<1>1. PICK client, pc :
        /\ pc \in {"read", "create"}
        /\ \/ Answer(t, "failed")
           \/ Step(t, [task[t] EXCEPT !.pc = pc, !.client = client])
  <2>1. CASE ResolveClient(t)
    <3> DEFINE path == ResolveBinary(Mine(t).dhcpClient, given.candidates, files)
    <3>1. Answer(t, "failed") \/ Step(t, [task[t] EXCEPT !.pc = "read", !.client = path])
      BY <2>1 DEF ResolveClient
    <3> QED BY <3>1
  <2>2. CASE ReadClient(t)
    <3>1. \/ Answer(t, "failed")
          \/ Step(t, [task[t] EXCEPT !.pc = "create", !.client = files[task[t].client]])
      BY <2>2 DEF ReadClient
    <3> QED BY <3>1
  <2> QED BY <2>1, <2>2
<1>2. task[t].pc \in {"client", "read"} /\ UNCHANGED <<lxd, instances>>
  BY DEF ResolveClient, ReadClient
<1>3. job[t] # "pending" BY <1>2 DEF PromiseInv, AclInv, Pends
<1>4. Fits(given, t, task[t], task[t].pc) BY <1>2, FitsNow
<1>5. Grounded(given, t, "done") BY <1>2, <1>4 DEF Fits, Grounded
<1>6. CASE Answer(t, "failed")
  BY <1>2, <1>3, <1>5, <1>6, AnswerKeepsPromises
<1> DEFINE state == [task[t] EXCEPT !.pc = pc, !.client = client]
<1>7. CASE Step(t, state)
  <2>1. Formed(task[t]) BY DEF TasksFormed
  <2>2. /\ Formed(state) /\ state.pc = pc /\ state.network = task[t].network
        /\ state.endpoint = task[t].endpoint
        /\ state.gateway = task[t].gateway /\ state.want = task[t].want /\ state.files = task[t].files
    BY <2>1 DEF Formed, TaskFields
  <2> HIDE DEF state
  <2>3. Fits(given, t, task[t], pc)
    BY <1>1, <1>2, <1>4 DEF Fits, Grounded, Placed, Aimed, Supplied, Before, AtAcl, After
  <2>4. Fits(given, t, state, pc) BY <2>2, <2>3, FitsByFields
  <2>5. state.gateway # {} => Passed(t)
    BY <1>2, <2>2, PassedAfter DEF After, PromiseInv
  <2> QED BY <1>1, <1>2, <1>3, <1>7, <2>2, <2>4, <2>5, StepKeepsPromises
<1> QED BY <1>1, <1>6, <1>7

-----------------------------------------------------------------------------
(* When the ACL becomes what t wants of it, t has it right; whoever had    *)
(* passed before has it right still, or has lost it to t.                  *)
LEMMA WritingKeepsAcl ==
    ASSUME NoneIsApart, TasksFormed, AclInv, TasksFit, NEW t \in Tasks, AclBecomes(Written(t), t),
           given' = given, swept' = swept, instances' = instances,
           job' = [job EXCEPT ![t] = "ok"],
           task'[t].want = task[t].want, task[t].gateway # {},
           \A u \in Tasks : u # t => task'[u] = task[u]
    PROVE  AclInv'
<1>1. /\ acl' = Written(t)
      /\ changed' = IF acl' = acl THEN changed \ {t} ELSE Tasks \ {t}
  BY DEF AclBecomes
<1>2. /\ acl' # None /\ acl'.egress = task[t].want /\ acl'.ingress = {}
      /\ acl'.gateway = task[t].gateway
  BY <1>1, NoAclIsNone DEF Written
<1>3. task[t].want = Rules(task[t].gateway, given.ranges)
  <2>1. Fits(given, t, task[t], At(t)) BY DEF TasksFit
  <2> QED BY <2>1 DEF Fits, Aimed
<1>4. /\ job' = [u \in Tasks |-> job'[u]] /\ job'[t] = "ok"
      /\ \A u \in Tasks : u # t => job'[u] = job[u]
  BY DEF AclInv
<1>5. ASSUME NEW u \in Tasks
      PROVE  /\ job'[u] = "pending" => Pends(u)'
             /\ Passed(u)' => (u \in changed \/ AclIsRight(u))'
  <2>1. CASE u = t
    BY <1>2, <1>4, <2>1 DEF AclIsRight
  <2>2. CASE u # t
    <3>1. job'[u] = "pending" => Pends(u)'
      BY <1>4, <2>2 DEF AclInv, Pends
    <3>2. Passed(u)' => Passed(u)
      BY <1>4, <2>2 DEF Passed, At
    <3>3. Passed(u) => u \in changed \/ AclIsRight(u) BY DEF AclInv
    <3>4. acl' # acl => u \in changed' BY <1>1, <2>2
    <3>5. acl' = acl => (u \in changed => u \in changed') BY <1>1, <2>2
    <3>6. acl' = acl => (AclIsRight(u) => AclIsRight(u)') BY <2>2 DEF AclIsRight
    <3> QED BY <3>1, <3>2, <3>3, <3>4, <3>5, <3>6
  <2> QED BY <2>1, <2>2
<1>6. acl'.egress = Rules(acl'.gateway, given'.ranges) /\ acl'.ingress = {}
  BY <1>2, <1>3
<1> QED BY <1>4, <1>5, <1>6 DEF AclInv

(* An operation that failed leaves the ACL. *)
LEMMA FailureKeepsAcl ==
    ASSUME TasksFormed, AclInv, TasksFit, NEW t \in Tasks, NEW outcome \in {"failed", "pending"},
           UNCHANGED <<given, swept, instances, acl, changed>>,
           job' = [job EXCEPT ![t] = outcome],
           instances[t] = None, task'[t].pc \in {"wait", "done"}, task'[t].gateway # {},
           \A u \in Tasks : u # t => task'[u] = task[u]
    PROVE  AclInv'
<1>1. /\ job' = [u \in Tasks |-> job'[u]] /\ job'[t] = outcome
      /\ \A u \in Tasks : u # t => job'[u] = job[u]
  BY DEF AclInv
<1>3. ASSUME NEW u \in Tasks
      PROVE  /\ job'[u] = "pending" => Pends(u)'
             /\ Passed(u)' => (u \in changed \/ AclIsRight(u))'
  <2>1. CASE u = t
    BY <1>1, <2>1 DEF Passed, At, After, Pends
  <2>2. CASE u # t
    <3>1. job'[u] = "pending" => Pends(u)'
      BY <1>1, <2>2 DEF AclInv, Pends
    <3>2. Passed(u)' => Passed(u)
      BY <1>1, <2>2 DEF Passed, At
    <3>3. Passed(u) => u \in changed \/ AclIsRight(u) BY DEF AclInv
    <3>4. AclIsRight(u) => AclIsRight(u)' BY <2>2 DEF AclIsRight
    <3> QED BY <3>1, <3>2, <3>3, <3>4
  <2> QED BY <2>1, <2>2
<1> QED BY <1>1, <1>3 DEF AclInv

(* A step of t's that reaches "wait". *)
LEMMA WaitStaysFit ==
    ASSUME TasksFormed, PromiseInv, NEW t \in Tasks, Go(t, "wait"), instances' = instances,
           task[t].pc \in {"put", "post"}, UNCHANGED networks
    PROVE  /\ TasksFit' /\ PhasesAreEarned' /\ NetworksOnlyGo' /\ given' = given
           /\ task'[t].want = task[t].want /\ task'[t].pc = "wait"
           /\ instances[t] = None /\ task[t].gateway # {} /\ task'[t].gateway # {}
           /\ \A u \in Tasks : u # t => task'[u] = task[u]
<1> DEFINE state == [task[t] EXCEPT !.pc = "wait"]
<1>1. Formed(task[t]) BY DEF TasksFormed
<1>2. /\ Formed(state) /\ state.pc = "wait"
      /\ state.network = task[t].network /\ state.endpoint = task[t].endpoint
      /\ state.gateway = task[t].gateway /\ state.want = task[t].want /\ state.files = task[t].files
  BY <1>1 DEF Formed, TaskFields
<1>3. Step(t, state) BY DEF Go
<1> HIDE DEF state
<1>4. Fits(given, t, task[t], task[t].pc) /\ instances[t] = None BY FitsNow
<1>10. task[t].gateway # {} BY <1>4 DEF Fits, Aimed, AtAcl
<1>5. Fits(given, t, task[t], "wait")
  BY <1>4 DEF Fits, Grounded, Placed, Aimed, Supplied, Before, AtAcl, After
<1>6. Fits(given, t, state, "wait") BY <1>2, <1>5, FitsByFields
<1>7. TasksFit' BY <1>2, <1>3, <1>6, StepStaysFit DEF PromiseInv
<1>8. UNCHANGED <<given, phase>> BY <1>3 DEF Step, start
<1>9. PhasesAreEarned' /\ NetworksOnlyGo'
  BY <1>8 DEF PromiseInv, PhasesAreEarned, NetworksOnlyGo, Options
<1> QED BY <1>2, <1>3, <1>4, <1>7, <1>8, <1>9, <1>10, StepOfOne

(* A create that finds the ACL as it wants it has it right.  One that      *)
(* finds another, or none, goes on to write it.                            *)
LEMMA GetAclKeepsPromises ==
    ASSUME TasksFormed, PromiseInv, NEW t \in Tasks, GetAcl(t)
    PROVE  PromiseInv'
<1>1. /\ task[t].pc = "get"
      /\ UNCHANGED <<networks, acl, job, swept, instances>>
      /\ \A u \in Tasks : u # t => (u \in changed <=> u \in changed')
      /\ \/ Go(t, "post") \/ Go(t, "put")
         \/ Go(t, "build") /\ acl # None /\ Matches(t)
         \/ Answer(t, "failed") /\ UNCHANGED changed
  BY DEF GetAcl
<1>2. job[t] # "pending" BY <1>1 DEF PromiseInv, AclInv, Pends
<1>3. Fits(given, t, task[t], "get") BY <1>1, FitsNow
<1>4. CASE Answer(t, "failed") /\ UNCHANGED changed
  <2>1. Grounded(given, t, "done") BY <1>3 DEF Fits, Grounded
  <2>2. UNCHANGED lxd BY <1>1, <1>4 DEF lxd
  <2> QED BY <1>1, <1>2, <1>4, <2>1, <2>2, AnswerKeepsPromises
<1>5. ASSUME NEW pc \in {"post", "put", "build"}, Go(t, pc),
             pc = "build" => acl # None /\ Matches(t)
      PROVE  PromiseInv'
  <2> DEFINE state == [task[t] EXCEPT !.pc = pc]
  <2>1. Formed(task[t]) BY DEF TasksFormed
  <2>2. /\ Formed(state) /\ state.pc = pc
        /\ state.network = task[t].network /\ state.endpoint = task[t].endpoint
        /\ state.gateway = task[t].gateway /\ state.want = task[t].want
        /\ state.files = task[t].files
    BY <2>1 DEF Formed, TaskFields
  <2>3. Step(t, state) BY <1>5 DEF Go
  <2> HIDE DEF state
  <2>4. Fits(given, t, task[t], pc)
    BY <1>3 DEF Fits, Grounded, Placed, Aimed, Supplied, Before, AtAcl, After
  <2>5. Fits(given, t, state, pc) BY <2>2, <2>4, FitsByFields
  <2>6. state.pc \in After => acl # None /\ acl.egress = state.want /\ acl.ingress = {}
    BY <1>5, <2>2 DEF After, Matches
  <2> QED BY <1>1, <1>2, <2>2, <2>3, <2>5, <2>6, ReadKeepsPromises
<1> QED BY <1>1, <1>4, <1>5

(* A write that was asked for is under way; who it was asked of no longer  *)
(* having the ACL is told.                                                 *)
LEMMA PutAclKeepsPromises ==
    ASSUME TasksFormed, PromiseInv, NEW t \in Tasks, PutAcl(t)
    PROVE  PromiseInv'
<1>1. task[t].pc = "put" /\ UNCHANGED <<networks, acl, swept, changed, instances>>
  BY DEF PutAcl
<1>2. CASE Answer(t, "missing") /\ UNCHANGED job
  <2>1. job[t] # "pending" BY <1>1 DEF PromiseInv, AclInv, Pends
  <2>2. Grounded(given, t, "done") BY <1>1, FitsNow DEF Fits, Grounded
  <2>3. UNCHANGED lxd BY <1>1, <1>2 DEF lxd
  <2> QED BY <1>1, <1>2, <2>1, <2>2, <2>3, AnswerKeepsPromises
<1>3. CASE Go(t, "wait") /\ job' = [job EXCEPT ![t] = "pending"]
  <2>1. /\ TasksFit' /\ PhasesAreEarned' /\ NetworksOnlyGo' /\ given' = given
        /\ task'[t].pc = "wait" /\ \A u \in Tasks : u # t => task'[u] = task[u]
        /\ instances[t] = None /\ task'[t].gateway # {}
    BY <1>1, <1>3, WaitStaysFit
  <2>2. AclInv' BY <1>1, <1>3, <2>1, FailureKeepsAcl DEF PromiseInv
  <2> QED BY <2>1, <2>2 DEF PromiseInv
<1> QED BY <1>2, <1>3 DEF PutAcl

LEMMA PostAclKeepsPromises ==
    ASSUME NoneIsApart, TasksFormed, PromiseInv, NEW t \in Tasks, PostAcl(t)
    PROVE  PromiseInv'
<1>1. task[t].pc = "post" /\ UNCHANGED <<networks, swept, instances>>
  BY DEF PostAcl
<1>2. Fits(given, t, task[t], "post") BY <1>1, FitsNow
<1>3. CASE Go(t, "put") /\ UNCHANGED <<acl, changed, job>>
  <2>1. job[t] # "pending" BY <1>1 DEF PromiseInv, AclInv, Pends
  <2>2. Fits(given, t, task[t], "put")
    BY <1>2 DEF Fits, Grounded, Placed, Aimed, Supplied, Before, AtAcl, After
  <2>3. UNCHANGED lxd BY <1>1, <1>3 DEF lxd
  <2> QED BY <1>1, <1>3, <2>1, <2>2, <2>3, GoKeepsPromises DEF After
<1>4. CASE AclCreated(t)
  <2>1. /\ TasksFit' /\ PhasesAreEarned' /\ NetworksOnlyGo' /\ given' = given
        /\ task'[t].want = task[t].want /\ task'[t].pc = "wait"
        /\ instances[t] = None /\ task'[t].gateway # {}
        /\ \A u \in Tasks : u # t => task'[u] = task[u]
    BY <1>1, <1>4, WaitStaysFit DEF AclCreated
  <2>2. task[t].gateway # {} BY <1>2 DEF Fits, Aimed, AtAcl
  <2>3. CASE AclBecomes(Written(t), t) /\ job' = [job EXCEPT ![t] = "ok"]
    BY <1>1, <2>1, <2>2, <2>3, WritingKeepsAcl DEF PromiseInv
  <2>4. CASE job' = [job EXCEPT ![t] = "failed"] /\ UNCHANGED <<acl, changed>>
    BY <1>1, <2>1, <2>4, FailureKeepsAcl DEF PromiseInv
  <2> QED BY <1>4, <2>3, <2>4 DEF AclCreated
<1> QED BY <1>3, <1>4 DEF PostAcl

(* The operation of a PUT writes for a create that waits for it, or that   *)
(* has given it up and will not have an instance.                          *)
LEMMA OperationKeepsPromises ==
    ASSUME NoneIsApart, TasksFormed, PromiseInv, NEW t \in Tasks, AclOperationEnds(t)
    PROVE  PromiseInv'
<1>1. /\ job[t] = "pending"
      /\ UNCHANGED <<given, phase, networks, swept, task, instances>>
  BY DEF AclOperationEnds, start
<1>2. task[t].pc \in {"wait", "done"} /\ instances[t] = None /\ task[t].gateway # {}
  BY <1>1 DEF PromiseInv, AclInv, Pends
<1>4. PhasesAreEarned' /\ NetworksOnlyGo'
  BY <1>1 DEF PromiseInv, PhasesAreEarned, NetworksOnlyGo, Options
<1>5. TasksFit' BY <1>1, TasksStayFit DEF PromiseInv
<1>6. CASE AclBecomes(Written(t), t) /\ job' = [job EXCEPT ![t] = "ok"]
  BY <1>1, <1>2, <1>4, <1>5, <1>6, WritingKeepsAcl DEF PromiseInv
<1>7. CASE job' = [job EXCEPT ![t] = "failed"] /\ UNCHANGED <<acl, changed>>
  BY <1>1, <1>2, <1>4, <1>5, <1>7, FailureKeepsAcl DEF PromiseInv
<1> QED BY <1>6, <1>7 DEF AclOperationEnds

-----------------------------------------------------------------------------
(* The instance is that of the create's state, which changes no more. *)
LEMMA CreateInstanceKeepsPromises ==
    ASSUME TasksFormed, PromiseInv, NEW t \in Tasks, CreateInstance(t),
           instances = [u \in Tasks |-> instances[u]]
    PROVE  PromiseInv'
<1>1. task[t].pc = "create" /\ UNCHANGED lxd BY DEF CreateInstance
<1>2. Fits(given, t, task[t], "create") BY <1>1, FitsNow
<1>3. job[t] # "pending" BY <1>1 DEF PromiseInv, AclInv, Pends
<1>4. CASE Answer(t, "failed") /\ UNCHANGED instances
  <2>1. Grounded(given, t, "done") BY <1>2 DEF Fits, Grounded
  <2> QED BY <1>1, <1>3, <1>4, <2>1, AnswerKeepsPromises
<1>5. CASE Answer(t, "ok") /\ instances' = [instances EXCEPT ![t] = Instance(t)]
  <2> DEFINE state == [task[t] EXCEPT !.pc = "done", !.answer = "ok"]
  <2>1. Formed(task[t]) BY DEF TasksFormed
  <2>2. /\ Formed(state) /\ state.pc = "done"
        /\ state.network = task[t].network /\ state.endpoint = task[t].endpoint
        /\ state.gateway = task[t].gateway /\ state.want = task[t].want
        /\ state.files = task[t].files /\ state.client = task[t].client
    BY <2>1 DEF Formed, TaskFields
  <2>3. Step(t, state) BY <1>5 DEF Answer
  <2> HIDE DEF state
  <2>4. /\ task'[t] = state
        /\ \A u \in Tasks : u # t => task'[u] = task[u]
    BY <2>2, <2>3, StepOfOne
  <2>5. UNCHANGED <<given, phase>> BY <2>3 DEF Step, start
  <2>6. /\ instances'[t] = Instance(t)
        /\ \A u \in Tasks : u # t => instances'[u] = instances[u]
    BY <1>5
  <2>7. UNCHANGED <<networks, acl, job, swept, changed>> BY <1>1 DEF lxd
  <2>8. ASSUME NEW u \in Tasks, u # t
        PROVE  At(u)' = At(u) /\ Instance(u)' = Instance(u)
    BY <2>4, <2>5, <2>6, <2>8 DEF At, Instance, Mine, Options, Request
  <2>9. Instance(t)' = Instance(t)
    BY <2>2, <2>4, <2>5 DEF Instance, Mine, Options, Request
  <2>10. At(t)' \in {"create", "done"} BY <2>2, <2>4 DEF At
  <2>11. TasksFit'
    <3>1. Fits(given, t, state, At(t)')
      <4>1. Fits(given, t, state, "create") BY <1>2, <2>2, FitsByFields
      <4>2. Fits(given, t, state, "done")
        BY <4>1 DEF Fits, Grounded, Placed, Aimed, Supplied, Before, AtAcl, After
      <4> QED BY <2>10, <4>1, <4>2
    <3>2. ASSUME NEW u \in Tasks
          PROVE  /\ Fits(given', u, task'[u], At(u)')
                 /\ instances'[u] # None => task'[u].pc = "done" /\ instances'[u] = Instance(u)'
      <4>1. CASE u = t BY <2>2, <2>4, <2>5, <2>6, <2>9, <3>1, <4>1
      <4>2. CASE u # t BY <2>4, <2>5, <2>6, <2>8, <4>2 DEF PromiseInv, TasksFit
      <4> QED BY <4>1, <4>2
    <3> QED BY <3>2 DEF TasksFit
  <2>12. AclInv'
    <3>1. ASSUME NEW u \in Tasks, Passed(u)' PROVE (u \in changed \/ AclIsRight(u))'
      <4>1. CASE u = t
        <5>1. Passed(t)
          BY <1>1, <2>2, <2>4, <3>1, <4>1, PassedAfter DEF Passed, After, PromiseInv
        <5>2. t \in changed \/ AclIsRight(t) BY <5>1 DEF PromiseInv, AclInv
        <5> QED BY <2>2, <2>4, <2>7, <4>1, <5>2 DEF AclIsRight
      <4>2. CASE u # t
        <5>1. Passed(u) BY <2>4, <2>7, <2>8, <3>1, <4>2 DEF Passed
        <5>2. u \in changed \/ AclIsRight(u) BY <5>1 DEF PromiseInv, AclInv
        <5> QED BY <2>4, <2>7, <4>2, <5>2 DEF AclIsRight
      <4> QED BY <4>1, <4>2
    <3>2. ASSUME NEW u \in Tasks, job'[u] = "pending" PROVE Pends(u)'
      BY <1>3, <2>4, <2>6, <2>7, <3>2 DEF PromiseInv, AclInv, Pends
    <3> QED BY <2>5, <2>7, <3>1, <3>2 DEF PromiseInv, AclInv
  <2>13. PhasesAreEarned' /\ NetworksOnlyGo'
    BY <2>5, <2>7 DEF PromiseInv, PhasesAreEarned, NetworksOnlyGo, Options
  <2> QED BY <2>11, <2>12, <2>13 DEF PromiseInv
<1> QED BY <1>4, <1>5 DEF CreateInstance

(* What goes on around the creates. *)
LEMMA RestKeepsAcl ==
    ASSUME AclInv, UNCHANGED <<given, task, instances, acl, job, swept, changed>>
    PROVE  AclInv'
<1>1. ASSUME NEW u \in Tasks, Passed(u)' PROVE (u \in changed \/ AclIsRight(u))'
  <2>1. Passed(u) BY <1>1 DEF Passed, At
  <2> QED BY <2>1 DEF AclInv, AclIsRight
<1> QED BY <1>1 DEF AclInv, Pends

(* A driver comes to serve only through the checks. *)
LEMMA StartUpKeepsPromises ==
    ASSUME PromiseInv, NEW d \in Drivers, StartUp(d)
    PROVE  PromiseInv'
<1>1. UNCHANGED <<given, lxd, task, instances>>
  BY DEF StartUp, CheckOptions, LookAtSocket, RemoveSocket, Bind, BuildClient, CheckProject,
         CheckArchitecture, Enter
<1>2. UNCHANGED <<networks, acl, job, swept, changed>> BY <1>1 DEF lxd
<1>3. TasksFit' /\ AclInv' /\ NetworksOnlyGo'
  BY <1>1, <1>2, TasksStayFit, RestKeepsAcl DEF PromiseInv, NetworksOnlyGo
<1> DEFINE checked == Options(d) # None /\ Validate(Options(d))
           built == ClientBuilt(Options(d), given.url, given.fingerprint, given.pem)
<1>4. ASSUME NEW p, phase' = [phase EXCEPT ![d] = p],
             p \notin {"new", "exited"} => checked,
             p \in {"project", "architecture"} => built,
             p = "serving" => Admitted(given, d)
      PROVE  PhasesAreEarned'
  <2>1. \A e \in Drivers : Options(e)' = Options(e) BY <1>1 DEF Options
  <2>2. /\ phase' = [e \in Drivers |-> phase'[e]] /\ phase'[d] = p
        /\ \A e \in Drivers : e # d => phase'[e] = phase[e]
    BY <1>4 DEF PromiseInv, PhasesAreEarned
  <2> QED BY <1>1, <1>4, <2>1, <2>2 DEF PromiseInv, PhasesAreEarned
<1>5. /\ phase[d] \notin {"new", "exited"} => checked
      /\ phase[d] \in {"project", "architecture"} => built
  BY DEF PromiseInv, PhasesAreEarned
<1>6. PhasesAreEarned'
  <2>1. CASE CheckOptions(d)
    BY <1>4, <2>1 DEF CheckOptions, Enter
  <2>2. CASE LookAtSocket(d) \/ RemoveSocket(d) \/ Bind(d)
    <3>1. PICK p \in {"bind", "exited", "remove", "client"} : phase' = [phase EXCEPT ![d] = p]
      BY <2>2 DEF LookAtSocket, RemoveSocket, Bind, Enter
    <3>2. checked BY <1>5, <2>2 DEF LookAtSocket, RemoveSocket, Bind
    <3> QED BY <1>4, <3>1, <3>2
  <2>3. CASE BuildClient(d)
    BY <1>4, <1>5, <2>3 DEF BuildClient, Enter
  <2>4. CASE CheckProject(d)
    <3>1. PICK p \in {"architecture", "exited"} : phase' = [phase EXCEPT ![d] = p]
      BY <2>4 DEF CheckProject, Enter
    <3>2. checked /\ built BY <1>5, <2>4 DEF CheckProject
    <3> QED BY <1>4, <3>1, <3>2
  <2>5. CASE CheckArchitecture(d)
    <3>1. checked /\ built BY <1>5, <2>5 DEF CheckArchitecture
    <3>2. Reaches(d) => Admitted(given, d) BY <3>1 DEF Reaches, Admitted, Options
    <3>3. PICK p \in {"serving", "exited"} :
            phase' = [phase EXCEPT ![d] = p] /\ (p = "serving" => Reaches(d))
      BY <2>5 DEF CheckArchitecture, Enter
    <3> QED BY <1>4, <3>1, <3>2, <3>3
  <2> QED BY <2>1, <2>2, <2>3, <2>4, <2>5 DEF StartUp
<1> QED BY <1>3, <1>6 DEF PromiseInv

LEMMA OperatorKeepsPromises ==
    ASSUME PromiseInv, Operator
    PROVE  PromiseInv'
<1>1. UNCHANGED <<given, phase, job, task, instances>>
  BY DEF Operator, RotateTls, ChangeDns, EditAcl, ReplaceClient, RemoveNetwork, Change, start
<1>2. TasksFit' BY <1>1, TasksStayFit DEF PromiseInv
<1>3. PhasesAreEarned' BY <1>1 DEF PromiseInv, PhasesAreEarned, Options
<1>4. NetworksOnlyGo'
  <2>1. CASE RemoveNetwork
    <3>1. PICK n \in DOMAIN networks : networks' = [networks EXCEPT ![n] = None]
      BY <2>1 DEF RemoveNetwork
    <3> QED BY <1>1, <3>1 DEF PromiseInv, NetworksOnlyGo
  <2>2. CASE ~ RemoveNetwork
    <3>1. networks' = networks
      BY <2>2 DEF Operator, RotateTls, ChangeDns, EditAcl, ReplaceClient
    <3> QED BY <1>1, <3>1 DEF PromiseInv, NetworksOnlyGo
  <2> QED BY <2>1, <2>2
<1>5. AclInv'
  <2>1. CASE EditAcl
    <3>1. swept' /\ changed' = Tasks BY <2>1 DEF EditAcl
    <3> QED BY <1>1, <3>1 DEF PromiseInv, AclInv, Pends
  <2>2. CASE ~ EditAcl
    <3>1. UNCHANGED <<acl, swept, changed>>
      BY <2>2 DEF Operator, RotateTls, ChangeDns, ReplaceClient, RemoveNetwork
    <3> QED BY <1>1, <3>1, RestKeepsAcl DEF PromiseInv
  <2> QED BY <2>1, <2>2
<1> QED BY <1>2, <1>3, <1>4, <1>5 DEF PromiseInv

LEMMA InitEstablishesPromises ==
    ASSUME Init
    PROVE  PromiseInv
<1>1. /\ given \in Scenarios /\ phase = given.phase /\ networks = given.networks
      /\ acl = given.acl
      /\ task = [t \in Tasks |-> Idle] /\ job = [t \in Tasks |-> "none"]
      /\ instances = [t \in Tasks |-> None]
  BY DEF Init
<1>2. PhasesAreEarned
  BY <1>1, ScenariosAssumption DEF PhasesAreEarned, Admitted, Options
<1>3. NetworksOnlyGo BY <1>1 DEF NetworksOnlyGo
<1>4. /\ Idle.pc = "idle" /\ Idle.gateway = {} /\ Idle.files = <<>>
  BY DEF Idle
<1>5. TasksFit
  <2>1. <<>> \in Seq({}) /\ Len(<<>>) = 0 OBVIOUS
  <2>2. ASSUME NEW t \in Tasks PROVE Fits(given, t, Idle, "idle")
    BY <1>4, <2>1 DEF Fits, Grounded, Placed, Aimed, Supplied, Before, AtAcl, After
  <2> QED BY <1>1, <1>4, <2>2 DEF TasksFit, At
<1>6. AclInv
  <2>1. acl # None => acl.gateway = {} BY <1>1, ScenariosAssumption
  <2> QED BY <1>1, <1>4, <2>1 DEF AclInv, Passed, At
<1> QED BY <1>2, <1>3, <1>5, <1>6 DEF PromiseInv

(* What start-up, the creates and the ACL promise is inductive. *)
LEMMA PromiseInvHolds ==
    ASSUME NoneIsApart
    PROVE  Spec => []PromiseInv
<1>1. CreateInv /\ PromiseInv /\ [Next]_vars => PromiseInv'
  <2> SUFFICES ASSUME CreateInv, PromiseInv, [Next]_vars PROVE PromiseInv' OBVIOUS
  <2>1. TasksFormed /\ instances = [u \in Tasks |-> instances[u]]
    BY DEF CreateInv, ClientStays
  <2>2. CASE UNCHANGED vars
    <3>1. TasksFit' /\ AclInv'
      BY <2>2, TasksStayFit, RestKeepsAcl DEF vars, PromiseInv
    <3> QED BY <2>2, <3>1 DEF vars, PromiseInv, PhasesAreEarned, NetworksOnlyGo, Options
  <2>3. ASSUME NEW d \in Drivers, StartUp(d) PROVE PromiseInv' BY <2>3, StartUpKeepsPromises
  <2>4. ASSUME NEW t \in Tasks, Create(t) PROVE PromiseInv'
    BY <2>1, <2>4, ReceiveKeepsPromises, ReadNetworkKeepsPromises, ReadPoolKeepsPromises,
       LookUpKeepsPromises, GetAclKeepsPromises, PutAclKeepsPromises, PostAclKeepsPromises,
       PlainStepsKeepPromises, ReadTlsKeepsPromises, ClientKeepsPromises,
       CreateInstanceKeepsPromises DEF Create
  <2>5. ASSUME NEW t \in Tasks, AclOperationEnds(t) PROVE PromiseInv'
    BY <2>1, <2>5, OperationKeepsPromises
  <2>6. CASE Operator BY <2>6, OperatorKeepsPromises
  <2> QED BY <2>2, <2>3, <2>4, <2>5, <2>6 DEF Next
<1> QED BY <1>1, InitEstablishesPromises, CreateInvHolds, PTL DEF Spec

-----------------------------------------------------------------------------
(* An instance that there is has what its create had found out. *)
LEMMA InstanceIsOfFit ==
    ASSUME PromiseInv, NEW t \in Tasks, instances[t] # None
    PROVE  instances[t] = Instance(t) /\ Fits(given, t, task[t], "create")
BY DEF PromiseInv, TasksFit, At

(* Whatever the command lines, the requests and the list of non-public     *)
(* ranges are, and however creates and the operator interleave: a sandbox  *)
(* that is to be confined is on an OVN network and behind the ACL, and an  *)
(* ACL of the driver's allows the gateway that it stands for and the       *)
(* public addresses, and nothing else (build_create_devices,               *)
(* ensure_egress_acl, rules, public_ipv4_cidrs).                           *)
THEOREM ConfinementHolds ==
    ASSUME NoneIsApart
    PROVE  Spec => []EgressIsConfined
<1>1. CreateInv /\ PromiseInv => EgressIsConfined
  <2> SUFFICES ASSUME CreateInv, PromiseInv PROVE EgressIsConfined OBVIOUS
  <2>1. given \in Scenarios BY DEF CreateInv, TasksFormed
  <2>2. ASSUME NEW t \in Tasks, instances[t] # None, "restrict_sandbox_egress" \in Mine(t).given
        PROVE  /\ instances[t].devices.nic.acl # None
               /\ instances[t].devices.nic.otherwise = "reject"
               /\ given.networks[instances[t].devices.nic.network].type = "ovn"
    <3>1. instances[t] = Instance(t) /\ Fits(given, t, task[t], "create")
      BY <2>2, InstanceIsOfFit
    <3>2. Restricted(given, t) BY <2>2 DEF Restricted, Choice, Mine, Options
    <3>3. task[t].gateway # {} /\ Place(given, t).type = "ovn"
      BY <3>1, <3>2 DEF Fits, Aimed, Placed, After
    <3>4. Mine(t) = Choice(given, t) /\ Request(t) = given.requests[t]
      BY DEF Mine, Options, Choice, Request
    <3> DEFINE nic == Instance(t).devices.nic
    <3>5. /\ nic.acl = "openshell-egress" /\ nic.otherwise = "reject"
          /\ nic.network = Placement(given.requests[t], Choice(given, t)).network
      BY <3>3, <3>4 DEF Instance, Devices, NoneIsApart
    <3> QED BY <3>1, <3>3, <3>5 DEF Place, NoneIsApart
  <2>3. ASSUME acl # None, acl.gateway # {}, ~ swept
        PROVE  Reachable(acl.egress) = Promised(acl.gateway, given.ranges) /\ acl.ingress = {}
    <3>1. given.ranges \in Seq([address : Nat, prefix : 0..Width]) BY <2>1, ScenariosAssumption
    <3>2. acl.egress = Rules(acl.gateway, given.ranges) /\ acl.ingress = {}
      BY <2>3 DEF PromiseInv, AclInv
    <3> QED BY <3>1, <3>2, ReachableIsPromised
  <2> QED BY <2>2, <2>3 DEF EgressIsConfined
<1> QED BY <1>1, CreateInvHolds, PromiseInvHolds, PTL

(* For any number of drivers that share a project and any number of        *)
(* creates, each with a gateway of its own: when a sandbox comes to be,    *)
(* the ACL allows its gateway, and it does so until the operator or        *)
(* another create changes it (ensure_network_acl).                         *)
THEOREM GatewaysAreAllowed ==
    ASSUME NoneIsApart
    PROVE  Spec => []GatewayIsAllowed
<1>1. CreateInv /\ PromiseInv => GatewayIsAllowed
  <2> SUFFICES ASSUME CreateInv, PromiseInv, NEW t \in Tasks, instances[t] # None,
                      instances[t].devices.nic.acl # None, t \notin changed
               PROVE  /\ acl # None /\ acl.ingress = {}
                      /\ Reachable(acl.egress) = Promised(task[t].gateway, given.ranges)
    BY DEF GatewayIsAllowed
  <2>1. given \in Scenarios BY DEF CreateInv, TasksFormed
  <2>2. instances[t] = Instance(t) /\ Fits(given, t, task[t], "create") BY InstanceIsOfFit
  <2>3. task[t].gateway # {} BY <2>2 DEF Instance, Devices
  <2>4. Passed(t) BY <2>3 DEF Passed, At, After
  <2>5. acl # None /\ acl.egress = task[t].want /\ acl.ingress = {}
    BY <2>4 DEF PromiseInv, AclInv, AclIsRight
  <2>6. task[t].want = Rules(task[t].gateway, given.ranges)
    BY <2>2, <2>3 DEF Fits, Aimed
  <2>7. given.ranges \in Seq([address : Nat, prefix : 0..Width]) BY <2>1, ScenariosAssumption
  <2> QED BY <2>5, <2>6, <2>7, ReachableIsPromised
<1> QED BY <1>1, CreateInvHolds, PromiseInvHolds, PTL

-----------------------------------------------------------------------------
(* Clap takes the flags that say what the server is held to one at a time. *)
LEMMA TrustIsOne ==
    ASSUME NEW o, ClapTakes(o), "lxd_server_cert" \in o.given
    PROVE  "lxd_server_fingerprint" \notin o.given
<1>1. "lxd_server_cert" \in Flags BY DEF Flags, LxdFlags
<1>2. Conflicts["lxd_server_cert"] \cap o.given = {} BY DEF ClapTakes
<1>3. "lxd_server_fingerprint" \in Conflicts["lxd_server_cert"] BY <1>1 DEF Conflicts
<1> QED BY <1>2, <1>3

(* The parser takes the flags as they were given. *)
LEMMA ParseKeepsFlags ==
    ASSUME NEW o, {"given", "endpoint"} \subseteq DOMAIN o, Parse(o) # None
    PROVE  Parse(o).given = o.given /\ ClapTakes(o)
BY DEF Parse

(* A driver that serves speaks to the LXD that its options name. *)
LEMMA ServingIsTrusting ==
    ASSUME NEW s \in Scenarios, NEW d \in Drivers, Admitted(s, d),
           "lxd_url" \in s.options[d].given
    PROVE  LET has(flag) == flag \in s.options[d].given
           IN /\ s.server.holdsKey
              /\ has("lxd_server_fingerprint") => s.fingerprint.of = s.server.certificate
              /\ has("lxd_server_cert") => s.pem["lxd_server_cert"] = << s.server.certificate >>
              /\ ~ has("lxd_server_fingerprint") /\ ~ has("lxd_server_cert") =>
                    /\ s.server.named
                    /\ IF has("lxd_server_ca")
                       THEN \E k \in DOMAIN s.pem["lxd_server_ca"] :
                                s.pem["lxd_server_ca"][k] = s.server.issuer
                       ELSE s.server.issuer = "webpki"
<1> DEFINE o == Parse(s.options[d])
           trust == Trust(o, s.fingerprint, s.pem)
           has(flag) == flag \in o.given
<1>1. {"given", "endpoint"} \subseteq DOMAIN s.options[d] /\ o # None
  BY ScenariosAssumption DEF Admitted
<1>2. o.given = s.options[d].given /\ ClapTakes(s.options[d])
  BY <1>1, ParseKeepsFlags
<1>3. has("lxd_url") BY <1>2
<1>4. Verified(trust, s.server) BY <1>3 DEF Admitted, Connects
<1>5. trust.by = "digest" => trust.anchors # << None >> BY <1>3 DEF Admitted, ClientBuilt
<1>6. s.server.holdsKey BY <1>4 DEF Verified
<1>7. ASSUME has("lxd_server_fingerprint") PROVE s.fingerprint.of = s.server.certificate
  <2>1. trust = [by |-> "digest", anchors |-> << ParseFingerprint(s.fingerprint) >>]
    BY <1>7 DEF Trust
  <2>2. << ParseFingerprint(s.fingerprint) >> = << s.server.certificate >>
    BY <1>4, <2>1 DEF Verified
  <2>3. ParseFingerprint(s.fingerprint) # None BY <1>5, <2>1
  <2> QED BY <2>2, <2>3 DEF ParseFingerprint
<1>8. ASSUME has("lxd_server_cert") PROVE s.pem["lxd_server_cert"] = << s.server.certificate >>
  <2>1. ~ has("lxd_server_fingerprint") BY <1>2, <1>8, TrustIsOne
  <2>2. trust = [by |-> "bytes", anchors |-> s.pem["lxd_server_cert"]]
    BY <1>8, <2>1 DEF Trust
  <2> QED BY <1>4, <2>2 DEF Verified
<1>9. ASSUME ~ has("lxd_server_fingerprint"), ~ has("lxd_server_cert")
      PROVE  /\ s.server.named
             /\ IF has("lxd_server_ca")
                THEN \E k \in DOMAIN s.pem["lxd_server_ca"] :
                         s.pem["lxd_server_ca"][k] = s.server.issuer
                ELSE s.server.issuer = "webpki"
  <2>1. CASE has("lxd_server_ca")
    <3>1. trust = [by |-> "issuer", anchors |-> s.pem["lxd_server_ca"]] BY <1>9, <2>1 DEF Trust
    <3>2. trust.by = "issuer" /\ trust.anchors = s.pem["lxd_server_ca"] BY <3>1
    <3>3. s.server.named /\ \E k \in DOMAIN trust.anchors : trust.anchors[k] = s.server.issuer
      BY <1>4, <3>2 DEF Verified
    <3> QED BY <2>1, <3>2, <3>3
  <2>2. CASE ~ has("lxd_server_ca")
    <3>1. trust.by = "issuer" /\ trust.anchors = << "webpki" >> BY <1>9, <2>2 DEF Trust
    <3>2. s.server.named /\ \E i \in DOMAIN << "webpki" >> : << "webpki" >>[i] = s.server.issuer
      BY <1>4, <3>1 DEF Verified
    <3> QED BY <2>2, <3>2
  <2> QED BY <2>1, <2>2
<1> HIDE DEF o, trust
<1> QED BY <1>2, <1>6, <1>7, <1>8, <1>9

(* What the driver sets in an environment is what it sets, and the request *)
(* has no part in it.                                                      *)
LEMMA EnvironmentIsTheDrivers ==
    ASSUME NEW r, NEW endpoint, NEW tls_, NEW name_, NEW n
    PROVE  LET e == Environment(r, endpoint, tls_, name_)
           IN /\ (n \in DOMAIN e /\ e[n].by = "driver") <=> n \in DriverSets(r, tls_, name_)
              /\ n \in DriverSets(r, tls_, name_) => e[n].value = DriverValue(r, endpoint, n)
<1> DEFINE set == DriverSets(r, tls_, name_)
           names == set \cup r.templateEnv \cup r.specEnv
           entry(m) ==
               [by |-> IF m \in set THEN "driver" ELSE IF m \in r.templateEnv THEN "template" ELSE "spec",
                value |-> IF m \in set THEN DriverValue(r, endpoint, m) ELSE None]
           e == Environment(r, endpoint, tls_, name_)
<1>1. e = [m \in names |-> entry(m)] BY DEF Environment
<1>2. DOMAIN e = names /\ \A m \in names : e[m] = entry(m) BY <1>1
<1>3. (n \in names /\ entry(n).by = "driver") <=> n \in set OBVIOUS
<1>4. n \in set => n \in names /\ entry(n).value = DriverValue(r, endpoint, n) OBVIOUS
<1> HIDE DEF e, entry, names
<1> QED BY <1>2, <1>3, <1>4 DEF e

(* Whatever the command lines, the requests, the files, LXD and the host   *)
(* hold: a driver serves only with the LXD that its options name, and a    *)
(* sandbox is sent to its driver's gateway, over TLS exactly if it is      *)
(* given the files for it, in plaintext only by the operator's leave       *)
(* (LxdClient::new, Config::validate, resolve_gateway_endpoint,            *)
(* build_create_config, insert_guest_tls_environment).                     *)
THEOREM PeersAreTrustedAlways ==
    ASSUME NoneIsApart
    PROVE  Spec => []PeersAreTrusted
<1>1. CreateInv /\ PromiseInv => PeersAreTrusted
  <2> SUFFICES ASSUME CreateInv, PromiseInv PROVE PeersAreTrusted OBVIOUS
  <2>1. given \in Scenarios BY DEF CreateInv, TasksFormed
  <2>2. ASSUME NEW d \in Drivers, phase[d] = "serving", "lxd_url" \in given.options[d].given
        PROVE  LET has(flag) == flag \in given.options[d].given
               IN /\ given.server.holdsKey
                  /\ has("lxd_server_fingerprint") => given.fingerprint.of = given.server.certificate
                  /\ has("lxd_server_cert") => given.pem["lxd_server_cert"] = << given.server.certificate >>
                  /\ ~ has("lxd_server_fingerprint") /\ ~ has("lxd_server_cert") =>
                        /\ given.server.named
                        /\ IF has("lxd_server_ca")
                           THEN \E k \in DOMAIN given.pem["lxd_server_ca"] :
                                    given.pem["lxd_server_ca"][k] = given.server.issuer
                           ELSE given.server.issuer = "webpki"
    <3>1. Admitted(given, d) BY <2>2 DEF PromiseInv, PhasesAreEarned
    <3> QED BY <2>1, <2>2, <3>1, ServingIsTrusting
  <2>3. ASSUME NEW t \in Tasks, instances[t] # None
        PROVE  LET i == instances[t]
                   env(name) == name \in DOMAIN i.environment /\ i.environment[name].by = "driver"
                   https == i.endpoint.scheme = "https"
               IN /\ env("OPENSHELL_ENDPOINT") /\ i.environment["OPENSHELL_ENDPOINT"].value = i.endpoint
                  /\ env("OPENSHELL_SANDBOX_ID") /\ env("OPENSHELL_MAIN_PROCESS_SPEC")
                  /\ i.token <=> env("OPENSHELL_SANDBOX_TOKEN_FILE")
                  /\ https <=> Len(i.files) = Len(GuestTlsFiles)
                  /\ https <=> env("OPENSHELL_TLS_CA") /\ env("OPENSHELL_TLS_CERT") /\ env("OPENSHELL_TLS_KEY")
                  /\ ~ https => "allow_plaintext_gateway" \in given.options[given.home[t]].given
    <3> DEFINE i == instances[t]
               env(name) == name \in DOMAIN i.environment /\ i.environment[name].by = "driver"
               https == i.endpoint.scheme = "https"
               o == Choice(given, t)
               r == given.requests[t]
               named == "gateway_tls_server_name" \in o.given /\ GuestTls(o)
               set == DriverSets(r, GuestTls(o), named)
    <3>1. i = Instance(t) /\ Fits(given, t, task[t], "create") BY <2>3, InstanceIsOfFit
    <3>2. Mine(t) = o /\ Request(t) = r BY DEF Mine, Options, Choice, Request
    <3>3. /\ i.environment = Environment(r, task[t].endpoint, GuestTls(o), named)
          /\ i.endpoint = task[t].endpoint /\ i.token = r.token /\ i.files = task[t].files
      BY <3>1, <3>2 DEF Instance
    <3>4. Admitted(given, given.home[t]) /\ r # None BY <3>1 DEF Fits, Grounded
    <3>5. given.home[t] \in Drivers BY <2>1, ScenariosAssumption
    <3>6. o # None /\ Validate(o) BY <3>4 DEF Admitted, Choice
    <3>7. o.given = given.options[given.home[t]].given
      BY <2>1, <3>5, <3>6, ScenariosAssumption, ParseKeepsFlags DEF Choice
    <3>8. r.token \in BOOLEAN
      BY <2>1, <3>4, ScenariosAssumption
    <3>9. https <=> GuestTls(o)
      <4>1. i.endpoint.scheme = GatewayScheme(o) BY <3>1, <3>3 DEF Fits, Placed, After
      <4> QED BY <4>1 DEF GatewayScheme
    <3>10. Len(i.files) = IF GuestTls(o) THEN 3 ELSE 0 BY <3>1, <3>3 DEF Fits, Supplied
    <3>11. Len(GuestTlsFiles) = 3 BY DEF GuestTlsFiles
    <3>12. ~ https => "allow_plaintext_gateway" \in given.options[given.home[t]].given
      BY <3>6, <3>7, <3>9 DEF Validate
    <3> HIDE DEF i
    <3>13. \A name : /\ env(name) <=> name \in set
                     /\ name \in set => i.environment[name].value = DriverValue(r, task[t].endpoint, name)
      BY <3>3, EnvironmentIsTheDrivers
    <3>14. /\ {"OPENSHELL_ENDPOINT", "OPENSHELL_SANDBOX_ID", "OPENSHELL_MAIN_PROCESS_SPEC"} \subseteq set
           /\ "OPENSHELL_SANDBOX_TOKEN_FILE" \in set <=> r.token
           /\ "OPENSHELL_TLS_CA" \in set <=> GuestTls(o)
           /\ "OPENSHELL_TLS_CERT" \in set <=> GuestTls(o)
           /\ "OPENSHELL_TLS_KEY" \in set <=> GuestTls(o)
      BY <3>8 DEF DriverSets
    <3>15. DriverValue(r, task[t].endpoint, "OPENSHELL_ENDPOINT") = task[t].endpoint
      BY DEF DriverValue
    <3> HIDE DEF o, r, set, https, env, named
    <3>16. /\ env("OPENSHELL_ENDPOINT") /\ i.environment["OPENSHELL_ENDPOINT"].value = i.endpoint
           /\ env("OPENSHELL_SANDBOX_ID") /\ env("OPENSHELL_MAIN_PROCESS_SPEC")
      BY <3>3, <3>13, <3>14, <3>15
    <3>17. i.token <=> env("OPENSHELL_SANDBOX_TOKEN_FILE")
      BY <3>3, <3>13, <3>14
    <3>18. https <=> Len(i.files) = Len(GuestTlsFiles)
      BY <3>9, <3>10, <3>11
    <3>19. https <=> env("OPENSHELL_TLS_CA") /\ env("OPENSHELL_TLS_CERT") /\ env("OPENSHELL_TLS_KEY")
      BY <3>9, <3>13, <3>14
    <3> QED BY <3>12, <3>16, <3>17, <3>18, <3>19 DEF i, https, env
  <2> QED BY <2>2, <2>3 DEF PeersAreTrusted
<1> QED BY <1>1, CreateInvHolds, PromiseInvHolds, PTL

-----------------------------------------------------------------------------
(* The import *)

(* The file has a length once it is packed. *)
FileIsPacked ==
    /\ image \in Images
    /\ step \in {"metadata", "measure", "connect", "send"} => length \in Nat

(* The body counts what it sends against what was declared, and has sent   *)
(* all of it when it closes the part.                                      *)
BodyCounts ==
    /\ declared \in Nat /\ remaining \in Nat /\ sent \in Nat
    /\ sent + remaining = declared
    /\ step \in {"inject", "install", "owners", "pack", "metadata", "measure"} =>
            sent = 0 /\ body = "Preamble" /\ server.is = "waiting"
    /\ body # "Closing"
    /\ body = "Done" => remaining = 0
    /\ server.is = "operation" => body = "Done"

(* What is on its way to the driver is what was answered: an error is      *)
(* LXD's refusal, and any other envelope is LXD's operation.               *)
ResponseIsTrue ==
    /\ response # None /\ Import!Client!IsError(response.body) =>
            server.is = "refused" /\ server.code = response.body.code
    /\ response # None /\ ~ Import!Client!IsError(response.body) /\ response.body # None =>
            server.is = "operation"
    /\ step \notin {"send", "done"} => response = None

(* The result is what the response said. *)
ResultIsTrue ==
    /\ result # None => step = "done"
    /\ result # None /\ result.is = "ok" => server.is = "operation"
    /\ result # None /\ response # None /\ Import!Client!IsError(response.body)
            /\ result.is = "Api" => result.code = response.body.code

UploadInv == FileIsPacked /\ BodyCounts /\ ResponseIsTrue /\ ResultIsTrue

(* Files have lengths, and a chunk is not empty. *)
Sizes == Chunk \in Nat \ {0} /\ \A i \in Images : i.lengths \subseteq Nat

-----------------------------------------------------------------------------
LEMMA SizesHold == Sizes
BY ImportAssumption, ImagesAssumption DEF Sizes

LEMMA InitEstablishesUploadInv == Import!Init => UploadInv
BY DEF Import!Init, Import!Unpacked, UploadInv, FileIsPacked, BodyCounts, ResponseIsTrue,
       ResultIsTrue

(* The conversion sends nothing and is not answered. *)
LEMMA ConvertKeepsUploadInv ==
    ASSUME UploadInv, Import!Convert
    PROVE  UploadInv'
<1> USE DEF UploadInv, FileIsPacked, BodyCounts, ResponseIsTrue, ResultIsTrue, Import!End,
            Import!Failure, Import!Go, Import!rootfs, Import!upload, Import!Client!IsError
<1>1. CASE Import!Inject BY <1>1 DEF Import!Inject
<1>2. CASE Import!Install BY <1>2 DEF Import!Install
<1>3. CASE Import!WriteOwners BY <1>3 DEF Import!WriteOwners
<1>4. CASE Import!Pack
  <2>1. ASSUME length' \in image.lengths PROVE length' \in Nat BY <2>1, SizesHold DEF Sizes
  <2> QED BY <1>4, <2>1 DEF Import!Pack
<1>5. CASE Import!AssembleMetadata BY <1>5 DEF Import!AssembleMetadata
<1> QED BY <1>1, <1>2, <1>3, <1>4, <1>5 DEF Import!Convert

(* A frame keeps the count: what it takes from what remains, it adds to    *)
(* what was sent; the part is closed only when nothing remains.            *)
LEMMA SendKeepsUploadInv ==
    ASSUME UploadInv, Import!Send
    PROVE  UploadInv'
<1> USE DEF UploadInv, FileIsPacked, BodyCounts, ResponseIsTrue, ResultIsTrue, Import!Frame,
            Import!rootfs, Import!Client!IsError
<1>1. CASE Import!SendPreamble BY <1>1 DEF Import!SendPreamble
<1>2. CASE Import!ReadChunk
  <2>1. PICK n \in 1..Chunk : n <= remaining /\ remaining' = remaining - n /\ sent' = sent + n
    BY <1>2 DEF Import!ReadChunk
  <2>2. n \in Nat BY <2>1, SizesHold DEF Sizes
  <2>3. remaining' \in Nat /\ sent' \in Nat /\ sent' + remaining' = declared
    BY <2>1, <2>2
  <2> QED BY <1>2, <2>3 DEF Import!ReadChunk
<1>3. CASE Import!BodyFails BY <1>3 DEF Import!BodyFails
<1>4. CASE Import!SendClosing BY <1>4 DEF Import!SendClosing
<1> QED BY <1>1, <1>2, <1>3, <1>4 DEF Import!Send

(* The driver ends with what the response says. *)
LEMMA UploadKeepsUploadInv ==
    ASSUME UploadInv, Import!Upload
    PROVE  UploadInv'
<1> USE DEF UploadInv, FileIsPacked, BodyCounts, ResponseIsTrue, ResultIsTrue, Import!End,
            Import!Failure, Import!Go, Import!rootfs, Import!upload, Import!Client!IsError
<1>1. CASE Import!Measure BY <1>1 DEF Import!Measure
<1>2. CASE Import!Connect BY <1>2 DEF Import!Connect
<1>3. CASE Import!Send BY <1>3, SendKeepsUploadInv
<1>4. CASE Import!Receive
  <2>1. response # None /\ result' = Import!Client!Interpret(response) BY <1>4 DEF Import!Receive
  <2>2. result'.is = "ok" => ~ Import!Client!IsError(response.body) /\ response.body # None
    BY <2>1 DEF Import!Client!Interpret
  <2>3. Import!Client!IsError(response.body) => result'.code = response.body.code
    BY <2>1 DEF Import!Client!Interpret
  <2> QED BY <1>4, <2>1, <2>2, <2>3 DEF Import!Receive
<1>5. CASE Import!ConnectionFails BY <1>5 DEF Import!ConnectionFails
<1> QED BY <1>1, <1>2, <1>3, <1>4, <1>5 DEF Import!Upload

(* LXD works on a body that ended, and refuses with an error of its own. *)
LEMMA EnvironmentKeepsUploadInv ==
    ASSUME UploadInv, Import!Environment
    PROVE  UploadInv'
<1> USE DEF UploadInv, FileIsPacked, BodyCounts, ResponseIsTrue, ResultIsTrue,
            Import!rootfs, Import!upload, Import!Client!IsError
<1>1. CASE Import!FileChanges
  <2>1. length' \in image.lengths BY <1>1 DEF Import!FileChanges
  <2>2. length' \in Nat BY <2>1, SizesHold DEF Sizes
  <2> QED BY <1>1, <2>2 DEF Import!FileChanges
<1>2. CASE Import!LxdTakes BY <1>2 DEF Import!LxdTakes
<1>3. CASE Import!LxdRefuses BY <1>3 DEF Import!LxdRefuses
<1>4. CASE Import!ProxyAnswers BY <1>4 DEF Import!ProxyAnswers
<1> QED BY <1>1, <1>2, <1>3, <1>4 DEF Import!Environment

LEMMA UploadInvIsInductive ==
    ASSUME UploadInv, [Import!Next]_(Import!vars)
    PROVE  UploadInv'
<1>1. CASE Import!Convert BY <1>1, ConvertKeepsUploadInv
<1>2. CASE Import!Upload BY <1>2, UploadKeepsUploadInv
<1>3. CASE Import!Environment BY <1>3, EnvironmentKeepsUploadInv
<1>4. CASE UNCHANGED Import!vars
  BY <1>4 DEF Import!vars, Import!rootfs, Import!upload, UploadInv, FileIsPacked, BodyCounts,
              ResponseIsTrue, ResultIsTrue, Import!Client!IsError
<1> QED BY <1>1, <1>2, <1>3, <1>4 DEF Import!Next

(* LXD has an operation only on the whole file as it was measured, the     *)
(* upload succeeds only if there is one, and LXD's refusals keep their     *)
(* codes, for every image, chunk size and set of responses                 *)
(* (SplitImageBody::poll_frame, post_streaming_response).                  *)
THEOREM UploadsAreTrue == Import!Spec => []UploadIsTrue
<1>1. UploadInv => UploadIsTrue
  BY DEF UploadInv, BodyCounts, ResponseIsTrue, ResultIsTrue, UploadIsTrue, Import!UploadIsTrue
<1> QED BY <1>1, InitEstablishesUploadInv, UploadInvIsInductive, PTL DEF Import!Spec

-----------------------------------------------------------------------------
(* The rootfs *)

(* A tree as images unpack to and as the driver leaves it. *)
TreeFits(tr) ==
    \A p \in DOMAIN tr :
        /\ p \in Seq(Names) /\ p # <<>>
        /\ tr[p].kind \in {"directory", "file", "link"}
        /\ tr[p].target \in Seq(Names) /\ Len(tr[p].target) <= MaxTarget
        /\ Import!At(tr, Import!Up(p)).kind = "directory"

(* Where a walk is: below the rootfs, with no link on the way. *)
Rooted(tr, r) ==
    /\ r \in Seq(Names)
    /\ \A n \in 1..Len(r) : r[n] # ".." /\ Import!At(tr, SubSeq(r, 1, n)).kind # "link"

WalkFits(tr, w) ==
    /\ w \in [pending : Seq(Names), resolved : Seq(Names), hops : Nat, end : {None, "missing", "loop"}]
    /\ Rooted(tr, w.resolved)

(* The beginnings of a path. *)
LEMMA BeginningsFit ==
    ASSUME NEW r \in Seq(Names), NEW n \in 0..Len(r)
    PROVE  /\ SubSeq(r, 1, n) \in Seq(Names) /\ Len(SubSeq(r, 1, n)) = n
           /\ \A k \in 1..n : SubSeq(r, 1, n)[k] = r[k]
<1>1. Len(r) \in Nat /\ \A k \in 1..n : r[k] \in Names BY LenProperties, ElementOfSeq
<1>2. n \in Nat BY <1>1
<1> QED BY <1>1, <1>2, SubSeqProperties

LEMMA SameBeginning ==
    ASSUME NEW r \in Seq(Names), NEW s \in Seq(Names), NEW n \in 0..Len(r), n <= Len(s),
           \A k \in 1..n : r[k] = s[k]
    PROVE  SubSeq(r, 1, n) = SubSeq(s, 1, n)
<1>1. Len(r) \in Nat /\ Len(s) \in Nat /\ n \in 0..Len(s) BY LenProperties
<1>2. /\ SubSeq(r, 1, n) \in Seq(Names) /\ Len(SubSeq(r, 1, n)) = n
      /\ SubSeq(s, 1, n) \in Seq(Names) /\ Len(SubSeq(s, 1, n)) = n
      /\ \A k \in 1..n : SubSeq(r, 1, n)[k] = SubSeq(s, 1, n)[k]
  BY <1>1, BeginningsFit
<1> QED BY <1>2, SeqEqual

(* A path with one more component, or one less, has the same beginnings. *)
LEMMA AppendPrefixes ==
    ASSUME NEW r \in Seq(Names), NEW x \in Names
    PROVE  /\ Append(r, x) \in Seq(Names) /\ Append(r, x) # <<>> /\ Len(Append(r, x)) = Len(r) + 1
           /\ Append(r, x)[Len(r) + 1] = x
           /\ SubSeq(Append(r, x), 1, Len(r) + 1) = Append(r, x)
           /\ \A n \in 1..Len(r) : /\ Append(r, x)[n] = r[n]
                                   /\ SubSeq(Append(r, x), 1, n) = SubSeq(r, 1, n)
           /\ Import!Up(Append(r, x)) = r
<1> DEFINE h == Append(r, x)
<1>1. /\ h \in Seq(Names) /\ h # <<>> /\ Len(h) = Len(r) + 1 /\ h[Len(r) + 1] = x
      /\ \A n \in 1..Len(r) : h[n] = r[n]
  <2>1. Append(r, x) \in Seq(Names) /\ Append(r, x) # <<>> /\ Len(Append(r, x)) = Len(r) + 1
    BY AppendProperties
  <2>2. \A n \in 1..Len(r) : Append(r, x)[n] = r[n] BY AppendProperties
  <2>3. Append(r, x)[Len(r) + 1] = x BY AppendProperties
  <2> QED BY <2>1, <2>2, <2>3
<1> HIDE DEF h
<1>2. SubSeq(h, 1, Len(r) + 1) = h BY <1>1, SubSeqFull
<1>3. Len(r) \in Nat BY LenProperties
<1>4. ASSUME NEW n \in 0..Len(r) PROVE SubSeq(h, 1, n) = SubSeq(r, 1, n)
  <2>1. n \in 0..Len(h) /\ \A k \in 1..n : h[k] = r[k] BY <1>1, <1>3
  <2> QED BY <1>1, <1>3, <2>1, SameBeginning
<1>5. Import!Up(h) = r
  <2>1. Import!Up(h) = SubSeq(h, 1, Len(h) - 1) BY <1>1 DEF Import!Up, Import!Front
  <2>2. SubSeq(h, 1, Len(h) - 1) = SubSeq(r, 1, Len(r)) BY <1>1, <1>3, <1>4
  <2>3. SubSeq(r, 1, Len(r)) = r BY SubSeqFull
  <2> QED BY <2>1, <2>2, <2>3
<1>6. \A n \in 1..Len(r) : SubSeq(h, 1, n) = SubSeq(r, 1, n) BY <1>3, <1>4
<1> QED BY <1>1, <1>2, <1>5, <1>6 DEF h

LEMMA UpPrefixes ==
    ASSUME NEW r \in Seq(Names)
    PROVE  /\ Import!Up(r) \in Seq(Names) /\ Len(Import!Up(r)) <= Len(r)
           /\ \A n \in 1..Len(Import!Up(r)) :
                /\ n \in 1..Len(r) /\ Import!Up(r)[n] = r[n]
                /\ SubSeq(Import!Up(r), 1, n) = SubSeq(r, 1, n)
           /\ r # <<>> => Len(Import!Up(r)) = Len(r) - 1 /\ Import!Up(r) = SubSeq(r, 1, Len(r) - 1)
<1>1. CASE r = <<>> BY <1>1 DEF Import!Up
<1>2. CASE r # <<>>
  <2> DEFINE u == Import!Up(r)
  <2>1. u = SubSeq(r, 1, Len(r) - 1) BY <1>2 DEF Import!Up, Import!Front
  <2>2. Len(r) \in Nat /\ Len(r) # 0 /\ Len(r) - 1 \in 0..Len(r) BY <1>2, LenProperties, EmptySeq
  <2>3. u \in Seq(Names) /\ Len(u) = Len(r) - 1 /\ \A k \in 1..(Len(r) - 1) : u[k] = r[k]
    BY <2>1, <2>2, BeginningsFit
  <2> HIDE DEF u
  <2>4. ASSUME NEW n \in 1..Len(u) PROVE SubSeq(u, 1, n) = SubSeq(r, 1, n)
    <3>1. n \in 0..Len(u) /\ n <= Len(r) /\ \A k \in 1..n : u[k] = r[k] BY <2>2, <2>3
    <3> QED BY <2>3, <3>1, SameBeginning
  <2>5. \A n \in 1..Len(u) : n \in 1..Len(r) /\ u[n] = r[n] BY <2>2, <2>3
  <2> QED BY <2>1, <2>2, <2>3, <2>4, <2>5 DEF u
<1> QED BY <1>1, <1>2

LEMMA HeadAndTail ==
    ASSUME NEW s \in Seq(Names), s # <<>>
    PROVE  /\ Head(s) \in Names /\ Tail(s) \in Seq(Names) /\ Len(Tail(s)) = Len(s) - 1
           /\ Head(s) = s[1] /\ \A n \in 1..Len(Tail(s)) : n + 1 \in 1..Len(s) /\ Tail(s)[n] = s[n + 1]
OBVIOUS

(* A walk of which nothing is followed, or one component. *)
LEMMA UpIsRooted ==
    ASSUME NEW tr, NEW r, Rooted(tr, r)
    PROVE  Rooted(tr, Import!Up(r))
BY UpPrefixes DEF Rooted

LEMMA HereIsRooted ==
    ASSUME NEW tr, NEW r, Rooted(tr, r), NEW x \in Names, x # "..",
           Import!At(tr, Append(r, x)).kind # "link"
    PROVE  Rooted(tr, Append(r, x))
<1> DEFINE h == Append(r, x)
<1>1. r \in Seq(Names) /\ Len(r) \in Nat BY LenProperties DEF Rooted
<1>2. /\ h \in Seq(Names) /\ Len(h) = Len(r) + 1 /\ h[Len(r) + 1] = x
      /\ SubSeq(h, 1, Len(r) + 1) = h
      /\ \A n \in 1..Len(r) : h[n] = r[n] /\ SubSeq(h, 1, n) = SubSeq(r, 1, n)
  BY <1>1, AppendPrefixes
<1>3. Import!At(tr, h).kind # "link" OBVIOUS
<1> HIDE DEF h
<1>4. ASSUME NEW n \in 1..Len(h) PROVE h[n] # ".." /\ Import!At(tr, SubSeq(h, 1, n)).kind # "link"
  <2>1. CASE n = Len(r) + 1 BY <1>2, <1>3, <2>1
  <2>2. CASE n # Len(r) + 1
    <3>1. n \in 1..Len(r) BY <1>1, <1>2, <2>2
    <3> QED BY <1>2, <3>1 DEF Rooted
  <2> QED BY <2>1, <2>2
<1> QED BY <1>2, <1>4 DEF Rooted, h

LEMMA RootIsRooted == \A tr : Rooted(tr, <<>>)
BY DEF Rooted

(* What a turn of resolve_in_rootfs' loop does to the fields of a walk. *)
Turns(tr, w, next) ==
    LET x == Head(w.pending)
        here == Append(w.resolved, x)
        link == Import!At(tr, here)
    IN /\ next.end = w.end
       /\ \/ /\ x = ".." /\ next.pending = Tail(w.pending) /\ next.resolved = Import!Up(w.resolved)
             /\ next.hops = w.hops
          \/ /\ x # ".." /\ link.kind = "link"
             /\ link.target \in Seq(Names) /\ Len(link.target) <= MaxTarget
             /\ next.pending = link.target \o Tail(w.pending)
             /\ next.resolved = (IF link.absolute THEN <<>> ELSE w.resolved)
             /\ next.hops = w.hops + 1
          \/ /\ x # ".." /\ link.kind # "link"
             /\ next.pending = Tail(w.pending) /\ next.resolved = here /\ next.hops = w.hops

LEMMA ResolveStepDoes ==
    ASSUME NEW tr, TreeFits(tr), NEW w, WalkFits(tr, w), w.pending # <<>>
    PROVE  /\ WalkFits(tr, Import!ResolveStep(tr, w))
           /\ Turns(tr, w, Import!ResolveStep(tr, w))
<1> DEFINE x == Head(w.pending)
           here == Append(w.resolved, x)
           next == Import!ResolveStep(tr, w)
           link == Import!At(tr, here)
<1>1. /\ w = [pending |-> w.pending, resolved |-> w.resolved, hops |-> w.hops, end |-> w.end]
      /\ w.pending \in Seq(Names) /\ w.resolved \in Seq(Names) /\ w.hops \in Nat
      /\ w.end \in {None, "missing", "loop"} /\ Rooted(tr, w.resolved)
  BY DEF WalkFits
<1>2. x \in Names /\ Tail(w.pending) \in Seq(Names) BY <1>1, HeadAndTail
<1>3. here \in Seq(Names) /\ here # <<>> BY <1>1, <1>2, AppendPrefixes
<1>4. CASE x = ".."
  <2>1. next = [pending |-> Tail(w.pending), resolved |-> Import!Up(w.resolved), hops |-> w.hops, end |-> w.end]
    BY <1>1, <1>4 DEF Import!ResolveStep
  <2>2. Import!Up(w.resolved) \in Seq(Names) /\ Rooted(tr, Import!Up(w.resolved))
    BY <1>1, UpIsRooted, UpPrefixes
  <2> HIDE DEF next
  <2>3. WalkFits(tr, next) BY <1>1, <1>2, <2>1, <2>2 DEF WalkFits
  <2>4. /\ next.pending = Tail(w.pending) /\ next.resolved = Import!Up(w.resolved)
        /\ next.hops = w.hops /\ next.end = w.end
    BY <2>1
  <2> QED BY <1>4, <2>3, <2>4 DEF next, Turns
<1>5. CASE x # ".." /\ link.kind = "link"
  <2>1. here \in DOMAIN tr /\ link = tr[here] BY <1>3, <1>5 DEF Import!At, Import!Entry
  <2>2. link.target \in Seq(Names) /\ Len(link.target) <= MaxTarget BY <2>1 DEF TreeFits
  <2> DEFINE from == IF link.absolute THEN <<>> ELSE w.resolved
  <2>3. next = [pending |-> link.target \o Tail(w.pending), resolved |-> from, hops |-> w.hops + 1, end |-> w.end]
    BY <1>1, <1>5 DEF Import!ResolveStep, Import!Follow
  <2>4. from \in Seq(Names) /\ Rooted(tr, from)
    <3>1. CASE link.absolute BY <3>1, RootIsRooted
    <3>2. CASE ~ link.absolute BY <1>1, <3>2
    <3> QED BY <3>1, <3>2
  <2>5. link.target \o Tail(w.pending) \in Seq(Names) BY <1>2, <2>2
  <2> HIDE DEF next, link, from
  <2>6. WalkFits(tr, next) BY <1>1, <2>3, <2>4, <2>5 DEF WalkFits
  <2>7. /\ next.pending = link.target \o Tail(w.pending) /\ next.resolved = from
        /\ next.hops = w.hops + 1 /\ next.end = w.end
    BY <2>3
  <2> QED BY <1>5, <2>2, <2>6, <2>7 DEF from, next, link, Turns
<1>6. CASE x # ".." /\ link.kind # "link"
  <2>1. next = [pending |-> Tail(w.pending), resolved |-> here, hops |-> w.hops, end |-> w.end]
    BY <1>1, <1>6 DEF Import!ResolveStep
  <2>2. Rooted(tr, here) BY <1>1, <1>2, <1>6, HereIsRooted
  <2> HIDE DEF next
  <2>3. WalkFits(tr, next) BY <1>1, <1>2, <1>3, <2>1, <2>2 DEF WalkFits
  <2>4. /\ next.pending = Tail(w.pending) /\ next.resolved = here
        /\ next.hops = w.hops /\ next.end = w.end
    BY <2>1
  <2> QED BY <1>6, <2>3, <2>4 DEF next, Turns
<1> QED BY <1>4, <1>5, <1>6
-----------------------------------------------------------------------------
(* The two walks, as the sequences of places that their recursions define. *)
ResolvingBy(walk, tr, path) ==
    /\ walk[0] = Import!From(path)
    /\ \A n \in 1..Import!WalkSteps :
        walk[n] = IF walk[n - 1].pending = <<>> \/ walk[n - 1].hops > MaxHops THEN walk[n - 1]
                  ELSE Import!ResolveStep(tr, walk[n - 1])

LookupBy(walk, tr, path) ==
    /\ walk[0] = Import!From(path)
    /\ \A n \in 1..Import!WalkSteps :
        walk[n] = IF walk[n - 1].pending = <<>> \/ walk[n - 1].end # None THEN walk[n - 1]
                  ELSE Import!LookupStep(tr, walk[n - 1])

LEMMA WalkStepsIsNat == Import!WalkSteps \in Nat /\ Import!WalkSteps = 3 + MaxHops * MaxTarget
BY ImportAssumption DEF Import!WalkSteps

LEMMA ResolvingDefined ==
    ASSUME NEW tr, NEW path
    PROVE  \E walk : Import!Resolving(tr, path) = walk[Import!WalkSteps] /\ ResolvingBy(walk, tr, path)
<1> DEFINE turn(w) == IF w.pending = <<>> \/ w.hops > MaxHops THEN w ELSE Import!ResolveStep(tr, w)
           first == Import!From(path)
           Is(f, n) == f = [k \in 0..n |-> IF k = 0 THEN first ELSE turn(f[k - 1])]
           S == {n \in Nat : \E f : Is(f, n)}
           walk == CHOOSE f : Is(f, Import!WalkSteps)
<1>1. Import!Resolving(tr, path) = walk[Import!WalkSteps] BY DEF Import!Resolving
<1> HIDE DEF turn, first
<1>2. 0 \in S
  <2> DEFINE f == [k \in 0..0 |-> first]
  <2>1. \A k \in 0..0 : k = 0 OBVIOUS
  <2>2. Is(f, 0) BY <2>1
  <2> QED BY <2>2
<1>3. ASSUME NEW n \in Nat, n \in S PROVE n + 1 \in S
  <2>1. PICK f : Is(f, n) BY <1>3
  <2> DEFINE g == [k \in 0..(n + 1) |-> IF k = n + 1 THEN turn(f[n]) ELSE f[k]]
  <2>2. \A k \in 0..n : f[k] = IF k = 0 THEN first ELSE turn(f[k - 1]) BY <2>1
  <2>3. ASSUME NEW k \in 0..(n + 1) PROVE g[k] = IF k = 0 THEN first ELSE turn(g[k - 1])
    <3>1. CASE k = n + 1
      <4>1. k # 0 /\ k - 1 = n /\ n \in 0..(n + 1) /\ n # n + 1 BY <3>1
      <4>2. g[n] = f[n] BY <4>1
      <4> QED BY <3>1, <4>1, <4>2
    <3>2. CASE k # n + 1
      <4>1. k \in 0..n BY <3>2
      <4>2. k # 0 => k - 1 \in 0..(n + 1) /\ k - 1 # n + 1 BY <4>1
      <4> QED BY <2>2, <4>1, <4>2
    <3> QED BY <3>1, <3>2
  <2>4. Is(g, n + 1) BY <2>3
  <2> HIDE DEF Is, g
  <2> QED BY <2>4
<1> HIDE DEF S
<1>4. Nat \subseteq S BY <1>2, <1>3, Induction
<1>5. \E f : Is(f, Import!WalkSteps) BY <1>4, WalkStepsIsNat DEF S
<1>6. Is(walk, Import!WalkSteps) BY <1>5
<1> HIDE DEF walk
<1>7. \A k \in 0..Import!WalkSteps : walk[k] = IF k = 0 THEN first ELSE turn(walk[k - 1]) BY <1>6
<1>8. walk[0] = first BY <1>7, WalkStepsIsNat
<1>9. \A n \in 1..Import!WalkSteps : walk[n] = turn(walk[n - 1]) BY <1>7, WalkStepsIsNat
<1>10. ResolvingBy(walk, tr, path) BY <1>8, <1>9 DEF turn, first, ResolvingBy
<1> QED BY <1>1, <1>10

LEMMA LookupDefined ==
    ASSUME NEW tr, NEW path
    PROVE  \E walk : Import!Lookup(tr, path) = walk[Import!WalkSteps] /\ LookupBy(walk, tr, path)
<1> DEFINE turn(w) == IF w.pending = <<>> \/ w.end # None THEN w ELSE Import!LookupStep(tr, w)
           first == Import!From(path)
           Is(f, n) == f = [k \in 0..n |-> IF k = 0 THEN first ELSE turn(f[k - 1])]
           S == {n \in Nat : \E f : Is(f, n)}
           walk == CHOOSE f : Is(f, Import!WalkSteps)
<1>1. Import!Lookup(tr, path) = walk[Import!WalkSteps] BY DEF Import!Lookup
<1> HIDE DEF turn, first
<1>2. 0 \in S
  <2> DEFINE f == [k \in 0..0 |-> first]
  <2>1. \A k \in 0..0 : k = 0 OBVIOUS
  <2>2. Is(f, 0) BY <2>1
  <2> QED BY <2>2
<1>3. ASSUME NEW n \in Nat, n \in S PROVE n + 1 \in S
  <2>1. PICK f : Is(f, n) BY <1>3
  <2> DEFINE g == [k \in 0..(n + 1) |-> IF k = n + 1 THEN turn(f[n]) ELSE f[k]]
  <2>2. \A k \in 0..n : f[k] = IF k = 0 THEN first ELSE turn(f[k - 1]) BY <2>1
  <2>3. ASSUME NEW k \in 0..(n + 1) PROVE g[k] = IF k = 0 THEN first ELSE turn(g[k - 1])
    <3>1. CASE k = n + 1
      <4>1. k # 0 /\ k - 1 = n /\ n \in 0..(n + 1) /\ n # n + 1 BY <3>1
      <4>2. g[n] = f[n] BY <4>1
      <4> QED BY <3>1, <4>1, <4>2
    <3>2. CASE k # n + 1
      <4>1. k \in 0..n BY <3>2
      <4>2. k # 0 => k - 1 \in 0..(n + 1) /\ k - 1 # n + 1 BY <4>1
      <4> QED BY <2>2, <4>1, <4>2
    <3> QED BY <3>1, <3>2
  <2>4. Is(g, n + 1) BY <2>3
  <2> HIDE DEF Is, g
  <2> QED BY <2>4
<1> HIDE DEF S
<1>4. Nat \subseteq S BY <1>2, <1>3, Induction
<1>5. \E f : Is(f, Import!WalkSteps) BY <1>4, WalkStepsIsNat DEF S
<1>6. Is(walk, Import!WalkSteps) BY <1>5
<1> HIDE DEF walk
<1>7. \A k \in 0..Import!WalkSteps : walk[k] = IF k = 0 THEN first ELSE turn(walk[k - 1]) BY <1>6
<1>8. walk[0] = first BY <1>7, WalkStepsIsNat
<1>9. \A n \in 1..Import!WalkSteps : walk[n] = turn(walk[n - 1]) BY <1>7, WalkStepsIsNat
<1>10. LookupBy(walk, tr, path) BY <1>8, <1>9 DEF turn, first, LookupBy
<1> QED BY <1>1, <1>10

(* A walk keeps to the rootfs and meets no link that it did not follow. *)
LEMMA ResolvingFits ==
    ASSUME NEW tr, TreeFits(tr), NEW path \in Seq(Names), NEW walk, ResolvingBy(walk, tr, path)
    PROVE  \A n \in 0..Import!WalkSteps : WalkFits(tr, walk[n])
<1> DEFINE W == Import!WalkSteps
           S == {n \in Nat : WalkFits(tr, walk[n])}
<1>1. W \in Nat BY WalkStepsIsNat
<1> HIDE DEF W
<1>2. 0 \in S
  <2>1. walk[0] = [pending |-> path, resolved |-> <<>>, hops |-> 0, end |-> None]
    BY DEF ResolvingBy, Import!From
  <2>2. WalkFits(tr, walk[0]) BY <2>1, RootIsRooted DEF WalkFits
  <2> QED BY <2>2
<1>3. ASSUME NEW n \in Nat, n < W, n \in S PROVE n + 1 \in S
  <2>1. n + 1 \in 1..W /\ (n + 1) - 1 = n BY <1>1, <1>3
  <2>2. walk[n + 1] = IF walk[n].pending = <<>> \/ walk[n].hops > MaxHops THEN walk[n]
                      ELSE Import!ResolveStep(tr, walk[n])
    BY <2>1 DEF ResolvingBy, W
  <2>3. walk[n].pending # <<>> => WalkFits(tr, Import!ResolveStep(tr, walk[n]))
    BY <1>3, ResolveStepDoes
  <2> QED BY <1>3, <2>2, <2>3
<1> HIDE DEF S
<1>4. 0..W \subseteq S BY <1>1, <1>2, <1>3, InductionUpTo
<1> QED BY <1>4 DEF S, W

LEMMA ResolvedIsRooted ==
    ASSUME NEW tr, TreeFits(tr), NEW path \in Seq(Names)
    PROVE  WalkFits(tr, Import!Resolving(tr, path))
<1>1. PICK walk : Import!Resolving(tr, path) = walk[Import!WalkSteps] /\ ResolvingBy(walk, tr, path)
  BY ResolvingDefined
<1>2. Import!WalkSteps \in 0..Import!WalkSteps BY WalkStepsIsNat
<1> QED BY <1>1, <1>2, ResolvingFits

(* The path that install_init writes to. *)
LEMMA InitIsRooted ==
    ASSUME NEW tr, TreeFits(tr), Import!ResolveInRootfs(tr, Import!InitPath) # None
    PROVE  LET w == Import!Resolving(tr, <<"sbin">>)
           IN /\ Import!ResolveInRootfs(tr, Import!InitPath) = Append(w.resolved, "init")
              /\ w.hops <= MaxHops /\ WalkFits(tr, w)
<1>1. Import!Front(Import!InitPath) = <<"sbin">> /\ Import!Last(Import!InitPath) = "init"
  <2> DEFINE path == Append(<<"sbin">>, "init")
  <2>1. "sbin" \in Names /\ "init" \in Names BY ImagesAssumption
  <2>2. <<"sbin">> \in Seq(Names) /\ Len(<<"sbin">>) = 1 BY <2>1
  <2>3. Import!InitPath = path BY DEF Import!InitPath
  <2> HIDE DEF path
  <2>4. /\ path # <<>> /\ Len(path) = 2 /\ path[2] = "init" /\ Import!Up(path) = <<"sbin">>
    BY <2>1, <2>2, AppendPrefixes DEF path
  <2> QED BY <2>3, <2>4 DEF Import!Last, Import!Up
<1>2. <<"sbin">> \in Seq(Names)
  <2>1. "sbin" \in Names BY ImagesAssumption
  <2> QED BY <2>1
<1>3. WalkFits(tr, Import!Resolving(tr, <<"sbin">>)) BY <1>2, ResolvedIsRooted
<1>4. ~ (Import!Resolving(tr, <<"sbin">>).hops > MaxHops) BY <1>1 DEF Import!ResolveInRootfs
<1>5. Import!ResolveInRootfs(tr, Import!InitPath) = Append(Import!Resolving(tr, <<"sbin">>).resolved, "init")
  BY <1>1, <1>4 DEF Import!ResolveInRootfs
<1>6. Import!Resolving(tr, <<"sbin">>).hops \in Nat BY <1>3 DEF WalkFits
<1> QED BY <1>3, <1>4, <1>5, <1>6, ImportAssumption
-----------------------------------------------------------------------------
(* The writes to the tree *)

LEMMA RootIsADirectory == \A tr : Import!At(tr, <<>>).kind = "directory"
BY DEF Import!At, Import!Directory, Import!Entry

LEMMA AtIs ==
    ASSUME NEW tr, NEW p, p # <<>>
    PROVE  /\ p \in DOMAIN tr => Import!At(tr, p) = tr[p]
           /\ p \notin DOMAIN tr => Import!At(tr, p).kind = "nothing"
BY DEF Import!At, Import!Entry

(* What takes the place of something that is no directory, or of nothing,  *)
(* in a directory.                                                         *)
LEMMA PutFits ==
    ASSUME NEW tr, TreeFits(tr), NEW path \in Seq(Names), path # <<>>, NEW entry,
           entry.kind \in {"file", "link"}, entry.target \in Seq(Names), Len(entry.target) <= MaxTarget,
           Import!At(tr, path).kind # "directory", Import!At(tr, Import!Up(path)).kind = "directory"
    PROVE  /\ TreeFits(Import!Put(tr, path, entry))
           /\ Import!At(Import!Put(tr, path, entry), path) = entry
           /\ \A p : p # path => Import!At(Import!Put(tr, path, entry), p) = Import!At(tr, p)
<1> DEFINE new == Import!Put(tr, path, entry)
<1>1. /\ DOMAIN new = DOMAIN tr \cup {path} /\ new[path] = entry
      /\ \A p \in DOMAIN tr : p # path => new[p] = tr[p]
  BY DEF Import!Put
<1> HIDE DEF new
<1>2. Import!At(new, path) = entry BY <1>1, AtIs
<1>3. ASSUME NEW p, p # path PROVE Import!At(new, p) = Import!At(tr, p)
  BY <1>1, <1>3 DEF Import!At
<1>4. ASSUME NEW p \in DOMAIN new
      PROVE  /\ p \in Seq(Names) /\ p # <<>>
             /\ new[p].kind \in {"directory", "file", "link"}
             /\ new[p].target \in Seq(Names) /\ Len(new[p].target) <= MaxTarget
             /\ Import!At(new, Import!Up(p)).kind = "directory"
  <2>1. Import!At(tr, Import!Up(p)).kind = "directory" BY <1>1 DEF TreeFits
  <2>2. Import!Up(p) # path BY <2>1
  <2>3. Import!At(new, Import!Up(p)).kind = "directory" BY <1>3, <2>1, <2>2
  <2>4. CASE p = path BY <1>1, <2>3, <2>4
  <2>5. CASE p # path BY <1>1, <2>3, <2>5 DEF TreeFits
  <2> QED BY <2>4, <2>5
<1>5. TreeFits(new) BY <1>4 DEF TreeFits
<1> QED BY <1>2, <1>3, <1>5 DEF new

(* create_dir_all, on a path without links: afterwards it is there, and    *)
(* nothing else has changed.                                               *)
LEMMA DirectoriesAreMade ==
    ASSUME NEW tr, TreeFits(tr), NEW d, Rooted(tr, d), Import!CreateDirAll(tr, d) # None
    PROVE  LET made == Import!CreateDirAll(tr, d)
           IN /\ TreeFits(made)
              /\ \A n \in 1..Len(d) : /\ Import!At(made, SubSeq(d, 1, n)).kind = "directory"
                                      /\ Import!At(tr, SubSeq(d, 1, n)).kind \in {"directory", "nothing"}
              /\ \A p : (\A n \in 1..Len(d) : p # SubSeq(d, 1, n)) => Import!At(made, p) = Import!At(tr, p)
<1> DEFINE prefixes == {SubSeq(d, 1, n) : n \in 1..Len(d)}
           made == [p \in DOMAIN tr \cup prefixes |-> IF p \in DOMAIN tr THEN tr[p]
                                                      ELSE Import!Driver(Import!Directory)]
<1>1. d \in Seq(Names) /\ Len(d) \in Nat BY LenProperties DEF Rooted
<1>2. ~ \E p \in prefixes : Import!At(tr, p).kind = "file" BY DEF Import!CreateDirAll
<1>3. Import!CreateDirAll(tr, d) = made BY <1>2 DEF Import!CreateDirAll
<1>4. /\ Import!Driver(Import!Directory).kind = "directory" /\ Import!Driver(Import!Directory).target = <<>>
  BY DEF Import!Driver, Import!Directory, Import!Entry
<1>5. /\ DOMAIN made = DOMAIN tr \cup prefixes /\ \A p \in DOMAIN tr : made[p] = tr[p]
      /\ \A p \in prefixes : p \notin DOMAIN tr => made[p].kind = "directory" /\ made[p].target = <<>>
  BY <1>4
<1> HIDE DEF made
<1>6. ASSUME NEW n \in 1..Len(d)
      PROVE  /\ SubSeq(d, 1, n) \in Seq(Names) /\ Len(SubSeq(d, 1, n)) = n /\ SubSeq(d, 1, n) # <<>>
             /\ Import!At(tr, SubSeq(d, 1, n)).kind \in {"directory", "nothing"}
             /\ Import!At(made, SubSeq(d, 1, n)).kind = "directory"
  <2> DEFINE p == SubSeq(d, 1, n)
  <2>1. p \in Seq(Names) /\ Len(p) = n /\ n # 0 BY <1>1, BeginningsFit
  <2>2. p # <<>> BY <2>1
  <2>3. p \in prefixes OBVIOUS
  <2>4. Import!At(tr, p).kind \notin {"link", "file"} BY <1>2, <2>3 DEF Rooted
  <2> HIDE DEF p, prefixes
  <2>5. CASE p \in DOMAIN tr
    <3>1. tr[p].kind = "directory" BY <2>2, <2>4, <2>5, AtIs DEF TreeFits
    <3> QED BY <1>5, <2>1, <2>2, <2>5, <3>1, AtIs DEF p
  <2>6. CASE p \notin DOMAIN tr BY <1>5, <2>1, <2>2, <2>3, <2>6, AtIs DEF p
  <2> QED BY <2>5, <2>6
<1>7. ASSUME NEW p, p \notin prefixes PROVE Import!At(made, p) = Import!At(tr, p)
  BY <1>5, <1>7 DEF Import!At
<1>8. ASSUME NEW p \in DOMAIN made
      PROVE  /\ p \in Seq(Names) /\ p # <<>>
             /\ made[p].kind \in {"directory", "file", "link"}
             /\ made[p].target \in Seq(Names) /\ Len(made[p].target) <= MaxTarget
             /\ Import!At(made, Import!Up(p)).kind = "directory"
  <2>1. CASE p \in DOMAIN tr
    <3>1. Import!At(tr, Import!Up(p)).kind = "directory" BY <2>1 DEF TreeFits
    <3>2. CASE Import!Up(p) \in prefixes BY <1>5, <1>6, <2>1, <3>2 DEF TreeFits
    <3>3. CASE Import!Up(p) \notin prefixes BY <1>5, <1>7, <2>1, <3>1, <3>3 DEF TreeFits
    <3> QED BY <3>2, <3>3
  <2>2. CASE p \notin DOMAIN tr
    <3>1. PICK n \in 1..Len(d) : p = SubSeq(d, 1, n) BY <1>5, <2>2
    <3>2. p \in Seq(Names) /\ Len(p) = n /\ p # <<>> /\ \A k \in 1..n : p[k] = d[k]
      <4>1. n \in 0..Len(d) BY <1>1
      <4> QED BY <1>1, <1>6, <3>1, <4>1, BeginningsFit
    <3>3. made[p].kind = "directory" /\ made[p].target = <<>> BY <1>5, <2>2, <3>1
    <3>4. Import!At(made, Import!Up(p)).kind = "directory"
      <4>1. Import!Up(p) = SubSeq(p, 1, n - 1) BY <3>2, UpPrefixes
      <4>2. SubSeq(p, 1, n - 1) = SubSeq(d, 1, n - 1)
        <5>1. n - 1 \in 0..Len(p) /\ n - 1 <= Len(d) /\ \A k \in 1..(n - 1) : p[k] = d[k]
          BY <1>1, <3>2
        <5> QED BY <1>1, <3>2, <5>1, SameBeginning
      <4>3. CASE n = 1
        <5>1. SubSeq(d, 1, n - 1) = <<>> BY <4>3, SubSeqEmpty
        <5> QED BY <4>1, <4>2, <5>1, RootIsADirectory
      <4>4. CASE n # 1
        <5>1. n - 1 \in 1..Len(d) BY <1>1, <4>4
        <5> QED BY <1>6, <4>1, <4>2, <5>1
      <4> QED BY <4>3, <4>4
    <3>5. <<>> \in Seq(Names) /\ Len(<<>>) <= MaxTarget BY ImportAssumption
    <3> QED BY <3>2, <3>3, <3>4, <3>5
  <2> QED BY <2>1, <2>2
<1>9. TreeFits(made) BY <1>8 DEF TreeFits
<1>10. \A p : (\A n \in 1..Len(d) : p # SubSeq(d, 1, n)) => Import!At(made, p) = Import!At(tr, p) BY <1>7
<1> QED BY <1>3, <1>6, <1>9, <1>10
LEMMA ScriptIsPlain ==
    /\ Import!Script \in Seq(Names) /\ Import!Script # <<>> /\ Len(Import!Script) = 1
    /\ Head(Import!Script) = "openshell-init.sh" /\ ".." \notin Import!ToSet(Import!Script)
<1>1. "openshell-init.sh" \in Names BY ImagesAssumption
<1>2. /\ Import!Script \in Seq(Names) /\ Import!Script # <<>> /\ Len(Import!Script) = 1
      /\ Head(Import!Script) = "openshell-init.sh"
  BY <1>1 DEF Import!Script
<1>3. Import!ToSet(Import!Script) = {"openshell-init.sh"} BY DEF Import!Script, Import!ToSet
<1>4. ".." # "openshell-init.sh" OBVIOUS
<1> QED BY <1>2, <1>3, <1>4

(* A path of one component is in the rootfs itself. *)
LEMMA ScriptStays ==
    \A tr : \A n \in 1..(Len(Import!Script) - 1) : Import!At(tr, SubSeq(Import!Script, 1, n)).kind = "directory"
BY ScriptIsPlain

(* inject_init_script puts the script where no directory is. *)
LEMMA ScriptIsInjected ==
    ASSUME NEW tr, TreeFits(tr), NEW new, new = Import!InjectInitScript(tr), new # None
    PROVE  /\ TreeFits(new) /\ Import!At(new, Import!Script) = Import!Driver(Import!File)
<1>1. /\ Import!At(tr, Import!Script).kind # "directory"
      /\ new = Import!Put(tr, Import!Script, Import!Driver(Import!File))
  BY DEF Import!InjectInitScript
<1>2. /\ Import!Script \in Seq(Names) /\ Import!Script # <<>> /\ Len(Import!Script) = 1
  BY ScriptIsPlain
<1>3. Import!At(tr, Import!Up(Import!Script)).kind = "directory"
  <2>1. Import!Up(Import!Script) = SubSeq(Import!Script, 1, 0) BY <1>2, UpPrefixes
  <2>2. SubSeq(Import!Script, 1, 0) = <<>> BY SubSeqEmpty
  <2> QED BY <2>1, <2>2, RootIsADirectory
<1> DEFINE file == Import!Driver(Import!File)
<1>4. file.kind = "file" /\ file.target = <<>>
  BY DEF Import!Driver, Import!File, Import!Entry
<1> HIDE DEF file
<1>5. <<>> \in Seq(Names) /\ Len(<<>>) <= MaxTarget BY ImportAssumption
<1>6. new = Import!Put(tr, Import!Script, file) BY <1>1 DEF file
<1>7. file.kind \in {"file", "link"} /\ file.target \in Seq(Names) /\ Len(file.target) <= MaxTarget
  BY <1>4, <1>5
<1>8. TreeFits(new) /\ Import!At(new, Import!Script) = file
  BY <1>1, <1>2, <1>3, <1>6, <1>7, PutFits
<1> QED BY <1>8 DEF file

(* install_init makes the directories of the path that it resolved and the *)
(* link at its end, and changes nothing else.                              *)
Installs(tr, w, init, new) ==
    /\ init = Append(w.resolved, "init") /\ WalkFits(tr, w) /\ w.hops <= MaxHops
    /\ TreeFits(new)
    /\ \A n \in 1..Len(w.resolved) :
        /\ Import!At(new, SubSeq(w.resolved, 1, n)).kind = "directory"
        /\ Import!At(tr, SubSeq(w.resolved, 1, n)).kind \in {"directory", "nothing"}
    /\ Import!At(tr, init).kind # "directory"
    /\ Import!At(new, init) = Import!Driver(Import!Link(TRUE, Import!Script))
    /\ \A p : p # init /\ (\A n \in 1..Len(w.resolved) : p # SubSeq(w.resolved, 1, n)) =>
            Import!At(new, p) = Import!At(tr, p)

LEMMA InitIsInstalled ==
    ASSUME NEW tr, TreeFits(tr), NEW init, init = Import!ResolveInRootfs(tr, Import!InitPath),
           init # None, NEW new, new = Import!InstallInit(tr, init), new # None
    PROVE  Installs(tr, Import!Resolving(tr, <<"sbin">>), init, new)
<1> DEFINE w == Import!Resolving(tr, <<"sbin">>)
           d == w.resolved
           made == Import!CreateDirAll(tr, d)
           link == Import!Driver(Import!Link(TRUE, Import!Script))
<1>1. init = Append(d, "init") /\ WalkFits(tr, w) /\ w.hops <= MaxHops BY InitIsRooted
<1>2. d \in Seq(Names) /\ Rooted(tr, d) /\ "init" \in Names /\ Len(d) \in Nat
  BY <1>1, ImagesAssumption, LenProperties DEF WalkFits, Rooted
<1> HIDE DEF w, d
<1>3. init \in Seq(Names) /\ init # <<>> /\ Import!Up(init) = d /\ Len(init) = Len(d) + 1
  BY <1>1, <1>2, AppendPrefixes
<1>4. Import!Front(init) = d BY <1>3 DEF Import!Up
<1>5. made # None /\ Import!At(made, init).kind # "directory" /\ new = Import!Put(made, init, link)
  BY <1>4 DEF Import!InstallInit
<1> HIDE DEF made, link
<1>6. /\ TreeFits(made)
      /\ \A n \in 1..Len(d) : /\ Import!At(made, SubSeq(d, 1, n)).kind = "directory"
                              /\ Import!At(tr, SubSeq(d, 1, n)).kind \in {"directory", "nothing"}
      /\ \A p : (\A n \in 1..Len(d) : p # SubSeq(d, 1, n)) => Import!At(made, p) = Import!At(tr, p)
  BY <1>2, <1>5, DirectoriesAreMade DEF made
<1>7. link.kind = "link" /\ link.target \in Seq(Names) /\ Len(link.target) <= MaxTarget
  <2>2. Import!Script \in Seq(Names) /\ Len(Import!Script) = 1 BY ScriptIsPlain
  <2>3. link.kind = "link" /\ link.target = Import!Script
    BY DEF link, Import!Driver, Import!Link, Import!Entry
  <2>4. 1 <= MaxTarget BY ImportAssumption
  <2> QED BY <2>2, <2>3, <2>4
<1>8. Import!At(made, d).kind = "directory"
  <2>1. CASE d = <<>> BY <2>1, RootIsADirectory
  <2>2. CASE d # <<>>
    <3>1. SubSeq(d, 1, Len(d)) = d /\ Len(d) \in 1..Len(d) BY <1>2, <2>2, SubSeqFull, EmptySeq
    <3> QED BY <1>6, <3>1
  <2> QED BY <2>1, <2>2
<1>9. /\ TreeFits(new) /\ Import!At(new, init) = link
      /\ \A p : p # init => Import!At(new, p) = Import!At(made, p)
  BY <1>3, <1>5, <1>6, <1>7, <1>8, PutFits
<1>10. ASSUME NEW n \in 1..Len(d) PROVE SubSeq(d, 1, n) # init
  <2>1. Len(SubSeq(d, 1, n)) = n BY <1>2, BeginningsFit
  <2> QED BY <1>2, <1>3, <2>1
<1>11. Import!At(tr, init).kind # "directory" BY <1>5, <1>6, <1>10
<1>12. \A n \in 1..Len(d) : /\ Import!At(new, SubSeq(d, 1, n)).kind = "directory"
                            /\ Import!At(tr, SubSeq(d, 1, n)).kind \in {"directory", "nothing"}
  BY <1>6, <1>9, <1>10
<1>13. \A p : p # init /\ (\A n \in 1..Len(d) : p # SubSeq(d, 1, n)) =>
              Import!At(new, p) = Import!At(tr, p)
  BY <1>6, <1>9
<1>14. Installs(tr, w, init, new) BY <1>1, <1>9, <1>11, <1>12, <1>13 DEF d, link, Installs
<1> QED BY <1>14 DEF w

-----------------------------------------------------------------------------
(* What the import does to the rootfs *)

(* The tree stays one; the driver has written to the script and to the     *)
(* path that it resolved, and to neither through a link.                   *)
RootfsInv ==
    /\ image \in Images
    /\ TreeFits(tree)
    /\ step = "inject" => written = {}
    /\ step = "install" => written = {Import!Script}
    /\ Import!StaysInRootfs

LEMMA InitEstablishesRootfsInv == Import!Init => RootfsInv
<1> SUFFICES ASSUME Import!Init PROVE RootfsInv OBVIOUS
<1>1. image \in Images /\ tree = image.tree /\ written = {} /\ step = "inject"
  BY DEF Import!Init, Import!Unpacked
<1>2. TreeFits(tree) BY <1>1, ImagesAssumption DEF TreeFits
<1> QED BY <1>1, <1>2 DEF RootfsInv, Import!StaysInRootfs

(* Only the first two steps of the conversion touch the tree. *)
LEMMA OtherStepsLeaveTheTree ==
    ASSUME Import!Next, ~ Import!Inject, ~ Import!Install
    PROVE  /\ UNCHANGED <<image, tree, written>> /\ step' # "inject" /\ step' # "install"
           /\ step # "done"
           /\ step \in {"inject", "install"} => step' = "done"
<1> USE DEF Import!End, Import!Go, Import!Frame, Import!rootfs, Import!upload
<1>1. CASE Import!Convert BY <1>1 DEF Import!Convert, Import!WriteOwners, Import!Pack, Import!AssembleMetadata
<1>2. CASE Import!Upload
  BY <1>2 DEF Import!Upload, Import!Measure, Import!Connect, Import!Send, Import!SendPreamble,
     Import!ReadChunk, Import!BodyFails, Import!SendClosing, Import!Receive, Import!ConnectionFails
<1>3. CASE Import!Environment
  BY <1>3 DEF Import!Environment, Import!FileChanges, Import!LxdTakes, Import!LxdRefuses, Import!ProxyAnswers
<1> QED BY <1>1, <1>2, <1>3 DEF Import!Next

LEMMA InjectKeepsRootfsInv ==
    ASSUME RootfsInv, Import!Inject
    PROVE  RootfsInv'
<1> DEFINE new == Import!InjectInitScript(tree)
<1>1. image' = image /\ step = "inject" /\ written = {} BY DEF Import!Inject, RootfsInv
<1>2. CASE new # None /\ tree' = new /\ written' = written \cup {Import!Script} /\ step' = "install"
  <2>1. TreeFits(tree') BY <1>2, ScriptIsInjected DEF RootfsInv
  <2>2. written' = {Import!Script} BY <1>1, <1>2
  <2>4. Import!StaysInRootfs' BY <2>2, ScriptIsPlain, ScriptStays DEF Import!StaysInRootfs
  <2> QED BY <1>1, <1>2, <2>1, <2>2, <2>4 DEF RootfsInv
<1>3. CASE UNCHANGED <<tree, written>> /\ step' = "done"
  BY <1>1, <1>3 DEF RootfsInv, Import!StaysInRootfs
<1> QED BY <1>2, <1>3 DEF Import!Inject, Import!Go, Import!End

LEMMA InstallKeepsRootfsInv ==
    ASSUME RootfsInv, Import!Install
    PROVE  RootfsInv'
<1> DEFINE init == Import!ResolveInRootfs(tree, Import!InitPath)
           new == Import!InstallInit(tree, init)
<1>1. image' = image /\ step = "install" /\ written = {Import!Script} BY DEF Import!Install, RootfsInv
<1>2. CASE init # None /\ new # None /\ tree' = new /\ written' = written \cup {init} /\ step' = "owners"
  <2> DEFINE d == Import!Resolving(tree, <<"sbin">>).resolved
  <2>1. /\ init = Append(d, "init") /\ Rooted(tree, d) /\ TreeFits(tree')
        /\ \A n \in 1..Len(d) : Import!At(tree', SubSeq(d, 1, n)).kind = "directory"
    <3>1. TreeFits(tree) BY DEF RootfsInv
    <3> HIDE DEF init, new
    <3>2. PICK i : i = init OBVIOUS
    <3>3. PICK t : t = new OBVIOUS
    <3>4. /\ i = Import!ResolveInRootfs(tree, Import!InitPath) /\ i # None
          /\ t = Import!InstallInit(tree, i) /\ t # None
      BY <1>2, <3>2, <3>3 DEF init, new
    <3>5. Installs(tree, Import!Resolving(tree, <<"sbin">>), i, t) BY <3>1, <3>4, InitIsInstalled
    <3>6. tree' = t BY <1>2, <3>3
    <3> QED BY <3>2, <3>5, <3>6 DEF Installs, WalkFits
  <2>2. d \in Seq(Names) /\ "init" \in Names /\ Len(d) \in Nat
    BY <2>1, ImagesAssumption, LenProperties DEF Rooted
  <2> HIDE DEF d, init, new
  <2>3. /\ init \in Seq(Names) /\ Len(init) = Len(d) + 1 /\ init[Len(d) + 1] = "init"
        /\ \A n \in 1..Len(d) : init[n] = d[n] /\ SubSeq(init, 1, n) = SubSeq(d, 1, n)
    BY <2>1, <2>2, AppendPrefixes
  <2>4. ".." \notin Import!ToSet(init)
    <3>1. DOMAIN init = 1..Len(init) BY <2>3, LenProperties
    <3>2. \A n \in 1..Len(init) : init[n] # ".."
      <4> SUFFICES ASSUME NEW n \in 1..Len(init) PROVE init[n] # ".." OBVIOUS
      <4>1. CASE n = Len(d) + 1 BY <2>3, <4>1
      <4>2. CASE n # Len(d) + 1
        <5>1. n \in 1..Len(d) BY <2>2, <2>3, <4>2
        <5> QED BY <2>1, <2>3, <5>1 DEF Rooted
      <4> QED BY <4>1, <4>2
    <3> QED BY <3>1, <3>2 DEF Import!ToSet
  <2>5. \A n \in 1..(Len(init) - 1) : Import!At(tree', SubSeq(init, 1, n)).kind = "directory"
    <3> SUFFICES ASSUME NEW n \in 1..(Len(init) - 1)
                 PROVE  Import!At(tree', SubSeq(init, 1, n)).kind = "directory"
      OBVIOUS
    <3>1. n \in 1..Len(d) BY <2>2, <2>3
    <3>2. SubSeq(init, 1, n) = SubSeq(d, 1, n) BY <2>3, <3>1
    <3>3. Import!At(tree', SubSeq(d, 1, n)).kind = "directory" BY <2>1, <3>1
    <3> QED BY <3>2, <3>3
  <2>7. written' = {Import!Script, init} BY <1>1, <1>2
  <2>8. Import!StaysInRootfs' BY <2>4, <2>5, <2>7, ScriptIsPlain, ScriptStays DEF Import!StaysInRootfs
  <2> QED BY <1>1, <1>2, <2>1, <2>8 DEF RootfsInv
<1>3. CASE UNCHANGED <<tree, written>> /\ step' = "done"
  BY <1>1, <1>3 DEF RootfsInv, Import!StaysInRootfs
<1> QED BY <1>2, <1>3 DEF Import!Install, Import!Go, Import!End

LEMMA RootfsInvIsInductive ==
    ASSUME RootfsInv, [Import!Next]_(Import!vars)
    PROVE  RootfsInv'
<1>1. CASE Import!Inject BY <1>1, InjectKeepsRootfsInv
<1>2. CASE Import!Install BY <1>2, InstallKeepsRootfsInv
<1>3. CASE Import!Next /\ ~ Import!Inject /\ ~ Import!Install
  BY <1>3, OtherStepsLeaveTheTree DEF RootfsInv, Import!StaysInRootfs
<1>4. CASE UNCHANGED Import!vars
  BY <1>4 DEF Import!vars, Import!rootfs, RootfsInv, Import!StaysInRootfs
<1> QED BY <1>1, <1>2, <1>3, <1>4

(* Whatever links an image has, and however long the walk through them is: *)
(* what the driver writes is below the rootfs, and no directory on the way *)
(* is a link (inject_init_script, resolve_in_rootfs, install_init).        *)
THEOREM WritesStayInRootfs == Import!Spec => []StaysInRootfs
<1>1. RootfsInv => StaysInRootfs BY DEF RootfsInv, StaysInRootfs
<1> QED BY <1>1, InitEstablishesRootfsInv, RootfsInvIsInductive, PTL DEF Import!Spec
-----------------------------------------------------------------------------
(* The driver's walk and the kernel's *)

WalkRecords == [pending : Seq(Names), resolved : Seq(Names), hops : Nat, end : {None, "missing", "loop"}]

Ups(s) == \E k \in 1..Len(s) : s[k] = ".."

(* The tree before and after install_init, the driver's walk through the   *)
(* first and the kernel's through the second.                              *)
Scene(tr, new, init, D, K) ==
    /\ TreeFits(tr)
    /\ ResolvingBy(D, tr, <<"sbin">>) /\ LookupBy(K, new, Import!InitPath)
    /\ Installs(tr, D[Import!WalkSteps], init, new)
    /\ Import!At(new, Import!Script) = Import!Driver(Import!File)

LEMMA DriverWalkFits ==
    ASSUME NEW tr, NEW new, NEW init, NEW D, NEW K, Scene(tr, new, init, D, K),
           NEW n \in 0..Import!WalkSteps
    PROVE  WalkFits(tr, D[n]) /\ D[n] \in WalkRecords
<1>1. "sbin" \in Names BY ImagesAssumption
<1>2. <<"sbin">> \in Seq(Names) BY <1>1
<1> QED BY <1>2, ResolvingFits DEF Scene, WalkFits, WalkRecords

LEMMA DriverTurns ==
    ASSUME NEW tr, NEW new, NEW init, NEW D, NEW K, Scene(tr, new, init, D, K),
           NEW n \in Nat, n < Import!WalkSteps
    PROVE  /\ n + 1 \in 0..Import!WalkSteps /\ n \in 0..Import!WalkSteps
           /\ D[n + 1] = IF D[n].pending = <<>> \/ D[n].hops > MaxHops THEN D[n]
                         ELSE Import!ResolveStep(tr, D[n])
           /\ K[n + 1] = IF K[n].pending = <<>> \/ K[n].end # None THEN K[n]
                         ELSE Import!LookupStep(new, K[n])
<1> DEFINE W == Import!WalkSteps
<1>1. W \in Nat BY WalkStepsIsNat
<1> HIDE DEF W
<1>2. n + 1 \in 1..W /\ (n + 1) - 1 = n /\ n \in 0..W BY <1>1 DEF W
<1>3. /\ D[n + 1] = IF D[n].pending = <<>> \/ D[n].hops > MaxHops THEN D[n]
                    ELSE Import!ResolveStep(tr, D[n])
  BY <1>2 DEF Scene, ResolvingBy, W
<1>4. K[n + 1] = IF K[n].pending = <<>> \/ K[n].end # None THEN K[n]
                 ELSE Import!LookupStep(new, K[n])
  BY <1>2 DEF Scene, LookupBy, W
<1> QED BY <1>1, <1>2, <1>3, <1>4 DEF W

(* A walk that has ended stays where it is. *)
LEMMA EndedStays ==
    ASSUME NEW tr, NEW new, NEW init, NEW D, NEW K, Scene(tr, new, init, D, K),
           NEW n \in 0..Import!WalkSteps, D[n].pending = <<>> \/ D[n].hops > MaxHops
    PROVE  \A m \in n..Import!WalkSteps : D[m] = D[n]
<1> DEFINE W == Import!WalkSteps
           S == {k \in Nat : n + k <= W => D[n + k] = D[n]}
<1>1. W \in Nat /\ n \in Nat BY WalkStepsIsNat
<1> HIDE DEF W
<1>2. 0 \in S BY <1>1
<1>3. ASSUME NEW k \in Nat, k \in S PROVE k + 1 \in S
  <2> SUFFICES ASSUME n + (k + 1) <= W PROVE D[n + (k + 1)] = D[n] OBVIOUS
  <2>1. n + k \in Nat /\ n + k < W /\ n + (k + 1) = (n + k) + 1 BY <1>1
  <2>2. D[n + k] = D[n]
    <3>1. n + k <= W BY <1>1, <2>1
    <3> QED BY <1>3, <3>1
  <2>3. D[(n + k) + 1] = IF D[n + k].pending = <<>> \/ D[n + k].hops > MaxHops THEN D[n + k]
                         ELSE Import!ResolveStep(tr, D[n + k])
    BY <2>1, DriverTurns DEF W
  <2> QED BY <2>1, <2>2, <2>3
<1> HIDE DEF S
<1>4. Nat \subseteq S BY <1>2, <1>3, Induction
<1>5. ASSUME NEW m \in n..W PROVE D[m] = D[n]
  <2>1. m - n \in Nat /\ n + (m - n) = m /\ m <= W BY <1>1
  <2>2. m - n \in S BY <1>4, <2>1
  <2> QED BY <2>1, <2>2 DEF S
<1> QED BY <1>5 DEF W

(* The walk that install_init follows meets no link too many. *)
LEMMA HopsAreFew ==
    ASSUME NEW tr, NEW new, NEW init, NEW D, NEW K, Scene(tr, new, init, D, K),
           NEW n \in 0..Import!WalkSteps
    PROVE  D[n].hops \in Nat /\ D[n].hops <= MaxHops
<1> DEFINE W == Import!WalkSteps
<1>1. W \in Nat /\ W \in n..W BY WalkStepsIsNat
<1>2. D[n].hops \in Nat BY DriverWalkFits DEF WalkRecords
<1>3. D[W].hops <= MaxHops BY DEF Scene, Installs
<1>4. CASE D[n].hops > MaxHops
  <2>1. D[W] = D[n] BY <1>1, <1>4, EndedStays
  <2> QED BY <1>2, <1>3, <2>1
<1>5. CASE ~ (D[n].hops > MaxHops) BY <1>2, <1>5, ImportAssumption
<1> QED BY <1>4, <1>5

LEMMA LinkAddsComponents ==
    ASSUME NEW m \in Nat, NEW n \in Nat, NEW a \in Nat, NEW b, NEW p \in Nat, NEW r \in Nat,
           NEW l \in Nat, NEW q, b = a + m, p + n <= 1 + a, l <= m, r = p - 1, q = l + r
    PROVE  q + (n + 1) <= 1 + b
OBVIOUS

(* Every turn takes a component off, and every link puts at most MaxTarget *)
(* on, so the walk is over two turns before its last.                      *)
LEMMA DriverWalkEnds ==
    ASSUME NEW tr, NEW new, NEW init, NEW D, NEW K, Scene(tr, new, init, D, K)
    PROVE  Import!WalkSteps - 2 \in Nat /\ D[Import!WalkSteps - 2].pending = <<>>
<1> DEFINE W == Import!WalkSteps
           S == {n \in Nat : n <= W => D[n].pending = <<>>
                                        \/ Len(D[n].pending) + n <= 1 + D[n].hops * MaxTarget}
<1>1. W \in Nat /\ W = 3 + MaxHops * MaxTarget BY WalkStepsIsNat
<1>2. MaxHops \in Nat /\ MaxTarget \in Nat BY ImportAssumption
<1> HIDE DEF W
<1>3. 0 \in S
  <2>1. D[0] = [pending |-> <<"sbin">>, resolved |-> <<>>, hops |-> 0, end |-> None]
    BY DEF Scene, ResolvingBy, Import!From
  <2>2. Len(D[0].pending) = 1 /\ D[0].hops = 0 BY <2>1
  <2>3. 0 * MaxTarget = 0 BY <1>2
  <2>4. Len(D[0].pending) + 0 <= 1 + D[0].hops * MaxTarget BY <2>2, <2>3
  <2> QED BY <2>4
<1>4. ASSUME NEW n \in Nat, n \in S PROVE n + 1 \in S
  <2> SUFFICES ASSUME n + 1 <= W, D[n + 1].pending # <<>>
               PROVE  Len(D[n + 1].pending) + (n + 1) <= 1 + D[n + 1].hops * MaxTarget
    OBVIOUS
  <2>1. n < W /\ n \in 0..W /\ n + 1 \in 0..W BY <1>1
  <2>2. D[n + 1] = IF D[n].pending = <<>> \/ D[n].hops > MaxHops THEN D[n]
                   ELSE Import!ResolveStep(tr, D[n])
    BY <2>1, DriverTurns DEF W
  <2>3. D[n].hops \in Nat /\ D[n].hops <= MaxHops /\ WalkFits(tr, D[n]) /\ D[n] \in WalkRecords
    BY <2>1, HopsAreFew, DriverWalkFits DEF W
  <2>4. D[n].pending # <<>> BY <2>2
  <2>5. D[n + 1] = Import!ResolveStep(tr, D[n]) BY <1>2, <2>2, <2>3, <2>4
  <2> DEFINE x == Head(D[n].pending)
             link == Import!At(tr, Append(D[n].resolved, x))
             rest == Tail(D[n].pending)
  <2>6. D[n].pending \in Seq(Names) /\ rest \in Seq(Names) /\ Len(rest) = Len(D[n].pending) - 1
        /\ Len(D[n].pending) \in Nat
    BY <2>3, <2>4, HeadAndTail, LenProperties DEF WalkRecords
  <2>7. Len(D[n].pending) + n <= 1 + D[n].hops * MaxTarget BY <1>4, <2>1, <2>4
  <2>8. \/ D[n + 1].pending = rest /\ D[n + 1].hops = D[n].hops
        \/ /\ link.target \in Seq(Names) /\ Len(link.target) <= MaxTarget
           /\ D[n + 1].pending = link.target \o rest /\ D[n + 1].hops = D[n].hops + 1
    <3>1. TreeFits(tr) BY DEF Scene
    <3>2. Turns(tr, D[n], D[n + 1]) BY <2>3, <2>4, <2>5, <3>1, ResolveStepDoes
    <3> QED BY <3>2 DEF Turns
  <2> HIDE DEF x, link, rest
  <2>9. D[n].hops * MaxTarget \in Nat BY <1>2, <2>3
  <2>10. CASE D[n + 1].pending = rest /\ D[n + 1].hops = D[n].hops
    BY <2>6, <2>7, <2>9, <2>10
  <2>11. CASE /\ link.target \in Seq(Names) /\ Len(link.target) <= MaxTarget
              /\ D[n + 1].pending = link.target \o rest /\ D[n + 1].hops = D[n].hops + 1
    <3>1. Len(D[n + 1].pending) = Len(link.target) + Len(rest)
      <4>1. link.target \in Seq(Names) /\ rest \in Seq(Names) BY <2>6, <2>11
      <4>2. Len(link.target \o rest) = Len(link.target) + Len(rest) BY <4>1, ConcatProperties
      <4> QED BY <2>11, <4>2
    <3>2. Len(link.target) \in Nat BY <2>11, LenProperties
    <3>3. (D[n].hops + 1) * MaxTarget = D[n].hops * MaxTarget + MaxTarget BY <1>2, <2>3
    <3>4. D[n + 1].hops * MaxTarget = D[n].hops * MaxTarget + MaxTarget BY <2>11, <3>3
    <3>5. Len(D[n + 1].pending) = Len(link.target) + Len(rest) /\ Len(link.target) <= MaxTarget
      BY <2>11, <3>1
    <3> DEFINE a == D[n].hops * MaxTarget
               b == D[n + 1].hops * MaxTarget
               p == Len(D[n].pending)
               q == Len(D[n + 1].pending)
               r == Len(rest)
               l == Len(link.target)
    <3>6. a \in Nat /\ b = a + MaxTarget /\ Len(D[n].pending) + n <= 1 + a BY <2>7, <2>9, <3>4
    <3>7. Len(rest) \in Nat BY <2>6, LenProperties
    <3>8. /\ a \in Nat /\ b = a + MaxTarget /\ p + n <= 1 + a /\ q = l + r /\ l <= MaxTarget
          /\ p \in Nat /\ r = p - 1 /\ r \in Nat /\ l \in Nat
      BY <2>6, <3>2, <3>5, <3>6, <3>7
    <3> HIDE DEF S, a, b, p, q, r, l
    <3>9. q + (n + 1) <= 1 + b BY <1>2, <3>8, LinkAddsComponents
    <3> QED BY <3>9 DEF b, q
  <2> QED BY <2>8, <2>10, <2>11
<1> HIDE DEF S
<1>5. Nat \subseteq S BY <1>3, <1>4, Induction
<1>6. MaxHops * MaxTarget \in Nat BY <1>2
<1>7. W - 2 \in Nat /\ W - 2 = 1 + MaxHops * MaxTarget /\ W - 2 <= W /\ W - 2 \in 0..W BY <1>1, <1>6
<1>8. D[W - 2].pending = <<>> \/ Len(D[W - 2].pending) + (W - 2) <= 1 + D[W - 2].hops * MaxTarget
  BY <1>5, <1>7 DEF S
<1>9. D[W - 2].hops \in Nat /\ D[W - 2].hops <= MaxHops /\ D[W - 2].pending \in Seq(Names)
  BY <1>7, HopsAreFew, DriverWalkFits DEF W, WalkRecords
<1>10. D[W - 2].hops * MaxTarget \in Nat /\ D[W - 2].hops * MaxTarget <= MaxHops * MaxTarget
  BY <1>2, <1>9
<1>11. D[W - 2].pending = <<>>
  <2>1. Len(D[W - 2].pending) \in Nat BY <1>9, LenProperties
  <2>2. D[W - 2].pending # <<>> => Len(D[W - 2].pending) # 0 BY <1>9, EmptySeq
  <2> QED BY <1>6, <1>7, <1>8, <1>10, <2>1, <2>2
<1> QED BY <1>7, <1>11 DEF W

(* Below what is no directory there is nothing. *)
LEMMA NothingBelow ==
    ASSUME NEW tr, TreeFits(tr), NEW h \in Seq(Names), Import!At(tr, h).kind # "directory",
           NEW q \in Seq(Names), Len(h) < Len(q), SubSeq(q, 1, Len(h)) = h
    PROVE  Import!At(tr, q).kind = "nothing"
<1> DEFINE Below(p, k) == p \in Seq(Names) /\ Len(p) = Len(h) + k + 1 /\ SubSeq(p, 1, Len(h)) = h
           S == {k \in Nat : \A p : Below(p, k) => Import!At(tr, p).kind = "nothing"}
<1>1. Len(h) \in Nat /\ Len(q) \in Nat BY LenProperties
<1>2. ASSUME NEW k \in Nat, NEW p, Below(p, k), Import!At(tr, p).kind # "nothing"
      PROVE  /\ p # <<>> /\ Import!At(tr, Import!Up(p)).kind = "directory"
             /\ Import!Up(p) \in Seq(Names) /\ Len(Import!Up(p)) = Len(h) + k
             /\ SubSeq(Import!Up(p), 1, Len(h)) = h
  <2>1. p \in Seq(Names) /\ p # <<>> BY <1>1, <1>2
  <2>2. p \in DOMAIN tr BY <1>2, <2>1, AtIs
  <2>3. Import!Up(p) \in Seq(Names) /\ Len(Import!Up(p)) = Len(h) + k BY <1>1, <1>2, <2>1, UpPrefixes
  <2>4. \A n \in 1..Len(Import!Up(p)) : Import!Up(p)[n] = p[n] BY <2>1, UpPrefixes
  <2> DEFINE u == Import!Up(p)
  <2> HIDE DEF u
  <2>5. /\ u \in Seq(Names) /\ Len(h) \in 0..Len(u) /\ Len(h) <= Len(p)
        /\ \A n \in 1..Len(h) : u[n] = p[n]
    BY <1>1, <1>2, <2>3, <2>4 DEF u
  <2>6. SubSeq(u, 1, Len(h)) = SubSeq(p, 1, Len(h)) BY <2>1, <2>5, SameBeginning
  <2> QED BY <1>2, <2>1, <2>2, <2>3, <2>6 DEF TreeFits, u
<1>3. 0 \in S
  <2>0. PICK z \in Nat : z = 0 OBVIOUS
  <2> SUFFICES ASSUME NEW p, Below(p, z), Import!At(tr, p).kind # "nothing" PROVE FALSE BY <2>0
  <2>1. /\ Import!At(tr, Import!Up(p)).kind = "directory" /\ Import!Up(p) \in Seq(Names)
        /\ Len(Import!Up(p)) = Len(h) + z /\ SubSeq(Import!Up(p), 1, Len(h)) = h
    BY <1>2
  <2>2. Import!Up(p) = h BY <1>1, <2>0, <2>1, SubSeqFull
  <2> QED BY <2>1, <2>2
<1>4. ASSUME NEW k \in Nat, k \in S PROVE k + 1 \in S
  <2>0. PICK m \in Nat : m = k + 1 OBVIOUS
  <2> SUFFICES ASSUME NEW p, Below(p, m), Import!At(tr, p).kind # "nothing" PROVE FALSE BY <2>0
  <2>1. /\ Import!At(tr, Import!Up(p)).kind = "directory" /\ Import!Up(p) \in Seq(Names)
        /\ Len(Import!Up(p)) = Len(h) + m /\ SubSeq(Import!Up(p), 1, Len(h)) = h
    BY <1>2
  <2>2. Len(h) + m = Len(h) + k + 1 BY <1>1, <2>0
  <2>3. Below(Import!Up(p), k) BY <2>1, <2>2
  <2> QED BY <1>4, <2>1, <2>3
<1> HIDE DEF S
<1>5. Nat \subseteq S BY <1>3, <1>4, Induction
<1>6. Len(q) - Len(h) - 1 \in Nat /\ Len(q) = Len(h) + (Len(q) - Len(h) - 1) + 1 BY <1>1
<1>7. Len(q) - Len(h) - 1 \in S /\ Below(q, Len(q) - Len(h) - 1) BY <1>5, <1>6
<1> QED BY <1>7 DEF S

(* The driver is about to take what is neither a directory nor a link, and *)
(* its path does not go up again: then it stays below it.                  *)
Strays(tr, w, h) ==
    /\ w.pending # <<>> /\ Head(w.pending) # ".." /\ h = Append(w.resolved, Head(w.pending))
    /\ Import!At(tr, h).kind \notin {"directory", "link"} /\ ~ Ups(Tail(w.pending))

LEMMA StaysBelow ==
    ASSUME NEW tr, NEW new, NEW init, NEW D, NEW K, Scene(tr, new, init, D, K),
           NEW n \in Nat, n < Import!WalkSteps, NEW h, Strays(tr, D[n], h)
    PROVE  \E k \in 1..Len(D[Import!WalkSteps].resolved) : h = SubSeq(D[Import!WalkSteps].resolved, 1, k)
<1> DEFINE W == Import!WalkSteps
           Below(r) == r \in Seq(Names) /\ Len(h) <= Len(r) /\ SubSeq(r, 1, Len(h)) = h
           S == {k \in Nat : n + 1 + k <= W => ~ Ups(D[n + 1 + k].pending) /\ Below(D[n + 1 + k].resolved)}
<1> USE DEF Strays
<1>1. W \in Nat /\ n \in 0..W /\ n < W BY WalkStepsIsNat
<1>2. TreeFits(tr) /\ MaxHops \in Nat BY ImportAssumption DEF Scene
<1>3. WalkFits(tr, D[n]) /\ D[n] \in WalkRecords BY <1>1, DriverWalkFits
<1>4. D[n].pending \in Seq(Names) /\ D[n].resolved \in Seq(Names) BY <1>3 DEF WalkRecords
<1>5. h \in Seq(Names) /\ h # <<>> /\ Len(h) \in Nat /\ Len(h) > 0
  <2>1. Head(D[n].pending) \in Names BY <1>4, HeadAndTail
  <2>2. h \in Seq(Names) /\ h # <<>> BY <1>4, <2>1, AppendPrefixes
  <2> QED BY <2>2, LenProperties, EmptySeq
<1>6. ASSUME NEW m \in Nat, m < W, D[m].pending # <<>>
      PROVE  Turns(tr, D[m], D[m + 1])
  <2>1. m \in 0..W BY <1>1, <1>6
  <2>2. D[m].hops \in Nat /\ D[m].hops <= MaxHops /\ WalkFits(tr, D[m])
    BY <2>1, HopsAreFew, DriverWalkFits
  <2>3. D[m + 1] = Import!ResolveStep(tr, D[m])
    <3>1. D[m + 1] = IF D[m].pending = <<>> \/ D[m].hops > MaxHops THEN D[m]
                     ELSE Import!ResolveStep(tr, D[m])
      BY <1>6, DriverTurns
    <3> QED BY <1>2, <1>6, <2>2, <3>1
  <2> QED BY <1>2, <1>6, <2>2, <2>3, ResolveStepDoes
<1> HIDE DEF W
<1>7. 0 \in S
  <2>1. Turns(tr, D[n], D[n + 1]) BY <1>1, <1>6
  <2>2. D[n + 1].pending = Tail(D[n].pending) /\ D[n + 1].resolved = h BY <2>1 DEF Turns
  <2>3. SubSeq(h, 1, Len(h)) = h BY <1>5, SubSeqFull
  <2>4. Below(h) BY <1>5, <2>3
  <2>5. n + 1 + 0 = n + 1 OBVIOUS
  <2> HIDE DEF Below
  <2> QED BY <2>2, <2>4, <2>5
<1>8. ASSUME NEW k \in Nat, k \in S PROVE k + 1 \in S
  <2> DEFINE m == n + 1 + k
  <2>1. m \in Nat /\ n + 1 + (k + 1) = m + 1 OBVIOUS
  <2> SUFFICES ASSUME m + 1 <= W PROVE ~ Ups(D[m + 1].pending) /\ Below(D[m + 1].resolved)
    BY <2>1
  <2>2. m < W /\ m <= W /\ m \in 0..W BY <1>1, <2>1
  <2>3. ~ Ups(D[m].pending) /\ Below(D[m].resolved) BY <1>8, <2>2
  <2> HIDE DEF m, S
  <2>4. CASE D[m].pending = <<>>
    <3>1. D[m + 1] = D[m]
      <4>1. D[m + 1] = IF D[m].pending = <<>> \/ D[m].hops > MaxHops THEN D[m]
                       ELSE Import!ResolveStep(tr, D[m])
        BY <2>1, <2>2, DriverTurns DEF W
      <4> QED BY <2>4, <4>1
    <3> QED BY <2>3, <3>1
  <2>5. CASE D[m].pending # <<>>
    <3> DEFINE y == Head(D[m].pending)
               r == D[m].resolved
               g == Append(r, y)
    <3>1. WalkFits(tr, D[m]) /\ D[m] \in WalkRecords BY <2>2, DriverWalkFits DEF W
    <3>2. D[m].pending \in Seq(Names) /\ r \in Seq(Names) /\ Len(r) \in Nat
      BY <3>1, LenProperties DEF WalkRecords
    <3>3. /\ y \in Names /\ y = D[m].pending[1] /\ Len(D[m].pending) \in Nat \ {0}
          /\ Len(Tail(D[m].pending)) = Len(D[m].pending) - 1
          /\ \A i \in 1..Len(Tail(D[m].pending)) :
                i + 1 \in 1..Len(D[m].pending) /\ Tail(D[m].pending)[i] = D[m].pending[i + 1]
      BY <2>5, <3>2, HeadAndTail, LenProperties, EmptySeq
    <3>4. y # ".." /\ ~ Ups(Tail(D[m].pending))
      <4>1. 1 \in 1..Len(D[m].pending) BY <3>3
      <4>2. \A i \in 1..Len(D[m].pending) : D[m].pending[i] # ".." BY <2>3 DEF Ups
      <4>3. y # ".." BY <3>3, <4>1, <4>2
      <4>4. \A i \in 1..Len(Tail(D[m].pending)) : Tail(D[m].pending)[i] # ".." BY <3>3, <4>2
      <4> QED BY <4>3, <4>4 DEF Ups
    <3> HIDE DEF y, r, g
    <3>5. /\ g \in Seq(Names) /\ Len(g) = Len(r) + 1
          /\ \A i \in 1..Len(r) : SubSeq(g, 1, i) = SubSeq(r, 1, i)
      BY <3>2, <3>3, AppendPrefixes DEF g
    <3>6. Len(h) \in 1..Len(r) /\ SubSeq(r, 1, Len(h)) = h BY <1>5, <2>3, <3>2 DEF r
    <3>7. Len(h) < Len(g) /\ SubSeq(g, 1, Len(h)) = h
      <4>1. SubSeq(g, 1, Len(h)) = SubSeq(r, 1, Len(h)) BY <3>5, <3>6
      <4>2. Len(g) = Len(r) + 1 /\ Len(h) <= Len(r) BY <3>2, <3>5, <3>6
      <4>3. Len(h) < Len(g) BY <1>5, <3>2, <4>2
      <4> QED BY <3>6, <4>1, <4>3
    <3>8. Import!At(tr, g).kind = "nothing" BY <1>2, <1>5, <3>5, <3>7, NothingBelow
    <3>9. Turns(tr, D[m], D[m + 1]) BY <1>6, <2>1, <2>2, <2>5
    <3>10. D[m + 1].pending = Tail(D[m].pending) /\ D[m + 1].resolved = g
      BY <3>4, <3>8, <3>9 DEF Turns, y, r, g
    <3>11. Below(g) BY <1>5, <3>2, <3>5, <3>7
    <3> HIDE DEF Below
    <3> QED BY <3>4, <3>10, <3>11
  <2> QED BY <2>4, <2>5
<1> HIDE DEF S
<1>9. Nat \subseteq S BY <1>7, <1>8, Induction
<1>10. W - n - 1 \in Nat /\ n + 1 + (W - n - 1) = W /\ W <= W BY <1>1
<1>11. Below(D[W].resolved)
  <2>1. W - n - 1 \in S BY <1>9, <1>10
  <2> HIDE DEF Below
  <2> QED BY <1>10, <2>1 DEF S
<1>12. Len(h) \in 1..Len(D[W].resolved) BY <1>5, <1>11, LenProperties
<1> QED BY <1>11, <1>12 DEF W

-----------------------------------------------------------------------------
(* What a turn of the kernel's lookup does, from a place on its way. *)
WalkAt(p, r, h, e) == [pending |-> p, resolved |-> r, hops |-> h, end |-> e]

Looks(tr, p, r, h, next) ==
    LET x == Head(p)
        rest == Tail(p)
        here == Append(r, x)
        link == Import!At(tr, here)
    IN /\ x = ".." => next = WalkAt(rest, Import!Up(r), h, None)
       /\ x # ".." /\ (link.kind = "nothing" \/ (link.kind = "file" /\ rest # <<>>)) =>
            next = WalkAt(p, r, h, "missing")
       /\ x # ".." /\ link.kind = "link" /\ h = MaxHops => next = WalkAt(p, r, h, "loop")
       /\ x # ".." /\ link.kind = "link" /\ h # MaxHops =>
            next = WalkAt(link.target \o rest, IF link.absolute THEN <<>> ELSE r, h + 1, None)
       /\ x # ".." /\ (link.kind = "directory" \/ (link.kind = "file" /\ rest = <<>>)) =>
            next = WalkAt(rest, here, h, None)

LEMMA LookupStepDoes ==
    ASSUME NEW tr, NEW p, NEW r, NEW h
    PROVE  Looks(tr, p, r, h, Import!LookupStep(tr, WalkAt(p, r, h, None)))
<1> DEFINE x == Head(p)
           rest == Tail(p)
           here == Append(r, x)
           link == Import!At(tr, here)
           w == WalkAt(p, r, h, None)
           next == Import!LookupStep(tr, w)
<1>1. w.pending = p /\ w.resolved = r /\ w.hops = h /\ w.end = None
      /\ w = [pending |-> p, resolved |-> r, hops |-> h, end |-> None]
  BY DEF WalkAt
<1> HIDE DEF w
<1>2. next = CASE x = ".." -> [w EXCEPT !.pending = rest, !.resolved = Import!Up(@)]
         [] x # ".." /\ link.kind = "nothing" -> [w EXCEPT !.end = "missing"]
         [] x # ".." /\ link.kind = "file" /\ rest # <<>> -> [w EXCEPT !.end = "missing"]
         [] x # ".." /\ link.kind = "link" ->
                IF w.hops = MaxHops THEN [w EXCEPT !.end = "loop"]
                ELSE Import!Follow(w, link, rest)
         [] OTHER -> [w EXCEPT !.pending = rest, !.resolved = here]
  BY <1>1 DEF Import!LookupStep
<1> HIDE DEF x, rest, here, link, next
<1>3. x = ".." => next = WalkAt(rest, Import!Up(r), h, None)
  BY <1>1, <1>2 DEF WalkAt
<1>4. x # ".." /\ (link.kind = "nothing" \/ (link.kind = "file" /\ rest # <<>>)) =>
            next = WalkAt(p, r, h, "missing")
  BY <1>1, <1>2 DEF WalkAt
<1>5. x # ".." /\ link.kind = "link" /\ h = MaxHops => next = WalkAt(p, r, h, "loop")
  BY <1>1, <1>2 DEF WalkAt
<1>6. x # ".." /\ link.kind = "link" /\ h # MaxHops =>
            next = WalkAt(link.target \o rest, IF link.absolute THEN <<>> ELSE r, h + 1, None)
  <2> SUFFICES ASSUME x # "..", link.kind = "link", h # MaxHops
               PROVE  next = WalkAt(link.target \o rest, IF link.absolute THEN <<>> ELSE r, h + 1, None)
    OBVIOUS
  <2>1. next = Import!Follow(w, link, rest) BY <1>1, <1>2
  <2>2. next = [w EXCEPT !.hops = w.hops + 1, !.pending = link.target \o rest,
                         !.resolved = IF link.absolute THEN <<>> ELSE w.resolved]
    BY <2>1 DEF Import!Follow
  <2> QED BY <1>1, <2>2 DEF WalkAt
<1>7. x # ".." /\ (link.kind = "directory" \/ (link.kind = "file" /\ rest = <<>>)) =>
            next = WalkAt(rest, here, h, None)
  BY <1>1, <1>2 DEF WalkAt
<1> QED BY <1>3, <1>4, <1>5, <1>6, <1>7 DEF Looks, x, rest, here, link, next, w

-----------------------------------------------------------------------------
(* The kernel's lookup, beside the driver's walk *)

(* The kernel is where the driver is; at the init's link; at what comes    *)
(* before the script; or at one of its ends.                               *)
Beside(d, k) == k = WalkAt(Append(d.pending, "init"), d.resolved, d.hops, None)

AtScript(k) == \E h \in Nat : k = WalkAt(Import!Script, <<>>, h, None)

BeforeScript(k) ==
    /\ k.resolved = <<>> /\ k.end = None /\ k.pending \in Seq(Names) /\ Len(k.pending) > 1
    /\ Head(k.pending) = Head(Import!Script) /\ k = WalkAt(k.pending, k.resolved, k.hops, k.end)

Found(k) == k.end = None /\ k.pending = <<>> /\ k.resolved = Import!Script

NotFound(k) ==
    \/ k.end \in {"missing", "loop"} /\ ".." \in Import!ToSet(k.pending)
    \/ k.end = "loop" /\ Len(k.pending) = 1
    \/ k.end = "missing" /\ k.resolved = <<>> /\ Head(k.pending) = Head(Import!Script)

LooksUp(n, d, k) ==
    \/ n <= Import!WalkSteps - 2 /\ Beside(d, k)
    \/ n <= Import!WalkSteps - 1 /\ (AtScript(k) \/ BeforeScript(k))
    \/ Found(k) \/ NotFound(k)

LEMMA WalkAtHas ==
    ASSUME NEW p, NEW r, NEW h, NEW e
    PROVE  /\ WalkAt(p, r, h, e).pending = p /\ WalkAt(p, r, h, e).resolved = r
           /\ WalkAt(p, r, h, e).hops = h /\ WalkAt(p, r, h, e).end = e
BY DEF WalkAt

(* The script is a file in the root; what is looked up behind it is not    *)
(* there.                                                                  *)
LEMMA ScriptIsFound ==
    ASSUME NEW tr, NEW k, Import!At(tr, Import!Script) = Import!Driver(Import!File)
    PROVE  /\ AtScript(k) => Found(Import!LookupStep(tr, k))
           /\ BeforeScript(k) => NotFound(Import!LookupStep(tr, k))
<1>1. Import!At(tr, Import!Script).kind = "file" BY DEF Import!Driver, Import!File, Import!Entry
<1>2. Import!Script = <<"openshell-init.sh">> BY DEF Import!Script
<1>3. Append(<<>>, "openshell-init.sh") = Import!Script BY <1>2
<1>4. ASSUME AtScript(k) PROVE Found(Import!LookupStep(tr, k))
  <2>1. PICK h \in Nat : k = WalkAt(Import!Script, <<>>, h, None) BY <1>4 DEF AtScript
  <2>2. Looks(tr, Import!Script, <<>>, h, Import!LookupStep(tr, k)) BY <2>1, LookupStepDoes
  <2>3. Head(Import!Script) = "openshell-init.sh" /\ Tail(Import!Script) = <<>> BY <1>2
  <2>4. Head(Import!Script) # ".." BY <2>3
  <2>5. Append(<<>>, Head(Import!Script)) = Import!Script BY <1>3, <2>3
  <2>6. Import!LookupStep(tr, k) = WalkAt(<<>>, Import!Script, h, None)
    BY <1>1, <2>2, <2>3, <2>4, <2>5 DEF Looks
  <2> QED BY <2>6, WalkAtHas DEF Found
<1>5. ASSUME BeforeScript(k) PROVE NotFound(Import!LookupStep(tr, k))
  <2> DEFINE p == k.pending
             h == k.hops
  <2>1. k = WalkAt(p, <<>>, h, None) /\ p \in Seq(Names) /\ Len(p) > 1 /\ Head(p) = "openshell-init.sh"
    BY <1>2, <1>5 DEF BeforeScript
  <2> HIDE DEF p, h
  <2>2. Looks(tr, p, <<>>, h, Import!LookupStep(tr, k)) BY <2>1, LookupStepDoes
  <2>3. Tail(p) # <<>>
    <3>1. p # <<>> BY <2>1
    <3>2. Len(Tail(p)) = Len(p) - 1 BY <2>1, <3>1, HeadAndTail
    <3>3. Len(p) \in Nat BY <2>1, LenProperties
    <3>4. Len(p) > 1 BY <2>1
    <3>5. Len(Tail(p)) # 0 BY <3>2, <3>3, <3>4
    <3>6. Len(<<>>) = 0 OBVIOUS
    <3> QED BY <3>5, <3>6
  <2>4. Append(<<>>, Head(p)) = Import!Script /\ Head(p) # ".." BY <1>3, <2>1
  <2>5. Import!LookupStep(tr, k) = WalkAt(p, <<>>, h, "missing")
    BY <1>1, <2>2, <2>3, <2>4 DEF Looks
  <2>6. Head(p) = Head(Import!Script) BY <1>2, <2>1
  <2> QED BY <2>5, <2>6, WalkAtHas DEF NotFound
<1> QED BY <1>4, <1>5

(* Where the driver's walk is over, the kernel meets the init's link. *)
LEMMA InitIsMet ==
    ASSUME NEW tr, NEW new, NEW init, NEW D, NEW K, Scene(tr, new, init, D, K),
           NEW n \in 0..Import!WalkSteps, D[n].pending = <<>>, Beside(D[n], K[n])
    PROVE  \/ AtScript(Import!LookupStep(new, K[n])) \/ NotFound(Import!LookupStep(new, K[n]))
<1> DEFINE W == Import!WalkSteps
           h == D[n].hops
           r == D[n].resolved
           link == Import!Driver(Import!Link(TRUE, Import!Script))
<1>1. W \in Nat /\ W \in n..W BY WalkStepsIsNat
<1>2. D[W] = D[n] BY <1>1, EndedStays
<1>3. Import!At(new, Append(r, "init")) = link BY <1>2 DEF Scene, Installs
<1>4. link.kind = "link" /\ link.target = Import!Script /\ link.absolute = TRUE
  BY DEF Import!Driver, Import!Link, Import!Entry
<1>5. h \in Nat /\ h <= MaxHops BY HopsAreFew
<1>6. Append(<<>>, "init") = <<"init">> /\ Head(<<"init">>) = "init" /\ Tail(<<"init">>) = <<>>
      /\ "init" # ".." /\ Len(<<"init">>) = 1
  OBVIOUS
<1>7. K[n] = WalkAt(<<"init">>, r, h, None) BY <1>6 DEF Beside
<1> HIDE DEF link, h, r
<1>8. Looks(new, <<"init">>, r, h, Import!LookupStep(new, K[n])) BY <1>7, LookupStepDoes
<1>9. CASE h = MaxHops
  <2>1. Import!LookupStep(new, K[n]) = WalkAt(<<"init">>, r, h, "loop")
    BY <1>3, <1>4, <1>6, <1>8, <1>9 DEF Looks
  <2> QED BY <1>6, <2>1, WalkAtHas DEF NotFound
<1>10. CASE h # MaxHops
  <2>1. Import!LookupStep(new, K[n]) = WalkAt(Import!Script \o <<>>, <<>>, h + 1, None)
    BY <1>3, <1>4, <1>6, <1>8, <1>10 DEF Looks
  <2>2. Import!Script \o <<>> = Import!Script BY ScriptIsPlain, ConcatEmptySeq
  <2>3. h + 1 \in Nat BY <1>5
  <2> QED BY <2>1, <2>2, <2>3 DEF AtScript
<1> QED BY <1>9, <1>10

(* What the kernel still has to look up, with the init at its end. *)
LEMMA PendingWithInit ==
    ASSUME NEW p \in Seq(Names), p # <<>>
    PROVE  /\ Append(p, "init") \in Seq(Names) /\ Append(p, "init") # <<>>
           /\ Head(Append(p, "init")) = Head(p)
           /\ Tail(Append(p, "init")) = Append(Tail(p), "init") /\ Append(Tail(p), "init") # <<>>
           /\ Ups(Tail(p)) => ".." \in Import!ToSet(Append(Tail(p), "init"))
           /\ Ups(Tail(p)) => ".." \in Import!ToSet(Append(p, "init"))
<1>1. "init" \in Names BY ImagesAssumption
<1>2. Tail(p) \in Seq(Names) /\ Len(Tail(p)) = Len(p) - 1 /\ Len(p) \in Nat
      /\ \A n \in 1..Len(Tail(p)) : n + 1 \in 1..Len(p) /\ Tail(p)[n] = p[n + 1]
  BY HeadAndTail, LenProperties
<1>3. /\ Append(p, "init") \in Seq(Names) /\ Append(p, "init") # <<>>
      /\ Len(Append(p, "init")) = Len(p) + 1 /\ \A n \in 1..Len(p) : Append(p, "init")[n] = p[n]
  BY <1>1, AppendPrefixes
<1>4. /\ Append(Tail(p), "init") \in Seq(Names) /\ Append(Tail(p), "init") # <<>>
      /\ Len(Append(Tail(p), "init")) = Len(Tail(p)) + 1
      /\ \A n \in 1..Len(Tail(p)) : Append(Tail(p), "init")[n] = Tail(p)[n]
  BY <1>1, <1>2, AppendPrefixes
<1>5. Head(Append(p, "init")) = Head(p) /\ Tail(Append(p, "init")) = Append(Tail(p), "init")
  BY <1>1
<1>6. ASSUME NEW n \in 1..Len(Tail(p)), Tail(p)[n] = ".."
      PROVE  ".." \in Import!ToSet(Append(Tail(p), "init")) /\ ".." \in Import!ToSet(Append(p, "init"))
  <2>1. n \in 1..(Len(Tail(p)) + 1) /\ Append(Tail(p), "init")[n] = ".." BY <1>2, <1>4, <1>6
  <2>2. n + 1 \in 1..Len(p) /\ n + 1 \in 1..(Len(p) + 1) BY <1>2
  <2>3. Append(p, "init")[n + 1] = ".." BY <1>2, <1>3, <1>6, <2>2
  <2>4. DOMAIN Append(Tail(p), "init") = 1..(Len(Tail(p)) + 1) /\ DOMAIN Append(p, "init") = 1..(Len(p) + 1)
    BY <1>3, <1>4, LenProperties
  <2> QED BY <2>1, <2>2, <2>3, <2>4 DEF Import!ToSet
<1> QED BY <1>3, <1>4, <1>5, <1>6 DEF Ups

(* While the driver still has something to resolve, the kernel keeps with  *)
(* it, does not find what the driver took as it is, or comes to the init   *)
(* before the end.                                                         *)
LEMMA KernelKeepsUp ==
    ASSUME NoneIsApart, NEW tr, NEW new, NEW init, NEW D, NEW K, Scene(tr, new, init, D, K),
           NEW n \in Nat, n < Import!WalkSteps, D[n].pending # <<>>, Beside(D[n], K[n])
    PROVE  LET next == Import!LookupStep(new, K[n])
           IN Beside(D[n + 1], next) \/ BeforeScript(next) \/ NotFound(next)
<1> DEFINE W == Import!WalkSteps
           p == D[n].pending
           r == D[n].resolved
           hops == D[n].hops
           x == Head(p)
           rest == Append(Tail(p), "init")
           here == Append(r, x)
           old == Import!At(tr, here)
           met == Import!At(new, here)
           next == Import!LookupStep(new, K[n])
           d == D[W].resolved
           link == Import!Driver(Import!Link(TRUE, Import!Script))
<1>1. W \in Nat /\ n \in 0..W /\ n + 1 \in 0..W BY WalkStepsIsNat
<1>2. WalkFits(tr, D[n]) /\ D[n] \in WalkRecords /\ D[n + 1] \in WalkRecords BY <1>1, DriverWalkFits
<1>3. p \in Seq(Names) /\ r \in Seq(Names) /\ hops \in Nat BY <1>2 DEF WalkRecords
<1>4. hops <= MaxHops /\ D[n + 1].hops <= MaxHops BY <1>1, HopsAreFew
<1>5. MaxHops \in Nat /\ TreeFits(tr) /\ TreeFits(new) BY ImportAssumption DEF Scene, Installs
<1>6. Turns(tr, D[n], D[n + 1])
  <2>1. D[n + 1] = IF D[n].pending = <<>> \/ D[n].hops > MaxHops THEN D[n]
                   ELSE Import!ResolveStep(tr, D[n])
    BY DriverTurns
  <2>2. D[n + 1] = Import!ResolveStep(tr, D[n]) BY <1>3, <1>4, <1>5, <2>1
  <2> QED BY <1>2, <1>5, <2>2, ResolveStepDoes
<1>7. \/ /\ x = ".." /\ D[n + 1].pending = Tail(p) /\ D[n + 1].resolved = Import!Up(r) /\ D[n + 1].hops = hops
      \/ /\ x # ".." /\ old.kind = "link" /\ old.target \in Seq(Names)
         /\ D[n + 1].pending = old.target \o Tail(p)
         /\ D[n + 1].resolved = (IF old.absolute THEN <<>> ELSE r)
         /\ D[n + 1].hops = hops + 1
      \/ /\ x # ".." /\ old.kind # "link"
         /\ D[n + 1].pending = Tail(p) /\ D[n + 1].resolved = here /\ D[n + 1].hops = hops
  BY <1>6 DEF Turns
<1>8. x \in Names /\ Tail(p) \in Seq(Names) /\ here \in Seq(Names) /\ here # <<>>
  <2>1. x \in Names /\ Tail(p) \in Seq(Names) BY <1>3, HeadAndTail
  <2> QED BY <1>3, <2>1, AppendPrefixes
<1>9. Looks(new, Append(p, "init"), r, hops, next) BY LookupStepDoes DEF Beside
<1>10. /\ Head(Append(p, "init")) = x /\ Tail(Append(p, "init")) = rest /\ rest # <<>>
       /\ Ups(Tail(p)) => ".." \in Import!ToSet(rest) /\ ".." \in Import!ToSet(Append(p, "init"))
  BY <1>3, PendingWithInit
<1>11. /\ x = ".." => next = WalkAt(rest, Import!Up(r), hops, None)
       /\ x # ".." /\ (met.kind = "nothing" \/ met.kind = "file") =>
            next = WalkAt(Append(p, "init"), r, hops, "missing")
       /\ x # ".." /\ met.kind = "link" /\ hops = MaxHops => next = WalkAt(Append(p, "init"), r, hops, "loop")
       /\ x # ".." /\ met.kind = "link" /\ hops # MaxHops =>
            next = WalkAt(met.target \o rest, IF met.absolute THEN <<>> ELSE r, hops + 1, None)
       /\ x # ".." /\ met.kind = "directory" => next = WalkAt(rest, here, hops, None)
  BY <1>9, <1>10 DEF Looks
<1>12. x # ".." /\ old.kind \notin {"directory", "link"} /\ ~ Ups(Tail(p)) =>
            \E k \in 1..Len(d) : here = SubSeq(d, 1, k)
  <2> SUFFICES ASSUME x # "..", old.kind \notin {"directory", "link"}, ~ Ups(Tail(p))
               PROVE  \E k \in 1..Len(d) : here = SubSeq(d, 1, k)
    OBVIOUS
  <2>1. PICK g : g = here OBVIOUS
  <2>2. Strays(tr, D[n], g) BY <2>1 DEF Strays
  <2>3. \E k \in 1..Len(D[Import!WalkSteps].resolved) : g = SubSeq(D[Import!WalkSteps].resolved, 1, k)
    BY <2>2, StaysBelow
  <2> QED BY <2>1, <2>3
<1>13. /\ init = Append(d, "init") /\ d \in Seq(Names)
       /\ \A k \in 1..Len(d) : /\ Import!At(new, SubSeq(d, 1, k)).kind = "directory"
                               /\ Import!At(tr, SubSeq(d, 1, k)).kind \in {"directory", "nothing"}
       /\ Import!At(tr, init).kind # "directory" /\ Import!At(new, init) = link
       /\ \A q : q # init /\ (\A k \in 1..Len(d) : q # SubSeq(d, 1, k)) =>
                Import!At(new, q) = Import!At(tr, q)
  BY DEF Scene, Installs, WalkFits
<1>14. link.kind = "link" /\ link.target = Import!Script /\ link.absolute = TRUE
  BY DEF Import!Driver, Import!Link, Import!Entry
<1>15. met.kind \in {"directory", "file", "link", "nothing"}
  <2>1. CASE here \in DOMAIN new
    <3>1. new[here].kind \in {"directory", "file", "link"} BY <1>5, <2>1 DEF TreeFits
    <3>2. met = new[here] BY <1>8, <2>1, AtIs
    <3> QED BY <3>1, <3>2
  <2>2. CASE here \notin DOMAIN new BY <1>8, <2>2, AtIs
  <2> QED BY <2>1, <2>2
<1>16. D[n + 1] = WalkAt(D[n + 1].pending, D[n + 1].resolved, D[n + 1].hops, D[n + 1].end)
  BY <1>2 DEF WalkRecords, WalkAt
<1>17. "init" \in Names BY ImagesAssumption
<1> HIDE DEF W, p, r, hops, x, rest, here, old, met, next, d, link
<1>18. CASE x = ".."
  BY <1>7, <1>11, <1>18 DEF Beside, rest, next
<1>19. CASE x # ".." /\ here = init
  <2>1. met = link BY <1>13, <1>19 DEF met
  <2>2. old.kind # "directory" BY <1>13, <1>19 DEF old
  <2>3. CASE hops # MaxHops
    <3>1. next = WalkAt(Import!Script \o rest, <<>>, hops + 1, None) BY <1>11, <1>14, <1>19, <2>1, <2>3
    <3> DEFINE q == Import!Script \o rest
    <3>2. rest \in Seq(Names) /\ Len(rest) = Len(Tail(p)) + 1 /\ Len(Tail(p)) \in Nat
      BY <1>8, <1>17, AppendPrefixes, LenProperties DEF rest
    <3>3. Import!Script \in Seq(Names) /\ Import!Script # <<>> /\ Len(Import!Script) = 1 BY ScriptIsPlain
    <3>4. q \in Seq(Names) /\ Len(q) = Len(Import!Script) + Len(rest) BY <3>2, <3>3, ConcatProperties
    <3>5. Head(q) = Head(Import!Script) BY <3>2, <3>3
    <3>6. Len(q) > 1 BY <3>2, <3>3, <3>4
    <3> HIDE DEF q
    <3>7. next = WalkAt(q, <<>>, hops + 1, None) BY <3>1 DEF q
    <3> QED BY <3>4, <3>5, <3>6, <3>7, WalkAtHas DEF BeforeScript, next
  <2>4. CASE hops = MaxHops
    <3>1. next = WalkAt(Append(p, "init"), r, hops, "loop") BY <1>11, <1>14, <1>19, <2>1, <2>4
    <3>2. old.kind # "link"
      <4>1. old.kind = "link" => D[n + 1].hops = hops + 1 BY <1>7, <1>19
      <4> QED BY <1>3, <1>4, <1>5, <2>4, <4>1
    <3>3. ASSUME NEW k \in 1..Len(d), here = SubSeq(d, 1, k) PROVE FALSE
      BY <1>13, <1>14, <1>19, <3>3
    <3>4. Ups(Tail(p)) BY <1>12, <1>19, <2>2, <3>2, <3>3
    <3> QED BY <1>10, <3>1, <3>4, WalkAtHas DEF NotFound, next
  <2> QED BY <2>3, <2>4
<1>20. CASE x # ".." /\ here # init
  <2>1. CASE \E k \in 1..Len(d) : here = SubSeq(d, 1, k)
    <3>1. met.kind = "directory" /\ old.kind # "link" BY <1>13, <2>1 DEF met, old
    <3> QED BY <1>7, <1>11, <1>20, <3>1 DEF Beside, rest, next
  <2>2. CASE ~ \E k \in 1..Len(d) : here = SubSeq(d, 1, k)
    <3>1. met = old BY <1>13, <1>20, <2>2 DEF met, old
    <3>2. CASE met.kind \in {"nothing", "file"}
      <4>1. Ups(Tail(p)) BY <1>12, <1>20, <2>2, <3>1, <3>2
      <4>2. next = WalkAt(Append(p, "init"), r, hops, "missing") BY <1>11, <1>20, <3>2
      <4> QED BY <1>10, <4>1, <4>2, WalkAtHas DEF NotFound, next
    <3>3. CASE met.kind = "link"
      <4>1. /\ D[n + 1].hops = hops + 1 /\ D[n + 1].pending = old.target \o Tail(p)
            /\ D[n + 1].resolved = (IF old.absolute THEN <<>> ELSE r) /\ old.target \in Seq(Names)
        BY <1>7, <1>20, <3>1, <3>3
      <4>2. hops # MaxHops BY <1>3, <1>4, <1>5, <4>1
      <4>3. next = WalkAt(old.target \o rest, IF old.absolute THEN <<>> ELSE r, hops + 1, None)
        BY <1>11, <1>20, <3>1, <3>3, <4>2
      <4>4. old.target \o rest = Append(old.target \o Tail(p), "init")
        BY <1>8, <1>17, <4>1, SMTT(30) DEF rest
      <4> QED BY <4>1, <4>3, <4>4 DEF Beside, next
    <3>4. CASE met.kind = "directory"
      BY <1>7, <1>11, <1>20, <3>1, <3>4 DEF Beside, rest, next
    <3> QED BY <1>15, <3>2, <3>3, <3>4
  <2> QED BY <2>1, <2>2
<1> QED BY <1>18, <1>19, <1>20 DEF next

(* So at every turn the kernel is where it should be, and in the end it    *)
(* has found the script or nothing.                                        *)
LEMMA KernelFindsTheScript ==
    ASSUME NoneIsApart, NEW tr, NEW new, NEW init, NEW D, NEW K, Scene(tr, new, init, D, K)
    PROVE  Found(K[Import!WalkSteps]) \/ NotFound(K[Import!WalkSteps])
<1> DEFINE W == Import!WalkSteps
           S == {n \in Nat : n <= W => LooksUp(n, D[n], K[n])}
<1>1. W \in Nat BY WalkStepsIsNat
<1>2. W - 2 \in Nat /\ D[W - 2].pending = <<>> BY DriverWalkEnds
<1>3. None # "missing" /\ None # "loop" BY DEF NoneIsApart
<1> HIDE DEF W
<1>4. 0 \in S
  <2>1. D[0] = WalkAt(<<"sbin">>, <<>>, 0, None) BY DEF Scene, ResolvingBy, Import!From, WalkAt
  <2>2. K[0] = WalkAt(<<"sbin", "init">>, <<>>, 0, None)
    BY DEF Scene, LookupBy, Import!From, Import!InitPath, WalkAt
  <2>3. Append(<<"sbin">>, "init") = <<"sbin", "init">>
    <3>1. "sbin" \in Names /\ "init" \in Names BY ImagesAssumption
    <3>2. <<"sbin">> \in Seq(Names) /\ Len(<<"sbin">>) = 1 /\ <<"sbin">>[1] = "sbin" BY <3>1
    <3>3. /\ <<"sbin", "init">> \in Seq(Names) /\ Len(<<"sbin", "init">>) = 2
          /\ <<"sbin", "init">>[1] = "sbin" /\ <<"sbin", "init">>[2] = "init"
      BY <3>1
    <3> DEFINE a == Append(<<"sbin">>, "init")
    <3>4. a \in Seq(Names) /\ Len(a) = 1 + 1 /\ a[1 + 1] = "init" /\ a[1] = "sbin"
      <4> DEFINE s == <<"sbin">>
      <4>1. s \in Seq(Names) /\ Len(s) = 1 /\ s[1] = "sbin" BY <3>2
      <4> HIDE DEF s
      <4>2. Append(s, "init") \in Seq(Names) /\ Len(Append(s, "init")) = Len(s) + 1
            /\ Append(s, "init")[Len(s) + 1] = "init" /\ \A n \in 1..Len(s) : Append(s, "init")[n] = s[n]
        BY <3>1, <4>1, AppendPrefixes
      <4>3. 1 \in 1..Len(s) BY <4>1
      <4>4. Append(s, "init")[1] = "sbin" BY <4>1, <4>2, <4>3
      <4> QED BY <4>1, <4>2, <4>4 DEF s
    <3> HIDE DEF a
    <3>5. Len(a) = 2 /\ \A n \in 1..Len(a) : a[n] = <<"sbin", "init">>[n] BY <3>3, <3>4
    <3>6. a = <<"sbin", "init">> BY <3>3, <3>4, <3>5, SeqEqual
    <3> QED BY <3>6 DEF a
  <2>4. Beside(D[0], K[0])
    <3>1. D[0].pending = <<"sbin">> /\ D[0].resolved = <<>> /\ D[0].hops = 0 BY <2>1, WalkAtHas
    <3> QED BY <2>2, <2>3, <3>1 DEF Beside
  <2>5. 0 <= W - 2 BY <1>2
  <2> QED BY <2>4, <2>5 DEF LooksUp, W
<1>5. ASSUME NEW n \in Nat, n \in S PROVE n + 1 \in S
  <2> SUFFICES ASSUME n + 1 <= W PROVE LooksUp(n + 1, D[n + 1], K[n + 1]) OBVIOUS
  <2>1. n < W /\ n \in 0..W /\ n <= W BY <1>1
  <2>2. LooksUp(n, D[n], K[n]) BY <1>5, <2>1
  <2>3. K[n + 1] = IF K[n].pending = <<>> \/ K[n].end # None THEN K[n]
                   ELSE Import!LookupStep(new, K[n])
    BY <2>1, DriverTurns DEF W
  <2>4. Import!At(new, Import!Script) = Import!Driver(Import!File) BY DEF Scene
  <2> HIDE DEF S
  <2>5. CASE n <= W - 2 /\ Beside(D[n], K[n])
    <3>1. K[n].end = None /\ K[n].pending = Append(D[n].pending, "init")
      <4>1. K[n] = WalkAt(Append(D[n].pending, "init"), D[n].resolved, D[n].hops, None) BY <2>5 DEF Beside
      <4> QED BY <4>1 DEF WalkAt
    <3>2. K[n].pending # <<>>
      <4>1. D[n].pending \in Seq(Names) BY <2>1, DriverWalkFits DEF W, WalkRecords
      <4>2. "init" \in Names BY ImagesAssumption
      <4> QED BY <3>1, <4>1, <4>2, AppendPrefixes
    <3>3. K[n + 1] = Import!LookupStep(new, K[n]) BY <2>3, <3>1, <3>2
    <3>4. n + 1 <= W - 1 BY <1>1, <2>5
    <3>5. CASE D[n].pending = <<>>
      <4>1. AtScript(K[n + 1]) \/ NotFound(K[n + 1]) BY <2>1, <2>5, <3>3, <3>5, InitIsMet DEF W
      <4> QED BY <3>4, <4>1 DEF LooksUp, W
    <3>6. CASE D[n].pending # <<>>
      <4>1. Beside(D[n + 1], K[n + 1]) \/ BeforeScript(K[n + 1]) \/ NotFound(K[n + 1])
        BY <2>1, <2>5, <3>3, <3>6, KernelKeepsUp DEF W
      <4>2. n # W - 2 BY <1>2, <3>6
      <4>3. n + 1 <= W - 2 BY <1>1, <2>5, <4>2
      <4> QED BY <3>4, <4>1, <4>3 DEF LooksUp, W
    <3> QED BY <3>5, <3>6
  <2>6. CASE AtScript(K[n])
    <3>1. K[n].end = None /\ K[n].pending = Import!Script BY <2>6, WalkAtHas DEF AtScript
    <3>2. K[n + 1] = Import!LookupStep(new, K[n]) BY <2>3, <3>1, ScriptIsPlain
    <3>3. Found(K[n + 1]) BY <2>4, <2>6, <3>2, ScriptIsFound
    <3> QED BY <3>3 DEF LooksUp
  <2>7. CASE BeforeScript(K[n])
    <3>1. K[n].end = None /\ K[n].pending # <<>> BY <2>7 DEF BeforeScript
    <3>2. K[n + 1] = Import!LookupStep(new, K[n]) BY <2>3, <3>1
    <3>3. NotFound(K[n + 1]) BY <2>4, <2>7, <3>2, ScriptIsFound
    <3> QED BY <3>3 DEF LooksUp
  <2>8. CASE Found(K[n]) \/ NotFound(K[n])
    <3>1. K[n].pending = <<>> \/ K[n].end # None BY <1>3, <2>8 DEF Found, NotFound
    <3>2. K[n + 1] = K[n] BY <2>3, <3>1
    <3> QED BY <2>8, <3>2 DEF LooksUp
  <2> QED BY <2>2, <2>5, <2>6, <2>7, <2>8 DEF LooksUp, W
<1> HIDE DEF S
<1>6. W \in S BY <1>1, <1>4, <1>5, Induction
<1>7. LooksUp(W, D[W], K[W])
  <2>1. W <= W BY <1>1
  <2> QED BY <1>6, <2>1 DEF S
<1>8. ~ (W <= W - 2) /\ ~ (W <= W - 1) BY <1>1
<1> QED BY <1>7, <1>8 DEF LooksUp, W

(* What the lookup of the init comes to in a tree that the driver leaves. *)
InitLeadsTo(tr) ==
    /\ Import!At(tr, Import!Script) = Import!Driver(Import!File)
    /\ Found(Import!Lookup(tr, Import!InitPath)) \/ NotFound(Import!Lookup(tr, Import!InitPath))

LEMMA InitLeadsToTheScript ==
    ASSUME NoneIsApart, NEW tr, TreeFits(tr), Import!At(tr, Import!Script) = Import!Driver(Import!File),
           NEW init, init = Import!ResolveInRootfs(tr, Import!InitPath), init # None,
           NEW new, new = Import!InstallInit(tr, init), new # None
    PROVE  InitLeadsTo(new)
<1>1. Installs(tr, Import!Resolving(tr, <<"sbin">>), init, new) BY InitIsInstalled
<1>2. PICK D : Import!Resolving(tr, <<"sbin">>) = D[Import!WalkSteps] /\ ResolvingBy(D, tr, <<"sbin">>)
  BY ResolvingDefined
<1>3. PICK K : Import!Lookup(new, Import!InitPath) = K[Import!WalkSteps] /\ LookupBy(K, new, Import!InitPath)
  BY LookupDefined
<1> DEFINE d == D[Import!WalkSteps].resolved
<1>4. Import!At(new, Import!Script) = Import!Driver(Import!File)
  <2>1. Import!At(tr, Import!Script).kind = "file" BY DEF Import!Driver, Import!File, Import!Entry
  <2>2. \A n \in 1..Len(d) : Import!Script # SubSeq(d, 1, n) BY <1>1, <1>2, <2>1 DEF Installs
  <2>3. d \in Seq(Names) /\ "init" \in Names /\ Len(d) \in Nat
    BY <1>1, <1>2, ImagesAssumption, LenProperties DEF Installs, WalkFits
  <2>4. init = Append(d, "init") BY <1>1, <1>2 DEF Installs
  <2> HIDE DEF d
  <2>5. init[Len(d) + 1] = "init" /\ Len(init) = Len(d) + 1 BY <2>3, <2>4, AppendPrefixes
  <2>6. init # Import!Script
    <3> SUFFICES ASSUME init = Import!Script PROVE FALSE OBVIOUS
    <3>1. Len(d) + 1 = 1 BY <2>5, ScriptIsPlain
    <3>2. Import!Script[1] = "openshell-init.sh" BY DEF Import!Script
    <3> QED BY <2>5, <3>1, <3>2
  <2> QED BY <1>1, <1>2, <2>2, <2>6 DEF Installs, d
<1>5. Scene(tr, new, init, D, K) BY <1>1, <1>2, <1>3, <1>4 DEF Scene
<1>6. Found(K[Import!WalkSteps]) \/ NotFound(K[Import!WalkSteps]) BY <1>5, KernelFindsTheScript
<1> QED BY <1>3, <1>4, <1>6 DEF InitLeadsTo

-----------------------------------------------------------------------------
(* The tree has the script before the init is installed, and leads to it   *)
(* afterwards.                                                             *)
ScriptInv ==
    /\ step = "install" => Import!At(tree, Import!Script) = Import!Driver(Import!File)
    /\ step \notin {"inject", "install", "done"} => InitLeadsTo(tree)

LEMMA ScriptInvIsInductive ==
    ASSUME NoneIsApart, RootfsInv, ScriptInv, [Import!Next]_(Import!vars)
    PROVE  ScriptInv'
<1>1. TreeFits(tree) BY DEF RootfsInv
<1>2. CASE Import!Inject
  <2> DEFINE new == Import!InjectInitScript(tree)
  <2>1. CASE new # None /\ tree' = new /\ step' = "install"
    <3>1. Import!At(tree', Import!Script) = Import!Driver(Import!File) BY <1>1, <2>1, ScriptIsInjected
    <3> QED BY <2>1, <3>1 DEF ScriptInv
  <2>2. CASE step' = "done" BY <2>2 DEF ScriptInv
  <2> QED BY <1>2, <2>1, <2>2 DEF Import!Inject, Import!Go, Import!End
<1>3. CASE Import!Install
  <2> DEFINE init == Import!ResolveInRootfs(tree, Import!InitPath)
             new == Import!InstallInit(tree, init)
  <2>1. Import!At(tree, Import!Script) = Import!Driver(Import!File) BY <1>3 DEF ScriptInv, Import!Install
  <2>2. CASE init # None /\ new # None /\ tree' = new /\ step' = "owners"
    <3> HIDE DEF init, new
    <3>1. PICK i : i = init OBVIOUS
    <3>2. PICK t : t = new OBVIOUS
    <3>3. /\ i = Import!ResolveInRootfs(tree, Import!InitPath) /\ i # None
          /\ t = Import!InstallInit(tree, i) /\ t # None
      BY <2>2, <3>1, <3>2 DEF init, new
    <3>4. InitLeadsTo(t) BY <1>1, <2>1, <3>3, InitLeadsToTheScript
    <3>5. InitLeadsTo(tree)' BY <2>2, <3>2, <3>4 DEF InitLeadsTo
    <3> QED BY <2>2, <3>5 DEF ScriptInv
  <2>3. CASE step' = "done" BY <2>3 DEF ScriptInv
  <2> QED BY <1>3, <2>2, <2>3 DEF Import!Install, Import!Go, Import!End
<1>4. CASE Import!Next /\ ~ Import!Inject /\ ~ Import!Install
  <2>1. /\ tree' = tree /\ step' # "install"
        /\ step # "done"
        /\ step \in {"inject", "install"} => step' = "done"
    BY <1>4, OtherStepsLeaveTheTree
  <2>2. InitLeadsTo(tree) => InitLeadsTo(tree)' BY <2>1 DEF InitLeadsTo
  <2> QED BY <2>1, <2>2 DEF ScriptInv
<1>5. CASE UNCHANGED Import!vars
  <2>1. tree' = tree /\ step' = step BY <1>5 DEF Import!vars, Import!rootfs
  <2>2. InitLeadsTo(tree) => InitLeadsTo(tree)' BY <2>1 DEF InitLeadsTo
  <2> QED BY <2>1, <2>2 DEF ScriptInv
<1> QED BY <1>2, <1>3, <1>4, <1>5

(* In an image that goes to LXD the container has no init but the driver's *)
(* script, however long the image's links are and wherever they lead: the  *)
(* kernel's lookup comes to the script that the driver wrote, or to        *)
(* nothing, in the three cases that the property names                     *)
(* (inject_init_script, resolve_in_rootfs, install_init).                  *)
THEOREM NoInitButTheScript ==
    ASSUME NoneIsApart
    PROVE  Import!Spec => []NoOtherInit
<1>1. Import!Init => ScriptInv BY DEF Import!Init, Import!Unpacked, ScriptInv
<1>2. ScriptInv => NoOtherInit
  <2> SUFFICES ASSUME ScriptInv, step \in {"pack", "metadata", "measure", "connect", "send"}
               PROVE  LET walk == Import!Lookup(tree, Import!InitPath)
                      IN \/ /\ walk.end = None /\ walk.pending = <<>>
                            /\ walk.resolved = Import!Script
                            /\ Import!At(tree, Import!Script) = Import!Driver(Import!File)
                         \/ walk.end # None /\ ".." \in Import!ToSet(walk.pending)
                         \/ walk.end = "loop" /\ Len(walk.pending) = 1
                         \/ /\ walk.end = "missing" /\ walk.resolved = <<>>
                            /\ Head(walk.pending) = Head(Import!Script)
    BY DEF NoOtherInit, Import!NoOtherInit, Import!Installed, Import!EndsAtScript
  <2>1. InitLeadsTo(tree) BY DEF ScriptInv
  <2> QED BY <2>1 DEF InitLeadsTo, Found, NotFound, NoneIsApart
<1> QED BY <1>1, <1>2, InitEstablishesRootfsInv, RootfsInvIsInductive, ScriptInvIsInductive, PTL
    DEF Import!Spec

-----------------------------------------------------------------------------
(* The owners *)

(* What umoci records: a number in groups of seven bits, the lowest first, *)
(* all but the last marked; what is left of it after each group is a       *)
(* number again, and nothing after the last.                               *)
VarintIs(bytes, from, size, id) ==
    /\ size \in 1..Groups /\ from + size - 1 <= Len(bytes)
    /\ \A n \in 1..(size - 1) : bytes[from + n - 1] >= 128
    /\ bytes[from + size - 1] < 128
    /\ \E left \in [0..size -> Nat] :
        /\ left[0] = id /\ left[size] = 0
        /\ \A n \in 1..size : left[n - 1] = 128 * left[n] + (bytes[from + n - 1] % 128)

(* A field, which is left out for root. *)
FieldIs(bytes, from, to, number, id) ==
    \/ to = from /\ id = 0
    \/ to > from /\ bytes[from] = 8 * number /\ VarintIs(bytes, from + 1, to - from - 1, id)

RecordIs(bytes, owner) ==
    /\ bytes \in Seq(0..255) /\ owner \in [1..2 -> 0..MaxId]
    /\ \E middle \in 1..(Len(bytes) + 1) :
        /\ FieldIs(bytes, 1, middle, 1, owner[1])
        /\ FieldIs(bytes, middle, Len(bytes) + 1, 2, owner[2])

LEMMA VarintLengthIs ==
    ASSUME NEW bytes \in Seq(0..255), NEW from \in Nat \ {0}, NEW size, NEW id,
           VarintIs(bytes, from, size, id)
    PROVE  Import!VarintLength(bytes, from) = size
<1> DEFINE ends == {n \in 1..(Len(bytes) - from + 1) : bytes[from + n - 1] < 128}
<1>1. /\ size \in Nat \ {0} /\ from + size - 1 <= Len(bytes) /\ Len(bytes) \in Nat
      /\ \A n \in 1..(size - 1) : bytes[from + n - 1] >= 128
      /\ bytes[from + size - 1] < 128
  BY ImportAssumption, LenProperties DEF VarintIs
<1>2. \A n \in 1..(Len(bytes) - from + 1) : bytes[from + n - 1] \in 0..255
  <2> SUFFICES ASSUME NEW n \in 1..(Len(bytes) - from + 1) PROVE bytes[from + n - 1] \in 0..255
    OBVIOUS
  <2>1. from + n - 1 \in 1..Len(bytes) BY <1>1
  <2> QED BY <2>1, ElementOfSeq
<1>3. size \in ends BY <1>1
<1>4. ASSUME NEW n \in ends PROVE size <= n
  <2> SUFFICES ASSUME n < size PROVE FALSE BY <1>1
  <2>1. n \in 1..(size - 1) BY <1>1
  <2>2. PICK b : b = bytes[from + n - 1] OBVIOUS
  <2>3. b \in 0..255 /\ b < 128 BY <1>2, <2>2
  <2>4. b >= 128 BY <1>1, <2>1, <2>2
  <2> QED BY <2>3, <2>4
<1>5. ends \subseteq Nat BY <1>1
<1>6. Import!VarintLength(bytes, from) = Import!Min(ends) BY <1>3 DEF Import!VarintLength
<1> HIDE DEF ends
<1>7. Import!Min(ends) \in ends /\ \A y \in ends : Import!Min(ends) <= y BY <1>3, <1>4 DEF Import!Min
<1>8. PICK m : m = Import!Min(ends) OBVIOUS
<1>9. m <= size /\ size <= m /\ m \in Nat BY <1>3, <1>4, <1>5, <1>7, <1>8
<1>10. m = size BY <1>1, <1>9
<1> QED BY <1>6, <1>8, <1>10

VarintBy(value, bytes, from, size) ==
    /\ value[0] = 0
    /\ \A n \in 1..size : value[n] = 128 * value[n - 1] + (bytes[from + size - n] % 128)

LEMMA VarintDefined ==
    ASSUME NEW bytes, NEW from, NEW size \in Nat
    PROVE  \E value : Import!Varint(bytes, from, size) = value[size] /\ VarintBy(value, bytes, from, size)
<1> DEFINE turn(v, k) == 128 * v + (bytes[from + size - k] % 128)
           Is(f, n) == f = [k \in 0..n |-> IF k = 0 THEN 0 ELSE turn(f[k - 1], k)]
           S == {n \in Nat : \E f : Is(f, n)}
           value == CHOOSE f : Is(f, size)
<1>1. Import!Varint(bytes, from, size) = value[size] BY DEF Import!Varint
<1> HIDE DEF turn
<1>2. 0 \in S
  <2> DEFINE f == [k \in 0..0 |-> 0]
  <2>1. \A k \in 0..0 : k = 0 OBVIOUS
  <2>2. Is(f, 0) BY <2>1
  <2> QED BY <2>2
<1>3. ASSUME NEW n \in Nat, n \in S PROVE n + 1 \in S
  <2>1. PICK f : Is(f, n) BY <1>3
  <2> DEFINE g == [k \in 0..(n + 1) |-> IF k = n + 1 THEN turn(f[n], n + 1) ELSE f[k]]
  <2>2. \A k \in 0..n : f[k] = IF k = 0 THEN 0 ELSE turn(f[k - 1], k) BY <2>1
  <2>3. ASSUME NEW k \in 0..(n + 1) PROVE g[k] = IF k = 0 THEN 0 ELSE turn(g[k - 1], k)
    <3>1. CASE k = n + 1
      <4>1. k # 0 /\ k - 1 = n /\ n \in 0..(n + 1) /\ n # n + 1 BY <3>1
      <4>2. g[n] = f[n] BY <4>1
      <4> QED BY <3>1, <4>1, <4>2
    <3>2. CASE k # n + 1
      <4>1. k \in 0..n BY <3>2
      <4>2. k # 0 => k - 1 \in 0..(n + 1) /\ k - 1 # n + 1 BY <4>1
      <4> QED BY <2>2, <4>1, <4>2
    <3> QED BY <3>1, <3>2
  <2>4. Is(g, n + 1) BY <2>3
  <2> HIDE DEF Is, g
  <2> QED BY <2>4
<1> HIDE DEF S
<1>4. Nat \subseteq S BY <1>2, <1>3, Induction
<1>5. \E f : Is(f, size) BY <1>4 DEF S
<1>6. Is(value, size) BY <1>5
<1> HIDE DEF value
<1>7. \A k \in 0..size : value[k] = IF k = 0 THEN 0 ELSE turn(value[k - 1], k) BY <1>6
<1>8. value[0] = 0 BY <1>7
<1>9. \A n \in 1..size : value[n] = turn(value[n - 1], n) BY <1>7
<1>10. VarintBy(value, bytes, from, size) BY <1>8, <1>9 DEF turn, VarintBy
<1> QED BY <1>1, <1>10

(* The last n groups are what is left before them. *)
LEMMA VarintValueIs ==
    ASSUME NEW bytes \in Seq(0..255), NEW from \in Nat \ {0}, NEW size, NEW id,
           VarintIs(bytes, from, size, id)
    PROVE  Import!Varint(bytes, from, size) = id
<1>1. size \in Nat \ {0} BY ImportAssumption DEF VarintIs
<1>2. PICK value : Import!Varint(bytes, from, size) = value[size] /\ VarintBy(value, bytes, from, size)
  BY <1>1, VarintDefined
<1>3. PICK left \in [0..size -> Nat] :
        /\ left[0] = id /\ left[size] = 0
        /\ \A n \in 1..size : left[n - 1] = 128 * left[n] + (bytes[from + n - 1] % 128)
  BY DEF VarintIs
<1> DEFINE S == {n \in Nat : value[n] = left[size - n]}
<1>4. 0 \in S BY <1>1, <1>2, <1>3 DEF VarintBy
<1>5. ASSUME NEW n \in Nat, n < size, n \in S PROVE n + 1 \in S
  <2>1. n + 1 \in 1..size /\ size - n \in 1..size /\ (n + 1) - 1 = n BY <1>1, <1>5
  <2>2. value[n + 1] = 128 * value[n] + (bytes[from + size - (n + 1)] % 128) BY <1>2, <2>1 DEF VarintBy
  <2>3. left[(size - n) - 1] = 128 * left[size - n] + (bytes[from + (size - n) - 1] % 128)
    BY <1>3, <2>1
  <2>4. /\ from + (size - n) - 1 = from + size - (n + 1)
        /\ (size - n) - 1 = size - (n + 1)
    BY <1>1
  <2>5. value[n] = left[size - n] BY <1>5
  <2>6. value[n + 1] = left[size - (n + 1)] BY <2>2, <2>3, <2>4, <2>5
  <2> QED BY <2>6
<1> HIDE DEF S
<1>6. 0..size \subseteq S BY <1>1, <1>4, <1>5, InductionUpTo
<1>7. size \in S BY <1>1, <1>6
<1>8. value[size] = left[0] BY <1>1, <1>7 DEF S
<1> QED BY <1>2, <1>3, <1>8

(* The fields that decode_rootless_owner has read, one after the other. *)
ReadBy(read, bytes) ==
    /\ read[0] = [at |-> 1, owner |-> << 0, 0 >>]
    /\ \A n \in 1..Len(bytes) :
        read[n] = IF read[n - 1].at > Len(bytes) \/ read[n - 1].owner = None THEN read[n - 1]
                  ELSE Import!ReadField(bytes, read[n - 1])

LEMMA ReadDefined ==
    ASSUME NEW bytes \in Seq(0..255)
    PROVE  \E read : Import!DecodeRootlessOwner(bytes) = read[Len(bytes)].owner /\ ReadBy(read, bytes)
<1> DEFINE turn(r) == IF r.at > Len(bytes) \/ r.owner = None THEN r ELSE Import!ReadField(bytes, r)
           first == [at |-> 1, owner |-> << 0, 0 >>]
           Is(f, n) == f = [k \in 0..n |-> IF k = 0 THEN first ELSE turn(f[k - 1])]
           S == {n \in Nat : \E f : Is(f, n)}
           read == CHOOSE f : Is(f, Len(bytes))
<1>1. Import!DecodeRootlessOwner(bytes) = read[Len(bytes)].owner BY DEF Import!DecodeRootlessOwner
<1> HIDE DEF turn, first
<1>2. 0 \in S
  <2> DEFINE f == [k \in 0..0 |-> first]
  <2>1. \A k \in 0..0 : k = 0 OBVIOUS
  <2>2. Is(f, 0) BY <2>1
  <2> QED BY <2>2
<1>3. ASSUME NEW n \in Nat, n \in S PROVE n + 1 \in S
  <2>1. PICK f : Is(f, n) BY <1>3
  <2> DEFINE g == [k \in 0..(n + 1) |-> IF k = n + 1 THEN turn(f[n]) ELSE f[k]]
  <2>2. \A k \in 0..n : f[k] = IF k = 0 THEN first ELSE turn(f[k - 1]) BY <2>1
  <2>3. ASSUME NEW k \in 0..(n + 1) PROVE g[k] = IF k = 0 THEN first ELSE turn(g[k - 1])
    <3>1. CASE k = n + 1
      <4>1. k # 0 /\ k - 1 = n /\ n \in 0..(n + 1) /\ n # n + 1 BY <3>1
      <4>2. g[n] = f[n] BY <4>1
      <4> QED BY <3>1, <4>1, <4>2
    <3>2. CASE k # n + 1
      <4>1. k \in 0..n BY <3>2
      <4>2. k # 0 => k - 1 \in 0..(n + 1) /\ k - 1 # n + 1 BY <4>1
      <4> QED BY <2>2, <4>1, <4>2
    <3> QED BY <3>1, <3>2
  <2>4. Is(g, n + 1) BY <2>3
  <2> HIDE DEF Is, g
  <2> QED BY <2>4
<1> HIDE DEF S
<1>4. Nat \subseteq S BY <1>2, <1>3, Induction
<1>5. Len(bytes) \in Nat BY LenProperties
<1>6. \E f : Is(f, Len(bytes)) BY <1>4, <1>5 DEF S
<1>7. Is(read, Len(bytes)) BY <1>6
<1> HIDE DEF read
<1>8. \A k \in 0..Len(bytes) : read[k] = IF k = 0 THEN first ELSE turn(read[k - 1]) BY <1>7
<1>9. read[0] = first BY <1>5, <1>8
<1>10. \A n \in 1..Len(bytes) : read[n] = turn(read[n - 1]) BY <1>5, <1>8
<1>11. ReadBy(read, bytes) BY <1>9, <1>10 DEF turn, first, ReadBy
<1> QED BY <1>1, <1>11

(* An owner with one of its ids set. *)
With(owner, number, id) == [n \in 1..2 |-> IF n = number THEN id ELSE owner[n]]

LEMMA FieldIsRead ==
    ASSUME NEW bytes \in Seq(0..255), NEW from \in Nat \ {0}, NEW to \in Nat, NEW number \in 1..2,
           NEW id \in 0..MaxId, NEW owner, to > from, FieldIs(bytes, from, to, number, id),
           NEW r, r = [at |-> from, owner |-> owner]
    PROVE  Import!ReadField(bytes, r) = [at |-> to, owner |-> With(owner, number, Import!Id(id))]
<1> DEFINE size == to - from - 1
<1>1. bytes[from] = 8 * number /\ VarintIs(bytes, from + 1, size, id) BY DEF FieldIs
<1>2. r.at = from /\ r.owner = owner OBVIOUS
<1>3. from + 1 \in Nat \ {0} OBVIOUS
<1> HIDE DEF size
<1>4. PICK f : f = from + 1 OBVIOUS
<1>5. Import!VarintLength(bytes, f) = size BY <1>1, <1>3, <1>4, VarintLengthIs
<1>6. Import!Varint(bytes, f, size) = id BY <1>1, <1>3, <1>4, VarintValueIs
<1>7. size \in 1..Groups BY <1>1 DEF VarintIs
<1>8. bytes[from] % 8 = 0 /\ bytes[from] \div 8 = number
  <2>1. number = 1 \/ number = 2 OBVIOUS
  <2>2. 8 % 8 = 0 /\ 8 \div 8 = 1 /\ 16 % 8 = 0 /\ 16 \div 8 = 2 OBVIOUS
  <2> QED BY <1>1, <2>1, <2>2
<1>9. ~ (id > MaxId) BY ImportAssumption
<1>10. f + size = to BY <1>4 DEF size
<1>11. Import!ReadField(bytes, r) =
        [at |-> f + size,
         owner |-> [n \in 1..2 |-> IF n = number THEN Import!Id(id) ELSE owner[n]]]
  <2>1. PICK b : b = bytes[from] OBVIOUS
  <2>2. b % 8 = 0 /\ b \div 8 = number BY <1>8, <2>1
  <2>3. r.at + 1 = f BY <1>2, <1>4
  <2> QED BY <1>2, <1>5, <1>6, <1>7, <1>9, <2>1, <2>2, <2>3 DEF Import!ReadField
<1> QED BY <1>10, <1>11 DEF With

(* Whether there is the field or not. *)
LEMMA FieldIsTaken ==
    ASSUME NoneIsApart, NEW bytes \in Seq(0..255), NEW read, ReadBy(read, bytes),
           NEW from \in Nat \ {0}, NEW to \in Nat, to <= Len(bytes) + 1,
           NEW number \in 1..2, NEW id \in 0..MaxId, FieldIs(bytes, from, to, number, id),
           NEW owner \in [1..2 -> Nat], owner[number] = 0,
           NEW k \in Nat, k < from, read[k] = [at |-> from, owner |-> owner]
    PROVE  \E j \in Nat : j < to /\ read[j] = [at |-> to, owner |-> With(owner, number, Import!Id(id))]
<1>1. CASE to = from /\ id = 0
  <2>1. Import!Id(id) = 0 BY <1>1 DEF Import!Id
  <2>2. With(owner, number, 0) = owner BY DEF With
  <2> QED BY <1>1, <2>1, <2>2
<1>2. CASE to > from
  <2>1. Len(bytes) \in Nat BY LenProperties
  <2>2. k + 1 \in 1..Len(bytes) /\ (k + 1) - 1 = k /\ k + 1 < to /\ ~ (from > Len(bytes))
    BY <1>2, <2>1
  <2>3. owner = [x \in DOMAIN owner |-> owner[x]] OBVIOUS
  <2>4. owner # None BY <2>3 DEF NoneIsApart, NoneIsNoFunction
  <2>5. PICK r : r = [at |-> from, owner |-> owner] OBVIOUS
  <2>6. read[k] = r /\ r.at = from /\ r.owner = owner BY <2>5
  <2>7. read[k + 1] = Import!ReadField(bytes, r) BY <2>2, <2>4, <2>6 DEF ReadBy
  <2>8. Import!ReadField(bytes, r) = [at |-> to, owner |-> With(owner, number, Import!Id(id))]
    BY <1>2, <2>5, FieldIsRead
  <2> QED BY <2>2, <2>7, <2>8
<1> QED BY <1>1, <1>2 DEF FieldIs

(* At the end of the record nothing more is read. *)
LEMMA EndOfRecordStays ==
    ASSUME NEW bytes \in Seq(0..255), NEW read, ReadBy(read, bytes), NEW k \in 0..Len(bytes),
           read[k].at > Len(bytes)
    PROVE  read[Len(bytes)] = read[k]
<1> DEFINE L == Len(bytes)
           S == {n \in Nat : n >= k => read[n] = read[k]}
<1>1. L \in Nat /\ k \in Nat BY LenProperties
<1>2. 0 \in S BY <1>1
<1>3. ASSUME NEW n \in Nat, n < L, n \in S PROVE n + 1 \in S
  <2>1. CASE n + 1 <= k BY <1>1, <2>1
  <2>2. CASE n >= k
    <3>1. read[n] = read[k] BY <1>3, <2>2
    <3>2. n + 1 \in 1..L /\ (n + 1) - 1 = n BY <1>1, <1>3
    <3>3. read[n + 1] = read[n] BY <3>1, <3>2 DEF ReadBy
    <3> QED BY <3>1, <3>3
  <2> QED BY <1>1, <2>1, <2>2
<1> HIDE DEF S, L
<1>4. 0..L \subseteq S BY <1>1, <1>2, <1>3, InductionUpTo
<1>5. L \in S /\ L >= k BY <1>1, <1>4 DEF L
<1> QED BY <1>5 DEF S, L

(* decode_rootless_owner gives back the owner that was recorded, root for  *)
(* "unchanged".                                                            *)
LEMMA RecordIsDecoded ==
    ASSUME NoneIsApart, NEW bytes, NEW owner, RecordIs(bytes, owner)
    PROVE  Import!DecodeRootlessOwner(bytes) = [n \in 1..2 |-> Import!Id(owner[n])]
<1>1. bytes \in Seq(0..255) /\ owner \in [1..2 -> 0..MaxId] /\ Len(bytes) \in Nat
  BY LenProperties DEF RecordIs
<1>2. PICK middle \in 1..(Len(bytes) + 1) :
        /\ FieldIs(bytes, 1, middle, 1, owner[1])
        /\ FieldIs(bytes, middle, Len(bytes) + 1, 2, owner[2])
  BY DEF RecordIs
<1>3. PICK read : Import!DecodeRootlessOwner(bytes) = read[Len(bytes)].owner /\ ReadBy(read, bytes)
  BY <1>1, ReadDefined
<1> DEFINE none == << 0, 0 >>
           uid == With(none, 1, Import!Id(owner[1]))
           both == With(uid, 2, Import!Id(owner[2]))
<1>4. none \in [1..2 -> Nat] /\ none[1] = 0 /\ none[2] = 0 OBVIOUS
<1>5. \A n \in 1..2 : owner[n] \in 0..MaxId /\ Import!Id(owner[n]) \in Nat
  BY <1>1, ImportAssumption DEF Import!Id
<1>6. uid \in [1..2 -> Nat] /\ uid[1] = Import!Id(owner[1]) /\ uid[2] = 0
  <2> HIDE DEF none
  <2>1. uid = [n \in 1..2 |-> IF n = 1 THEN Import!Id(owner[1]) ELSE none[n]] BY DEF With
  <2> QED BY <1>4, <1>5, <2>1
<1>7. both = [n \in 1..2 |-> Import!Id(owner[n])]
  <2> HIDE DEF uid
  <2>1. both = [n \in 1..2 |-> IF n = 2 THEN Import!Id(owner[2]) ELSE uid[n]] BY DEF With
  <2>2. \A n \in 1..2 : (IF n = 2 THEN Import!Id(owner[2]) ELSE uid[n]) = Import!Id(owner[n])
    BY <1>6
  <2> QED BY <2>1, <2>2
<1>8. read[0] = [at |-> 1, owner |-> none] BY <1>3 DEF ReadBy
<1> HIDE DEF none, uid, both
<1>9. PICK j \in Nat : j < middle /\ read[j] = [at |-> middle, owner |-> uid]
  <2>1. middle \in Nat /\ middle <= Len(bytes) + 1 /\ 1 \in Nat \ {0} /\ 0 \in Nat /\ 0 < 1 /\ 1 \in 1..2
    BY <1>1
  <2> QED BY <1>1, <1>2, <1>3, <1>4, <1>5, <1>8, <2>1, FieldIsTaken DEF uid
<1>10. PICK i \in Nat : i < Len(bytes) + 1 /\ read[i] = [at |-> Len(bytes) + 1, owner |-> both]
  <2>1. PICK to : to = Len(bytes) + 1 OBVIOUS
  <2>2. middle \in Nat \ {0} /\ to \in Nat /\ to <= Len(bytes) + 1 /\ 2 \in 1..2 BY <1>1, <2>1
  <2>3. FieldIs(bytes, middle, to, 2, owner[2]) /\ owner[2] \in 0..MaxId BY <1>2, <1>5, <2>1
  <2>4. \E i \in Nat : i < to /\ read[i] = [at |-> to, owner |-> With(uid, 2, Import!Id(owner[2]))]
    BY <1>1, <1>3, <1>6, <1>9, <2>2, <2>3, FieldIsTaken
  <2> QED BY <2>1, <2>4 DEF both
<1>11. i \in 0..Len(bytes) /\ Len(bytes) + 1 > Len(bytes) BY <1>1, <1>10
<1>12. read[i].at > Len(bytes) /\ read[i].owner = both BY <1>10, <1>11
<1>13. read[Len(bytes)] = read[i] BY <1>1, <1>3, <1>11, <1>12, EndOfRecordStays
<1> QED BY <1>3, <1>7, <1>12, <1>13

(* An image as umoci unpacks it: its entries are its own, a link has no    *)
(* record, and what is neither a link nor root's has the record of its     *)
(* owner.                                                                  *)
Recorded(i) ==
    \A p \in DOMAIN i.tree :
        /\ i.tree[p].by = "image"
        /\ p \in DOMAIN i.records => i.tree[p].kind # "link" /\ RecordIs(i.records[p], i.owners[p])
        /\ p \notin DOMAIN i.records /\ i.tree[p].kind # "link" => i.owners[p] = << 0, 0 >>

(* An entry of the tree is the driver's, or the image's as it was; and the *)
(* pseudo file is that of the tree.                                        *)
FromImage(tr, i) ==
    \A p \in DOMAIN tr : tr[p].by = "driver" \/ (p \in DOMAIN i.tree /\ tr[p] = i.tree[p])

OwnersInv ==
    /\ FromImage(tree, image)
    /\ step \in {"inject", "install", "owners"} => owners = None
    /\ owners # None => owners = Import!PseudoFile(tree, image.records, Unnameable)

LEMMA PutIsFromImage ==
    ASSUME NEW tr, NEW i, FromImage(tr, i), NEW path, NEW entry, entry.by = "driver"
    PROVE  FromImage(Import!Put(tr, path, entry), i)
<1> DEFINE new == Import!Put(tr, path, entry)
<1>1. /\ DOMAIN new = DOMAIN tr \cup {path} /\ new[path] = entry
      /\ \A p \in DOMAIN tr : p # path => new[p] = tr[p]
  BY DEF Import!Put
<1> HIDE DEF new
<1>2. FromImage(new, i) BY <1>1 DEF FromImage
<1> QED BY <1>2 DEF new

LEMMA DriversEntries ==
    /\ Import!Driver(Import!File).by = "driver" /\ Import!Driver(Import!Directory).by = "driver"
    /\ Import!Driver(Import!Link(TRUE, Import!Script)).by = "driver"
BY DEF Import!Driver, Import!File, Import!Directory, Import!Link, Import!Entry

LEMMA InstalledIsFromImage ==
    ASSUME NEW tr, NEW i, FromImage(tr, i), NEW init, NEW new, new = Import!InstallInit(tr, init),
           new # None
    PROVE  FromImage(new, i)
<1> DEFINE made == Import!CreateDirAll(tr, Import!Front(init))
           link == Import!Driver(Import!Link(TRUE, Import!Script))
<1>1. made # None /\ new = Import!Put(made, init, link) BY DEF Import!InstallInit
<1>2. FromImage(made, i)
  <2> DEFINE path == Import!Front(init)
             prefixes == {SubSeq(path, 1, n) : n \in 1..Len(path)}
             directory == Import!Driver(Import!Directory)
  <2>1. made = [p \in DOMAIN tr \cup prefixes |-> IF p \in DOMAIN tr THEN tr[p] ELSE directory]
    BY <1>1 DEF Import!CreateDirAll
  <2>2. directory.by = "driver" BY DriversEntries
  <2> HIDE DEF made, prefixes, directory
  <2> QED BY <2>1, <2>2 DEF FromImage
<1>3. link.by = "driver" BY DriversEntries
<1> HIDE DEF made, link
<1> QED BY <1>1, <1>2, <1>3, PutIsFromImage

LEMMA OwnersInvIsInductive ==
    ASSUME OwnersInv, [Import!Next]_(Import!vars)
    PROVE  OwnersInv'
<1>1. CASE Import!Inject
  <2> DEFINE new == Import!InjectInitScript(tree)
  <2>1. image' = image /\ owners' = owners /\ owners = None BY <1>1 DEF Import!Inject, OwnersInv
  <2>2. CASE new # None /\ tree' = new
    <3>1. new = Import!Put(tree, Import!Script, Import!Driver(Import!File))
      BY <2>2 DEF Import!InjectInitScript
    <3>2. FromImage(new, image) BY <3>1, DriversEntries, PutIsFromImage DEF OwnersInv
    <3>3. FromImage(tree, image)' BY <2>1, <2>2, <3>2
    <3> QED BY <2>1, <3>3 DEF OwnersInv
  <2>3. CASE tree' = tree
    <3>1. FromImage(tree, image)' BY <2>1, <2>3 DEF OwnersInv, FromImage
    <3> QED BY <2>1, <3>1 DEF OwnersInv
  <2> QED BY <1>1, <2>2, <2>3 DEF Import!Inject
<1>2. CASE Import!Install
  <2> DEFINE init == Import!ResolveInRootfs(tree, Import!InitPath)
             new == Import!InstallInit(tree, init)
  <2>1. image' = image /\ owners' = owners /\ owners = None BY <1>2 DEF Import!Install, OwnersInv
  <2>2. CASE new # None /\ tree' = new
    <3> HIDE DEF init
    <3>1. FromImage(new, image) BY <2>2, InstalledIsFromImage DEF OwnersInv
    <3>2. FromImage(tree, image)' BY <2>1, <2>2, <3>1
    <3> QED BY <2>1, <3>2 DEF OwnersInv
  <2>3. CASE tree' = tree
    <3>1. FromImage(tree, image)' BY <2>1, <2>3 DEF OwnersInv, FromImage
    <3> QED BY <2>1, <3>1 DEF OwnersInv
  <2> QED BY <1>2, <2>2, <2>3 DEF Import!Install
<1>3. CASE Import!Next /\ ~ Import!Inject /\ ~ Import!Install
  <2>1. image' = image /\ tree' = tree /\ step' # "inject" /\ step' # "install" /\ step # "done"
    BY <1>3, OtherStepsLeaveTheTree
  <2>2. FromImage(tree, image)' BY <2>1 DEF OwnersInv, FromImage
  <2>3. /\ step' = "owners" => FALSE
        /\ owners' = owners \/ owners' = Import!PseudoFile(tree, image.records, Unnameable)
    <3> USE DEF Import!End, Import!Go, Import!Frame, Import!rootfs, Import!upload
    <3>1. CASE Import!Convert
      BY <1>3, <3>1 DEF Import!Convert, Import!WriteOwners, Import!Pack, Import!AssembleMetadata
    <3>2. CASE Import!Upload
      BY <3>2 DEF Import!Upload, Import!Measure, Import!Connect, Import!Send, Import!SendPreamble,
         Import!ReadChunk, Import!BodyFails, Import!SendClosing, Import!Receive, Import!ConnectionFails
    <3>3. CASE Import!Environment
      BY <3>3 DEF Import!Environment, Import!FileChanges, Import!LxdTakes, Import!LxdRefuses,
         Import!ProxyAnswers
    <3> QED BY <1>3, <3>1, <3>2, <3>3 DEF Import!Next
  <2>4. Import!PseudoFile(tree, image.records, Unnameable)' = Import!PseudoFile(tree, image.records, Unnameable)
    BY <2>1
  <2> QED BY <2>1, <2>2, <2>3, <2>4 DEF OwnersInv
<1>4. CASE UNCHANGED Import!vars
  <2>1. UNCHANGED <<image, tree, owners, step>> BY <1>4 DEF Import!vars, Import!rootfs
  <2>2. FromImage(tree, image)' BY <2>1 DEF OwnersInv, FromImage
  <2>3. Import!PseudoFile(tree, image.records, Unnameable)' = Import!PseudoFile(tree, image.records, Unnameable)
    BY <2>1
  <2> QED BY <2>1, <2>2, <2>3 DEF OwnersInv
<1> QED BY <1>1, <1>2, <1>3, <1>4

(* For every image that umoci unpacks, whatever its ids are and however    *)
(* many bytes they take: the packed image gives each entry that can be     *)
(* named its recorded owner, and root's to what is the driver's, a link or *)
(* "unchanged" (decode_rootless_owner, write_ownership_pseudo_file).       *)
THEOREM OwnersAreRestoredAlways ==
    ASSUME NoneIsApart, \A i \in Images : Recorded(i)
    PROVE  Import!Spec => []OwnersAreRestored
<1>1. Import!Init => OwnersInv
  <2> SUFFICES ASSUME Import!Init PROVE OwnersInv OBVIOUS
  <2>1. tree = image.tree /\ owners = None BY DEF Import!Init, Import!Unpacked
  <2> QED BY <2>1 DEF OwnersInv, FromImage
<1>2. RootfsInv /\ OwnersInv => OwnersAreRestored
  <2> SUFFICES ASSUME RootfsInv, OwnersInv, owners # None, NEW path \in DOMAIN tree,
                      Import!ToSet(path) \cap Unnameable = {}
               PROVE  /\ path \in DOMAIN owners
                      /\ owners[path] = IF tree[path].by = "driver" \/ tree[path].kind = "link"
                                        THEN << 0, 0 >>
                                        ELSE [n \in 1..2 |-> IF image.owners[path][n] = MaxId THEN 0
                                                             ELSE image.owners[path][n]]
    BY DEF OwnersAreRestored, Import!OwnersAreRestored
  <2> DEFINE owner(p) == IF p \in DOMAIN image.records /\ Import!At(tree, p).by = "image"
                         THEN Import!DecodeRootlessOwner(image.records[p]) ELSE << 0, 0 >>
             named == {p \in DOMAIN tree : Import!ToSet(p) \cap Unnameable = {}}
  <2>1. owners = [p \in named |-> owner(p)] BY DEF OwnersInv, Import!PseudoFile
  <2>2. path \in DOMAIN owners /\ owners[path] = owner(path) BY <2>1
  <2>3. path # <<>> /\ image \in Images BY DEF RootfsInv, TreeFits
  <2>4. Import!At(tree, path) = tree[path] BY <2>3, AtIs
  <2>5. CASE tree[path].by = "driver" BY <2>2, <2>4, <2>5
  <2>6. CASE tree[path].by # "driver"
    <3>1. path \in DOMAIN image.tree /\ tree[path] = image.tree[path]
      BY <2>6 DEF OwnersInv, FromImage
    <3>2. /\ tree[path].by = "image"
          /\ path \in DOMAIN image.records =>
                tree[path].kind # "link" /\ RecordIs(image.records[path], image.owners[path])
          /\ path \notin DOMAIN image.records /\ tree[path].kind # "link" => image.owners[path] = << 0, 0 >>
      BY <2>3, <3>1 DEF Recorded
    <3>3. CASE path \in DOMAIN image.records
      <4>1. owners[path] = Import!DecodeRootlessOwner(image.records[path]) BY <2>2, <2>4, <3>2, <3>3
      <4>2. Import!DecodeRootlessOwner(image.records[path]) = [n \in 1..2 |-> Import!Id(image.owners[path][n])]
        BY <3>2, <3>3, RecordIsDecoded
      <4> QED BY <2>2, <2>6, <3>2, <3>3, <4>1, <4>2 DEF Import!Id
    <3>4. CASE path \notin DOMAIN image.records
      <4>1. owners[path] = << 0, 0 >> BY <2>2, <3>4
      <4>2. CASE tree[path].kind = "link" BY <2>2, <4>1, <4>2
      <4>3. CASE tree[path].kind # "link"
        <5>1. image.owners[path] = << 0, 0 >> BY <3>2, <3>4, <4>3
        <5>2. \A n \in 1..2 : (IF << 0, 0 >>[n] = MaxId THEN 0 ELSE << 0, 0 >>[n]) = << 0, 0 >>[n]
          OBVIOUS
        <5>3. << 0, 0 >> = [n \in 1..2 |-> << 0, 0 >>[n]] OBVIOUS
        <5>4. [n \in 1..2 |-> IF image.owners[path][n] = MaxId THEN 0 ELSE image.owners[path][n]] = << 0, 0 >>
          BY <5>1, <5>2, <5>3
        <5> QED BY <2>2, <2>6, <4>1, <4>3, <5>4
      <4> QED BY <4>2, <4>3
    <3> QED BY <3>3, <3>4
  <2> QED BY <2>5, <2>6
<1> QED BY <1>1, <1>2, InitEstablishesRootfsInv, RootfsInvIsInductive, OwnersInvIsInductive, PTL
    DEF Import!Spec

-----------------------------------------------------------------------------
(* The types *)

(* A create's state and its instance: there is an answer exactly at the    *)
(* end, and an instance exactly with the good one; what the ACL is to      *)
(* allow are addresses and ports.                                          *)
TaskTyped(s, i) ==
    /\ s.pc \in Steps /\ s.answer \in Answers
    /\ s.pc = "done" <=> s.answer # None
    /\ s.gateway \subseteq [ip : Addresses, port : Nat]
    /\ s.pc = "lookup" => Port(s.endpoint) \in Nat
    /\ s.pc = "pool" => s.network # None
    /\ i # None <=> s.answer = "ok"

RestTyped ==
    /\ phase \in [Drivers -> {"new", "look", "remove", "bind", "client", "project",
                              "architecture", "serving", "exited"}]
    /\ socket \in {"none", "file", "stale"} \cup Drivers
    /\ job \in [Tasks -> {"none", "pending", "ok", "failed"}]
    /\ dns \subseteq Addresses
    /\ changes \in 0..MaxChanges /\ swept \in BOOLEAN
    /\ changed \subseteq Tasks /\ swapped \subseteq Tasks

TasksTyped == \A t \in Tasks : TaskTyped(task[t], instances[t])

(* A step of one create, to a state that has its type. *)
LEMMA StepIsTyped ==
    ASSUME CreateInv, TasksTyped, NEW t \in Tasks, NEW state, Formed(state), Step(t, state),
           TaskTyped(state, instances'[t]),
           \A u \in Tasks : u # t => instances'[u] = instances[u]
    PROVE  TasksTyped'
<1>1. task'[t] = state /\ \A u \in Tasks : u # t => task'[u] = task[u]
  BY StepOfOne DEF CreateInv
<1>2. ASSUME NEW u \in Tasks PROVE TaskTyped(task[u], instances[u])'
  <2>1. CASE u = t
    <3>1. TaskTyped(task[u], instances[u])' <=> TaskTyped(state, instances'[t])
      BY <1>1, <2>1 DEF TaskTyped
    <3> QED BY <3>1
  <2>2. CASE u # t
    <3>1. TaskTyped(task[u], instances[u]) BY DEF TasksTyped
    <3> QED BY <1>1, <2>2, <3>1 DEF TaskTyped
  <2> QED BY <2>1, <2>2
<1> QED BY <1>2 DEF TasksTyped

LEMMA GoIsTyped ==
    ASSUME NoneIsApart, CreateInv, TasksTyped, NEW t \in Tasks, task[t].pc # "done", instances' = instances,
           NEW pc \in Steps \ {"done", "lookup", "pool"}, Go(t, pc)
    PROVE  TasksTyped'
<1> DEFINE state == [task[t] EXCEPT !.pc = pc]
<1>1. Formed(task[t]) BY DEF CreateInv, TasksFormed
<1>2. /\ Formed(state) /\ state.pc = pc /\ state.answer = task[t].answer
      /\ state.gateway = task[t].gateway
  BY <1>1 DEF Formed, TaskFields
<1>3. Step(t, state) BY DEF Go
<1>4. TaskTyped(task[t], instances[t]) BY DEF TasksTyped
<1> HIDE DEF state
<1>5. TaskTyped(state, instances'[t]) BY <1>2, <1>4 DEF TaskTyped
<1> QED BY <1>2, <1>3, <1>5, StepIsTyped

LEMMA AnswerIsTyped ==
    ASSUME NoneIsApart, CreateInv, TasksTyped, NEW t \in Tasks, task[t].pc # "done", instances' = instances,
           NEW answer \in {"refused", "failed", "missing"}, Answer(t, answer)
    PROVE  TasksTyped'
<1> DEFINE state == [task[t] EXCEPT !.pc = "done", !.answer = answer]
<1>1. Formed(task[t]) BY DEF CreateInv, TasksFormed
<1>2. /\ Formed(state) /\ state.pc = "done" /\ state.answer = answer
      /\ state.gateway = task[t].gateway
  BY <1>1 DEF Formed, TaskFields
<1>3. Step(t, state) BY DEF Answer
<1>4. TaskTyped(task[t], instances[t]) BY DEF TasksTyped
<1> HIDE DEF state
<1>5. answer # None /\ answer # "ok" /\ answer \in Answers BY DEF NoneIsApart, Answers
<1>6. instances[t] = None BY <1>4, NoneIsApart DEF TaskTyped, NoneIsApart
<1>7. TaskTyped(state, instances'[t]) BY <1>2, <1>4, <1>5, <1>6 DEF TaskTyped, Steps
<1> QED BY <1>2, <1>3, <1>7, StepIsTyped

(* The steps that only go on or end. *)
LEMMA PlainStepsAreTyped ==
    ASSUME NoneIsApart, CreateInv, TasksTyped, NEW t \in Tasks,
           \/ Receive(t) \/ GetAcl(t) \/ PutAcl(t) \/ PostAcl(t) \/ AwaitAcl(t) \/ Build(t)
           \/ Provision(t)
    PROVE  TasksTyped'
<1>1. /\ task[t].pc # "done" /\ instances' = instances
      /\ \/ \E pc \in Steps \ {"done", "lookup", "pool"} : Go(t, pc)
         \/ \E answer \in {"refused", "failed", "missing"} : Answer(t, answer)
  <2>1. CASE Receive(t) BY <2>1 DEF Receive, Steps
  <2>2. CASE GetAcl(t) BY <2>2 DEF GetAcl, Steps
  <2>3. CASE PutAcl(t) BY <2>3 DEF PutAcl, Steps
  <2>4. CASE PostAcl(t) BY <2>4 DEF PostAcl, AclCreated, Steps
  <2>5. CASE AwaitAcl(t) BY <2>5 DEF AwaitAcl, Steps
  <2>6. CASE Build(t) BY <2>6 DEF Build, Steps
  <2>7. CASE Provision(t) BY <2>7 DEF Provision, Steps
  <2> QED BY <2>1, <2>2, <2>3, <2>4, <2>5, <2>6, <2>7
<1>2. CASE \E pc \in Steps \ {"done", "lookup", "pool"} : Go(t, pc) BY <1>1, <1>2, GoIsTyped
<1>3. CASE \E answer \in {"refused", "failed", "missing"} : Answer(t, answer) BY <1>1, <1>3, AnswerIsTyped
<1> QED BY <1>1, <1>2, <1>3

(* The steps that keep what they have read. *)
LEMMA ReadingIsTyped ==
    ASSUME NoneIsApart, CreateInv, TasksTyped, NEW t \in Tasks, task[t].pc # "done", instances' = instances,
           NEW state, Formed(state), Step(t, state), state.answer = task[t].answer,
           state.pc \in Steps \ {"done", "lookup"}, state.gateway = task[t].gateway,
           state.pc = "pool" => state.network # None
    PROVE  TasksTyped'
<1>1. TaskTyped(task[t], instances[t]) BY DEF TasksTyped
<1>2. TaskTyped(state, instances'[t]) BY <1>1 DEF TaskTyped
<1> QED BY <1>2, StepIsTyped

LEMMA ReadsAreTyped ==
    ASSUME NoneIsApart, CreateInv, TasksTyped, NEW t \in Tasks,
           ReadNetwork(t) \/ ReadTls(t) \/ ResolveClient(t) \/ ReadClient(t)
    PROVE  TasksTyped'
<1>1. Formed(task[t]) BY DEF CreateInv, TasksFormed
<1>2. ASSUME NEW answer \in {"refused", "failed"}, Answer(t, answer), task[t].pc # "done",
             instances' = instances
      PROVE  TasksTyped'
  BY <1>2, AnswerIsTyped
<1>3. CASE ReadNetwork(t)
  <2> DEFINE network == networks[Placement(Request(t), Mine(t)).network]
             state == [task[t] EXCEPT !.pc = "pool", !.network = network]
  <2>1. /\ task[t].pc = "network" /\ instances' = instances
        /\ Answer(t, "refused") \/ Answer(t, "failed") \/ (network # None /\ Step(t, state))
    BY <1>3 DEF ReadNetwork
  <2>2. /\ Formed(state) /\ state.pc = "pool" /\ state.answer = task[t].answer
        /\ state.gateway = task[t].gateway /\ state.network = network
    BY <1>1 DEF Formed, TaskFields
  <2> HIDE DEF state
  <2> QED BY <1>2, <2>1, <2>2, ReadingIsTyped DEF Steps
<1>4. CASE ReadTls(t)
  <2> DEFINE n == Len(task[t].files) + 1
             generation == tls[GuestTlsFiles[n]]
             state == [task[t] EXCEPT !.files = Append(task[t].files, generation),
                                      !.pc = IF n = Len(GuestTlsFiles) THEN "provision" ELSE "tls"]
  <2>1. /\ task[t].pc = "tls" /\ instances' = instances
        /\ Answer(t, "refused") \/ Step(t, state)
    BY <1>4 DEF ReadTls
  <2>2. /\ Formed(state) /\ state.pc \in {"provision", "tls"} /\ state.answer = task[t].answer
        /\ state.gateway = task[t].gateway
    BY <1>1 DEF Formed, TaskFields
  <2> HIDE DEF state
  <2> QED BY <1>2, <2>1, <2>2, ReadingIsTyped DEF Steps
<1>5. CASE ResolveClient(t)
  <2> DEFINE path == ResolveBinary(Mine(t).dhcpClient, given.candidates, files)
             state == [task[t] EXCEPT !.pc = "read", !.client = path]
  <2>1. /\ task[t].pc = "client" /\ instances' = instances
        /\ Answer(t, "failed") \/ Step(t, state)
    BY <1>5 DEF ResolveClient
  <2>2. /\ Formed(state) /\ state.pc = "read" /\ state.answer = task[t].answer
        /\ state.gateway = task[t].gateway
    BY <1>1 DEF Formed, TaskFields
  <2> HIDE DEF state
  <2> QED BY <1>2, <2>1, <2>2, ReadingIsTyped DEF Steps
<1>6. CASE ReadClient(t)
  <2> DEFINE file == files[task[t].client]
             state == [task[t] EXCEPT !.pc = "create", !.client = file]
  <2>1. /\ task[t].pc = "read" /\ instances' = instances
        /\ Answer(t, "failed") \/ Step(t, state)
    BY <1>6 DEF ReadClient
  <2>2. /\ Formed(state) /\ state.pc = "create" /\ state.answer = task[t].answer
        /\ state.gateway = task[t].gateway
    BY <1>1 DEF Formed, TaskFields
  <2> HIDE DEF state
  <2> QED BY <1>2, <2>1, <2>2, ReadingIsTyped DEF Steps
<1> QED BY <1>3, <1>4, <1>5, <1>6

(* The endpoint of a driver, as it was given or derived from the network,  *)
(* has a port, and an address unless it has a name.                        *)
LEMMA EndpointsAreTyped ==
    ASSUME NoneIsApart, NEW s \in Scenarios, NEW d \in Drivers, NEW o, o = Parse(s.options[d]), o # None,
           NEW n \in DOMAIN s.networks, s.networks[n] # None,
           NEW e, e = ResolveGatewayEndpoint(o, s.networks[n]), e # None
    PROVE  HostIs(e.host) /\ Port(e) \in Nat
<1> DEFINE url == s.options[d].endpoint
           endpoint == IF url = None THEN None ELSE ParseGatewayEndpoint(url)
<1>1. /\ {"given", "endpoint", "grpcPort"} \subseteq DOMAIN s.options[d] /\ s.options[d].grpcPort \in Nat
      /\ url # None => (url.host # None => HostIs(url.host)) /\ url.port \in Nat \cup {None}
      /\ s.networks[n].address # None => HostIs(s.networks[n].address)
  BY ScenariosAssumption
<1>2. o.endpoint = endpoint /\ o.grpcPort = s.options[d].grpcPort
  BY <1>1 DEF Parse
<1>3. e.port \in Nat \cup {None} /\ HostIs(e.host)
  <2>1. CASE o.endpoint # None
    <3>1. e = endpoint /\ url # None BY <1>2, <2>1 DEF ResolveGatewayEndpoint
    <3>2. e = ParseGatewayEndpoint(url) /\ e # None BY <1>2, <2>1, <3>1
    <3>3. url.host # None /\ e = [scheme |-> Lowercase(url.scheme), host |-> url.host, port |-> url.port]
      BY <3>2 DEF ParseGatewayEndpoint
    <3>4. e.host = url.host /\ e.port = url.port BY <3>3
    <3> QED BY <1>1, <3>1, <3>3, <3>4
  <2>2. CASE o.endpoint = None
    <3>1. /\ s.networks[n].address # None
          /\ e = [scheme |-> GatewayScheme(o), host |-> s.networks[n].address, port |-> o.grpcPort]
      BY <2>2 DEF ResolveGatewayEndpoint
    <3>2. e.host = s.networks[n].address /\ e.port = o.grpcPort BY <3>1
    <3> QED BY <1>1, <1>2, <3>1, <3>2
  <2> QED BY <2>1, <2>2
<1>4. Port(e) \in Nat
  <2>1. CASE e.port # None BY <1>3, <2>1 DEF Port
  <2>2. CASE e.port = None BY <2>2 DEF Port
  <2> QED BY <2>1, <2>2
<1> QED BY <1>3, <1>4

LEMMA ReadPoolIsTyped ==
    ASSUME NoneIsApart, CreateInv, PromiseInv, TasksTyped, NEW t \in Tasks, ReadPool(t)
    PROVE  TasksTyped'
<1> DEFINE o == Mine(t)
           endpoint == ResolveGatewayEndpoint(o, task[t].network)
           ready == [task[t] EXCEPT !.endpoint = endpoint]
           built == [ready EXCEPT !.pc = "build"]
           looked == [ready EXCEPT !.pc = "lookup"]
           gateway == {[ip |-> endpoint.host.ip, port |-> Port(endpoint)]}
           wanted == Wanting(ready, gateway)
<1>1. /\ task[t].pc = "pool" /\ instances' = instances
      /\ \/ Answer(t, "refused") \/ Answer(t, "failed")
         \/ endpoint # None /\ Step(t, built)
         \/ endpoint # None /\ Step(t, looked)
         \/ endpoint # None /\ endpoint.host.is # "name" /\ Step(t, wanted)
  BY DEF ReadPool
<1>2. TaskTyped(task[t], instances[t]) BY DEF TasksTyped
<1>3. Formed(task[t]) BY DEF CreateInv, TasksFormed
<1>4. CASE Answer(t, "refused") \/ Answer(t, "failed") BY <1>1, <1>4, AnswerIsTyped
<1>5. CASE endpoint # None
  <2>1. HostIs(endpoint.host) /\ Port(endpoint) \in Nat
    <3> DEFINE d == given.home[t]
               n == Placement(given.requests[t], o).network
    <3>1. Fits(given, t, task[t], "pool") BY <1>1, FitsNow DEF CreateInv
    <3>2. /\ Admitted(given, d) /\ given.requests[t] # None /\ task[t].network = Place(given, t)
      BY <3>1 DEF Fits, Grounded, Placed
    <3>3. given \in Scenarios /\ d \in Drivers BY ScenariosAssumption DEF CreateInv, TasksFormed
    <3>4. o = Parse(given.options[d]) /\ o # None BY <3>2 DEF Admitted, Mine, Options
    <3>5. n \in DOMAIN given.networks BY <3>2, <3>3, <3>4, ScenariosAssumption
    <3>6. task[t].network = given.networks[n] BY <3>2, <3>4 DEF Place, Choice
    <3> HIDE DEF d, n, o
    <3>8. PICK e : e = endpoint OBVIOUS
    <3>9. e = ResolveGatewayEndpoint(o, given.networks[n]) /\ e # None BY <1>5, <3>6, <3>8
    <3>10. given.networks[n] # None BY <1>1, <1>2, <3>6 DEF TaskTyped
    <3>11. HostIs(e.host) /\ Port(e) \in Nat BY <3>3, <3>4, <3>5, <3>9, <3>10, EndpointsAreTyped
    <3> QED BY <3>8, <3>11
  <2> HIDE DEF endpoint, o
  <2>2. /\ Formed(ready) /\ ready.endpoint = endpoint
        /\ ready.gateway = task[t].gateway /\ ready.answer = task[t].answer
    BY <1>3 DEF Formed, TaskFields
  <2> HIDE DEF ready
  <2>3. /\ Formed(built) /\ built.pc = "build" /\ built.gateway = task[t].gateway
        /\ built.answer = task[t].answer
        /\ Formed(looked) /\ looked.pc = "lookup" /\ looked.endpoint = endpoint
        /\ looked.gateway = task[t].gateway /\ looked.answer = task[t].answer
    BY <2>2 DEF Formed, TaskFields
  <2>4. /\ Formed(wanted) /\ wanted.pc = "get" /\ wanted.gateway = gateway
        /\ wanted.answer = task[t].answer
    BY <2>2 DEF Formed, TaskFields, Wanting
  <2> HIDE DEF built, looked, wanted
  <2>5. CASE Step(t, built) BY <1>1, <2>3, <2>5, ReadingIsTyped DEF Steps
  <2>6. CASE Step(t, looked)
    <3>1. TaskTyped(looked, instances'[t]) BY <1>1, <1>2, <2>1, <2>3 DEF TaskTyped, Steps
    <3> QED BY <1>1, <2>3, <2>6, <3>1, StepIsTyped
  <2>7. CASE endpoint.host.is # "name" /\ Step(t, wanted)
    <3>1. gateway \subseteq [ip : Addresses, port : Nat] BY <2>1, <2>7 DEF HostIs
    <3>2. TaskTyped(wanted, instances'[t]) BY <1>1, <1>2, <2>4, <3>1 DEF TaskTyped, Steps
    <3> QED BY <1>1, <2>4, <2>7, <3>2, StepIsTyped
  <2> QED BY <1>1, <1>4, <2>5, <2>6, <2>7
<1> HIDE DEF endpoint, built, looked, wanted
<1> QED BY <1>1, <1>4, <1>5

LEMMA LookUpIsTyped ==
    ASSUME NoneIsApart, CreateInv, RestTyped, TasksTyped, NEW t \in Tasks, LookUp(t)
    PROVE  TasksTyped'
<1> DEFINE gateway == {[ip |-> a, port |-> Port(task[t].endpoint)] : a \in dns}
           wanted == Wanting(task[t], gateway)
<1>1. /\ task[t].pc = "lookup" /\ instances' = instances
      /\ Answer(t, "refused") \/ Step(t, wanted)
  BY DEF LookUp
<1>2. TaskTyped(task[t], instances[t]) BY DEF TasksTyped
<1>3. Port(task[t].endpoint) \in Nat BY <1>1, <1>2 DEF TaskTyped
<1>4. gateway \subseteq [ip : Addresses, port : Nat] BY <1>3 DEF RestTyped
<1>5. Formed(task[t]) BY DEF CreateInv, TasksFormed
<1> HIDE DEF gateway
<1>6. /\ Formed(wanted) /\ wanted.pc = "get" /\ wanted.gateway = gateway
      /\ wanted.answer = task[t].answer
  BY <1>5 DEF Formed, TaskFields, Wanting
<1> HIDE DEF wanted
<1>7. CASE Answer(t, "refused") BY <1>1, <1>7, AnswerIsTyped
<1>8. CASE Step(t, wanted)
  <2>1. TaskTyped(wanted, instances'[t]) BY <1>1, <1>2, <1>4, <1>6 DEF TaskTyped, Steps
  <2> QED BY <1>1, <1>6, <1>8, <2>1, StepIsTyped
<1> QED BY <1>1, <1>7, <1>8

LEMMA CreateInstanceIsTyped ==
    ASSUME NoneIsApart, CreateInv, TasksTyped, NEW t \in Tasks, CreateInstance(t)
    PROVE  TasksTyped'
<1>1. TaskTyped(task[t], instances[t]) /\ Formed(task[t])
  BY DEF TasksTyped, CreateInv, TasksFormed
<1>2. CASE Answer(t, "failed") /\ UNCHANGED instances
  BY <1>2, AnswerIsTyped DEF CreateInstance
<1>3. CASE Answer(t, "ok") /\ instances' = [instances EXCEPT ![t] = Instance(t)]
  <2> DEFINE state == [task[t] EXCEPT !.pc = "done", !.answer = "ok"]
             i == Instance(t)
  <2>1. Step(t, state) BY <1>3 DEF Answer
  <2>2. /\ Formed(state) /\ state.pc = "done" /\ state.answer = "ok"
        /\ state.gateway = task[t].gateway
    BY <1>1 DEF Formed, TaskFields
  <2>3. i = [x \in DOMAIN i |-> i[x]] BY DEF Instance
  <2> HIDE DEF i, state
  <2>4. i # None BY <2>3 DEF NoneIsApart, NoneIsNoFunction
  <2>5. instances'[t] = i /\ \A u \in Tasks : u # t => instances'[u] = instances[u]
    BY <1>3 DEF CreateInv, ClientStays, i
  <2>6. TaskTyped(state, instances'[t])
    BY <1>1, <2>2, <2>4, <2>5 DEF TaskTyped, Steps, Answers, NoneIsApart
  <2> QED BY <2>1, <2>2, <2>5, <2>6, StepIsTyped
<1> QED BY <1>2, <1>3 DEF CreateInstance

(* Start-up, the operator and LXD's operations touch no create's state. *)
LEMMA OthersLeaveTasksTyped ==
    ASSUME TasksTyped, UNCHANGED <<task, instances>>
    PROVE  TasksTyped'
BY DEF TasksTyped, TaskTyped

LEMMA StartUpIsTyped ==
    ASSUME RestTyped, NEW d \in Drivers, StartUp(d)
    PROVE  RestTyped'
<1> DEFINE Phases == {"new", "look", "remove", "bind", "client", "project", "architecture",
                      "serving", "exited"}
<1>1. /\ UNCHANGED <<lxd, host>>
      /\ \E p \in Phases : phase' = [phase EXCEPT ![d] = p]
      /\ socket' \in {"none", d, socket}
  <2>1. CASE CheckOptions(d) BY <2>1 DEF CheckOptions, Enter
  <2>2. CASE LookAtSocket(d) BY <2>2 DEF LookAtSocket, Enter
  <2>3. CASE RemoveSocket(d) BY <2>3 DEF RemoveSocket, Enter
  <2>4. CASE Bind(d) BY <2>4 DEF Bind, Enter
  <2>5. CASE BuildClient(d) BY <2>5 DEF BuildClient, Enter
  <2>6. CASE CheckProject(d) BY <2>6 DEF CheckProject, Enter
  <2>7. CASE CheckArchitecture(d) BY <2>7 DEF CheckArchitecture, Enter
  <2> QED BY <2>1, <2>2, <2>3, <2>4, <2>5, <2>6, <2>7 DEF StartUp
<1> QED BY <1>1 DEF RestTyped, lxd, host

(* A create's step may start or end an operation on the ACL, and resets or *)
(* sets what is known of it.                                               *)
LEMMA CreateIsTyped ==
    ASSUME RestTyped, NEW t \in Tasks, Create(t) \/ AclOperationEnds(t)
    PROVE  RestTyped'
<1>1. /\ UNCHANGED <<phase, socket, dns, changes, swept>>
      /\ job' = job \/ \E j \in {"pending", "ok", "failed"} : job' = [job EXCEPT ![t] = j]
      /\ changed' \in {changed, changed \ {t}, Tasks \ {t}}
      /\ swapped' \in {swapped, swapped \ {t}}
  <2> USE DEF Go, Answer, Step, start, lxd, host
  <2>1. CASE Receive(t) BY <2>1 DEF Receive
  <2>2. CASE ReadNetwork(t) BY <2>2 DEF ReadNetwork
  <2>3. CASE ReadPool(t) BY <2>3 DEF ReadPool
  <2>4. CASE LookUp(t) BY <2>4 DEF LookUp
  <2>5. CASE GetAcl(t) BY <2>5 DEF GetAcl
  <2>6. CASE PutAcl(t) BY <2>6 DEF PutAcl
  <2>7. CASE PostAcl(t) BY <2>7 DEF PostAcl, AclCreated, AclBecomes
  <2>8. CASE AwaitAcl(t) BY <2>8 DEF AwaitAcl
  <2>9. CASE Build(t) BY <2>9 DEF Build
  <2>10. CASE ReadTls(t) BY <2>10 DEF ReadTls
  <2>11. CASE Provision(t) BY <2>11 DEF Provision
  <2>12. CASE ResolveClient(t) BY <2>12 DEF ResolveClient
  <2>13. CASE ReadClient(t) BY <2>13 DEF ReadClient
  <2>14. CASE CreateInstance(t) BY <2>14 DEF CreateInstance
  <2>15. CASE AclOperationEnds(t) BY <2>15 DEF AclOperationEnds, AclBecomes
  <2> QED BY <2>1, <2>2, <2>3, <2>4, <2>5, <2>6, <2>7, <2>8, <2>9, <2>10, <2>11, <2>12, <2>13,
             <2>14, <2>15 DEF Create
<1> QED BY <1>1 DEF RestTyped

LEMMA OperatorIsTyped ==
    ASSUME CreateInv, RestTyped, Operator
    PROVE  RestTyped'
<1>1. /\ UNCHANGED <<phase, socket, job>> /\ changes < MaxChanges /\ changes' = changes + 1
      /\ dns' = dns \/ dns' \in given.names
      /\ swept' \in {swept, TRUE} /\ changed' \in {changed, Tasks}
      /\ swapped' = swapped \/ swapped' = swapped \cup {t \in Tasks : task[t].pc = "read"}
  BY DEF Operator, RotateTls, ChangeDns, EditAcl, ReplaceClient, RemoveNetwork, Change, start
<1>2. given.names \subseteq SUBSET Addresses BY ScenariosAssumption DEF CreateInv, TasksFormed
<1>3. changes' \in 0..MaxChanges BY <1>1, ChangesAssumption DEF RestTyped
<1> QED BY <1>1, <1>2, <1>3 DEF RestTyped

LEMMA InitIsTyped ==
    ASSUME NoneIsApart, Init
    PROVE  RestTyped /\ TasksTyped
<1>1. RestTyped
  <2>1. /\ given \in Scenarios /\ phase = given.phase /\ socket = given.socket /\ dns = given.dns
        /\ job = [t \in Tasks |-> "none"]
        /\ changes = 0 /\ swept = FALSE /\ changed = {} /\ swapped = {}
    BY DEF Init
  <2>2. /\ given.phase \in [Drivers -> {"new", "exited", "serving"}]
        /\ given.socket \in {"none", "file", "stale"} \cup Drivers
        /\ given.dns \subseteq Addresses
    BY <2>1, ScenariosAssumption
  <2>3. 0 \in 0..MaxChanges BY ChangesAssumption
  <2>4. phase \in [Drivers -> {"new", "look", "remove", "bind", "client", "project",
                               "architecture", "serving", "exited"}]
    BY <2>1, <2>2
  <2> QED BY <2>1, <2>2, <2>3, <2>4 DEF RestTyped
<1>2. /\ Idle.pc = "idle" /\ Idle.answer = None /\ Idle.gateway = {}
  BY DEF Idle
<1>3. task = [t \in Tasks |-> Idle] /\ instances = [t \in Tasks |-> None] BY DEF Init
<1>4. TaskTyped(Idle, None) BY <1>2 DEF TaskTyped, Steps, Answers, NoneIsApart
<1> QED BY <1>1, <1>3, <1>4 DEF TasksTyped

LEMMA TypesAreInductive ==
    ASSUME NoneIsApart, CreateInv, PromiseInv, RestTyped, TasksTyped, [Next]_vars
    PROVE  RestTyped' /\ TasksTyped'
<1>1. CASE UNCHANGED vars
  <2>1. RestTyped' BY <1>1 DEF vars, RestTyped
  <2> QED BY <1>1, <2>1, OthersLeaveTasksTyped DEF vars
<1>2. ASSUME NEW d \in Drivers, StartUp(d) PROVE RestTyped' /\ TasksTyped'
  <2>1. UNCHANGED <<task, instances>>
    BY <1>2 DEF StartUp, CheckOptions, LookAtSocket, RemoveSocket, Bind, BuildClient,
                CheckProject, CheckArchitecture, Enter
  <2> QED BY <1>2, <2>1, StartUpIsTyped, OthersLeaveTasksTyped
<1>3. ASSUME NEW t \in Tasks, Create(t) PROVE RestTyped' /\ TasksTyped'
  BY <1>3, CreateIsTyped, PlainStepsAreTyped, ReadsAreTyped, ReadPoolIsTyped, LookUpIsTyped,
     CreateInstanceIsTyped DEF Create
<1>4. ASSUME NEW t \in Tasks, AclOperationEnds(t) PROVE RestTyped' /\ TasksTyped'
  BY <1>4, CreateIsTyped, OthersLeaveTasksTyped DEF AclOperationEnds
<1>5. CASE Operator
  <2>1. UNCHANGED <<task, instances>>
    BY <1>5 DEF Operator, RotateTls, ChangeDns, EditAcl, ReplaceClient, RemoveNetwork, Change
  <2> QED BY <1>5, <2>1, OperatorIsTyped, OthersLeaveTasksTyped
<1> QED BY <1>1, <1>2, <1>3, <1>4, <1>5 DEF Next

(* The import: there is a result exactly at the end, and the file has one  *)
(* of the lengths that it may have.                                        *)
ImportTyped ==
    /\ step \in {"inject", "install", "owners", "pack", "metadata", "measure",
                 "connect", "send", "done"}
    /\ length \in image.lengths \cup {None}
    /\ body \in {"Preamble", "Rootfs", "Closing", "Done", "Broken"}
    /\ server.is \in {"waiting", "operation", "refused"}
    /\ server = [is |-> server.is, code |-> server.code]
    /\ step = "done" <=> result # None

(* A result is a record. *)
LEMMA ResultsAreNotNone ==
    ASSUME NoneIsApart
    PROVE  /\ \A kind : Import!Failure(kind) # None
           /\ \A r : Import!Client!Interpret(r) # None
<1>1. ASSUME NEW is, NEW code PROVE [is |-> is, code |-> code] # None
  <2> DEFINE r == [is |-> is, code |-> code]
  <2>1. r = [x \in DOMAIN r |-> r[x]] OBVIOUS
  <2> HIDE DEF r
  <2>2. r # None BY <2>1 DEF NoneIsApart, NoneIsNoFunction
  <2> QED BY <2>2 DEF r
<1>2. \A kind : Import!Failure(kind) # None BY <1>1 DEF Import!Failure
<1>3. ASSUME NEW r PROVE Import!Client!Interpret(r) # None
  <2>1. PICK is, code : Import!Client!Interpret(r) = [is |-> is, code |-> code]
    BY DEF Import!Client!Interpret
  <2> QED BY <1>1, <2>1
<1> QED BY <1>2, <1>3

LEMMA ImportStaysTyped ==
    ASSUME NoneIsApart, ImportTyped, [Import!Next]_(Import!vars)
    PROVE  ImportTyped'
<1> USE DEF ImportTyped, Import!End, Import!Go, Import!Frame, Import!rootfs, Import!upload
<1>1. CASE Import!Convert
  <2>1. CASE Import!Inject BY <2>1, ResultsAreNotNone DEF Import!Inject
  <2>2. CASE Import!Install BY <2>2, ResultsAreNotNone DEF Import!Install
  <2>3. CASE Import!WriteOwners BY <2>3, ResultsAreNotNone DEF Import!WriteOwners
  <2>4. CASE Import!Pack BY <2>4, ResultsAreNotNone DEF Import!Pack
  <2>5. CASE Import!AssembleMetadata BY <2>5, ResultsAreNotNone DEF Import!AssembleMetadata
  <2> QED BY <1>1, <2>1, <2>2, <2>3, <2>4, <2>5 DEF Import!Convert
<1>2. CASE Import!Upload
  <2>1. CASE Import!Measure BY <2>1 DEF Import!Measure
  <2>2. CASE Import!Connect BY <2>2, ResultsAreNotNone DEF Import!Connect
  <2>3. CASE Import!Send
    BY <2>3 DEF Import!Send, Import!SendPreamble, Import!ReadChunk, Import!BodyFails, Import!SendClosing
  <2>4. CASE Import!Receive BY <2>4, ResultsAreNotNone DEF Import!Receive
  <2>5. CASE Import!ConnectionFails BY <2>5, ResultsAreNotNone DEF Import!ConnectionFails
  <2> QED BY <1>2, <2>1, <2>2, <2>3, <2>4, <2>5 DEF Import!Upload
<1>3. CASE Import!Environment
  <2>1. CASE Import!FileChanges BY <2>1 DEF Import!FileChanges
  <2>2. CASE Import!LxdTakes
    <3>1. server' = [server EXCEPT !.is = "operation"] BY <2>2 DEF Import!LxdTakes
    <3>2. server' = [is |-> server'.is, code |-> server'.code] /\ server'.is = "operation"
      BY <3>1
    <3> QED BY <2>2, <3>2 DEF Import!LxdTakes
  <2>3. CASE Import!LxdRefuses BY <2>3 DEF Import!LxdRefuses
  <2>4. CASE Import!ProxyAnswers BY <2>4 DEF Import!ProxyAnswers
  <2> QED BY <1>3, <2>1, <2>2, <2>3, <2>4 DEF Import!Environment
<1>4. CASE UNCHANGED Import!vars BY <1>4 DEF Import!vars
<1> QED BY <1>1, <1>2, <1>3, <1>4 DEF Import!Next

-----------------------------------------------------------------------------
(* Both together *)

(* To wait for the import, and to fail with it, only narrows what a create *)
(* may do: resolve_alias adds no behaviour to create_sandbox that its one  *)
(* step of provisioning does not have.                                     *)
LEMMA JointImplementsCreate == JointSpec => Spec
<1>1. JointInit => Init BY DEF JointInit
<1>2. [JointNext]_<<vars, imported>> => [Next]_vars
  BY DEF JointNext
<1> QED BY <1>1, <1>2, PTL DEF JointSpec, Spec

(* Nothing a create does, and nothing the operator does meanwhile, is a    *)
(* step of the import other than its own.                                  *)
LEMMA JointImplementsImport == JointSpec => Import!Spec
<1>1. JointInit => Import!Init
  <2>1. (CHOOSE i \in Images : TRUE) \in Images BY ImagesAssumption
  <2> QED BY <2>1 DEF JointInit, Import!Init
<1>2. [JointNext]_<<vars, imported>> => [Import!Next]_(Import!vars)
  BY DEF JointNext, imported, Import!vars, Import!rootfs, Import!upload
<1> QED BY <1>1, <1>2, PTL DEF JointSpec, Import!Spec

(* Whatever the scenarios, the images and the chunks are, both parts keep  *)
(* their types: there is an answer exactly at the end of a create and an   *)
(* instance exactly with a good one, the body has sent what it does not    *)
(* have to send any more, and every entry of the rootfs stays in a         *)
(* directory (create_sandbox, SplitImageBody, install_init).               *)
THEOREM JointTyped ==
    ASSUME NoneIsApart
    PROVE  JointSpec => []JointTypeOK
<1>1. Spec => [](RestTyped /\ TasksTyped)
  <2>1. Init => RestTyped /\ TasksTyped BY InitIsTyped
  <2>2. CreateInv /\ PromiseInv /\ (RestTyped /\ TasksTyped) /\ [Next]_vars => (RestTyped /\ TasksTyped)'
    BY TypesAreInductive
  <2> QED BY <2>1, <2>2, CreateInvHolds, PromiseInvHolds, PTL DEF Spec
<1>2. Import!Spec => [](UploadInv /\ RootfsInv /\ ImportTyped)
  <2>1. Import!Init => ImportTyped BY DEF Import!Init, Import!Unpacked, ImportTyped
  <2> QED BY <2>1, InitEstablishesUploadInv, UploadInvIsInductive, InitEstablishesRootfsInv,
             RootfsInvIsInductive, ImportStaysTyped, PTL DEF Import!Spec
<1>3. PromiseInv /\ RestTyped /\ TasksTyped => TypeOK
  BY DEF PromiseInv, PhasesAreEarned, RestTyped, TasksTyped, TaskTyped, TypeOK
<1>4. UploadInv /\ RootfsInv /\ ImportTyped => Import!TypeOK
  BY DEF UploadInv, BodyCounts, RootfsInv, TreeFits, ImportTyped, Import!TypeOK
<1>5. TypeOK /\ Import!TypeOK => JointTypeOK BY DEF JointTypeOK
<1> QED BY <1>1, <1>2, <1>3, <1>4, <1>5, PromiseInvHolds, JointImplementsCreate,
           JointImplementsImport, PTL

(* So a create that imports its image keeps the promises of both: it fails *)
(* on the egress ACL only after the operator has touched it, its sandbox   *)
(* is confined, trusts the right peers and mounts a DHCP client that needs *)
(* no interpreter; it has no init but the driver's script, which was       *)
(* written below the rootfs; and LXD works only on a whole image (create_sandbox,  *)
(* ensure_network_acl, load_dhcp_client, inject_init_script,               *)
(* post_streaming_response).                                               *)
COROLLARY JointPromises ==
    ASSUME NoneIsApart
    PROVE  JointSpec => [](/\ PeersAreTrusted /\ EgressIsConfined /\ GatewayIsAllowed
                           /\ RacesEndWell /\ DhcpClientIsStatic
                           /\ NoOtherInit /\ StaysInRootfs /\ UploadIsTrue)
BY JointImplementsCreate, JointImplementsImport, PeersAreTrustedAlways, ConfinementHolds,
   GatewaysAreAllowed, AclRacesEndWell, DhcpClientsAreStatic, NoInitButTheScript,
   WritesStayInRootfs, UploadsAreTrue, PTL

=============================================================================
