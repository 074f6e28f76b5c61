----------------------------- MODULE DhcpClient -----------------------------
(***************************************************************************)
(* Which DHCP client the driver takes from its host: the configured file,  *)
(* or the first candidate of a fixed search order, and in either case only *)
(* an executable, statically linked ELF file, since it runs in sandboxes   *)
(* that have no libraries for it.  Pure operators; NewSandbox uses them.   *)
(*                                                                         *)
(* A file is a record: what it is, whether it may be executed, and, of an  *)
(* ELF file, its length, type, class and program header table.  Offsets    *)
(* count words; types maps the offset of a header to its type.             *)
(***************************************************************************)
EXTENDS DriverOptions, Sequences

CONSTANT ReadLimit  \* how much of a file is read: 64 KiB in the code

ASSUME ReadLimitAssumption == ReadLimit \in Nat

PT_INTERP == 3

IsExecutable(file) == file.is = "file" /\ file.executable

(* What read_u32 finds in the part that was read, None past its end. *)
HeaderType(file, i) ==
    LET offset == file.phoff + i * file.phentsize
    IN IF offset + 1 > file.length \/ offset + 1 > ReadLimit THEN None
       ELSE file.types[offset]

(* Mutant: a header that was not read is no interpreter. *)
StaticAsFarAsRead(file) ==
    /\ file.elf
    /\ file.class \in {1, 2} /\ file.type \in {2, 3}
    /\ file.phnum # 0 /\ file.phentsize >= 1
    /\ \A i \in 0..(file.phnum - 1) :
            HeaderType(file, i) # None => HeaderType(file, i) # PT_INTERP

(* is_static_elf_bytes, on the first ReadLimit of the file; a header is    *)
(* at least one word, which is where its type is.                          *)
IsStaticElf(file) ==
    /\ file.elf
    /\ file.class \in {1, 2} /\ file.type \in {2, 3}
    /\ file.phnum # 0 /\ file.phentsize >= 1
    /\ \A i \in 0..(file.phnum - 1) :
            HeaderType(file, i) # None /\ HeaderType(file, i) # PT_INTERP

IsCandidate(file) == IsExecutable(file) /\ IsStaticElf(file)

(* Whether the kernel would load an interpreter for the file: by all of    *)
(* its program headers, wherever they are.                                 *)
NeedsInterpreter(file) ==
    \E i \in 0..(file.phnum - 1) : file.types[file.phoff + i * file.phentsize] = PT_INTERP

(* resolve_dhcp_client_binary: the path it settles for, None if none does. *)
(* The candidates are the names in every directory of PATH, the places of  *)
(* the snap and the fallback paths, in this order.                         *)
ResolveBinary(override, candidates, files) ==
    IF override # None THEN IF IsCandidate(files[override]) THEN override ELSE None
    ELSE LET fit == {i \in DOMAIN candidates : IsCandidate(files[candidates[i]])}
         IN IF fit = {} THEN None ELSE candidates[CHOOSE i \in fit : \A j \in fit : i <= j]

=============================================================================
