---------------------------- MODULE EgressPolicy ----------------------------
(***************************************************************************)
(* The rules of the network ACL that confines sandboxes: the gateway's     *)
(* addresses and the public internet.  LXD prefers a reject to an allow,   *)
(* so the public internet is spelled out as the complement of the ranges   *)
(* that are not public, in CIDR blocks.                                    *)
(*                                                                         *)
(* An address is a number of Width bits; the code's Width is 32 and its    *)
(* list of ranges is a constant of the source.  IPv6 is one fixed block    *)
(* there, and left out here.  Pure operators; NewSandbox uses them.        *)
(***************************************************************************)
EXTENDS Naturals, Sequences, SequencesExt, FiniteSetsExt

CONSTANT Width  \* bits of an address

ASSUME WidthAssumption == Width \in Nat

(* The addresses of a block that leaves so many bits free: 1u64 << bits. *)
Size[bits \in 0..Width] == IF bits = 0 THEN 1 ELSE 2 * Size[bits - 1]

Addresses == 0..(Size[Width] - 1)

(* NON_PUBLIC_IPV4 is a list of an address and a prefix length each. *)
Start(range) == range.address
End(range) == range.address + Size[Width - range.prefix] - 1
Members(range) == Start(range)..End(range)

(* Mutant: what is left above the range starts on the range's last address. *)
SubtractOffByOne(span, range) ==
    IF End(range) < span[1] \/ Start(range) > span[2] THEN {span}
    ELSE (IF Start(range) > span[1] THEN {<<span[1], Start(range) - 1>>} ELSE {})
         \cup (IF End(range) < span[2] THEN {<<End(range), span[2]>>} ELSE {})

(* What is left of an inclusive span of addresses. *)
Subtract(span, range) ==
    IF End(range) < span[1] \/ Start(range) > span[2] THEN {span}
    ELSE (IF Start(range) > span[1] THEN {<<span[1], Start(range) - 1>>} ELSE {})
         \cup (IF End(range) < span[2] THEN {<<End(range) + 1, span[2]>>} ELSE {})

(* The spans that remain when one range after the other is taken out.  The *)
(* code has them in a list, the order of which means nothing to LXD.       *)
PublicSpans(ranges) ==
    LET left[n \in 0..Len(ranges)] ==
            IF n = 0 THEN {<<0, Size[Width] - 1>>}
            ELSE UNION {Subtract(span, ranges[n]) : span \in left[n - 1]}
    IN left[Len(ranges)]

(* The largest block that starts at start, is aligned and ends by last:    *)
(* the code halves the alignment of start until it fits.                   *)
BlockBits(start, last) ==
    Max({k \in 0..Width : start % Size[k] = 0 /\ Size[k] <= last - start + 1})

(* One span as blocks, from its start up. *)
Blocks(span) ==
    LET from[start \in span[1]..(span[2] + 1)] ==
            IF start > span[2] THEN {}
            ELSE {[address |-> start, prefix |-> Width - BlockBits(start, span[2])]}
                 \cup from[start + Size[BlockBits(start, span[2])]]
    IN from[span[1]]

(* public_ipv4_cidrs *)
PublicCidrs(ranges) == UNION {Blocks(span) : span \in PublicSpans(ranges)}

AnyPort == 0    \* a rule without a port

(* rules: one for each port of the gateway, and the public internet. *)
Rules(gateway, ranges) ==
    {[to |-> {a.ip : a \in {b \in gateway : b.port = p}}, port |-> p] : p \in {a.port : a \in gateway}}
    \cup {[to |-> UNION {Members(c) : c \in PublicCidrs(ranges)}, port |-> AnyPort]}

(* What a NIC behind the rules may reach: everything else is rejected. *)
Reachable(rules) == [a \in Addresses |-> {r.port : r \in {s \in rules : a \in s.to}}]

(* The same, from the promise: the gateway on its port, and any address    *)
(* that no range has.                                                      *)
Promised(gateway, ranges) ==
    [a \in Addresses |-> {b.port : b \in {c \in gateway : c.ip = a}}
        \cup (IF \E r \in ToSet(ranges) : a \in Members(r) THEN {} ELSE {AnyPort})]

=============================================================================
