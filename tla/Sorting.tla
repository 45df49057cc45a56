------------------------------ MODULE Sorting ------------------------------
(***************************************************************************)
(* The question the hypervisor asks for every message it relays: to which  *)
(* control plane does this EID belong?  (hylisp-hv/src/controlplanes/      *)
(* sorting.c)                                                              *)
(*                                                                         *)
(* An EID is an ipv6_prefix: Width address bits (128 in the code) and a    *)
(* prefix_length.  prefix_length is a uint8_t, so an EID parsed from a     *)
(* control packet may claim a length above Width; an assigned one cannot   *)
(* (parsemessage.c computes it from a netmask).                            *)
(*                                                                         *)
(* flex_sort is given here in closed form, which is what the proofs need;  *)
(* SortingLoop has the loop of the C function, byte by byte, and checks    *)
(* that both agree.                                                        *)
(***************************************************************************)
EXTENDS Integers

CONSTANTS Width,      \* bits of an address: 128 in the code
          MaxLength   \* largest prefix_length a message may claim: 255

ASSUME WidthAssumption == /\ Width \in Nat \ {0}
                          /\ MaxLength \in Nat
                          /\ MaxLength >= Width

Address == [1..Width -> {0, 1}]
Eid == [prefix : Address, prefix_length : 0..MaxLength]

\* The EIDs an assignment can hold.
AssignedEid == [prefix : Address, prefix_length : 0..Width]

ZeroAddress == [b \in 1..Width |-> 0]

\* What the parsers return for a message they cannot attribute ...
get_undefined_eid == [prefix |-> ZeroAddress, prefix_length |-> Width]

\* ... and for one that concerns every control plane.
get_broadcast_eid == [prefix |-> ZeroAddress, prefix_length |-> 0]

SortingCode == {"ERR", "ONE", "ALL", "NON"}

\* *control_plane_index is left unwritten by the ERR and ALL returns.
Unwritten == -1

----------------------------------------------------------------------------
\* The first n bits of two addresses agree.
Agree(a, b, n) == \A k \in 1..n : a[k] = b[k]

SamePrefix(e, f) == /\ e.prefix_length = f.prefix_length
                    /\ Agree(e.prefix, f.prefix, e.prefix_length)

\* The entry's prefix covers eid; an exact search also wants equal lengths.
Matches(eid, stored, exact) ==
    /\ exact => eid.prefix_length = stored.prefix_length
    /\ eid.prefix_length >= stored.prefix_length
    /\ Agree(eid.prefix, stored.prefix, stored.prefix_length)

Candidates(table, eid, exact) ==
    {i \in DOMAIN table : Matches(eid, table[i].eid, exact)}

\* The scan keeps the longest match, and the later of two as long (>=).
LaterOrLonger(table, i, j) ==
    \/ table[j].eid.prefix_length < table[i].eid.prefix_length
    \/ table[j].eid.prefix_length = table[i].eid.prefix_length /\ j <= i

Chosen(table, eid, exact) ==
    CHOOSE i \in Candidates(table, eid, exact) :
        \A j \in Candidates(table, eid, exact) : LaterOrLonger(table, i, j)

Verdict(code, index) == [code |-> code, index |-> index]

(***************************************************************************)
(* table is the array of assignments below assignments_ctr, planes is      *)
(* control_planes_ctr and default is control_planes_def.                   *)
(***************************************************************************)
flex_sort(table, planes, default, eid, exact) ==
    IF planes = 0 \/ eid = get_undefined_eid THEN Verdict("ERR", Unwritten)
    ELSE IF eid = get_broadcast_eid THEN Verdict("ALL", Unwritten)
    ELSE IF Candidates(table, eid, exact) # {}
    THEN Verdict("ONE", table[Chosen(table, eid, exact)].assignee_index)
    ELSE Verdict("NON", default)
=============================================================================
