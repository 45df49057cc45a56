---------------------------- MODULE MCHypervisor ----------------------------
(***************************************************************************)
(* Instances of Hypervisor: one-bit addresses, the EIDs 0/1 and 1/1, and   *)
(* planes that run the start-up of plugin_openlisp: opl_update, a DELETE   *)
(* and then an ADD, for each EID of their configuration.                   *)
(***************************************************************************)
EXTENDS Hypervisor

CONSTANTS s1, s2, s3

Prefix(bit, length) == [prefix |-> [k \in 1..1 |-> bit], prefix_length |-> length]
eid0 == Prefix(1, 0)
eid1 == Prefix(1, 1)

MCEids == {eid0, eid1}
MCLookups == {eid1, get_broadcast_eid}

Local(type, eid) == [type |-> type, db |-> TRUE, eid |-> eid]
Cache(eid) == [type |-> "OTHER", db |-> FALSE, eid |-> eid]
opl_update(eid) == <<Local("DELETE", eid), Local("ADD", eid)>>

TwoPorts == [s \in Sockets |-> IF s = s1 THEN 4342 ELSE 4343]

\* Disjoint configurations, each announced once.
StartUp == [s \in Sockets |-> IF s = s1 THEN opl_update(eid0)
                              ELSE <<Cache(eid1), Local("ADD", eid1)>>]

\* One ADD each, for the same EID: the later announcement overwrites.
OneAdd == [s \in Sockets |-> <<Local("ADD", eid1)>>]

MCOneLookup == {eid1}
=============================================================================
