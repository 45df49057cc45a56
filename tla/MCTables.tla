------------------------------ MODULE MCTables ------------------------------
(***************************************************************************)
(* The tables on a small instance: three-bit addresses, four EIDs of which *)
(* one covers two others and one is ::/0.                                  *)
(***************************************************************************)
EXTENDS Tables, TLC

CONSTANT MaxRegistrations   \* bound on control_planes_autoindex

Bits(a, b, c) == [k \in 1..3 |-> <<a, b, c>>[k]]
Prefix(address, length) == [prefix |-> address, prefix_length |-> length]

eidAll == get_broadcast_eid
eidWide == Prefix(Bits(1, 0, 0), 1)
eidNarrow == Prefix(Bits(1, 1, 0), 2)
eidHost == Prefix(Bits(1, 1, 1), 3)

MCEids == {eidAll, eidWide, eidNarrow, eidHost}
MCEidsPlain == {eidWide, eidNarrow}

\* Sockets and chunks are only compared for equality.
Symmetry == Permutations(Sockets) \cup Permutations(Chunk)

MCNext == TablesNext /\ control_planes_autoindex' <= MaxRegistrations

MCSpec == TablesInit /\ [][MCNext]_tablesVars
=============================================================================
