------------------------------- MODULE Tables -------------------------------
(***************************************************************************)
(* The two tables every thread of the hypervisor shares:                   *)
(*   control_planes (hylisp-hv/src/controlplanes/connected.c), the array   *)
(*     of registered control planes, and                                   *)
(*   assignments (controlplanes/assignments.c), the array of pointers to   *)
(*     the malloc'ed pairs <EID, index of its control plane>.              *)
(*                                                                         *)
(* Arrays are functions from the slots that have been written at least     *)
(* once, counted from 0 as in C.  A slot at or above the array's counter   *)
(* keeps the value it last had; a slot outside the domain is memory nobody *)
(* initialised.  heap maps the chunks now allocated to their contents, so  *)
(* a pointer outside its domain dangles, and malloc may hand out a chunk   *)
(* that was freed before.                                                  *)
(*                                                                         *)
(* add_assignment and remove_assignment use the value exact_sort returns,  *)
(* which is the index of a control plane, as an index into assignments:    *)
(* the slot they then touch may be another entry's, a stale one or none.   *)
(* What happens then is left open as far as the C code leaves it open.     *)
(***************************************************************************)
EXTENDS Sorting, FiniteSets

CONSTANTS Sockets,        \* northbound sockets, one per registration
          Ports,          \* UDP ports control planes register with
          Chunk,          \* what malloc can return: bounds the table
          AnnouncedEids,  \* EIDs control planes announce
          InitPlanes,     \* DYN_ARRAY_INIT of connected.c: 16
          InitAssignments \* DYN_ARRAY_INIT of assignments.c: 128

ASSUME TablesAssumption == /\ AnnouncedEids \subseteq AssignedEid
                           /\ InitPlanes \in Nat \ {0}
                           /\ InitAssignments \in Nat \ {0}

VARIABLES control_planes, control_planes_ctr, control_planes_max,
          control_planes_autoindex,
          assignments, assignments_ctr, assignments_max,
          heap,
          sweep,   \* the remove_assignee call in progress, if any
          hv       \* the process: "up", "fatal" (exit) or "crashed" (signal)

planesVars == <<control_planes, control_planes_ctr, control_planes_max,
                control_planes_autoindex>>
assignmentsVars == <<assignments, assignments_ctr, assignments_max, heap>>
tablesVars == <<planesVars, assignmentsVars, sweep, hv>>

ControlPlane == [id : Nat, socket_descriptor : Sockets, port : Ports]
Assignment == [eid : AnnouncedEids, assignee_index : Nat]
NoSweep == [on |-> FALSE, i |-> 0, assignee_index |-> 0]
Sweep == [on : BOOLEAN, i : Nat, assignee_index : Nat]

\* Arrays.
Live == 0..(assignments_ctr - 1)
LivePlanes == 0..(control_planes_ctr - 1)
Store(array, ind, value) ==
    [i \in DOMAIN array \cup {ind} |-> IF i = ind THEN value ELSE array[i]]

\* Mutant: the slots are moved from one too far up.
memmove_down_OffByOne(array, ctr, ind) ==
    [i \in DOMAIN array |->
        IF ind < i /\ i < ctr - 1 THEN array[i + 1] ELSE array[i]]

\* memmove of the slots above ind, one down: the last one keeps its value.
memmove_down(array, ctr, ind) ==
    [i \in DOMAIN array |->
        IF ind <= i /\ i < ctr - 1 THEN array[i + 1] ELSE array[i]]

free(p) == [q \in DOMAIN heap \ {p} |-> heap[q]]

\* Mutant: the array grows one element too late.
Expanded_Late(ctr, max) == IF ctr > max THEN 2 * max ELSE max

\* DYN_ARRAY_INCR is 2 for both tables.
Expanded(ctr, max) == IF ctr = max THEN 2 * max ELSE max

TablesInit ==
    /\ control_planes = [i \in {} |-> i]
    /\ control_planes_ctr = 0
    /\ control_planes_max = InitPlanes
    /\ control_planes_autoindex = 0
    /\ assignments = [i \in {} |-> i]
    /\ assignments_ctr = 0
    /\ assignments_max = InitAssignments
    /\ heap = [p \in {} |-> p]
    /\ sweep = NoSweep
    /\ hv = "up"

----------------------------------------------------------------------------
(***************************************************************************)
(* connected.c.                                                            *)
(***************************************************************************)
\* Mutant: the counter is incremented before the slot is written.
add_control_plane_Skips(socket, port) ==
    /\ control_planes' = Store(control_planes, control_planes_ctr + 1,
                               [id |-> control_planes_autoindex,
                                socket_descriptor |-> socket, port |-> port])
    /\ control_planes_ctr' = control_planes_ctr + 1
    /\ control_planes_max' = Expanded(control_planes_ctr, control_planes_max)
    /\ control_planes_autoindex' = control_planes_autoindex + 1
    /\ UNCHANGED <<assignmentsVars, sweep, hv>>

\* The id comes from register_control_plane, which holds the same lock.
add_control_plane(socket, port) ==
    /\ control_planes' = Store(control_planes, control_planes_ctr,
                               [id |-> control_planes_autoindex,
                                socket_descriptor |-> socket, port |-> port])
    /\ control_planes_ctr' = control_planes_ctr + 1
    /\ control_planes_max' = Expanded(control_planes_ctr, control_planes_max)
    /\ control_planes_autoindex' = control_planes_autoindex + 1
    /\ UNCHANGED <<assignmentsVars, sweep, hv>>

remove_control_plane(ind) ==
    /\ control_planes' = memmove_down(control_planes, control_planes_ctr, ind)
    /\ control_planes_ctr' = control_planes_ctr - 1
    /\ UNCHANGED <<control_planes_max, control_planes_autoindex,
                   assignmentsVars, sweep, hv>>

----------------------------------------------------------------------------
(***************************************************************************)
(* assignments.c.                                                          *)
(***************************************************************************)
\* control_planes_def is 0 and nothing changes it.
exact_sort(eid) == flex_sort([i \in Live |-> heap[assignments[i]]],
                             control_planes_ctr, 0, eid, TRUE)
sort(eid) == flex_sort([i \in Live |-> heap[assignments[i]]],
                       control_planes_ctr, 0, eid, FALSE)

\* assignments[ind] is a pointer to allocated memory.
Dereferenceable(ind) == /\ ind \in DOMAIN assignments
                        /\ assignments[ind] \in DOMAIN heap

Crash == /\ hv' = "crashed"
         /\ UNCHANGED <<planesVars, assignmentsVars, sweep>>

Untouched == UNCHANGED tablesVars

WriteAssignee(p, index) ==
    /\ heap' = [heap EXCEPT ![p].assignee_index = index]
    /\ UNCHANGED <<planesVars, assignments, assignments_ctr, assignments_max,
                   sweep, hv>>

\* A write through a wild pointer: a signal, memory that is not modelled, or
\* some assignment.
WildWrite(index) == \/ Crash
                    \/ Untouched
                    \/ \E p \in DOMAIN heap : WriteAssignee(p, index)

\* "Overwriting in place".
Overwrite(item, present_index) ==
    \/ /\ Dereferenceable(present_index)
       /\ WriteAssignee(assignments[present_index], item.assignee_index)
    \/ /\ ~Dereferenceable(present_index)
       /\ WildWrite(item.assignee_index)

AppendEntry(item) ==
    \E p \in Chunk \ DOMAIN heap :
        /\ assignments' = Store(assignments, assignments_ctr, p)
        /\ assignments_ctr' = assignments_ctr + 1
        /\ assignments_max' = Expanded(assignments_ctr, assignments_max)
        /\ heap' = Store(heap, p, item)
        /\ UNCHANGED <<planesVars, sweep, hv>>

\* Mutant: an entry that is present is not looked at.
add_assignment_Appends(item) ==
    LET found == exact_sort(item.eid) IN
    \/ found.code = "ERR" /\ Untouched
    \/ found.code # "ERR" /\ AppendEntry(item)

\* The ALL verdict (the EID ::/0) is not a case of the switch: it appends.
add_assignment(item) ==
    LET found == exact_sort(item.eid) IN
    \/ found.code = "ONE" /\ Overwrite(item, found.index)
    \/ found.code = "ERR" /\ Untouched
    \/ found.code \in {"NON", "ALL"} /\ AppendEntry(item)

\* Mutant: caller and callee both decrement the counter.
Discard_Twice(ind) ==
    /\ heap' = free(assignments[ind])
    /\ assignments' = memmove_down(assignments, assignments_ctr, ind)
    /\ assignments_ctr' = assignments_ctr - 2
    /\ UNCHANGED <<planesVars, assignments_max, hv>>

\* free, then close the gap.
Discard(ind) ==
    /\ heap' = free(assignments[ind])
    /\ assignments' = memmove_down(assignments, assignments_ctr, ind)
    /\ assignments_ctr' = assignments_ctr - 1
    /\ UNCHANGED <<planesVars, assignments_max, hv>>

\* A slot at or above assignments_ctr makes the length of the memmove
\* negative, that is huge: whoever gets past the comparison dies there.
remove_assignment(item) ==
    LET found == exact_sort(item.eid)
        owned == heap[assignments[found.index]].assignee_index
                   = item.assignee_index
    IN  \/ found.code # "ONE" /\ Untouched
        \/ /\ found.code = "ONE"
           /\ Dereferenceable(found.index)
           /\ \/ ~owned /\ Untouched
              \/ owned /\ found.index < assignments_ctr
                       /\ Discard(found.index) /\ UNCHANGED sweep
              \/ owned /\ found.index >= assignments_ctr /\ Crash
        \/ /\ found.code = "ONE"
           /\ ~Dereferenceable(found.index)
           /\ Untouched \/ Crash

(***************************************************************************)
(* remove_assignee: one iteration of its loop is one action; the caller    *)
(* holds the write lock throughout.                                        *)
(***************************************************************************)
remove_assignee(index) ==
    /\ sweep' = [on |-> TRUE, i |-> 0, assignee_index |-> index]
    /\ UNCHANGED <<planesVars, assignmentsVars, hv>>

SweepMatches == heap[assignments[sweep.i]].assignee_index = sweep.assignee_index

SweepDiscard == /\ sweep.on /\ sweep.i < assignments_ctr
                /\ SweepMatches
                /\ Discard(sweep.i)
                /\ UNCHANGED sweep

SweepKeep == /\ sweep.on /\ sweep.i < assignments_ctr
             /\ ~SweepMatches
             /\ sweep' = [sweep EXCEPT !.i = @ + 1]
             /\ UNCHANGED <<planesVars, assignmentsVars, hv>>

SweepEnd == /\ sweep.on /\ sweep.i >= assignments_ctr
            /\ sweep' = NoSweep
            /\ UNCHANGED <<planesVars, assignmentsVars, hv>>

----------------------------------------------------------------------------
(***************************************************************************)
(* The tables under any caller that keeps the locks: a control plane is    *)
(* added under a socket that is not registered, an index passed to         *)
(* remove_control_plane is one a search has found, an assignment names a   *)
(* registered control plane, and nothing runs beside remove_assignee.      *)
(***************************************************************************)
Register(socket, port) ==
    /\ \A i \in LivePlanes : control_planes[i].socket_descriptor # socket
    /\ add_control_plane(socket, port)

Items == [eid : AnnouncedEids, assignee_index : LivePlanes]

\* fatal() in any thread, or a signal.
ProcessEnds == /\ hv' \in {"fatal", "crashed"}
               /\ UNCHANGED <<planesVars, assignmentsVars, sweep>>

TablesNext ==
    /\ hv = "up"
    /\ \/ ProcessEnds
       \/ /\ ~sweep.on
          /\ \/ \E socket \in Sockets, port \in Ports : Register(socket, port)
             \/ \E ind \in LivePlanes : remove_control_plane(ind)
             \/ \E item \in Items : add_assignment(item)
             \/ \E item \in Items : remove_assignment(item)
             \/ \E id \in 0..(control_planes_autoindex - 1) : remove_assignee(id)
       \/ SweepDiscard
       \/ SweepKeep
       \/ SweepEnd

TablesSpec == TablesInit /\ [][TablesNext]_tablesVars

----------------------------------------------------------------------------
\* Types.  The written slots of an array lie below its capacity.
TablesTypeOK ==
    /\ DOMAIN control_planes \subseteq Nat
    /\ control_planes \in [DOMAIN control_planes -> ControlPlane]
    /\ control_planes_ctr \in Nat
    /\ control_planes_max \in Nat \ {0}
    /\ control_planes_autoindex \in Nat
    /\ DOMAIN assignments \subseteq Nat
    /\ assignments \in [DOMAIN assignments -> Chunk]
    /\ assignments_ctr \in Nat
    /\ assignments_max \in Nat \ {0}
    /\ DOMAIN heap \subseteq Chunk
    /\ heap \in [DOMAIN heap -> Assignment]
    /\ sweep \in Sweep
    /\ hv \in {"up", "fatal", "crashed"}

\* Memory safety of the assignments array (assignments.c:88-92, 117-121,
\* 134-136): every entry below assignments_ctr points to memory of its own
\* that is still allocated, and no allocated assignment is out of reach.  It
\* holds although removals act on the wrong slot: no entry is freed twice,
\* none leaks, and flex_sort never follows a dangling pointer unless an
\* update runs beside it.
EntriesAllocated ==
    /\ Live \subseteq DOMAIN assignments
    /\ \A i \in Live : assignments[i] \in DOMAIN heap
    /\ \A i, j \in Live : assignments[i] = assignments[j] => i = j
    /\ \A p \in DOMAIN heap : \E i \in Live : assignments[i] = p

\* Across the two tables: the index every assignment stores is one of a slot
\* of control_planes that has been written (mapmessages/demux.c:118 and
\* controlpackets/demux.c:194 read it without a check), through any sequence
\* of registrations, removals, shifts and writes through wild pointers.  The
\* slot may be stale; it is never uninitialised memory.
AssigneesInitialised ==
    /\ LivePlanes \subseteq DOMAIN control_planes
    /\ \A p \in DOMAIN heap : heap[p].assignee_index \in DOMAIN control_planes

\* The assertion fatal("Illegal state") of connected.c:66 and assignments.c:80
\* never fires, and no slot is written beyond the capacity of its array.
WithinCapacity ==
    /\ control_planes_ctr <= control_planes_max
    /\ assignments_ctr <= assignments_max
    /\ DOMAIN control_planes \subseteq 0..(control_planes_max - 1)
    /\ DOMAIN assignments \subseteq 0..(assignments_max - 1)

\* "Checking if already present" (assignments.c:67): no two entries stand for
\* the same prefix, except the EID ::/0, which exact_sort answers with ALL.
OneEntryPerEid ==
    \A i, j \in Live :
        LET e == heap[assignments[i]].eid
            f == heap[assignments[j]].eid
        IN  i # j /\ SamePrefix(e, f) => get_broadcast_eid \in {e, f}
=============================================================================
