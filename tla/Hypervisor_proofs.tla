------------------------- MODULE Hypervisor_proofs -------------------------
(***************************************************************************)
(* Proofs about the hypervisor, in three parts.                            *)
(*                                                                         *)
(* What flex_sort answers for every width and table.  The point is that    *)
(* the scan has an answer: among finitely many matches there is a longest, *)
(* and among the longest a last.                                           *)
(*                                                                         *)
(* The invariants of the shared tables, for every number of sockets, ports *)
(* and chunks, every set of EIDs and every initial capacity.  TablesInv is *)
(* inductive.  Its conjuncts need each other: a removal keeps entries      *)
(* distinct only because they were, the memmove stays inside what was      *)
(* written only because LivePlanes and Live were, and an appended slot     *)
(* lies below the capacity only because the counters did.                  *)
(*                                                                         *)
(* The threads of the hypervisor, for every number of control planes,      *)
(* every script and every size of the sockets:                             *)
(*   - the locks the threads really take, and the order in which planes    *)
(*     register, keep every use of the tables within TablesSpec, so that   *)
(*     what the second part shows of the tables holds of the process;      *)
(*   - the muxer's set of sockets is never outdated for good;              *)
(*   - the process ends only for the reasons the code lists.               *)
(***************************************************************************)
EXTENDS Hypervisor, WellFoundedInduction, TLAPS

\* Every non-empty set of naturals has a least element.
LEMMA LeastNatural ==
    ASSUME NEW T, T \subseteq Nat, T # {}
    PROVE  \E m \in T : \A k \in T : m <= k
<1>1. PICK m \in T : \A k \in T : <<k, m>> \notin OpToRel(<, Nat)
  BY NatLessThanWellFounded, WFMin
<1>2. ASSUME NEW k \in T PROVE m <= k
  <2>1. <<k, m>> \notin {ss \in Nat \X Nat : ss[1] < ss[2]}
    BY <1>1 DEF OpToRel
  <2> QED  BY <2>1
<1> QED  BY <1>2

\* A bounded one has a greatest.
LEMMA GreatestBounded ==
    ASSUME NEW N \in Nat, NEW T, T \subseteq 0..N, T # {}
    PROVE  \E m \in T : \A k \in T : k <= m
<1> DEFINE mirror == {N - k : k \in T}
<1>1. mirror \subseteq Nat /\ mirror # {}
  OBVIOUS
<1>2. PICK d \in mirror : \A e \in mirror : d <= e
  BY <1>1, LeastNatural
<1>3. PICK m \in T : d = N - m
  BY <1>2
<1>4. ASSUME NEW k \in T PROVE k <= m
  <2>1. N - k \in mirror /\ N - m <= N - k
    BY <1>2, <1>3
  <2> QED  BY <2>1
<1> QED  BY <1>4

----------------------------------------------------------------------------
\* A table of n assignments, as flex_sort is given it.
IsTable(table, n) ==
    /\ DOMAIN table = 0..(n - 1)
    /\ \A i \in DOMAIN table : table[i].eid.prefix_length \in 0..Width

\* Among the matches there is one that LaterOrLonger puts after all others.
LEMMA ChosenIsCandidate ==
    ASSUME NEW n \in Nat, NEW table, IsTable(table, n), NEW eid,
           NEW exact \in BOOLEAN, Candidates(table, eid, exact) # {}
    PROVE  /\ Chosen(table, eid, exact) \in Candidates(table, eid, exact)
           /\ \A j \in Candidates(table, eid, exact) :
                LaterOrLonger(table, Chosen(table, eid, exact), j)
<1> DEFINE all == Candidates(table, eid, exact)
           length(i) == table[i].eid.prefix_length
           lengths == {length(i) : i \in all}
<1>1. all \subseteq 0..(n - 1) /\ all # {}
  BY DEF Candidates, IsTable
<1>2. \A i \in all : length(i) \in 0..Width
  BY <1>1 DEF IsTable
<1> HIDE DEF all, length
<1>3. lengths \subseteq 0..Width /\ lengths # {}
  BY <1>1, <1>2
<1>4. PICK longest \in lengths : \A m \in lengths : m <= longest
  BY <1>3, GreatestBounded, WidthAssumption
<1> DEFINE best == {i \in all : length(i) = longest}
<1>5. best \subseteq 0..n /\ best # {}
  BY <1>1, <1>4
<1>6. PICK i \in best : \A j \in best : j <= i
  BY <1>5, GreatestBounded
<1>7. \A j \in all : LaterOrLonger(table, i, j)
  <2> SUFFICES ASSUME NEW j \in all PROVE LaterOrLonger(table, i, j)
    OBVIOUS
  <2>1. /\ length(j) <= length(i)
        /\ length(j) = length(i) => j <= i
        /\ length(j) \in Int /\ length(i) \in Int
    BY <1>2, <1>4, <1>6, WidthAssumption
  <2> QED  BY <2>1 DEF LaterOrLonger, length
<1>8. i \in all
  BY <1>6
<1> QED  BY <1>7, <1>8 DEF Chosen, all

\* Longest prefix match, for every width and every table: when the scan
\* (sorting.c:73-113) settles on one control plane, that one is the assignee
\* of an entry that covers the EID, and no entry that covers it is longer.
THEOREM SortIsLongestPrefixMatch ==
    ASSUME NEW n \in Nat, NEW table, IsTable(table, n), NEW eid,
           NEW exact \in BOOLEAN, NEW planes, NEW default,
           flex_sort(table, planes, default, eid, exact).code = "ONE"
    PROVE  \E i \in DOMAIN table :
             /\ Matches(eid, table[i].eid, exact)
             /\ flex_sort(table, planes, default, eid, exact).index
                  = table[i].assignee_index
             /\ \A j \in DOMAIN table :
                  Matches(eid, table[j].eid, exact) =>
                    table[j].eid.prefix_length <= table[i].eid.prefix_length
<1> DEFINE all == Candidates(table, eid, exact)
           i == Chosen(table, eid, exact)
           found == flex_sort(table, planes, default, eid, exact)
<1>1. all # {} /\ found = Verdict("ONE", table[i].assignee_index)
  <2>1. \/ found = Verdict("ERR", Unwritten)
        \/ found = Verdict("ALL", Unwritten)
        \/ all # {} /\ found = Verdict("ONE", table[i].assignee_index)
        \/ found = Verdict("NON", default)
    BY DEF flex_sort
  <2> QED  BY <2>1 DEF Verdict
<1>2. i \in all /\ \A j \in all : LaterOrLonger(table, i, j)
  BY <1>1, ChosenIsCandidate
<1>3. i \in DOMAIN table /\ Matches(eid, table[i].eid, exact)
  BY <1>2 DEF Candidates
<1>4. found.index = table[i].assignee_index
  BY <1>1 DEF Verdict
<1>5. ASSUME NEW j \in DOMAIN table, Matches(eid, table[j].eid, exact)
      PROVE  table[j].eid.prefix_length <= table[i].eid.prefix_length
  <2>1. LaterOrLonger(table, i, j)
    BY <1>2, <1>5 DEF Candidates
  <2>2. /\ table[j].eid.prefix_length \in 0..Width
        /\ table[i].eid.prefix_length \in 0..Width
    BY <1>3 DEF IsTable
  <2> QED  BY <2>1, <2>2, WidthAssumption DEF LaterOrLonger
<1> QED  BY <1>3, <1>4, <1>5

----------------------------------------------------------------------------
(***************************************************************************)
(* The shared tables.                                                      *)
(***************************************************************************)
TablesInv == /\ TablesTypeOK
             /\ EntriesAllocated
             /\ AssigneesInitialised
             /\ WithinCapacity

----------------------------------------------------------------------------
\* The empty tables satisfy the invariant (init_control_planes and
\* init_assignments, connected.c:48-55, assignments.c:48-56).
LEMMA InitEstablishes == TablesInit => TablesInv
BY TablesAssumption
DEF TablesInit, TablesInv, TablesTypeOK, EntriesAllocated,
    AssigneesInitialised, WithinCapacity, ControlPlane, Assignment, Sweep,
    NoSweep, Live, LivePlanes

\* add_control_plane (connected.c:64-80) writes the first slot that is free,
\* below the capacity, and disturbs no index that is stored.
LEMMA AddPlanePreserves ==
    ASSUME TablesInv, NEW socket \in Sockets, NEW port \in Ports,
           add_control_plane(socket, port)
    PROVE  TablesInv'
<1>1. TablesTypeOK'
  BY DEF TablesInv, add_control_plane, TablesTypeOK, Store, Expanded,
         assignmentsVars, ControlPlane
<1>2. EntriesAllocated'
  BY DEF TablesInv, add_control_plane, EntriesAllocated, assignmentsVars, Live
<1>3. AssigneesInitialised'
  BY DEF TablesInv, TablesTypeOK, add_control_plane, AssigneesInitialised,
         assignmentsVars, LivePlanes, Store
<1>4. WithinCapacity'
  BY DEF TablesInv, TablesTypeOK, add_control_plane, WithinCapacity,
         assignmentsVars, Store, Expanded
<1> QED  BY <1>1, <1>2, <1>3, <1>4 DEF TablesInv

\* remove_control_plane (connected.c:82-91) shifts slots that were written.
LEMMA RemovePlanePreserves ==
    ASSUME TablesInv, NEW ind \in LivePlanes, remove_control_plane(ind)
    PROVE  TablesInv'
<1>1. TablesTypeOK'
  BY DEF TablesInv, remove_control_plane, TablesTypeOK, memmove_down,
         assignmentsVars, LivePlanes, AssigneesInitialised
<1>2. EntriesAllocated'
  BY DEF TablesInv, remove_control_plane, EntriesAllocated, assignmentsVars,
         Live
<1>3. AssigneesInitialised'
  BY DEF TablesInv, TablesTypeOK, remove_control_plane, AssigneesInitialised,
         assignmentsVars, LivePlanes, memmove_down
<1>4. WithinCapacity'
  BY DEF TablesInv, TablesTypeOK, remove_control_plane, WithinCapacity,
         assignmentsVars, memmove_down
<1> QED  BY <1>1, <1>2, <1>3, <1>4 DEF TablesInv

----------------------------------------------------------------------------
\* A write of the assignee of an allocated entry (assignments.c:73), be it the
\* entry meant or another one.
LEMMA WritePreserves ==
    ASSUME TablesInv, NEW p \in DOMAIN heap,
           NEW index \in DOMAIN control_planes, WriteAssignee(p, index)
    PROVE  TablesInv'
<1>1. TablesTypeOK'
  BY DEF TablesInv, WriteAssignee, TablesTypeOK, planesVars, Assignment
<1>2. EntriesAllocated'
  BY DEF TablesInv, WriteAssignee, EntriesAllocated, TablesTypeOK, Live
<1>3. AssigneesInitialised'
  BY DEF TablesInv, TablesTypeOK, WriteAssignee, AssigneesInitialised,
         planesVars, LivePlanes, Assignment
<1>4. WithinCapacity'
  BY DEF TablesInv, WriteAssignee, WithinCapacity, planesVars
<1> QED  BY <1>1, <1>2, <1>3, <1>4 DEF TablesInv

\* Steps that leave both tables alone.
LEMMA TablesUnchanged ==
    ASSUME TablesInv, UNCHANGED <<planesVars, assignmentsVars>>,
           sweep' \in Sweep, hv' \in {"up", "fatal", "crashed"}
    PROVE  TablesInv'
BY DEF TablesInv, TablesTypeOK, EntriesAllocated, AssigneesInitialised,
       WithinCapacity, planesVars, assignmentsVars, Live, LivePlanes

\* The end of add_assignment (assignments.c:80-98): the new entry is the only
\* one that points to the new chunk.
LEMMA AppendPreserves ==
    ASSUME TablesInv, NEW item \in Items, AppendEntry(item)
    PROVE  TablesInv'
<1> PICK p \in Chunk \ DOMAIN heap :
        /\ assignments' = Store(assignments, assignments_ctr, p)
        /\ assignments_ctr' = assignments_ctr + 1
        /\ assignments_max' = Expanded(assignments_ctr, assignments_max)
        /\ heap' = Store(heap, p, item)
        /\ UNCHANGED <<planesVars, sweep, hv>>
  BY DEF AppendEntry
<1>1. TablesTypeOK'
  BY DEF TablesInv, TablesTypeOK, Store, Expanded, planesVars, Items,
         Assignment, LivePlanes
<1>2. EntriesAllocated'
  <2>1. Live' = Live \cup {assignments_ctr}
    BY DEF Live, TablesInv, TablesTypeOK
  <2>2. assignments_ctr \notin Live
    BY DEF Live, TablesInv, TablesTypeOK
  <2>3. \A i \in Live : assignments'[i] = assignments[i]
    BY <2>2 DEF TablesInv, EntriesAllocated, Store
  <2>4. assignments'[assignments_ctr] = p
    BY DEF Store
  <2>5. DOMAIN heap' = DOMAIN heap \cup {p}
    BY DEF Store
  <2>6. DOMAIN assignments' = DOMAIN assignments \cup {assignments_ctr}
    BY DEF Store
  <2> QED
    BY <2>1, <2>2, <2>3, <2>4, <2>5, <2>6 DEF TablesInv, EntriesAllocated
<1>3. AssigneesInitialised'
  BY DEF TablesInv, TablesTypeOK, AssigneesInitialised, planesVars,
         LivePlanes, Store, Items
<1>4. WithinCapacity'
  BY DEF TablesInv, TablesTypeOK, WithinCapacity, planesVars, Store, Expanded
<1> QED  BY <1>1, <1>2, <1>3, <1>4 DEF TablesInv

\* Where the entry that slot i holds after a memmove_down came from.
Moved(ctr, ind, i) == IF ind <= i /\ i < ctr - 1 THEN i + 1 ELSE i

\* The memmove maps the slots that are left one to one onto all but ind.
LEMMA MovedIsBijection ==
    ASSUME NEW ctr \in Nat, NEW ind \in 0..(ctr - 1)
    PROVE  /\ \A i \in 0..(ctr - 2) : /\ i \in 0..(ctr - 1)
                                      /\ Moved(ctr, ind, i) \in 0..(ctr - 1)
                                      /\ Moved(ctr, ind, i) # ind
           /\ \A i, j \in 0..(ctr - 2) :
                Moved(ctr, ind, i) = Moved(ctr, ind, j) => i = j
           /\ \A k \in 0..(ctr - 1) :
                k # ind => \E i \in 0..(ctr - 2) : Moved(ctr, ind, i) = k
<1>1. \A i \in 0..(ctr - 2) : /\ i \in 0..(ctr - 1)
                              /\ Moved(ctr, ind, i) \in 0..(ctr - 1)
                              /\ Moved(ctr, ind, i) # ind
  BY DEF Moved
<1>2. \A i, j \in 0..(ctr - 2) :
        Moved(ctr, ind, i) = Moved(ctr, ind, j) => i = j
  BY DEF Moved
<1>3. ASSUME NEW k \in 0..(ctr - 1), k # ind
      PROVE  \E i \in 0..(ctr - 2) : Moved(ctr, ind, i) = k
  <2>1. CASE k < ind
    BY <2>1 DEF Moved
  <2>2. CASE k > ind
    <3>1. k - 1 \in 0..(ctr - 2) /\ Moved(ctr, ind, k - 1) = k
      BY <2>2 DEF Moved
    <3> QED  BY <3>1
  <2> QED  BY <1>3, <2>1, <2>2
<1> QED  BY <1>1, <1>2, <1>3

\* free and memmove (assignments.c:117-121, 134-136): the chunk that is freed
\* is in no other entry, and every other entry keeps its chunk.
LEMMA DiscardPreserves ==
    ASSUME TablesInv, NEW ind \in Live, Discard(ind), sweep' \in Sweep
    PROVE  TablesInv'
<1> DEFINE moved(i) == Moved(assignments_ctr, ind, i)
<1> USE DEF TablesInv, TablesTypeOK, EntriesAllocated
<1>1. /\ ind \in DOMAIN assignments
      /\ assignments_ctr' = assignments_ctr - 1
      /\ assignments_ctr' \in Nat
      /\ Live' = 0..(assignments_ctr - 2)
  BY DEF Live, Discard
<1>2. DOMAIN assignments' = DOMAIN assignments
  BY DEF Discard, memmove_down
<1>3. \A i \in DOMAIN assignments : assignments'[i] = assignments[moved(i)]
  BY DEF Discard, memmove_down, Moved
<1>4. \A i \in DOMAIN assignments : moved(i) \in DOMAIN assignments
  BY <1>1 DEF Live, Moved
<1>5. \A i \in Live' : /\ i \in Live
                       /\ moved(i) \in Live
                       /\ moved(i) # ind
  BY <1>1, MovedIsBijection DEF Live
<1>6. \A i, j \in Live' : moved(i) = moved(j) => i = j
  BY <1>1, MovedIsBijection DEF Live
<1>7. \A k \in Live : k # ind => \E i \in Live' : moved(i) = k
  BY <1>1, MovedIsBijection DEF Live
<1> HIDE DEF moved
<1>8. /\ DOMAIN heap' = DOMAIN heap \ {assignments[ind]}
      /\ \A p \in DOMAIN heap' : heap'[p] = heap[p]
      /\ heap' = [p \in DOMAIN heap' |-> heap'[p]]
  BY DEF Discard, free
<1>9. TablesTypeOK'
  <2>1. assignments' \in [DOMAIN assignments' -> Chunk]
    <3>1. \A i \in DOMAIN assignments : assignments'[i] \in Chunk
      BY <1>3, <1>4
    <3>2. assignments' = [i \in DOMAIN assignments' |-> assignments'[i]]
      BY DEF Discard, memmove_down
    <3> QED  BY <1>2, <3>1, <3>2
  <2>2. heap' \in [DOMAIN heap' -> Assignment] /\ DOMAIN heap' \subseteq Chunk
    BY <1>8
  <2> QED  BY <1>1, <1>2, <2>1, <2>2 DEF Discard, planesVars
<1>10. EntriesAllocated'
  <2>1. Live' \subseteq DOMAIN assignments'
    BY <1>2, <1>5
  <2>2. \A i \in Live' : assignments'[i] = assignments[moved(i)]
    BY <1>3, <1>5
  <2>3. \A i \in Live' : assignments'[i] \in DOMAIN heap'
    BY <2>2, <1>5, <1>8
  <2>4. \A i, j \in Live' : assignments'[i] = assignments'[j] => i = j
    BY <2>2, <1>5, <1>6
  <2>5. \A p \in DOMAIN heap' : \E i \in Live' : assignments'[i] = p
    BY <2>2, <1>7, <1>8
  <2> QED  BY <2>1, <2>3, <2>4, <2>5
<1>11. AssigneesInitialised'
  BY <1>8 DEF AssigneesInitialised, LivePlanes, Discard, planesVars
<1>12. WithinCapacity'
  BY <1>1, <1>2 DEF WithinCapacity, Discard, planesVars
<1> QED  BY <1>9, <1>10, <1>11, <1>12

----------------------------------------------------------------------------
\* What add_assignment does for a registered sender (assignments.c:65-98).
LEMMA AddAssignmentPreserves ==
    ASSUME TablesInv, NEW item \in Items, add_assignment(item)
    PROVE  TablesInv'
<1>1. item.assignee_index \in DOMAIN control_planes
  BY DEF Items, TablesInv, AssigneesInitialised
<1>2. sweep \in Sweep /\ hv \in {"up", "fatal", "crashed"}
  BY DEF TablesInv, TablesTypeOK
<1>3. ASSUME NEW present_index, Overwrite(item, present_index)
      PROVE  TablesInv'
  <2>1. CASE \E p \in DOMAIN heap : WriteAssignee(p, item.assignee_index)
    BY <2>1, <1>1, WritePreserves
  <2>2. CASE Crash
    BY <2>2, <1>2, TablesUnchanged DEF Crash
  <2>3. CASE Untouched
    BY <2>3, <1>2, TablesUnchanged DEF Untouched, tablesVars
  <2> QED
    BY <1>3, <2>1, <2>2, <2>3 DEF Overwrite, WildWrite, Dereferenceable
<1>4. CASE Untouched
  BY <1>4, <1>2, TablesUnchanged DEF Untouched, tablesVars
<1>5. CASE AppendEntry(item)
  BY <1>5, AppendPreserves
<1> QED  BY <1>3, <1>4, <1>5 DEF add_assignment

\* What remove_assignment does, on whatever slot (assignments.c:100-125).
LEMMA RemoveAssignmentPreserves ==
    ASSUME TablesInv, NEW item, remove_assignment(item)
    PROVE  TablesInv'
<1> DEFINE found == exact_sort(item.eid)
<1>1. sweep \in Sweep /\ hv \in {"up", "fatal", "crashed"}
  BY DEF TablesInv, TablesTypeOK
<1>2. CASE Untouched
  BY <1>2, <1>1, TablesUnchanged DEF Untouched, tablesVars
<1>3. CASE Crash
  BY <1>3, <1>1, TablesUnchanged DEF Crash
<1>4. CASE /\ Dereferenceable(found.index)
           /\ found.index < assignments_ctr
           /\ Discard(found.index) /\ UNCHANGED sweep
  <2>1. found.index \in Live
    BY <1>4 DEF Dereferenceable, TablesInv, TablesTypeOK, Live
  <2> QED  BY <2>1, <1>1, <1>4, DiscardPreserves
<1> QED  BY <1>2, <1>3, <1>4 DEF remove_assignment

\* One iteration of remove_assignee's loop (assignments.c:127-143).
LEMMA SweepPreserves ==
    ASSUME TablesInv, SweepDiscard \/ SweepKeep \/ SweepEnd
    PROVE  TablesInv'
<1> USE DEF TablesInv, TablesTypeOK, Sweep
<1>1. CASE SweepDiscard
  <2>1. sweep.i \in Live /\ Discard(sweep.i) /\ sweep' \in Sweep
    BY <1>1 DEF SweepDiscard, Live
  <2> QED  BY <2>1, DiscardPreserves
<1>2. CASE SweepKeep
  BY <1>2, TablesUnchanged DEF SweepKeep
<1>3. CASE SweepEnd
  BY <1>3, TablesUnchanged DEF SweepEnd, NoSweep
<1> QED  BY <1>1, <1>2, <1>3

\* TablesInv is inductive.
LEMMA StepPreserves == TablesInv /\ [TablesNext]_tablesVars => TablesInv'
<1> SUFFICES ASSUME TablesInv, [TablesNext]_tablesVars PROVE TablesInv'
  OBVIOUS
<1>0. sweep \in Sweep /\ hv \in {"up", "fatal", "crashed"}
  BY DEF TablesInv, TablesTypeOK
<1>1. CASE UNCHANGED tablesVars
  BY <1>1, <1>0, TablesUnchanged DEF tablesVars
<1>2. CASE ProcessEnds
  BY <1>2, <1>0, TablesUnchanged DEF ProcessEnds
<1>3. CASE \E socket \in Sockets, port \in Ports : Register(socket, port)
  BY <1>3, AddPlanePreserves DEF Register
<1>4. CASE \E ind \in LivePlanes : remove_control_plane(ind)
  BY <1>4, RemovePlanePreserves
<1>5. CASE \E item \in Items : add_assignment(item)
  BY <1>5, AddAssignmentPreserves
<1>6. CASE \E item \in Items : remove_assignment(item)
  BY <1>6, RemoveAssignmentPreserves
<1>7. CASE \E id \in 0..(control_planes_autoindex - 1) : remove_assignee(id)
  <2>1. sweep' \in Sweep
    BY <1>7 DEF remove_assignee, Sweep, TablesInv, TablesTypeOK
  <2> QED  BY <2>1, <1>7, <1>0, TablesUnchanged DEF remove_assignee
<1>8. CASE SweepDiscard \/ SweepKeep \/ SweepEnd
  BY <1>8, SweepPreserves
<1> QED
  BY <1>1, <1>2, <1>3, <1>4, <1>5, <1>6, <1>7, <1>8 DEF TablesNext

\* The inductive invariant holds throughout.
THEOREM TablesInvariant == TablesSpec => []TablesInv
BY InitEstablishes, StepPreserves, PTL DEF TablesSpec

\* Types of the tables.
THEOREM TablesTyped == TablesSpec => []TablesTypeOK
BY TablesInvariant, PTL DEF TablesInv

\* No sequence of registrations, announcements and removals frees an entry
\* twice, leaks one or leaves a pointer to freed memory in the array.
THEOREM TablesMemorySafe == TablesSpec => []EntriesAllocated
BY TablesInvariant, PTL DEF TablesInv

\* An index that flex_sort returns for an assignment is safe to read
\* control_planes with.
THEOREM TablesAssignees == TablesSpec => []AssigneesInitialised
BY TablesInvariant, PTL DEF TablesInv

\* Neither array is written beyond its capacity, and the "Illegal state" of
\* connected.c:66 and assignments.c:80 is unreachable.
THEOREM TablesCapacity == TablesSpec => []WithinCapacity
BY TablesInvariant, PTL DEF TablesInv

----------------------------------------------------------------------------
(***************************************************************************)
(* No duplicates.                                                          *)
(***************************************************************************)
\* Two entries that stand for one prefix are found by an exact search for
\* either (sorting.c:73-113).
LEMMA ExactSearchFinds ==
    ASSUME NEW e \in AssignedEid, NEW f \in AssignedEid,
           SamePrefix(e, f) \/ SamePrefix(f, e)
    PROVE  Matches(e, f, TRUE)
<1>1. e.prefix_length = f.prefix_length /\ e.prefix_length \in Int
  BY WidthAssumption DEF SamePrefix, AssignedEid
<1>2. Agree(e.prefix, f.prefix, f.prefix_length)
  BY <1>1 DEF SamePrefix, Agree
<1> QED  BY <1>1, <1>2 DEF Matches

\* The verdicts for which add_assignment appends: the EID is ::/0, or no entry
\* matches it exactly.
LEMMA AppendsOnlyWhenAbsent ==
    ASSUME NEW eid, exact_sort(eid).code = "NON" \/ exact_sort(eid).code = "ALL"
    PROVE  \/ eid = get_broadcast_eid
           \/ \A i \in Live : ~Matches(eid, heap[assignments[i]].eid, TRUE)
<1> DEFINE table == [i \in Live |-> heap[assignments[i]]]
<1>1. SUFFICES ASSUME eid # get_broadcast_eid
               PROVE  Candidates(table, eid, TRUE) = {}
  BY <1>1 DEF Candidates
<1>2. exact_sort(eid) = flex_sort(table, control_planes_ctr, 0, eid, TRUE)
  BY DEF exact_sort
<1> HIDE DEF table
<1>3. CASE control_planes_ctr = 0 \/ eid = get_undefined_eid
  <2>1. exact_sort(eid) = Verdict("ERR", Unwritten)
    BY <1>2, <1>3 DEF flex_sort
  <2> QED  BY <2>1 DEF Verdict
<1>4. CASE /\ ~(control_planes_ctr = 0 \/ eid = get_undefined_eid)
           /\ Candidates(table, eid, TRUE) # {}
  <2>1. \E index : exact_sort(eid) = Verdict("ONE", index)
    BY <1>1, <1>2, <1>4 DEF flex_sort
  <2> QED  BY <2>1 DEF Verdict
<1> QED  BY <1>3, <1>4

\* One entry per EID (assignments.c:67-98), for every table and every set of
\* EIDs: only ::/0 can be there twice.
LEMMA StepKeepsEntriesUnique ==
    TablesInv /\ OneEntryPerEid /\ [TablesNext]_tablesVars => OneEntryPerEid'
<1> SUFFICES ASSUME TablesInv, OneEntryPerEid, [TablesNext]_tablesVars
             PROVE  OneEntryPerEid'
  OBVIOUS
<1> USE DEF TablesInv, TablesTypeOK, EntriesAllocated
<1>1. ASSUME UNCHANGED assignmentsVars PROVE OneEntryPerEid'
  BY <1>1 DEF assignmentsVars, OneEntryPerEid, Live
<1>2. ASSUME NEW p \in DOMAIN heap, NEW index, WriteAssignee(p, index)
      PROVE  OneEntryPerEid'
  <2>1. /\ Live' = Live
        /\ \A i \in Live : heap'[assignments'[i]].eid = heap[assignments[i]].eid
    BY <1>2 DEF WriteAssignee, Live, Assignment
  <2> QED  BY <2>1 DEF OneEntryPerEid
<1>3. ASSUME NEW ind \in Live, Discard(ind) PROVE OneEntryPerEid'
  <2> DEFINE moved(i) == Moved(assignments_ctr, ind, i)
  <2>1. /\ Live' = 0..(assignments_ctr - 2)
        /\ Live = 0..(assignments_ctr - 1)
        /\ assignments_ctr \in Nat
    BY <1>3 DEF Live, Discard
  <2>2. \A i \in Live' : /\ i \in Live /\ moved(i) \in Live
                         /\ moved(i) # ind
    BY <2>1, MovedIsBijection
  <2>3. \A i, j \in Live' : moved(i) = moved(j) => i = j
    BY <2>1, MovedIsBijection
  <2>4. \A i \in Live' : assignments'[i] = assignments[moved(i)]
    BY <1>3, <2>2 DEF Discard, memmove_down, Moved
  <2>5. \A q \in DOMAIN heap : q # assignments[ind] => heap'[q] = heap[q]
    BY <1>3 DEF Discard, free
  <2>6. \A i \in Live' : heap'[assignments'[i]] = heap[assignments[moved(i)]]
    BY <2>2, <2>4, <2>5
  <2> HIDE DEF moved
  <2> QED  BY <2>2, <2>3, <2>6 DEF OneEntryPerEid
<1>4. ASSUME NEW item \in Items, AppendEntry(item),
             exact_sort(item.eid).code \in {"NON", "ALL"}
      PROVE  OneEntryPerEid'
  <2> PICK p \in Chunk \ DOMAIN heap :
        /\ assignments' = Store(assignments, assignments_ctr, p)
        /\ assignments_ctr' = assignments_ctr + 1
        /\ heap' = Store(heap, p, item)
    BY <1>4 DEF AppendEntry
  <2>1. /\ Live' = Live \cup {assignments_ctr}
        /\ assignments_ctr \notin Live
    BY DEF Live
  <2>2. \A i \in Live : heap'[assignments'[i]] = heap[assignments[i]]
    BY <2>1 DEF Store
  <2>3. heap'[assignments'[assignments_ctr]] = item
    BY DEF Store
  <2>4. \A i \in Live : heap[assignments[i]].eid \in AssignedEid
    BY TablesAssumption DEF Assignment
  <2>5. item.eid \in AssignedEid
    BY TablesAssumption DEF Items
  <2>6. \/ item.eid = get_broadcast_eid
        \/ \A i \in Live : ~Matches(item.eid, heap[assignments[i]].eid, TRUE)
    <3> HIDE DEF TablesInv, TablesTypeOK, EntriesAllocated
    <3>1. exact_sort(item.eid).code = "NON" \/ exact_sort(item.eid).code = "ALL"
      BY <1>4
    <3> QED  BY <3>1, AppendsOnlyWhenAbsent, Zenon
  <2>7. \A i \in Live :
          \/ SamePrefix(item.eid, heap[assignments[i]].eid)
          \/ SamePrefix(heap[assignments[i]].eid, item.eid)
          => item.eid = get_broadcast_eid
    BY <2>4, <2>5, <2>6, ExactSearchFinds
  <2> QED  BY <2>1, <2>2, <2>3, <2>7 DEF OneEntryPerEid
<1>5. ASSUME NEW item \in Items, add_assignment(item) PROVE OneEntryPerEid'
  <2>1. CASE \E p \in DOMAIN heap : WriteAssignee(p, item.assignee_index)
    BY <2>1, <1>2
  <2>2. CASE Crash \/ Untouched
    BY <2>2, <1>1 DEF Crash, Untouched, tablesVars
  <2>3. CASE exact_sort(item.eid).code \in {"NON", "ALL"} /\ AppendEntry(item)
    BY <2>3, <1>4
  <2> QED  BY <1>5, <2>1, <2>2, <2>3
           DEF add_assignment, Overwrite, WildWrite, Dereferenceable
<1>6. ASSUME NEW item \in Items, remove_assignment(item)
      PROVE  OneEntryPerEid'
  <2> DEFINE found == exact_sort(item.eid)
  <2>1. CASE Crash \/ Untouched
    BY <2>1, <1>1 DEF Crash, Untouched, tablesVars
  <2>2. CASE /\ Dereferenceable(found.index)
             /\ found.index < assignments_ctr
             /\ Discard(found.index)
    <3>1. found.index \in Live
      BY <2>2 DEF Dereferenceable, Live
    <3> QED  BY <3>1, <2>2, <1>3
  <2> QED  BY <1>6, <2>1, <2>2 DEF remove_assignment
<1>7. ASSUME SweepDiscard PROVE OneEntryPerEid'
  <2>1. sweep.i \in Live /\ Discard(sweep.i)
    BY <1>7 DEF SweepDiscard, Live, Sweep
  <2> QED  BY <2>1, <1>3
<1> QED
  BY <1>1, <1>5, <1>6, <1>7
  DEF TablesNext, ProcessEnds, Register, add_control_plane,
      remove_control_plane, remove_assignee, SweepKeep, SweepEnd, tablesVars

\* For every table and every set of EIDs, "Checking if already present"
\* (assignments.c:67) keeps duplicates out, ::/0 apart.
THEOREM TablesUnique == TablesSpec => []OneEntryPerEid
<1>1. TablesInit => OneEntryPerEid
  BY DEF TablesInit, OneEntryPerEid, Live
<1> QED
  BY <1>1, TablesInvariant, StepKeepsEntriesUnique, PTL DEF TablesSpec

----------------------------------------------------------------------------

\* The write lock of assignments is held exactly during the sweep, and the
\* muxer does not hold the read lock then.
LocksInv == /\ sweep.on = (rs.pc = "sweep")
            /\ sweep.on => mmm.pc # "locked"

\* The muxer's locals are in scope only while it serves its sockets.
MuxLocalsInv == /\ mmm.pc \notin {"work", "locked"} => mmm.ready = {}
                /\ mmm.pc # "locked" => mmm.from = {}
                /\ \A i, j \in mmm.from : i = j

\* No socket is in a table twice, so that a socket poll() has reported keeps
\* a message until the muxer comes to it: recv() does not block.
DistinctSockets(table, slots) ==
    \A i, j \in slots : table[i] = table[j] => i = j

ReadyInv == /\ DistinctSockets(Registered, LivePlanes)
            /\ DistinctSockets(mmm_poll, DOMAIN mmm_poll)
            /\ \A i \in mmm.ready \ mmm.from : outbox[mmm_poll[i]] # <<>>

\* Ids are below the next one; what RsClean passes on is an id.
IdsInv == /\ \A i \in DOMAIN control_planes :
               control_planes[i].id < control_planes_autoindex
          /\ rs.pc = "clean" /\ rs.i < control_planes_ctr
               => rs.id < control_planes_autoindex

\* A plane registers once: a pending request is the only one of its socket,
\* which is not registered yet.
IsRequest(msg) == msg.action = "REGISTER"

PendingInv ==
    /\ \A s \in RegisteredSockets : cp[s] # "off"
    /\ \A msg \in rs.msg : IsRequest(msg) =>
          cp[msg.socket] # "off" /\ msg.socket \notin RegisteredSockets
    /\ \A n \in 1..Len(eastbound) : IsRequest(eastbound[n]) =>
          /\ cp[eastbound[n].socket] # "off"
          /\ eastbound[n].socket \notin RegisteredSockets
          /\ \A msg \in rs.msg :
               IsRequest(msg) => msg.socket # eastbound[n].socket
          /\ \A m \in 1..Len(eastbound) :
               IsRequest(eastbound[m]) /\ m # n =>
                 eastbound[m].socket # eastbound[n].socket

HypervisorInv == /\ TypeOK
                 /\ TablesInv
                 /\ LocksInv
                 /\ MuxLocalsInv
                 /\ ReadyInv
                 /\ IdsInv
                 /\ PendingInv

----------------------------------------------------------------------------
(***************************************************************************)
(* Every step is a step of the tables, or none.                            *)
(***************************************************************************)
\* What the muxer does to the tables (mux.c:212-244).
LEMMA AssignRefines ==
    ASSUME HypervisorInv, hv = "up", MuxAssign
    PROVE  \/ UNCHANGED tablesVars
           \/ \E item \in Items : add_assignment(item)
           \/ \E item \in Items : remove_assignment(item)
<1>1. SUFFICES ASSUME NEW msg \in mmm.msg, NEW k \in LivePlanes,
                      Update(msg, k)
               PROVE  \/ \E item \in Items : add_assignment(item)
                      \/ \E item \in Items : remove_assignment(item)
  BY <1>1 DEF MuxAssign
<1> DEFINE item == [eid |-> msg.eid, assignee_index |-> k]
<1>2. msg.eid \in AnnouncedEids
  BY <1>1 DEF HypervisorInv, TypeOK, MuxTypeOK, MapMessage
<1>3. item \in Items
  BY <1>2 DEF Items
<1>4. add_assignment(item) \/ remove_assignment(item)
  BY <1>1 DEF Update
<1> HIDE DEF item
<1> QED  BY <1>3, <1>4

\* Every step of the threads and the planes is a step of the tables or leaves
\* them alone (register.c, mux.c).
LEMMA StepRefines ==
    ASSUME HypervisorInv, [Next]_vars
    PROVE  [TablesNext]_tablesVars
<1>1. CASE UNCHANGED tablesVars
  BY <1>1
<1>2. CASE UNCHANGED vars
  BY <1>2 DEF vars
<1> SUFFICES ASSUME hv = "up", Next PROVE TablesNext \/ UNCHANGED tablesVars
  BY <1>2 DEF Next
<1>3. ASSUME hv' \in {"fatal", "crashed"},
             UNCHANGED <<planesVars, assignmentsVars, sweep>>
      PROVE  TablesNext
  BY <1>3 DEF TablesNext, ProcessEnds
<1>4. CASE RsRegister
  <2>1. PICK msg \in rs.msg :
          /\ Granted("REGISTER", msg)
          /\ \/ Fatal
             \/ add_control_plane(msg.socket, msg.port)
    BY <1>4 DEF RsRegister
  <2>2. CASE Fatal
    BY <2>2, <1>3 DEF Fatal
  <2>3. CASE add_control_plane(msg.socket, msg.port)
    <3>1. msg.socket \in Sockets /\ msg.port \in Ports
      BY DEF HypervisorInv, TypeOK, RsTypeOK, EastMessage
    <3>2. msg.socket \notin RegisteredSockets
      BY <2>1 DEF HypervisorInv, PendingInv, Granted, IsRequest
    <3>3. Register(msg.socket, msg.port)
      BY <2>3, <3>2 DEF Register, RegisteredSockets
    <3>4. ~sweep.on
      BY <2>1 DEF Granted, HypervisorInv, LocksInv
    <3> QED  BY <3>1, <3>3, <3>4 DEF TablesNext
  <2> QED  BY <2>1, <2>2, <2>3
<1>5. CASE RsAck
  BY <1>5, <1>3 DEF RsAck, Fatal
<1>6. CASE RsPing
  BY <1>6, <1>3 DEF RsPing, Fatal
<1>7. CASE RsDeregister
  <2>1. CASE UNCHANGED tablesVars
    BY <2>1
  <2>2. CASE \E i \in LivePlanes : remove_control_plane(i)
    <3>1. ~sweep.on
      BY <1>7 DEF RsDeregister, Granted, HypervisorInv, LocksInv
    <3> QED  BY <2>2, <3>1 DEF TablesNext
  <2> QED  BY <1>7, <2>1, <2>2 DEF RsDeregister
<1>8. CASE RsClean
  <2>1. CASE UNCHANGED tablesVars
    BY <2>1
  <2>2. CASE rs.i < control_planes_ctr /\ remove_assignee(rs.id)
    <3>1. ~sweep.on /\ rs.pc = "clean"
      BY <1>8 DEF RsClean, HypervisorInv, LocksInv
    <3>2. rs.id \in 0..(control_planes_autoindex - 1)
      BY <2>2, <3>1
      DEF HypervisorInv, IdsInv, TypeOK, RsTypeOK, TablesTypeOK
    <3> QED  BY <2>2, <3>1, <3>2 DEF TablesNext
  <2> QED  BY <1>8, <2>1, <2>2 DEF RsClean
<1>9. CASE RsSweep
  BY <1>9 DEF RsSweep, TablesNext
<1>10. CASE MuxAssign
  <2>1. ~sweep.on
    BY <1>10 DEF MuxAssign, HypervisorInv, LocksInv
  <2> QED  BY <1>10, <2>1, AssignRefines DEF TablesNext
<1>11. CASE MmdSort
  BY <1>11, <1>3 DEF MmdSort, Crash
<1>12. CASE CpdSort
  BY <1>12, <1>3 DEF CpdSort, Crash
<1>13. CASE RsStart \/ RsRecv \/ MuxStart \/ MuxPoll \/ MuxDrain \/ MuxCopy
            \/ MuxRelay \/ MuxLock \/ MmdRead \/ MmdDeliver
            \/ CpdStart \/ CpdRead \/ CpdInject \/ CpNext
  <2>1. UNCHANGED tablesVars
    BY <1>13
    DEF RsStart, RsRecv, MuxStart, MuxPoll, MuxDrain, MuxCopy, MuxRelay,
        MuxLock, MmdRead, MmdDeliver, CpdStart, CpdRead, CpdInject, CpNext,
        CpRegister, CpReceive, CpSend, CpEast, CpCrash
  <2> QED  BY <2>1
<1> QED
  BY <1>4, <1>5, <1>6, <1>7, <1>8, <1>9, <1>10, <1>11, <1>12, <1>13
  DEF Next, RsNext, MuxNext, MmdNext, CpdNext

----------------------------------------------------------------------------
(***************************************************************************)
(* The initial states.                                                     *)
(***************************************************************************)
\* An unspecified EID (sorting.c:123-126) is an EID.
LEMMA UndefinedEidTyped == get_undefined_eid \in Eid
BY WidthAssumption DEF get_undefined_eid, Eid, Address, ZeroAddress

\* The threads before they start, the planes before they register.
LEMMA HypervisorInit == Init => HypervisorInv
<1> SUFFICES ASSUME Init PROVE HypervisorInv
  OBVIOUS
<1>1. TablesInv
  BY InitEstablishes DEF Init
<1>2. RsTypeOK
  BY DEF Init, RsTypeOK, RsAt
<1>3. MuxTypeOK
  BY DEF Init, MuxTypeOK
<1>4. DemuxTypeOK
  BY UndefinedEidTyped DEF Init, DemuxTypeOK, At
<1>5. ChannelsTypeOK
  BY HypervisorAssumption DEF Init, ChannelsTypeOK
<1>6. LocksInv
  BY DEF Init, TablesInit, NoSweep, RsAt, LocksInv
<1>7. MuxLocalsInv
  BY DEF Init, MuxLocalsInv
<1>8. IdsInv /\ ReadyInv
  BY DEF Init, TablesInit, IdsInv, RsAt, ReadyInv, DistinctSockets, LivePlanes
<1>9. PendingInv
  BY DEF Init, TablesInit, PendingInv, RsAt, RegisteredSockets, LivePlanes
<1> QED
  BY <1>1, <1>2, <1>3, <1>4, <1>5, <1>6, <1>7, <1>8, <1>9
  DEF HypervisorInv, TypeOK, TablesInv

----------------------------------------------------------------------------
(***************************************************************************)
(* Types, group by group.                                                  *)
(***************************************************************************)
\* No step takes the registering server out of its type (register.c:64-282).
LEMMA RsTypeStep ==
    ASSUME HypervisorInv, [Next]_vars
    PROVE  RsTypeOK'
<1> USE DEF RsTypeOK
<1>0. RsTypeOK
  BY DEF HypervisorInv, TypeOK
<1>1. CASE UNCHANGED rs
  BY <1>0, <1>1
<1>2. ASSUME NEW pc \in {"start", "recv", "wrlock", "ack", "clean", "sweep",
                         "ping"}, rs' = RsAt(pc)
      PROVE  RsTypeOK'
  BY <1>2 DEF RsAt
<1>3. CASE RsRecv
  <2>1. CASE /\ rs' = [rs EXCEPT !.pc = "wrlock", !.msg = {Head(eastbound)}]
             /\ eastbound # <<>>
    <3>1. Head(eastbound) \in EastMessage
      BY <2>1 DEF HypervisorInv, TypeOK, ChannelsTypeOK
    <3> QED  BY <1>0, <2>1, <3>1
  <2> QED  BY <1>1, <1>3, <2>1 DEF RsRecv
<1>4. CASE RsRegister
  <2>1. CASE \E msg \in rs.msg : rs' = [RsAt("ack") EXCEPT !.to = {msg.socket}]
    BY <1>0, <2>1 DEF RsAt, EastMessage
  <2> QED  BY <1>1, <1>4, <2>1 DEF RsRegister
<1>5. CASE RsDeregister
  <2> USE DEF HypervisorInv, TablesInv, TablesTypeOK
  <2>1. CASE rs' = [RsAt("clean") EXCEPT !.i = control_planes_ctr]
    BY <2>1 DEF RsAt
  <2>2. CASE \E i \in LivePlanes :
               rs' = [RsAt("clean") EXCEPT !.i = i, !.id = control_planes[i].id]
    <3>1. PICK i \in LivePlanes :
            rs' = [RsAt("clean") EXCEPT !.i = i, !.id = control_planes[i].id]
      BY <2>2
    <3>2. i \in Nat /\ control_planes[i].id \in Nat
      BY DEF LivePlanes, AssigneesInitialised, ControlPlane
    <3> QED  BY <3>1, <3>2 DEF RsAt
  <2> QED  BY <1>5, <2>1, <2>2 DEF RsDeregister
<1>6. CASE RsStart
  BY <1>2, <1>6 DEF RsStart
<1>7. CASE RsAck
  BY <1>1, <1>2, <1>7 DEF RsAck
<1>8. CASE RsPing
  BY <1>1, <1>2, <1>8 DEF RsPing
<1>9. CASE RsClean
  BY <1>2, <1>9 DEF RsClean
<1>10. CASE RsSweep
  BY <1>1, <1>2, <1>10 DEF RsSweep
<1>11. CASE UNCHANGED vars \/ MuxNext \/ MmdNext \/ CpdNext \/ CpNext
  <2>1. UNCHANGED rs
    BY <1>11
    DEF vars, threadVars, MuxNext, MmdNext, CpdNext, CpNext, MuxStart, MuxPoll,
        MuxDrain, MuxCopy, MuxRelay, MuxLock, MuxAssign, MmdRead, MmdSort,
        MmdDeliver, CpdStart, CpdRead, CpdSort, CpdInject, CpRegister,
        CpReceive, CpSend, CpEast, CpCrash
  <2> QED  BY <1>1, <2>1
<1> QED
  BY <1>3, <1>4, <1>5, <1>6, <1>7, <1>8, <1>9, <1>10, <1>11 DEF Next, RsNext

\* No step takes the muxer out of its type (mapmessages/mux.c:78-270).
LEMMA MuxTypeStep ==
    ASSUME HypervisorInv, [Next]_vars
    PROVE  (MuxTypeOK /\ MuxLocalsInv)'
<1> USE DEF MuxTypeOK, MuxLocalsInv
<1>0. MuxTypeOK /\ MuxLocalsInv
  BY DEF HypervisorInv, TypeOK
<1>1. CASE UNCHANGED <<mmm, mmm_poll>>
  BY <1>0, <1>1
<1>2. CASE MuxStart
  BY <1>0, <1>2 DEF MuxStart
<1>3. CASE MuxPoll
  BY <1>0, <1>3 DEF MuxPoll, ReadySlots
<1>4. CASE MuxDrain
  BY <1>0, <1>4 DEF MuxDrain
<1>5. CASE MuxCopy
  <2>1. Registered \in [LivePlanes -> Sockets] /\ LivePlanes \subseteq Nat
    BY DEF Registered, LivePlanes, HypervisorInv, TablesInv, TablesTypeOK,
           AssigneesInitialised, ControlPlane
  <2> QED  BY <1>0, <1>5, <2>1 DEF MuxCopy
<1>6. CASE MuxRelay
  <2>1. PICK i \in mmm.ready :
          mmm' = [mmm EXCEPT !.pc = AfterSlot(i), !.ready = @ \ {i}]
    BY <1>6 DEF MuxRelay
  <2>2. mmm.pc = "work" /\ UNCHANGED mmm_poll
    BY <1>6 DEF MuxRelay
  <2> QED  BY <1>0, <2>1, <2>2 DEF AfterSlot
<1>7. CASE MuxLock
  <2>1. PICK i \in mmm.ready :
          mmm' = [mmm EXCEPT !.pc = "locked", !.from = {i},
                             !.msg = {Head(outbox[mmm_poll[i]])}]
    BY <1>7 DEF MuxLock
  <2>2. mmm.from = {} /\ UNCHANGED mmm_poll
    BY <1>0, <1>7 DEF MuxLock
  <2>3. outbox[mmm_poll[i]] # <<>>
    BY <2>2 DEF HypervisorInv, ReadyInv
  <2>4. outbox[mmm_poll[i]] \in Seq(MapMessage)
    BY <1>0 DEF HypervisorInv, TypeOK, ChannelsTypeOK
  <2>5. Head(outbox[mmm_poll[i]]) \in MapMessage
    BY <2>3, <2>4
  <2> QED  BY <1>0, <2>1, <2>2, <2>5
<1>8. CASE MuxAssign
  BY <1>0, <1>8 DEF MuxAssign, AfterSlot
<1>9. CASE UNCHANGED vars \/ RsNext \/ MmdNext \/ CpdNext \/ CpNext
  <2>1. UNCHANGED <<mmm, mmm_poll>>
    BY <1>9
    DEF vars, threadVars, RsNext, MmdNext, CpdNext, CpNext, RsStart, RsRecv,
        RsRegister, RsAck, RsPing, RsDeregister, RsClean, RsSweep, MmdRead,
        MmdSort, MmdDeliver, CpdStart, CpdRead, CpdSort, CpdInject,
        CpRegister, CpReceive, CpSend, CpEast, CpCrash
  <2> QED  BY <1>1, <2>1
<1> QED
  BY <1>2, <1>3, <1>4, <1>5, <1>6, <1>7, <1>8, <1>9 DEF Next, MuxNext

\* A verdict for one plane, and the default one, name slots of control_planes
\* that have been written (mapmessages/demux.c:118, controlpackets/demux.c:194).
LEMMA SortedIndexInitialised ==
    ASSUME TablesInv, NEW eid, sort(eid).code \in {"ONE", "NON"}
    PROVE  sort(eid).index \in DOMAIN control_planes
<1> DEFINE table == [i \in Live |-> heap[assignments[i]]]
<1>1. sort(eid) = flex_sort(table, control_planes_ctr, 0, eid, FALSE)
  BY DEF sort
<1>2. CASE sort(eid).code = "ONE"
  <2>1. \A i \in Live : /\ assignments[i] \in DOMAIN heap
                        /\ heap[assignments[i]] \in Assignment
    BY DEF TablesInv, EntriesAllocated, TablesTypeOK
  <2>2. IsTable(table, assignments_ctr)
    <3>1. DOMAIN table = 0..(assignments_ctr - 1)
      BY DEF Live
    <3>2. \A i \in Live : heap[assignments[i]].eid.prefix_length \in 0..Width
      BY <2>1, TablesAssumption DEF Assignment, AssignedEid
    <3> QED  BY <3>1, <3>2 DEF IsTable
  <2>3. assignments_ctr \in Nat
    BY DEF TablesInv, TablesTypeOK
  <2>4. \E i \in DOMAIN table : sort(eid).index = table[i].assignee_index
    <3> DEFINE exact == FALSE
               found == flex_sort(table, control_planes_ctr, 0, eid, exact)
    <3>1. found = sort(eid) /\ exact \in BOOLEAN
      BY <1>1
    <3> HIDE DEF table, exact
    <3>2. \E i \in DOMAIN table : found.index = table[i].assignee_index
      BY <1>2, <2>2, <2>3, <3>1, SortIsLongestPrefixMatch
    <3> QED  BY <3>1, <3>2
  <2> QED  BY <2>1, <2>4 DEF TablesInv, AssigneesInitialised
<1>3. CASE sort(eid).code = "NON"
  <2> HIDE DEF table
  <2>1. \/ sort(eid) = Verdict("ERR", Unwritten)
        \/ sort(eid) = Verdict("ALL", Unwritten)
        \/ \E index : sort(eid) = Verdict("ONE", index)
        \/ control_planes_ctr # 0 /\ sort(eid) = Verdict("NON", 0)
    BY <1>1 DEF flex_sort
  <2>2. control_planes_ctr # 0 /\ sort(eid).index = 0
    BY <1>3, <2>1 DEF Verdict
  <2> QED
    BY <2>2 DEF TablesInv, TablesTypeOK, AssigneesInitialised, LivePlanes
<1> QED  BY <1>2, <1>3

\* No step takes a demuxer out of its type (mapmessages/demux.c:76-152,
\* controlpackets/demux.c:61-239).
LEMMA DemuxTypeStep ==
    ASSUME HypervisorInv, [Next]_vars
    PROVE  DemuxTypeOK'
<1> USE DEF DemuxTypeOK
<1>0. DemuxTypeOK
  BY DEF HypervisorInv, TypeOK
<1>1. CASE UNCHANGED <<mmd, cpd, torn>>
  BY <1>0, <1>1
<1>2. ASSUME NEW pc \in {"read", "deliver", "broadcast"},
             NEW to \in SUBSET Sockets, mmd' = At(pc, to),
             UNCHANGED cpd, torn' \subseteq torn
      PROVE  DemuxTypeOK'
  BY <1>0, <1>2, UndefinedEidTyped DEF At
<1>3. ASSUME NEW pc \in {"read", "inject", "toall"},
             NEW to \in SUBSET Ports, cpd' = At(pc, to),
             UNCHANGED mmd, torn' \subseteq torn
      PROVE  DemuxTypeOK'
  BY <1>0, <1>3, UndefinedEidTyped DEF At
<1>4. \A i \in DOMAIN control_planes :
        /\ control_planes[i].socket_descriptor \in Sockets
        /\ control_planes[i].port \in Ports
  BY DEF HypervisorInv, TablesInv, TablesTypeOK, ControlPlane
<1>5. CASE MuxAssign
  BY <1>0, <1>5 DEF MuxAssign, Scanning
<1>6. CASE MmdRead
  BY <1>0, <1>6, HypervisorAssumption DEF MmdRead
<1>7. CASE MmdSort
  <2>1. UNCHANGED cpd /\ torn' \subseteq torn
    BY <1>7 DEF MmdSort
  <2>2. CASE UNCHANGED mmd
    BY <1>0, <2>1, <2>2
  <2>3. CASE mmd' = At("broadcast", {})
    BY <1>2, <2>1, <2>3
  <2>4. CASE \E to \in TornRecipients : mmd' = At("deliver", to)
    <3>1. PICK to \in TornRecipients : mmd' = At("deliver", to)
      BY <2>4
    <3>2. to \in SUBSET Sockets
      BY <1>4 DEF TornRecipients
    <3> QED  BY <1>2, <2>1, <3>1, <3>2
  <2>5. CASE /\ sort(mmd.eid).code = "ONE"
             /\ mmd' = At("deliver",
                  {control_planes[sort(mmd.eid).index].socket_descriptor})
    <3>1. sort(mmd.eid).index \in DOMAIN control_planes
      BY <2>5, SortedIndexInitialised DEF HypervisorInv
    <3> QED  BY <1>2, <1>4, <2>1, <2>5, <3>1
  <2> QED  BY <1>7, <2>2, <2>3, <2>4, <2>5 DEF MmdSort
<1>8. CASE MmdDeliver
  BY <1>2, <1>8 DEF MmdDeliver
<1>9. CASE CpdStart \/ CpdInject
  BY <1>3, <1>9 DEF CpdStart, CpdInject
<1>10. CASE CpdRead
  BY <1>0, <1>10, HypervisorAssumption DEF CpdRead
<1>11. CASE CpdSort
  <2>1. UNCHANGED mmd /\ torn' \subseteq torn
    BY <1>11 DEF CpdSort
  <2>2. CASE UNCHANGED cpd
    BY <1>0, <2>1, <2>2
  <2>3. CASE cpd' = At("toall", {}) \/ cpd' = At("read", {})
    BY <1>3, <2>1, <2>3
  <2>4. CASE \E port \in Ports : cpd' = At("inject", {port})
    BY <1>3, <2>1, <2>4
  <2>5. CASE /\ sort(cpd.eid).code \in {"ONE", "NON"}
             /\ cpd' = At("inject", {control_planes[sort(cpd.eid).index].port})
    <3>1. sort(cpd.eid).index \in DOMAIN control_planes
      BY <2>5, SortedIndexInitialised DEF HypervisorInv
    <3> QED  BY <1>3, <1>4, <2>1, <2>5, <3>1
  <2> QED  BY <1>11, <2>2, <2>3, <2>4, <2>5 DEF CpdSort
<1>12. CASE \/ UNCHANGED vars \/ RsNext \/ CpNext
            \/ MuxStart \/ MuxPoll \/ MuxDrain \/ MuxCopy \/ MuxRelay \/ MuxLock
  <2>1. UNCHANGED <<mmd, cpd, torn>>
    BY <1>12
    DEF vars, threadVars, RsNext, CpNext, RsStart, RsRecv, RsRegister, RsAck,
        RsPing, RsDeregister, RsClean, RsSweep, MuxStart, MuxPoll, MuxDrain,
        MuxCopy, MuxRelay, MuxLock, CpRegister, CpReceive, CpSend, CpEast,
        CpCrash
  <2> QED  BY <1>1, <2>1
<1> QED
  BY <1>5, <1>6, <1>7, <1>8, <1>9, <1>10, <1>11, <1>12
  DEF Next, MuxNext, MmdNext, CpdNext

\* What a plane writes is a message of its script.
LEMMA ScriptTyped ==
    ASSUME ChannelsTypeOK, NEW s \in Sockets, CpSend(s)
    PROVE  Script[s][sent[s] + 1] \in MapMessage
<1>1. /\ Script[s] \in Seq(MapMessage) /\ sent[s] \in Nat
      /\ sent[s] < Len(Script[s])
  BY HypervisorAssumption DEF CpSend, ChannelsTypeOK
<1> QED  BY <1>1

\* No step puts a datagram of another kind into a socket, or one too many.
LEMMA ChannelsTypeStep ==
    ASSUME HypervisorInv, [Next]_vars
    PROVE  ChannelsTypeOK'
<1> USE DEF ChannelsTypeOK
<1>0. ChannelsTypeOK
  BY DEF HypervisorInv, TypeOK
<1>1. CASE UNCHANGED <<channelVars, planeVars>>
  BY <1>0, <1>1 DEF channelVars, planeVars
<1>2. ASSUME NEW datagram \in {"ACK", "MAP"}, NEW recipients,
             Deliver(recipients, datagram)
      PROVE  inbox' \in [Sockets -> Seq({"ACK", "MAP"})]
  BY <1>0, <1>2 DEF Deliver
<1>3. \A s \in Sockets, action \in {"REGISTER", "DEREGISTER", "UNKNOWN"} :
        East(action, s) \in EastMessage
  BY HypervisorAssumption DEF East, EastMessage
<1>4. CASE RsRecv
  BY <1>0, <1>4 DEF RsRecv, planeVars
<1>5. CASE RsAck
  BY <1>0, <1>2, <1>5 DEF RsAck, planeVars
<1>6. CASE RsPing
  BY <1>0, <1>6, HypervisorAssumption DEF RsPing, planeVars
<1>7. CASE MuxDrain
  BY <1>0, <1>7, HypervisorAssumption DEF MuxDrain, planeVars
<1>8. CASE MuxRelay \/ MuxLock
  <2>1. PICK i \in mmm.ready :
          outbox' = [outbox EXCEPT ![mmm_poll[i]] = Tail(@)]
    BY <1>8 DEF MuxRelay, MuxLock
  <2>2. mmm.from = {}
    BY <1>8 DEF MuxRelay, MuxLock, HypervisorInv, MuxLocalsInv
  <2>3. mmm_poll[i] \in Sockets /\ outbox[mmm_poll[i]] # <<>>
    BY <2>2 DEF HypervisorInv, TypeOK, MuxTypeOK, ReadyInv
  <2>4. Tail(outbox[mmm_poll[i]]) \in Seq(MapMessage)
    BY <1>0, <2>3
  <2>5. outbox' \in [Sockets -> Seq(MapMessage)]
    BY <1>0, <2>1, <2>3, <2>4
  <2>6. UNCHANGED <<eastbound, pings, inbox, planeVars>>
    BY <1>8 DEF MuxRelay, MuxLock
  <2> QED  BY <1>0, <2>5, <2>6 DEF planeVars
<1>9. CASE MmdDeliver
  BY <1>0, <1>2, <1>9 DEF MmdDeliver, planeVars
<1>10. ASSUME NEW s \in Sockets, CpRegister(s) PROVE ChannelsTypeOK'
  <2>1. East("REGISTER", s) \in EastMessage
    BY <1>3
  <2>2. Append(eastbound, East("REGISTER", s)) \in Seq(EastMessage)
    BY <1>0, <2>1
  <2>3. /\ \/ eastbound' = Append(eastbound, East("REGISTER", s))
           \/ eastbound' = eastbound
        /\ \E state \in {"waiting", "down"} : cp' = [cp EXCEPT ![s] = state]
        /\ UNCHANGED <<pings, outbox, inbox, sent>>
    BY <1>10 DEF CpRegister
  <2> QED  BY <1>0, <2>2, <2>3
<1>11. ASSUME NEW s \in Sockets, CpReceive(s) PROVE ChannelsTypeOK'
  BY <1>0, <1>11 DEF CpReceive
<1>12. ASSUME NEW s \in Sockets, CpSend(s) PROVE ChannelsTypeOK'
  <2>1. Script[s][sent[s] + 1] \in MapMessage
    BY <1>0, <1>12, ScriptTyped
  <2> QED  BY <1>0, <1>12, <2>1 DEF CpSend
<1>13. ASSUME NEW s \in Sockets, NEW action \in EastActions, CpEast(s, action)
       PROVE  ChannelsTypeOK'
  <2>1. East(action, s) \in EastMessage
    BY <1>3, HypervisorAssumption
  <2> QED  BY <1>0, <1>13, <2>1 DEF CpEast
<1>14. ASSUME NEW s \in Sockets, CpCrash(s) PROVE ChannelsTypeOK'
  BY <1>0, <1>14 DEF CpCrash
<1>15. CASE \/ UNCHANGED vars \/ CpdNext
            \/ RsStart \/ RsRegister \/ RsDeregister \/ RsClean \/ RsSweep
            \/ MuxStart \/ MuxPoll \/ MuxCopy \/ MuxAssign
            \/ MmdRead \/ MmdSort
  <2>1. UNCHANGED <<channelVars, planeVars>>
    BY <1>15
    DEF vars, CpdNext, RsStart, RsRegister, RsDeregister, RsClean, RsSweep,
        MuxStart, MuxPoll, MuxCopy, MuxAssign, MmdRead, MmdSort, CpdStart,
        CpdRead, CpdSort, CpdInject
  <2> QED  BY <1>1, <2>1
<1> QED
  BY <1>4, <1>5, <1>6, <1>7, <1>8, <1>9, <1>10, <1>11, <1>12, <1>13, <1>14,
     <1>15 DEF Next, RsNext, MuxNext, MmdNext, CpNext

----------------------------------------------------------------------------
(***************************************************************************)
(* Locks, ids, sockets and requests.                                       *)
(***************************************************************************)
\* The operations on assignments touch neither the registered planes nor the
\* sweep.
LEMMA UpdateKeepsPlanes ==
    ASSUME NEW msg, NEW index, Update(msg, index)
    PROVE  UNCHANGED <<planesVars, sweep>>
BY DEF Update, add_assignment, remove_assignment, Overwrite, WildWrite, Crash,
       WriteAssignee, AppendEntry, Discard, Untouched, tablesVars

\* The muxer's update (mux.c:219-244) leaves control_planes alone.
LEMMA AssignKeepsPlanes == MuxAssign => UNCHANGED <<planesVars, sweep, rs>>
BY UpdateKeepsPlanes DEF MuxAssign, tablesVars

\* Write and read locks of assignments exclude each other.
LEMMA LocksStep ==
    ASSUME HypervisorInv, [Next]_vars
    PROVE  LocksInv'
<1> USE DEF LocksInv
<1>0. LocksInv /\ RsTypeOK /\ MuxTypeOK /\ sweep \in Sweep
  BY DEF HypervisorInv, TypeOK, TablesTypeOK
<1>1. CASE UNCHANGED <<sweep, rs>> /\ (mmm'.pc = "locked" => mmm.pc = "locked")
  BY <1>0, <1>1
<1>2. ASSUME rs.pc # "sweep", rs'.pc # "sweep", UNCHANGED <<sweep, mmm>>
      PROVE  LocksInv'
  BY <1>0, <1>2
<1>3. CASE RsStart
  BY <1>2, <1>3 DEF RsStart, RsAt, tablesVars
<1>4. CASE RsRecv
  BY <1>0, <1>2, <1>4 DEF RsRecv, RsTypeOK, tablesVars
<1>5. CASE RsRegister
  BY <1>2, <1>5 DEF RsRegister, Granted, RsAt, Fatal, add_control_plane
<1>6. CASE RsAck
  BY <1>2, <1>6 DEF RsAck, RsAt, Fatal, tablesVars
<1>7. CASE RsPing
  BY <1>2, <1>7 DEF RsPing, RsAt, Fatal, tablesVars
<1>8. CASE RsDeregister
  BY <1>2, <1>8 DEF RsDeregister, Granted, RsAt, remove_control_plane, tablesVars
<1>9. CASE RsClean
  <2>1. mmm.pc # "locked"
    BY <1>9 DEF RsClean, AssignmentsWrlock, AssignmentsReaders, pcOf
  <2>2. CASE remove_assignee(rs.id) /\ rs' = RsAt("sweep")
    BY <1>9, <2>1, <2>2 DEF RsClean, remove_assignee, RsAt
  <2> QED  BY <1>2, <1>9, <2>2 DEF RsClean, RsAt, tablesVars
<1>10. CASE RsSweep
  <2>1. CASE (SweepDiscard \/ SweepKeep) /\ UNCHANGED rs
    <3>1. sweep'.on = sweep.on /\ UNCHANGED <<rs, mmm>>
      BY <1>0, <1>10, <2>1 DEF RsSweep, SweepDiscard, SweepKeep, Sweep
    <3> QED  BY <1>0, <3>1
  <2>2. CASE SweepEnd /\ rs' = RsAt("ping")
    BY <1>10, <2>2 DEF RsSweep, SweepEnd, NoSweep, RsAt
  <2> QED  BY <1>10, <2>1, <2>2 DEF RsSweep
<1>11. CASE MuxLock
  BY <1>0, <1>11 DEF MuxLock, AssignmentsRdlock, tablesVars
<1>12. CASE MuxAssign
  BY <1>0, <1>12, AssignKeepsPlanes DEF MuxAssign, AfterSlot
<1>13. CASE MuxStart \/ MuxPoll \/ MuxDrain \/ MuxCopy \/ MuxRelay
  <2>1. UNCHANGED <<sweep, rs>>
    BY <1>13 DEF MuxStart, MuxPoll, MuxDrain, MuxCopy, MuxRelay, tablesVars
  <2>2. mmm'.pc # "locked"
    BY <1>0, <1>13
    DEF MuxStart, MuxPoll, MuxDrain, MuxCopy, MuxRelay, AfterSlot, MuxTypeOK
  <2> QED  BY <1>1, <2>1, <2>2
<1>14. CASE UNCHANGED vars \/ MmdNext \/ CpdNext \/ CpNext
  <2>1. UNCHANGED <<sweep, rs, mmm>>
    BY <1>14
    DEF vars, threadVars, tablesVars, MmdNext, CpdNext, CpNext, MmdRead,
        MmdSort, MmdDeliver, CpdStart, CpdRead, CpdSort, CpdInject, Crash,
        CpRegister, CpReceive, CpSend, CpEast, CpCrash
  <2> QED  BY <1>1, <2>1
<1> QED
  BY <1>3, <1>4, <1>5, <1>6, <1>7, <1>8, <1>9, <1>10, <1>11, <1>12, <1>13,
     <1>14 DEF Next, RsNext, MuxNext

\* add_control_plane and remove_control_plane, seen through the sockets.
LEMMA AddPlaneSockets ==
    ASSUME HypervisorInv, NEW socket, NEW port,
           add_control_plane(socket, port)
    PROVE  /\ RegisteredSockets' = RegisteredSockets \cup {socket}
           /\ LivePlanes' = LivePlanes \cup {control_planes_ctr}
           /\ control_planes_ctr \notin LivePlanes
           /\ \A i \in LivePlanes : control_planes'[i] = control_planes[i]
           /\ control_planes'[control_planes_ctr].socket_descriptor = socket
           /\ control_planes'[control_planes_ctr].id = control_planes_autoindex
<1> USE DEF HypervisorInv, TablesInv, TablesTypeOK, AssigneesInitialised
<1>1. /\ LivePlanes' = LivePlanes \cup {control_planes_ctr}
      /\ control_planes_ctr \notin LivePlanes
  BY DEF LivePlanes, add_control_plane
<1>2. \A i \in LivePlanes : control_planes'[i] = control_planes[i]
  BY <1>1 DEF add_control_plane, Store
<1>3. control_planes'[control_planes_ctr]
        = [id |-> control_planes_autoindex, socket_descriptor |-> socket,
           port |-> port]
  BY DEF add_control_plane, Store
<1>4. RegisteredSockets' = RegisteredSockets \cup {socket}
  BY <1>1, <1>2, <1>3 DEF RegisteredSockets
<1> QED  BY <1>1, <1>2, <1>3, <1>4

\* remove_control_plane (connected.c:82-91) takes one socket away.
LEMMA RemovePlaneSockets ==
    ASSUME HypervisorInv, NEW ind \in LivePlanes, remove_control_plane(ind)
    PROVE  /\ RegisteredSockets' \subseteq RegisteredSockets
           /\ \A i \in LivePlanes' :
                /\ Moved(control_planes_ctr, ind, i) \in LivePlanes
                /\ control_planes'[i]
                     = control_planes[Moved(control_planes_ctr, ind, i)]
           /\ \A i, j \in LivePlanes' :
                Moved(control_planes_ctr, ind, i)
                  = Moved(control_planes_ctr, ind, j) => i = j
<1> USE DEF HypervisorInv, TablesInv, TablesTypeOK, AssigneesInitialised
<1> DEFINE moved(i) == Moved(control_planes_ctr, ind, i)
<1>1. /\ control_planes_ctr \in Nat
      /\ LivePlanes = 0..(control_planes_ctr - 1)
      /\ LivePlanes' = 0..(control_planes_ctr - 2)
  BY DEF LivePlanes, remove_control_plane
<1>2. /\ \A i \in LivePlanes' : i \in LivePlanes /\ moved(i) \in LivePlanes
      /\ \A i, j \in LivePlanes' : moved(i) = moved(j) => i = j
  BY <1>1, MovedIsBijection
<1>3. \A i \in LivePlanes' : control_planes'[i] = control_planes[moved(i)]
  BY <1>2 DEF remove_control_plane, memmove_down, Moved
<1> HIDE DEF moved
<1>4. RegisteredSockets' \subseteq RegisteredSockets
  BY <1>2, <1>3 DEF RegisteredSockets
<1> QED  BY <1>2, <1>3, <1>4 DEF moved

\* Who changes control_planes, and who leaves it alone.
LEMMA PlanesStep ==
    ASSUME HypervisorInv, [Next]_vars
    PROVE  \/ RsRegister
           \/ RsDeregister
           \/ UNCHANGED planesVars
<1>1. CASE MuxAssign
  BY <1>1, AssignKeepsPlanes
<1>2. CASE UNCHANGED vars
  BY <1>2 DEF vars, tablesVars
<1>3. CASE RsStart \/ RsRecv \/ RsAck \/ RsPing \/ RsClean \/ RsSweep
  BY <1>3
  DEF RsStart, RsRecv, RsAck, RsPing, RsClean, RsSweep, Fatal, remove_assignee,
      SweepDiscard, SweepKeep, SweepEnd, Discard, tablesVars
<1>4. CASE \/ MuxStart \/ MuxPoll \/ MuxDrain \/ MuxCopy \/ MuxRelay \/ MuxLock
           \/ MmdNext \/ CpdNext \/ CpNext
  BY <1>4
  DEF MuxStart, MuxPoll, MuxDrain, MuxCopy, MuxRelay, MuxLock, MmdNext,
      CpdNext, CpNext, MmdRead, MmdSort, MmdDeliver, CpdStart, CpdRead,
      CpdSort, CpdInject, Crash, CpRegister, CpReceive, CpSend, CpEast,
      CpCrash, tablesVars
<1> QED  BY <1>1, <1>2, <1>3, <1>4 DEF Next, RsNext, MuxNext

\* rs.id is an id whenever RsClean uses it.
LEMMA IdsStep ==
    ASSUME HypervisorInv, [Next]_vars
    PROVE  IdsInv'
<1> USE DEF IdsInv
<1>0. IdsInv /\ RsTypeOK /\ TablesTypeOK /\ LivePlanes \subseteq DOMAIN control_planes
  BY DEF HypervisorInv, TypeOK, TablesInv, AssigneesInitialised
<1>1. ASSUME UNCHANGED planesVars, rs'.pc # "clean" \/ UNCHANGED rs
      PROVE  IdsInv'
  BY <1>0, <1>1 DEF planesVars
<1>2. CASE RsRegister
  <2>1. CASE Fatal /\ UNCHANGED rs
    BY <1>1, <2>1 DEF Fatal
  <2>2. CASE \E msg \in rs.msg :
               /\ add_control_plane(msg.socket, msg.port)
               /\ rs' = [RsAt("ack") EXCEPT !.to = {msg.socket}]
    <3>1. rs'.pc # "clean"
      BY <2>2 DEF RsAt
    <3>2. control_planes_autoindex' = control_planes_autoindex + 1
      BY <2>2 DEF add_control_plane
    <3>3. \A i \in DOMAIN control_planes :
            /\ control_planes[i].id \in Nat
            /\ control_planes_autoindex \in Nat
      BY <1>0 DEF TablesTypeOK, ControlPlane
    <3>4. \A i \in DOMAIN control_planes' :
            \/ control_planes'[i].id = control_planes_autoindex
            \/ i \in DOMAIN control_planes /\ control_planes'[i] = control_planes[i]
      BY <2>2 DEF add_control_plane, Store
    <3> QED  BY <1>0, <3>1, <3>2, <3>3, <3>4 DEF TablesTypeOK
  <2> QED  BY <1>2, <2>1, <2>2 DEF RsRegister
<1>3. CASE RsDeregister
  <2>1. CASE /\ UNCHANGED tablesVars
             /\ rs' = [RsAt("clean") EXCEPT !.i = control_planes_ctr]
    <3>1. rs'.i = control_planes_ctr'
      BY <2>1 DEF RsAt, tablesVars, planesVars
    <3>2. control_planes_ctr' \in Nat
      BY <1>0, <2>1 DEF tablesVars, planesVars, TablesTypeOK
    <3> QED  BY <1>0, <2>1, <3>1, <3>2 DEF tablesVars, planesVars
  <2>2. CASE \E i \in LivePlanes :
               /\ remove_control_plane(i)
               /\ rs' = [RsAt("clean") EXCEPT !.i = i,
                                              !.id = control_planes[i].id]
    <3>1. PICK i \in LivePlanes :
            /\ remove_control_plane(i)
            /\ rs' = [RsAt("clean") EXCEPT !.i = i,
                                           !.id = control_planes[i].id]
      BY <2>2
    <3>2. rs'.id < control_planes_autoindex'
      BY <1>0, <3>1 DEF RsAt, remove_control_plane
    <3>3. \A k \in DOMAIN control_planes' :
            \E l \in DOMAIN control_planes :
              control_planes'[k] = control_planes[l]
      <4>1. \A k \in DOMAIN control_planes :
              k < control_planes_ctr - 1 /\ i <= k
                => k + 1 \in DOMAIN control_planes
        BY <1>0 DEF TablesTypeOK, LivePlanes
      <4> QED  BY <3>1, <4>1 DEF remove_control_plane, memmove_down
    <3>4. UNCHANGED control_planes_autoindex
      BY <3>1 DEF remove_control_plane
    <3> QED  BY <1>0, <3>2, <3>3, <3>4
  <2> QED  BY <1>3, <2>1, <2>2 DEF RsDeregister
<1>4. rs'.pc # "clean" \/ UNCHANGED rs \/ RsDeregister
  <2>1. CASE RsNext
    <3>1. CASE RsStart \/ RsAck \/ RsPing \/ RsClean \/ RsSweep
      BY <3>1 DEF RsStart, RsAck, RsPing, RsClean, RsSweep, RsAt
    <3>2. CASE RsRecv
      BY <1>0, <3>2 DEF RsRecv, RsTypeOK
    <3>3. CASE RsRegister
      BY <3>3 DEF RsRegister, RsAt
    <3> QED  BY <2>1, <3>1, <3>2, <3>3 DEF RsNext
  <2>2. CASE MuxAssign
    BY <2>2, AssignKeepsPlanes
  <2>3. CASE \/ UNCHANGED vars \/ MmdNext \/ CpdNext \/ CpNext
             \/ MuxStart \/ MuxPoll \/ MuxDrain \/ MuxCopy \/ MuxRelay \/ MuxLock
    BY <2>3
    DEF vars, threadVars, MuxStart, MuxPoll, MuxDrain, MuxCopy, MuxRelay,
        MuxLock, MmdNext, CpdNext, CpNext, MmdRead, MmdSort, MmdDeliver,
        CpdStart, CpdRead, CpdSort, CpdInject, CpRegister, CpReceive, CpSend,
        CpEast, CpCrash
  <2> QED  BY <2>1, <2>2, <2>3 DEF Next, MuxNext
<1> QED  BY <1>1, <1>2, <1>3, <1>4, PlanesStep

\* Sockets stay distinct, and what poll() has reported stays readable.
LEMMA ReadyStep ==
    ASSUME HypervisorInv, [Next]_vars
    PROVE  ReadyInv'
<1>0. ReadyInv /\ MuxTypeOK /\ MuxLocalsInv /\ ChannelsTypeOK
  BY DEF HypervisorInv, TypeOK
<1>1. DistinctSockets(Registered, LivePlanes)'
  <2> USE DEF DistinctSockets, Registered
  <2>0. DistinctSockets(Registered, LivePlanes)
    BY <1>0 DEF ReadyInv
  <2>1. CASE UNCHANGED planesVars
    BY <2>0, <2>1 DEF planesVars, LivePlanes
  <2>2. CASE \E msg \in rs.msg : /\ msg.action = "REGISTER"
                                 /\ add_control_plane(msg.socket, msg.port)
    <3>1. PICK msg \in rs.msg : /\ msg.action = "REGISTER"
                                /\ add_control_plane(msg.socket, msg.port)
      BY <2>2
    <3>2. \A i \in LivePlanes : control_planes[i].socket_descriptor # msg.socket
      BY <3>1 DEF HypervisorInv, PendingInv, IsRequest, RegisteredSockets
    <3> QED  BY <2>0, <3>1, <3>2, AddPlaneSockets
  <2>3. CASE \E i \in LivePlanes : remove_control_plane(i)
    <3>1. PICK ind \in LivePlanes : remove_control_plane(ind)
      BY <2>3
    <3> DEFINE moved(i) == Moved(control_planes_ctr, ind, i)
    <3>2. /\ \A i \in LivePlanes' : /\ moved(i) \in LivePlanes
                                    /\ control_planes'[i] = control_planes[moved(i)]
          /\ \A i, j \in LivePlanes' : moved(i) = moved(j) => i = j
      BY <3>1, RemovePlaneSockets
    <3> HIDE DEF moved
    <3> QED  BY <2>0, <3>2
  <2> QED
    BY <2>1, <2>2, <2>3, PlanesStep
    DEF RsRegister, RsDeregister, Granted, Fatal, tablesVars
<1>2. DistinctSockets(mmm_poll, DOMAIN mmm_poll)'
  <2>1. CASE UNCHANGED mmm_poll
    BY <1>0, <2>1 DEF ReadyInv, DistinctSockets
  <2>2. CASE MuxCopy
    BY <1>0, <2>2 DEF MuxCopy, ReadyInv, DistinctSockets, Registered
  <2> QED
    BY <2>1, <2>2
    DEF Next, vars, threadVars, RsNext, MuxNext, MmdNext, CpdNext, CpNext,
        RsStart, RsRecv, RsRegister, RsAck, RsPing, RsDeregister, RsClean,
        RsSweep, MuxStart, MuxPoll, MuxDrain, MuxRelay, MuxLock, MuxAssign,
        MmdRead, MmdSort, MmdDeliver, CpdStart, CpdRead, CpdSort, CpdInject,
        CpRegister, CpReceive, CpSend, CpEast, CpCrash
<1>3. (\A i \in mmm.ready \ mmm.from : outbox[mmm_poll[i]] # <<>>)'
  <2> DEFINE readable == \A i \in mmm.ready \ mmm.from : outbox[mmm_poll[i]] # <<>>
  <2>0. readable /\ \A i \in mmm.ready : mmm_poll[i] \in Sockets
    BY <1>0 DEF ReadyInv, MuxTypeOK
  <2>1. CASE UNCHANGED <<mmm, mmm_poll>> /\ \A s \in Sockets :
               outbox[s] # <<>> => outbox'[s] # <<>>
    BY <2>0, <2>1
  <2>2. CASE mmm'.ready = {}
    BY <2>2
  <2>3. CASE MuxStart \/ MuxDrain \/ MuxCopy
    BY <1>0, <2>2, <2>3 DEF MuxStart, MuxDrain, MuxCopy, MuxTypeOK, MuxLocalsInv
  <2>4. CASE MuxPoll
    <3>1. CASE mmm' = [mmm EXCEPT !.pc = "update"]
      BY <1>0, <2>2, <2>4, <3>1 DEF MuxPoll, MuxTypeOK, MuxLocalsInv
    <3>2. CASE mmm' = [mmm EXCEPT !.pc = "work", !.ready = ReadySlots]
      <4>1. mmm'.ready = ReadySlots /\ UNCHANGED <<mmm_poll, outbox>>
        BY <1>0, <2>4, <3>2 DEF MuxPoll, MuxTypeOK, channelVars
      <4> QED  BY <4>1 DEF ReadySlots
    <3> QED  BY <2>4, <3>1, <3>2 DEF MuxPoll
  <2>5. CASE MuxRelay \/ MuxLock
    <3>1. PICK i \in mmm.ready :
            /\ outbox' = [outbox EXCEPT ![mmm_poll[i]] = Tail(@)]
            /\ mmm'.ready \ mmm'.from = mmm.ready \ {i}
      <4>1. CASE MuxRelay
        <5>1. PICK i \in mmm.ready :
                /\ outbox' = [outbox EXCEPT ![mmm_poll[i]] = Tail(@)]
                /\ mmm' = [mmm EXCEPT !.pc = AfterSlot(i), !.ready = @ \ {i}]
          BY <4>1 DEF MuxRelay
        <5>2. mmm.from = {} /\ mmm'.ready = mmm.ready \ {i} /\ mmm'.from = {}
          BY <1>0, <4>1, <5>1 DEF MuxRelay, MuxTypeOK, MuxLocalsInv
        <5> QED  BY <5>1, <5>2
      <4>2. CASE MuxLock
        <5>1. PICK i \in mmm.ready :
                /\ outbox' = [outbox EXCEPT ![mmm_poll[i]] = Tail(@)]
                /\ mmm' = [mmm EXCEPT !.pc = "locked", !.from = {i},
                                      !.msg = {Head(outbox[mmm_poll[i]])}]
          BY <4>2 DEF MuxLock
        <5>2. mmm'.ready = mmm.ready /\ mmm'.from = {i}
          BY <1>0, <5>1 DEF MuxTypeOK
        <5> QED  BY <5>1, <5>2
      <4> QED  BY <2>5, <4>1, <4>2
    <3>2. mmm.from = {} /\ UNCHANGED mmm_poll
      BY <1>0, <2>5 DEF MuxRelay, MuxLock, MuxLocalsInv
    <3>3. \A j \in mmm.ready \ {i} : mmm_poll[j] # mmm_poll[i]
      BY <1>0 DEF ReadyInv, DistinctSockets, MuxTypeOK
    <3>4. \A j \in mmm.ready \ {i} : outbox'[mmm_poll[j]] = outbox[mmm_poll[j]]
      BY <1>0, <2>0, <3>1, <3>3 DEF ChannelsTypeOK
    <3> QED  BY <2>0, <3>1, <3>2, <3>4
  <2>6. CASE MuxAssign
    <3>1. PICK i \in mmm.from : mmm'.ready = mmm.ready \ {i}
      BY <2>6 DEF MuxAssign
    <3>2. mmm.from = {i} /\ mmm'.from = {}
      BY <1>0, <2>6 DEF MuxAssign, MuxLocalsInv
    <3>3. UNCHANGED <<mmm_poll, outbox>>
      BY <2>6 DEF MuxAssign, channelVars
    <3> QED  BY <2>0, <3>1, <3>2, <3>3
  <2>7. ASSUME NEW s \in Sockets, CpSend(s)
        PROVE  /\ UNCHANGED <<mmm, mmm_poll>>
               /\ \A t \in Sockets : outbox[t] # <<>> => outbox'[t] # <<>>
    <3>1. UNCHANGED <<mmm, mmm_poll>>
      BY <2>7 DEF CpSend, threadVars
    <3>2. \/ UNCHANGED outbox
          \/ \E m \in MapMessage :
               outbox' = [outbox EXCEPT ![s] = Append(outbox[s], m)]
      BY <1>0, <2>7, ScriptTyped DEF CpSend
    <3>3. ASSUME NEW m \in MapMessage PROVE Append(outbox[s], m) # <<>>
      <4>1. outbox[s] \in Seq(MapMessage)
        BY <1>0 DEF ChannelsTypeOK
      <4>2. Len(Append(outbox[s], m)) = Len(outbox[s]) + 1
        BY <4>1
      <4>3. Len(outbox[s]) \in Nat
        BY <4>1
      <4> QED  BY <4>2, <4>3
    <3> QED  BY <1>0, <3>1, <3>2, <3>3 DEF ChannelsTypeOK
  <2>8. CASE \/ UNCHANGED vars \/ RsNext \/ MmdNext \/ CpdNext
             \/ \E s \in Sockets : \/ CpRegister(s) \/ CpReceive(s) \/ CpCrash(s)
                                   \/ \E action \in EastActions : CpEast(s, action)
    <3>1. UNCHANGED <<mmm, mmm_poll, outbox>>
      BY <2>8
      DEF vars, threadVars, channelVars, RsNext, MmdNext, CpdNext, RsStart,
          RsRecv, RsRegister, RsAck, RsPing, RsDeregister, RsClean, RsSweep,
          MmdRead, MmdSort, MmdDeliver, CpdStart, CpdRead, CpdSort, CpdInject,
          CpRegister, CpReceive, CpEast, CpCrash
    <3> QED  BY <2>1, <3>1
  <2> QED
    BY <2>1, <2>3, <2>4, <2>5, <2>6, <2>7, <2>8 DEF Next, MuxNext, CpNext
<1> QED  BY <1>1, <1>2, <1>3 DEF ReadyInv

\* A plane registers once.
LEMMA PendingStep ==
    ASSUME HypervisorInv, [Next]_vars
    PROVE  PendingInv'
<1>0. PendingInv /\ RsTypeOK /\ ChannelsTypeOK
  BY DEF HypervisorInv, TypeOK
<1>1. RegisteredSockets \subseteq Sockets
  BY DEF RegisteredSockets, HypervisorInv, TablesInv, TablesTypeOK,
         AssigneesInitialised, ControlPlane
<1>2. /\ \A msg \in rs.msg : msg.socket \in Sockets
      /\ \A n \in 1..Len(eastbound) : eastbound[n].socket \in Sockets
      /\ Len(eastbound) \in Nat
  <2>1. \A msg \in EastMessage : msg.socket \in Sockets
    BY DEF EastMessage
  <2>2. rs.msg \subseteq EastMessage
    BY <1>0 DEF RsTypeOK
  <2>3. \A n \in 1..Len(eastbound) : eastbound[n] \in EastMessage
    BY <1>0 DEF ChannelsTypeOK
  <2>4. Len(eastbound) \in Nat
    BY <1>0 DEF ChannelsTypeOK
  <2> QED  BY <2>1, <2>2, <2>3, <2>4
<1>3. ASSUME RegisteredSockets' \subseteq RegisteredSockets,
             rs'.msg \subseteq rs.msg, UNCHANGED eastbound,
             \A s \in Sockets : cp[s] # "off" => cp'[s] # "off"
      PROVE  PendingInv'
  BY <1>0, <1>1, <1>2, <1>3 DEF PendingInv
<1>4. ASSUME UNCHANGED planesVars PROVE UNCHANGED RegisteredSockets
  BY <1>4 DEF planesVars, RegisteredSockets, LivePlanes
<1>5. CASE RsRecv
  <2>1. /\ UNCHANGED RegisteredSockets /\ UNCHANGED cp
        /\ eastbound # <<>> /\ eastbound' = Tail(eastbound)
    BY <1>4, <1>5 DEF RsRecv, tablesVars, planeVars
  <2>2. Len(eastbound') = Len(eastbound) - 1 /\ Len(eastbound) >= 1
    BY <1>0, <2>1 DEF ChannelsTypeOK
  <2>3. \A n \in 1..Len(eastbound') : /\ n + 1 \in 1..Len(eastbound)
                                      /\ n + 1 # 1
                                      /\ eastbound'[n] = eastbound[n + 1]
    BY <1>0, <1>2, <2>1, <2>2 DEF ChannelsTypeOK
  <2>4. \/ UNCHANGED rs
        \/ rs'.msg = {eastbound[1]}
    <3>1. Head(eastbound) = eastbound[1]
      BY <1>0, <2>1 DEF ChannelsTypeOK
    <3>2. UNCHANGED rs \/ rs'.msg = {Head(eastbound)}
      BY <1>0, <1>5 DEF RsRecv, RsTypeOK
    <3> QED  BY <3>1, <3>2
  <2>5. \A n, m \in 1..Len(eastbound') : n # m => n + 1 # m + 1
    BY <1>2, <2>2
  <2>6. 1 \in 1..Len(eastbound)
    BY <1>2, <2>2
  <2> QED  BY <1>0, <2>1, <2>3, <2>4, <2>5, <2>6 DEF PendingInv
<1>6. CASE RsRegister
  <2>1. PICK msg \in rs.msg :
          /\ msg.action = "REGISTER"
          /\ \/ Fatal /\ UNCHANGED rs
             \/ /\ add_control_plane(msg.socket, msg.port)
                /\ rs' = [RsAt("ack") EXCEPT !.to = {msg.socket}]
    BY <1>6 DEF RsRegister, Granted
  <2>2. UNCHANGED <<eastbound, cp>>
    BY <1>6 DEF RsRegister, channelVars, planeVars
  <2>3. CASE Fatal /\ UNCHANGED rs
    BY <1>3, <1>4, <2>2, <2>3 DEF Fatal
  <2>4. CASE /\ add_control_plane(msg.socket, msg.port)
             /\ rs' = [RsAt("ack") EXCEPT !.to = {msg.socket}]
    <3>1. RegisteredSockets' = RegisteredSockets \cup {msg.socket}
      BY <2>4, AddPlaneSockets
    <3>2. rs'.msg = {}
      BY <2>4 DEF RsAt
    <3> QED  BY <1>0, <2>1, <2>2, <3>1, <3>2 DEF PendingInv, IsRequest
  <2> QED  BY <2>1, <2>3, <2>4
<1>7. CASE RsDeregister
  <2>1. RegisteredSockets' \subseteq RegisteredSockets
    BY <1>4, <1>7, RemovePlaneSockets DEF RsDeregister, tablesVars
  <2>2. rs'.msg = {}
    BY <1>7 DEF RsDeregister, RsAt
  <2>3. UNCHANGED <<eastbound, cp>>
    BY <1>7 DEF RsDeregister, channelVars, planeVars
  <2> QED  BY <1>3, <2>1, <2>2, <2>3
<1>8. CASE RsStart \/ RsAck \/ RsPing \/ RsClean \/ RsSweep
  <2>1. UNCHANGED planesVars
    BY <1>8
    DEF RsStart, RsAck, RsPing, RsClean, RsSweep, Fatal, remove_assignee,
        SweepDiscard, SweepKeep, SweepEnd, Discard, tablesVars
  <2>2. rs'.msg \subseteq rs.msg
    BY <1>8 DEF RsStart, RsAck, RsPing, RsClean, RsSweep, RsAt
  <2>3. UNCHANGED <<eastbound, cp>>
    BY <1>8
    DEF RsStart, RsAck, RsPing, RsClean, RsSweep, channelVars, planeVars
  <2> QED  BY <1>3, <1>4, <2>1, <2>2, <2>3
<1>9. CASE UNCHANGED vars \/ MuxNext \/ MmdNext \/ CpdNext
  <2>1. UNCHANGED planesVars
    BY <1>9, AssignKeepsPlanes
    DEF vars, tablesVars, MuxNext, MmdNext, CpdNext, MuxStart, MuxPoll,
        MuxDrain, MuxCopy, MuxRelay, MuxLock, MmdRead, MmdSort, MmdDeliver,
        CpdStart, CpdRead, CpdSort, CpdInject, Crash
  <2>2. UNCHANGED <<rs, eastbound, cp>>
    BY <1>9
    DEF vars, threadVars, channelVars, planeVars, MuxNext, MmdNext, CpdNext,
        MuxStart, MuxPoll, MuxDrain, MuxCopy, MuxRelay, MuxLock, MuxAssign,
        MmdRead, MmdSort, MmdDeliver, CpdStart, CpdRead, CpdSort, CpdInject
  <2> QED  BY <1>3, <1>4, <2>1, <2>2
<1>10. ASSUME NEW s \in Sockets, CpReceive(s) \/ CpSend(s) \/ CpCrash(s)
       PROVE  PendingInv'
  <2>1. UNCHANGED <<planesVars, rs, eastbound>>
    BY <1>10 DEF CpReceive, CpSend, CpCrash, tablesVars, threadVars
  <2>2. \A t \in Sockets : cp[t] # "off" => cp'[t] # "off"
    BY <1>0, <1>10 DEF CpReceive, CpSend, CpCrash, ChannelsTypeOK
  <2> QED  BY <1>3, <1>4, <2>1, <2>2
<1>11. ASSUME NEW s \in Sockets, NEW msg, UNCHANGED <<planesVars, rs>>,
              msg \in EastMessage, msg.socket = s,
              eastbound' = Append(eastbound, msg),
              IsRequest(msg) => cp[s] = "off",
              cp'[s] # "off",
              \A t \in Sockets : cp[t] # "off" => cp'[t] # "off"
       PROVE  PendingInv'
  <2>1. /\ Len(eastbound') = Len(eastbound) + 1
        /\ \A n \in 1..Len(eastbound) : eastbound'[n] = eastbound[n]
        /\ eastbound'[Len(eastbound) + 1] = msg
    BY <1>0, <1>11 DEF ChannelsTypeOK
  <2>2. \A n \in 1..Len(eastbound') :
          n \in 1..Len(eastbound) \/ n = Len(eastbound) + 1
    BY <1>2, <2>1
  <2>3. UNCHANGED RegisteredSockets
    BY <1>4, <1>11
  <2>4. IsRequest(msg) =>
          /\ s \notin RegisteredSockets
          /\ \A m \in rs.msg : IsRequest(m) => m.socket # s
          /\ \A n \in 1..Len(eastbound) :
               IsRequest(eastbound[n]) => eastbound[n].socket # s
    BY <1>0, <1>11 DEF PendingInv
  <2> QED
    BY <1>0, <1>1, <1>2, <1>11, <2>1, <2>2, <2>3, <2>4 DEF PendingInv
<1>12. \A s \in Sockets, action \in {"REGISTER", "DEREGISTER", "UNKNOWN"} :
         /\ East(action, s) \in EastMessage
         /\ East(action, s).socket = s
         /\ East(action, s).action = action
  BY HypervisorAssumption DEF East, EastMessage
<1>13. ASSUME NEW s \in Sockets, CpRegister(s) PROVE PendingInv'
  <2>1. UNCHANGED <<planesVars, rs>> /\ cp[s] = "off"
    BY <1>13 DEF CpRegister, tablesVars, threadVars
  <2>2. cp'[s] # "off" /\ \A t \in Sockets : cp[t] # "off" => cp'[t] # "off"
    BY <1>0, <1>13 DEF CpRegister, ChannelsTypeOK
  <2>3. CASE eastbound' = Append(eastbound, East("REGISTER", s))
    BY <1>11, <1>12, <2>1, <2>2, <2>3
  <2>4. CASE UNCHANGED eastbound
    BY <1>3, <1>4, <2>1, <2>2, <2>4
  <2> QED  BY <1>13, <2>3, <2>4 DEF CpRegister
<1>14. ASSUME NEW s \in Sockets, NEW action \in EastActions, CpEast(s, action)
       PROVE  PendingInv'
  <2>1. UNCHANGED <<planesVars, rs>>
    BY <1>14 DEF CpEast, tablesVars, threadVars
  <2>2. cp'[s] # "off" /\ \A t \in Sockets : cp[t] # "off" => cp'[t] # "off"
    BY <1>0, <1>14 DEF CpEast, ChannelsTypeOK
  <2>3. action \in {"DEREGISTER", "UNKNOWN"}
    BY HypervisorAssumption
  <2>4. East(action, s) \in EastMessage /\ East(action, s).socket = s
    BY <1>12, <2>3
  <2>5. ~IsRequest(East(action, s))
    BY <1>12, <2>3 DEF IsRequest
  <2>6. eastbound' = Append(eastbound, East(action, s))
    BY <1>14 DEF CpEast
  <2> QED  BY <1>11, <2>1, <2>2, <2>4, <2>5, <2>6
<1> QED
  BY <1>5, <1>6, <1>7, <1>8, <1>9, <1>10, <1>13, <1>14
  DEF Next, RsNext, CpNext

----------------------------------------------------------------------------
(***************************************************************************)
(* The theorems.                                                           *)
(***************************************************************************)
\* HypervisorInv is inductive: the step of the tables comes first, because
\* the types of the threads depend on those of the tables.
LEMMA HypervisorStep == HypervisorInv /\ [Next]_vars => HypervisorInv'
<1> SUFFICES ASSUME HypervisorInv, [Next]_vars PROVE HypervisorInv'
  OBVIOUS
<1>1. TablesInv'
  BY StepRefines, StepPreserves DEF HypervisorInv
<1>2. (RsTypeOK /\ MuxTypeOK /\ MuxLocalsInv /\ DemuxTypeOK /\ ChannelsTypeOK)'
  BY RsTypeStep, MuxTypeStep, DemuxTypeStep, ChannelsTypeStep
<1>3. (LocksInv /\ ReadyInv /\ IdsInv /\ PendingInv)'
  BY LocksStep, ReadyStep, IdsStep, PendingStep
<1> QED  BY <1>1, <1>2, <1>3 DEF HypervisorInv, TypeOK, TablesInv

\* The inductive invariant holds throughout.
THEOREM HypervisorInvariant == Spec => []HypervisorInv
BY HypervisorInit, HypervisorStep, PTL DEF Spec

\* Types of the threads, the channels, the planes and the tables.
THEOREM HypervisorTyped == Spec => []TypeOK
BY HypervisorInvariant, PTL DEF HypervisorInv

\* The process implements the tables: although updates run under read locks
\* (mux.c:213-214) and scans may be torn, every step is one operation of
\* connected.c or assignments.c with arguments it expects, or leaves the
\* tables alone.
THEOREM HypervisorImplementsTables == Spec => TablesSpec
<1>1. Init => TablesInit
  BY DEF Init
<1>2. HypervisorInv /\ [Next]_vars => [TablesNext]_tablesVars
  BY StepRefines
<1> QED  BY <1>1, <1>2, HypervisorInvariant, PTL DEF Spec, TablesSpec

\* So the process as a whole never frees an assignment twice, leaks one or
\* keeps a pointer to a freed one.
THEOREM HypervisorMemorySafe == Spec => []EntriesAllocated
BY HypervisorImplementsTables, TablesMemorySafe, PTL

\* Whoever changes control_planes (RsRegister, RsDeregister) leaves rs on its
\* way to a ping, and the muxer drains the pings before it copies.
LEMMA FreshStep ==
    ASSUME HypervisorInv, PollSetFresh, [Next]_vars
    PROVE  PollSetFresh'
<1> USE DEF PollSetFresh
<1>0. RsTypeOK /\ MuxTypeOK /\ pings \in Nat
  BY HypervisorAssumption DEF HypervisorInv, TypeOK, ChannelsTypeOK
<1>1. ASSUME UNCHANGED planesVars PROVE UNCHANGED Registered
  BY <1>1 DEF planesVars, Registered, LivePlanes
<1>2. CASE hv' # "up"
  BY <1>2
<1>3. CASE RsNext
  <2>1. CASE RsStart \/ RsRecv
    <3>1. /\ UNCHANGED <<mmm_poll, mmm, pings, hv, planesVars>>
          /\ rs.pc \in {"start", "recv"}
      BY <2>1 DEF RsStart, RsRecv, channelVars, tablesVars
    <3> QED  BY <1>1, <3>1
  <2>2. CASE RsRegister \/ RsDeregister
    <3>1. CASE rs'.pc \in {"ack", "clean"}
      BY <3>1
    <3>2. CASE Fatal
      BY <3>2 DEF Fatal
    <3> QED  BY <2>2, <3>1, <3>2 DEF RsRegister, RsDeregister, RsAt
  <2>3. CASE RsAck
    BY <1>2, <2>3 DEF RsAck, Fatal, RsAt
  <2>4. CASE RsPing
    <3>1. CASE Fatal
      BY <3>1 DEF Fatal
    <3>2. CASE pings' = (IF pings < PingRoom THEN pings + 1 ELSE pings)
      BY <1>0, <3>2, HypervisorAssumption
    <3> QED  BY <2>4, <3>1, <3>2 DEF RsPing
  <2>5. CASE RsClean \/ RsSweep
    <3>1. rs'.pc \in {"clean", "sweep", "ping"}
      BY <2>5 DEF RsClean, RsSweep, RsAt
    <3> QED  BY <3>1
  <2> QED  BY <1>3, <2>1, <2>2, <2>3, <2>4, <2>5 DEF RsNext
<1>4. CASE MuxCopy
  <2>1. mmm_poll' = Registered /\ UNCHANGED planesVars
    BY <1>4 DEF MuxCopy, tablesVars
  <2> QED  BY <1>1, <2>1
<1>5. CASE MuxDrain
  <2>1. mmm'.pc = "copy"
    BY <1>0, <1>5 DEF MuxDrain, MuxTypeOK
  <2> QED  BY <2>1
<1>6. CASE /\ hv = "up"
           /\ MuxStart \/ MuxPoll \/ MuxRelay \/ MuxLock \/ MuxAssign
  <2>1. UNCHANGED <<mmm_poll, rs, pings, planesVars>> /\ mmm.pc # "copy"
    BY <1>6, AssignKeepsPlanes
    DEF MuxStart, MuxPoll, MuxRelay, MuxLock, MuxAssign, channelVars,
        tablesVars
  <2> QED  BY <1>1, <1>6, <2>1
<1>7. CASE UNCHANGED vars \/ MmdNext \/ CpdNext \/ CpNext
  <2>1. /\ UNCHANGED <<mmm_poll, rs, mmm, pings, planesVars>>
        /\ hv' = "up" => hv = "up"
    BY <1>7
    DEF vars, threadVars, channelVars, tablesVars, MmdNext, CpdNext, CpNext,
        MmdRead, MmdSort, MmdDeliver, CpdStart, CpdRead, CpdSort, CpdInject,
        Crash, CpRegister, CpReceive, CpSend, CpEast, CpCrash
  <2> QED  BY <1>1, <2>1
<1> QED
  BY <1>3, <1>4, <1>5, <1>6, <1>7 DEF Next, MuxNext

\* For every number of planes, whatever the sockets hold and whichever pings
\* are lost (mux.c:163-192, register.c:215-240): unless a ping is on its way,
\* the muxer polls exactly the registered sockets.
THEOREM PollSetIsFresh == Spec => []PollSetFresh
<1>1. Init => PollSetFresh
  BY DEF Init, TablesInit, PollSetFresh, Registered, LivePlanes
<1>2. HypervisorInv /\ PollSetFresh /\ [Next]_vars => PollSetFresh'
  BY FreshStep
<1> QED  BY <1>1, <1>2, HypervisorInvariant, PTL DEF Spec

----------------------------------------------------------------------------
(***************************************************************************)
(* Why the process ends.                                                   *)
(***************************************************************************)
\* Planes that have had no ACK: their registration is to come, under way, or
\* about to be answered.
Unanswered == {s \in Sockets :
    \/ cp[s] = "off"
    \/ \E n \in 1..Len(eastbound) : IsRequest(eastbound[n]) /\ eastbound[n].socket = s
    \/ \E msg \in rs.msg : IsRequest(msg) /\ msg.socket = s
    \/ s \in rs.to}

\* Until the ACK only messages of the data plane are in a plane's socket.  The
\* plane that is to be answered is registered.
AckInv == /\ rs.to \subseteq RegisteredSockets
          /\ \A s \in Sockets : Len(inbox[s]) <= NorthRoom
          /\ \A s \in Unanswered : inbox[s] \in Seq({"MAP"})

\* Where a socket's messages are.
LEMMA InboxShape ==
    ASSUME HypervisorInv, NEW s \in Sockets
    PROVE  inbox[s] \in Seq({"ACK", "MAP"}) /\ Len(inbox[s]) \in Nat /\ NorthRoom \in Nat \ {0}
<1>1. inbox[s] \in Seq({"ACK", "MAP"})
  BY DEF HypervisorInv, TypeOK, ChannelsTypeOK
<1>2. NorthRoom \in Nat \ {0}  BY HypervisorAssumption, Zenon
<1> QED  BY <1>1, <1>2

\* What rs.to may become (register.c:133-180, 185-214).
LEMMA AnsweredRegistered ==
    ASSUME HypervisorInv, AckInv, [Next]_vars
    PROVE  rs'.to \subseteq RegisteredSockets'
<1>0. RsTypeOK  BY DEF HypervisorInv, TypeOK
<1>1. ASSUME UNCHANGED planesVars, rs'.to \subseteq rs.to
      PROVE  rs'.to \subseteq RegisteredSockets'
  BY <1>1 DEF AckInv, planesVars, RegisteredSockets, LivePlanes
<1>2. CASE RsRegister
  <2>1. PICK msg \in rs.msg :
          \/ Fatal /\ UNCHANGED rs
          \/ /\ add_control_plane(msg.socket, msg.port)
             /\ rs' = [RsAt("ack") EXCEPT !.to = {msg.socket}]
    BY <1>2 DEF RsRegister
  <2>2. CASE Fatal /\ UNCHANGED rs  BY <1>1, <2>2 DEF Fatal
  <2>3. CASE /\ add_control_plane(msg.socket, msg.port)
             /\ rs' = [RsAt("ack") EXCEPT !.to = {msg.socket}]
    <3>1. msg.socket \in RegisteredSockets'  BY <2>3, AddPlaneSockets
    <3>2. rs'.to = {msg.socket}  BY <2>3 DEF RsAt
    <3> QED  BY <3>1, <3>2
  <2> QED  BY <2>1, <2>2, <2>3
<1>3. CASE RsDeregister
  <2>1. rs'.to = {}  BY <1>3 DEF RsDeregister, RsAt
  <2> QED  BY <2>1
<1>4. CASE RsStart \/ RsRecv \/ RsAck \/ RsPing \/ RsClean \/ RsSweep
  <2>1. rs'.to \subseteq rs.to
    <3>1. CASE RsRecv
      <4>1. rs'.to = rs.to  BY <1>0, <3>1 DEF RsRecv, RsTypeOK
      <4> QED  BY <4>1
    <3>2. CASE RsStart \/ RsAck \/ RsPing \/ RsClean \/ RsSweep
      <4>1. rs' = rs \/ \E pc \in {"recv", "ping", "sweep"} : rs' = RsAt(pc)
        BY <3>2 DEF RsStart, RsAck, RsPing, RsClean, RsSweep
      <4>2. rs' = rs \/ rs'.to = {}  BY <4>1 DEF RsAt
      <4> QED  BY <4>2
    <3> QED  BY <1>4, <3>1, <3>2
  <2>2. UNCHANGED planesVars
    BY <1>4
    DEF RsStart, RsRecv, RsAck, RsPing, RsClean, RsSweep, Fatal, remove_assignee,
        SweepDiscard, SweepKeep, SweepEnd, Discard, tablesVars
  <2> QED  BY <1>1, <2>1, <2>2
<1>5. CASE UNCHANGED vars \/ MuxNext \/ MmdNext \/ CpdNext \/ CpNext
  <2>1. rs' = rs
    BY <1>5
    DEF vars, threadVars, MuxNext, MmdNext, CpdNext, CpNext, MuxStart, MuxPoll,
        MuxDrain, MuxCopy, MuxRelay, MuxLock, MuxAssign, MmdRead, MmdSort,
        MmdDeliver, CpdStart, CpdRead, CpdSort, CpdInject, CpRegister, CpReceive,
        CpSend, CpEast, CpCrash
  <2>2. UNCHANGED planesVars
    BY <1>5, AssignKeepsPlanes
    DEF vars, tablesVars, MuxNext, MmdNext, CpdNext, CpNext, MuxStart, MuxPoll,
        MuxDrain, MuxCopy, MuxRelay, MuxLock, MmdRead, MmdSort, MmdDeliver,
        CpdStart, CpdRead, CpdSort, CpdInject, Crash, CpRegister, CpReceive,
        CpSend, CpEast, CpCrash
  <2> QED  BY <1>1, <2>1, <2>2
<1> QED  BY <1>2, <1>3, <1>4, <1>5 DEF Next, RsNext

\* Nobody becomes unanswered: a request goes from the plane to eastbound, to
\* rs.msg and to rs.to, in this order.
LEMMA UnansweredStep ==
    ASSUME HypervisorInv, AckInv, [Next]_vars
    PROVE  /\ Unanswered' \subseteq Unanswered
           /\ RsAck /\ hv' # "fatal" => Unanswered' \cap rs.to = {}
<1>0. RsTypeOK /\ ChannelsTypeOK  BY DEF HypervisorInv, TypeOK
<1>1. ASSUME \A s \in Sockets : cp[s] # "off" => cp'[s] # "off",
             UNCHANGED eastbound, rs'.msg \subseteq rs.msg,
             \A s \in rs'.to : s \in rs.to \/ \E msg \in rs.msg :
                                                 IsRequest(msg) /\ msg.socket = s
      PROVE  Unanswered' \subseteq Unanswered
  BY <1>1 DEF Unanswered
<1>2. CASE RsRecv
  <2>1. /\ UNCHANGED cp /\ eastbound # <<>> /\ eastbound' = Tail(eastbound)
    BY <1>2 DEF RsRecv, planeVars
  <2>2. eastbound \in Seq(EastMessage)  BY <1>0 DEF ChannelsTypeOK
  <2>3. /\ Len(eastbound) \in Nat /\ Len(eastbound) >= 1
        /\ Len(eastbound') = Len(eastbound) - 1
        /\ Head(eastbound) = eastbound[1]
        /\ \A n \in 1..Len(eastbound') : eastbound'[n] = eastbound[n + 1]
    BY <2>1, <2>2
  <2>4. /\ 1 \in 1..Len(eastbound)
        /\ \A n \in 1..Len(eastbound') : n + 1 \in 1..Len(eastbound)
    BY <2>3
  <2>5. rs'.to = rs.to /\ (rs'.msg = rs.msg \/ rs'.msg = {eastbound[1]})
    BY <1>0, <1>2, <2>3 DEF RsRecv, RsTypeOK
  <2>6. ~RsAck  BY <1>2 DEF RsRecv, RsAck
  <2> QED  BY <2>1, <2>3, <2>4, <2>5, <2>6 DEF Unanswered
<1>3. CASE RsRegister
  <2>1. UNCHANGED <<eastbound, cp>>
    BY <1>3 DEF RsRegister, channelVars, planeVars
  <2>2. PICK msg \in rs.msg :
          /\ IsRequest(msg)
          /\ \/ UNCHANGED rs
             \/ rs' = [RsAt("ack") EXCEPT !.to = {msg.socket}]
    BY <1>3 DEF RsRegister, Granted, IsRequest
  <2>3. rs' = rs \/ (rs'.msg = {} /\ rs'.to = {msg.socket})
    BY <2>2 DEF RsAt
  <2>4. ~RsAck  BY <1>3 DEF RsRegister, RsAck, Granted
  <2> QED  BY <1>1, <2>1, <2>2, <2>3, <2>4
<1>4. CASE RsStart \/ RsPing \/ RsClean \/ RsSweep \/ RsDeregister
  <2>1. UNCHANGED <<eastbound, cp>>
    BY <1>4
    DEF RsStart, RsPing, RsClean, RsSweep, RsDeregister, channelVars, planeVars
  <2>2. rs' = rs \/ (rs'.msg = {} /\ rs'.to = {})
    <3>1. CASE RsDeregister
      BY <3>1 DEF RsDeregister, RsAt
    <3>2. CASE RsStart \/ RsPing \/ RsClean \/ RsSweep
      <4>1. rs' = rs \/ \E pc \in {"recv", "ping", "sweep"} : rs' = RsAt(pc)
        BY <3>2 DEF RsStart, RsPing, RsClean, RsSweep
      <4> QED  BY <4>1 DEF RsAt
    <3> QED  BY <1>4, <3>1, <3>2
  <2>3. ~RsAck
    BY <1>4
    DEF RsStart, RsPing, RsClean, RsSweep, RsDeregister, RsAck, Granted
  <2> QED  BY <1>1, <2>1, <2>2, <2>3
<1>5. CASE RsAck
  <2>1. UNCHANGED <<eastbound, cp>>  BY <1>5 DEF RsAck, planeVars
  <2>2. CASE Fatal /\ UNCHANGED rs  BY <1>1, <2>1, <2>2 DEF Fatal
  <2>3. CASE rs' = RsAt("ping")
    <3>1. rs'.msg = {} /\ rs'.to = {}  BY <2>3 DEF RsAt
    <3>2. Unanswered' \subseteq Unanswered  BY <1>1, <2>1, <3>1
    <3>3. rs.to \subseteq RegisteredSockets  BY DEF AckInv
    <3>4. \A s \in rs.to :
             /\ cp[s] # "off"
             /\ \A n \in 1..Len(eastbound) :
                   IsRequest(eastbound[n]) => eastbound[n].socket # s
      BY <3>3 DEF HypervisorInv, PendingInv
    <3>5. Unanswered' \cap rs.to = {}  BY <2>1, <3>1, <3>4 DEF Unanswered
    <3> QED  BY <3>2, <3>5
  <2> QED  BY <1>5, <2>2, <2>3 DEF RsAck
<1>6. CASE UNCHANGED vars \/ MuxNext \/ MmdNext \/ CpdNext
  <2>1. UNCHANGED <<rs, eastbound, cp>>
    BY <1>6
    DEF vars, threadVars, channelVars, planeVars, MuxNext, MmdNext, CpdNext,
        MuxStart, MuxPoll, MuxDrain, MuxCopy, MuxRelay, MuxLock, MuxAssign,
        MmdRead, MmdSort, MmdDeliver, CpdStart, CpdRead, CpdSort, CpdInject
  <2>2. RsAck => hv' = "fatal" \/ rs.to = {}
    <3>1. RsAck /\ UNCHANGED rs => hv' = "fatal"
      <4>1. rs.pc = "ack" /\ rs' = RsAt("ping") => rs' # rs  BY DEF RsAt
      <4> QED  BY <4>1 DEF RsAck, Fatal
    <3> QED  BY <2>1, <3>1
  <2> QED  BY <1>1, <2>1, <2>2
<1>7. CASE CpNext
  <2>1. UNCHANGED rs
    BY <1>7
    DEF CpNext, threadVars, CpRegister, CpReceive, CpSend, CpEast, CpCrash
  <2>2. RsAck => hv' = "fatal"
    <3>1. rs.pc = "ack" /\ rs' = RsAt("ping") => rs' # rs  BY DEF RsAt
    <3> QED  BY <2>1, <3>1 DEF RsAck, Fatal
  <2>3. PICK s \in Sockets :
          \/ CpReceive(s) \/ CpSend(s) \/ CpCrash(s) \/ CpRegister(s)
          \/ \E action \in EastActions : CpEast(s, action)
    BY <1>7 DEF CpNext
  <2>4. \A t \in Sockets : cp[t] # "off" => cp'[t] # "off"
    BY <1>0, <2>3 DEF CpRegister, CpReceive, CpSend, CpEast, CpCrash, ChannelsTypeOK
  <2>5. CASE UNCHANGED eastbound  BY <1>1, <2>1, <2>2, <2>4, <2>5
  <2>6. ASSUME NEW msg, msg.socket = s, IsRequest(msg) => cp[s] = "off",
               msg \in EastMessage, eastbound' = Append(eastbound, msg)
        PROVE  Unanswered' \subseteq Unanswered
    <3>1. /\ Len(eastbound) \in Nat /\ Len(eastbound') = Len(eastbound) + 1
          /\ \A n \in 1..Len(eastbound) : eastbound'[n] = eastbound[n]
          /\ eastbound'[Len(eastbound) + 1] = msg
      BY <1>0, <2>6 DEF ChannelsTypeOK
    <3>2. \A n \in 1..Len(eastbound') :
            n \in 1..Len(eastbound) \/ n = Len(eastbound) + 1
      BY <3>1
    <3> QED  BY <2>1, <2>4, <2>6, <3>1, <3>2 DEF Unanswered
  <2>7. \A action \in {"REGISTER", "DEREGISTER", "UNKNOWN"} :
           /\ East(action, s) \in EastMessage
           /\ East(action, s).socket = s
           /\ East(action, s).action = action
    BY HypervisorAssumption DEF East, EastMessage
  <2>8. CASE CpRegister(s)
    <3>1. cp[s] = "off" /\ (\/ UNCHANGED eastbound
                            \/ eastbound' = Append(eastbound, East("REGISTER", s)))
      BY <2>8 DEF CpRegister
    <3> QED  BY <2>2, <2>5, <2>6, <2>7, <3>1
  <2>9. ASSUME NEW action \in EastActions, CpEast(s, action)
        PROVE  Unanswered' \subseteq Unanswered
    <3>1. action \in {"DEREGISTER", "UNKNOWN"}  BY HypervisorAssumption
    <3>2. eastbound' = Append(eastbound, East(action, s))  BY <2>9 DEF CpEast
    <3>3. ~IsRequest(East(action, s))  BY <2>7, <3>1 DEF IsRequest
    <3> QED  BY <2>6, <2>7, <3>1, <3>2, <3>3
  <2>10. CASE CpReceive(s) \/ CpSend(s) \/ CpCrash(s)
    BY <2>5, <2>10 DEF CpReceive, CpSend, CpCrash
  <2> QED  BY <2>2, <2>3, <2>8, <2>9, <2>10
<1> QED  BY <1>2, <1>3, <1>4, <1>5, <1>6, <1>7 DEF Next, RsNext

\* What a datagram of the hypervisor does to the sockets (Deliver).
LEMMA DeliverStep ==
    ASSUME HypervisorInv, AckInv, NEW recipients, NEW datagram \in {"ACK", "MAP"},
           Deliver(recipients, datagram), NEW s \in Sockets
    PROVE  /\ Len(inbox'[s]) <= NorthRoom
           /\ s \notin recipients => inbox'[s] = inbox[s]
           /\ datagram = "MAP" /\ inbox[s] \in Seq({"MAP"}) => inbox'[s] \in Seq({"MAP"})
<1>1. /\ inbox[s] \in Seq({"ACK", "MAP"}) /\ Len(inbox[s]) \in Nat
      /\ NorthRoom \in Nat \ {0}
  BY InboxShape
<1>2. Len(inbox[s]) <= NorthRoom  BY DEF AckInv
<1>3. inbox'[s] = IF s \in recipients /\ Deliverable(s)
                  THEN Append(inbox[s], datagram) ELSE inbox[s]
  BY DEF Deliver
<1>4. CASE s \in recipients /\ Deliverable(s)
  <2>1. Len(inbox[s]) < NorthRoom  BY <1>4 DEF Deliverable
  <2>2. Len(inbox'[s]) = Len(inbox[s]) + 1  BY <1>1, <1>3, <1>4
  <2>3. datagram = "MAP" /\ inbox[s] \in Seq({"MAP"}) => inbox'[s] \in Seq({"MAP"})
    BY <1>3, <1>4
  <2> QED  BY <1>1, <1>4, <2>1, <2>2, <2>3
<1>5. CASE ~(s \in recipients /\ Deliverable(s))  BY <1>2, <1>3, <1>5
<1> QED  BY <1>4, <1>5

\* No socket overflows, and a plane without an ACK has messages of the data
\* plane at most: the ACK is what ends its being unanswered (register.c:176,
\* 242-282), and the demuxer writes map messages (demux.c:125, 143).
LEMMA InboxStep ==
    ASSUME HypervisorInv, AckInv, [Next]_vars, NEW s \in Sockets
    PROVE  /\ Len(inbox'[s]) <= NorthRoom
           /\ s \in Unanswered' => inbox'[s] \in Seq({"MAP"})
<1>0. /\ inbox[s] \in Seq({"ACK", "MAP"}) /\ Len(inbox[s]) \in Nat
      /\ NorthRoom \in Nat \ {0} /\ Len(inbox[s]) <= NorthRoom
      /\ s \in Unanswered' => inbox[s] \in Seq({"MAP"})
  BY InboxShape, UnansweredStep DEF AckInv
<1>1. CASE inbox'[s] = inbox[s]  BY <1>0, <1>1
<1>2. CASE RsAck
  <2>1. CASE Fatal /\ UNCHANGED inbox  BY <1>1, <2>1
  <2>2. CASE Deliver(rs.to, "ACK") /\ UNCHANGED tablesVars /\ hv = "up"
    <3>1. /\ Len(inbox'[s]) <= NorthRoom
          /\ s \notin rs.to => inbox'[s] = inbox[s]
      BY <2>2, DeliverStep
    <3>2. hv' # "fatal"  BY <2>2 DEF tablesVars
    <3>3. Unanswered' \cap rs.to = {}  BY <1>2, <3>2, UnansweredStep
    <3> QED  BY <1>0, <3>1, <3>3
  <2>3. hv = "up" \/ UNCHANGED inbox
    BY DEF Next, vars, channelVars
  <2> QED  BY <1>1, <1>2, <2>1, <2>2, <2>3 DEF RsAck
<1>3. CASE MmdDeliver
  <2>1. PICK recipients : Deliver(recipients, "MAP")  BY <1>3 DEF MmdDeliver
  <2> QED  BY <1>0, <2>1, DeliverStep
<1>4. CASE UNCHANGED vars \/ MuxNext \/ CpdNext \/ MmdRead \/ MmdSort
  <2>1. UNCHANGED inbox
    BY <1>4
    DEF vars, channelVars, MuxNext, CpdNext, MuxStart, MuxPoll, MuxDrain, MuxCopy,
        MuxRelay, MuxLock, MuxAssign, MmdRead, MmdSort, CpdStart, CpdRead,
        CpdSort, CpdInject
  <2> QED  BY <1>1, <2>1
<1>5. CASE RsStart \/ RsRecv \/ RsRegister \/ RsPing \/ RsDeregister \/ RsClean
           \/ RsSweep
  <2>1. UNCHANGED inbox
    BY <1>5
    DEF channelVars, RsStart, RsRecv, RsRegister, RsPing, RsDeregister, RsClean, RsSweep
  <2> QED  BY <1>1, <2>1
<1>6. CASE CpNext
  <2>1. PICK t \in Sockets :
          \/ CpReceive(t) \/ CpSend(t) \/ CpCrash(t) \/ CpRegister(t)
          \/ \E action \in EastActions : CpEast(t, action)
    BY <1>6 DEF CpNext
  <2>2. inbox \in [Sockets -> Seq({"ACK", "MAP"})]
    BY DEF HypervisorInv, TypeOK, ChannelsTypeOK
  <2>3. CASE CpReceive(t)
    <3>1. inbox[t] # <<>> /\ inbox' = [inbox EXCEPT ![t] = Tail(@)]
      BY <2>3 DEF CpReceive
    <3>2. CASE s # t  BY <1>1, <2>2, <3>1, <3>2
    <3>3. CASE s = t
      <4>1. inbox'[s] = Tail(inbox[s]) /\ inbox[s] # <<>>  BY <2>2, <3>1, <3>3
      <4>2. Len(Tail(inbox[s])) <= NorthRoom  BY <1>0, <4>1
      <4>3. s \in Unanswered' => Tail(inbox[s]) \in Seq({"MAP"})  BY <1>0, <4>1
      <4> QED  BY <4>1, <4>2, <4>3
    <3> QED  BY <3>2, <3>3
  <2>4. CASE CpCrash(t)
    <3>1. inbox'[s] = inbox[s] \/ inbox'[s] = <<>>  BY <2>2, <2>4 DEF CpCrash
    <3>2. Len(<<>>) <= NorthRoom /\ <<>> \in Seq({"MAP"})  BY <1>0
    <3> QED  BY <1>1, <3>1, <3>2
  <2>5. CASE CpSend(t) \/ CpRegister(t) \/ \E action \in EastActions : CpEast(t, action)
    <3>1. UNCHANGED inbox  BY <2>5 DEF CpSend, CpRegister, CpEast
    <3> QED  BY <1>1, <3>1
  <2> QED  BY <2>1, <2>3, <2>4, <2>5
<1> QED  BY <1>2, <1>3, <1>4, <1>5, <1>6 DEF Next, RsNext, MmdNext

\* The sockets are empty at the start.
LEMMA InitAck ==
    ASSUME Init  PROVE AckInv
<1>1. rs.to = {}  BY DEF Init, RsAt
<1>2. ASSUME NEW s \in Sockets  PROVE inbox[s] = <<>>  BY DEF Init
<1>3. NorthRoom \in Nat \ {0}  BY HypervisorAssumption, Zenon
<1>4. Len(<<>>) <= NorthRoom /\ <<>> \in Seq({"MAP"})  BY <1>3
<1>5. Unanswered \subseteq Sockets  BY DEF Unanswered
<1> QED  BY <1>1, <1>2, <1>4, <1>5 DEF AckInv

\* Every step keeps it.
LEMMA StepAck ==
    ASSUME HypervisorInv, AckInv, [Next]_vars  PROVE AckInv'
<1>1. Unanswered' \subseteq Sockets  BY DEF Unanswered
<1> QED  BY <1>1, AnsweredRegistered, InboxStep DEF AckInv

\* An update of the assignments can end the process by a signal only.
LEMMA UpdateEndsBySignal ==
    ASSUME NEW msg, NEW index, Update(msg, index)
    PROVE  hv' = hv \/ hv' = "crashed"
BY DEF Update, add_assignment, remove_assignment, Overwrite, WildWrite, Crash,
       WriteAssignee, AppendEntry, Discard, Untouched, tablesVars

\* The process ends for a reason FatalHasCause lists: each fatal() of the
\* registering server (register.c:162-164, 226-229, 275-279) is reached on one.
LEMMA StepFatal ==
    ASSUME HypervisorInv, AckInv, FatalHasCause, [Next]_vars
    PROVE  FatalHasCause'
<1>0. RsTypeOK  BY DEF HypervisorInv, TypeOK
<1>1. CASE UNCHANGED vars
  <2>1. UNCHANGED <<hv, rs, mmm, cpd, cp, inbox>>
    BY <1>1 DEF vars, tablesVars, threadVars, channelVars, planeVars
  <2> QED  BY <2>1 DEF FatalHasCause, Answering
<1>2. ASSUME hv' # "fatal"  PROVE FatalHasCause'  BY <1>2 DEF FatalHasCause
<1>3. ASSUME UNCHANGED <<rs, mmm, cpd, cp, inbox>>,
             \/ mmm.pc = "start" \/ cpd.pc = "start"
             \/ \E s \in Answering :
                   \/ cp[s] = "down"
                   \/ inbox[s] = [n \in 1..NorthRoom |-> "MAP"]
      PROVE  FatalHasCause'
  BY <1>3 DEF FatalHasCause, Answering
<1>4. CASE RsRegister /\ hv = "up"
  <2>1. PICK msg \in rs.msg :
          \/ cp[msg.socket] = "down" /\ UNCHANGED rs
          \/ add_control_plane(msg.socket, msg.port)
    BY <1>4 DEF RsRegister
  <2>2. CASE cp[msg.socket] = "down" /\ UNCHANGED rs
    <3>1. UNCHANGED <<mmm, cpd, cp, inbox>>
      BY <1>4 DEF RsRegister, channelVars, planeVars
    <3>2. msg.socket \in Answering  BY DEF Answering
    <3> QED  BY <1>3, <2>2, <3>1, <3>2
  <2>3. CASE add_control_plane(msg.socket, msg.port)
    <3>1. hv' # "fatal"  BY <1>4, <2>3 DEF add_control_plane
    <3> QED  BY <1>2, <3>1
  <2> QED  BY <2>1, <2>2, <2>3
<1>5. CASE RsAck /\ hv = "up"
  <2>1. CASE UNCHANGED tablesVars
    <3>1. hv' # "fatal"  BY <1>5, <2>1 DEF tablesVars
    <3> QED  BY <1>2, <3>1
  <2>2. CASE AckFails /\ UNCHANGED <<rs, inbox>>
    <3>1. UNCHANGED <<mmm, cpd, cp>>  BY <1>5 DEF RsAck, planeVars
    <3>2. CASE cpd.pc = "start"  BY <1>3, <2>2, <3>1, <3>2
    <3>3. ASSUME NEW s \in rs.to, ~Deliverable(s)  PROVE FatalHasCause'
      <4>1. s \in Sockets /\ s \in Answering  BY <1>0 DEF RsTypeOK, Answering
      <4>2. CASE cp[s] = "down"  BY <1>3, <2>2, <3>1, <4>1, <4>2
      <4>3. CASE ~(Len(inbox[s]) < NorthRoom)
        <5>1. s \in Unanswered  BY <4>1 DEF Unanswered
        <5>2. inbox[s] \in Seq({"MAP"}) /\ Len(inbox[s]) <= NorthRoom
          BY <4>1, <5>1 DEF AckInv
        <5>3. Len(inbox[s]) \in Nat /\ NorthRoom \in Nat \ {0}  BY <4>1, InboxShape
        <5>4. Len(inbox[s]) = NorthRoom  BY <4>3, <5>2, <5>3
        <5>5. inbox[s] = [n \in 1..NorthRoom |-> "MAP"]  BY <5>2, <5>4
        <5> QED  BY <1>3, <2>2, <3>1, <4>1, <5>5
      <4> QED  BY <3>3, <4>2, <4>3 DEF Deliverable
    <3> QED  BY <2>2, <3>2, <3>3 DEF AckFails
  <2> QED  BY <1>5, <2>1, <2>2 DEF RsAck
<1>6. CASE RsPing /\ hv = "up"
  <2>1. CASE UNCHANGED tablesVars
    <3>1. hv' # "fatal"  BY <1>6, <2>1 DEF tablesVars
    <3> QED  BY <1>2, <3>1
  <2>2. CASE mmm.pc = "start" /\ UNCHANGED rs
    <3>1. UNCHANGED <<mmm, cpd, cp, inbox>>  BY <1>6 DEF RsPing, planeVars
    <3> QED  BY <1>3, <2>2, <3>1
  <2> QED  BY <1>6, <2>1, <2>2 DEF RsPing
<1>7. CASE hv = "up" /\ (RsStart \/ RsRecv \/ RsDeregister \/ RsClean \/ RsSweep)
  <2>1. hv' # "fatal"
    BY <1>7
    DEF RsStart, RsRecv, RsDeregister, RsClean, RsSweep, tablesVars,
        remove_control_plane, remove_assignee, SweepDiscard, SweepKeep, SweepEnd,
        Discard, Crash
  <2> QED  BY <1>2, <2>1
<1>8. CASE hv = "up" /\ (MuxNext \/ MmdNext \/ CpdNext \/ CpNext)
  <2>1. hv' # "fatal"
    <3>1. CASE MuxAssign
      <4>1. hv' = hv \/ hv' = "crashed"
        BY <3>1, UpdateEndsBySignal DEF MuxAssign, tablesVars
      <4> QED  BY <1>8, <4>1
    <3>2. CASE MmdSort \/ CpdSort
      BY <1>8, <3>2 DEF MmdSort, CpdSort, Crash, tablesVars
    <3>3. CASE UNCHANGED tablesVars  BY <1>8, <3>3 DEF tablesVars
    <3> QED
      BY <1>8, <3>1, <3>2, <3>3
      DEF MuxNext, MmdNext, CpdNext, CpNext, MuxStart, MuxPoll, MuxDrain, MuxCopy,
          MuxRelay, MuxLock, MmdRead, MmdDeliver, CpdStart, CpdRead, CpdInject,
          CpRegister, CpReceive, CpSend, CpEast, CpCrash
  <2> QED  BY <1>2, <2>1
<1> QED  BY <1>1, <1>4, <1>5, <1>6, <1>7, <1>8 DEF Next, RsNext

\* For every number of planes, every size of the sockets and every interleaving
\* (register.c:162-164, 226-229, 275-279): the registering server ends the
\* process only because a thread has not started, the plane it is serving has
\* died, or messages of the data plane alone fill that plane's socket.
THEOREM HypervisorFatalHasCause == Spec => []FatalHasCause
<1>1. Init => FatalHasCause  BY DEF Init, TablesInit, FatalHasCause
<1>2. Init => AckInv  BY InitAck
<1>3. HypervisorInv /\ AckInv /\ [Next]_vars => AckInv'  BY StepAck
<1>4. HypervisorInv /\ AckInv /\ FatalHasCause /\ [Next]_vars => FatalHasCause'
  BY StepFatal
<1> QED  BY <1>1, <1>2, <1>3, <1>4, HypervisorInvariant, PTL DEF Spec
=============================================================================
