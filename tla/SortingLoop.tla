---------------------------- MODULE SortingLoop ----------------------------
(***************************************************************************)
(* flex_sort as sorting.c computes it: one pass over the assignments with  *)
(* a running maximum, whole bytes compared with memcmp and the leftover    *)
(* bits under a mask.  A byte is the sequence of its bits, most            *)
(* significant first.  The table is an arbitrary one, grown entry by       *)
(* entry, so that the invariant compares the loop with the closed form of  *)
(* Sorting on every table of at most MaxEntries entries.                   *)
(***************************************************************************)
EXTENDS Sorting

CONSTANTS ByteBits,    \* bits of a byte: 8 in the code
          MaxEntries,  \* bound on the table
          Lengths      \* prefix lengths tried

VARIABLE assignments   \* [0..n-1 -> [eid, assignee_index]]

ASSUME BytesAssumption == /\ ByteBits \in Nat \ {0}
                          /\ Width % ByteBits = 0
                          /\ MaxEntries \in Nat

Bytes == 0..(Width \div ByteBits) - 1

\* The byte at index n of an address.
Byte(address, n) == [b \in 1..ByteBits |-> address[n * ByteBits + b]]

ZeroByte == [b \in 1..ByteBits |-> 0]

\* Mutant: the table without its 0x00 entry, one bit too many compared.
precomputed_masks_Shifted ==
    [k \in 0..(ByteBits - 1) |->
        [b \in 1..ByteBits |-> IF b <= k + 1 THEN 1 ELSE 0]]

\* 0x00, 0x80, 0xC0, ...: the k leading bits of a byte.
precomputed_masks ==
    [k \in 0..(ByteBits - 1) |-> [b \in 1..ByteBits |-> IF b <= k THEN 1 ELSE 0]]

\* The & of two bytes.
BitAnd(x, y) == [b \in 1..ByteBits |-> IF x[b] = 1 /\ y[b] = 1 THEN 1 ELSE 0]

memcmp(a, b, n) == \A k \in 0..(n - 1) : Byte(a, k) = Byte(b, k)

\* The tests on the lengths; length is significant_eid's.
Compared(length, stored, exact) ==
    /\ ~(exact /\ length # stored.prefix_length)
    /\ length >= stored.prefix_length

\* The tests on the bits.
SameBits(prefix, stored) ==
    LET whole_bytes == stored.prefix_length \div ByteBits
        left_bits == stored.prefix_length % ByteBits
        mask == precomputed_masks[left_bits]
    IN  /\ memcmp(prefix, stored.prefix, whole_bytes)
        /\ \/ left_bits = 0
           \/ BitAnd(Byte(prefix, whole_bytes), mask)
                = BitAnd(Byte(stored.prefix, whole_bytes), mask)

\* "Sanitizing prefix_length".
Sanitized(length) == IF length > Width THEN Width ELSE length

\* "Prefix is longer (or equal) than previous entries".
Improves(length, max_prefix_length) == length >= max_prefix_length

\* One round: max_prefix_length, *control_plane_index and the length of
\* significant_eid, which the comparison with an entry cuts to Width.
Round(before, entry, prefix, exact) ==
    IF ~Compared(before.length, entry.eid, exact) THEN before
    ELSE IF /\ SameBits(prefix, entry.eid)
            /\ Improves(entry.eid.prefix_length, before.max)
    THEN [max |-> entry.eid.prefix_length, index |-> entry.assignee_index,
          length |-> Sanitized(before.length)]
    ELSE [before EXCEPT !.length = Sanitized(@)]

\* The values of the loop after i rounds.
Scan(table, eid, exact, assignments_ctr) ==
    LET after[i \in 0..assignments_ctr] ==
            IF i = 0
            THEN [max |-> -1, index |-> Unwritten, length |-> eid.prefix_length]
            ELSE Round(after[i - 1], table[i - 1], eid.prefix, exact)
    IN  after

SortingLoopResult(table, planes, default, eid, exact, assignments_ctr) ==
    LET zeroes == \A n \in Bytes : Byte(eid.prefix, n) = ZeroByte
        final == Scan(table, eid, exact, assignments_ctr)[assignments_ctr]
    IN  IF planes = 0 THEN Verdict("ERR", Unwritten)
        ELSE IF zeroes /\ eid.prefix_length = 0 THEN Verdict("ALL", Unwritten)
        ELSE IF zeroes /\ eid.prefix_length = Width THEN Verdict("ERR", Unwritten)
        ELSE IF final.max > -1 THEN Verdict("ONE", final.index)
        ELSE Verdict("NON", default)

----------------------------------------------------------------------------
EntryCount == CHOOSE n \in 0..MaxEntries : DOMAIN assignments = 0..(n - 1)

TriedEids == {e \in AssignedEid : e.prefix_length \in Lengths}

Init == assignments = [i \in {} |-> Verdict("NON", 0)]

\* Any further entry; its assignee is its place in the table, so that two
\* entries never give the same answer by accident.
Append(eid) ==
    /\ EntryCount < MaxEntries
    /\ assignments' = [i \in 0..EntryCount |->
                          IF i = EntryCount THEN [eid |-> eid, assignee_index |-> i]
                          ELSE assignments[i]]

Next == \E eid \in TriedEids : Append(eid)

Spec == Init /\ [][Next]_assignments

----------------------------------------------------------------------------
\* The loop of flex_sort (sorting.c:51-121) answers what longest-prefix match
\* with the later entry preferred answers, for every table, every EID (lengths
\* above Width included), exact or not, and with no control plane registered.
LoopIsLongestPrefixMatch ==
    \A eid \in {e \in Eid : e.prefix_length \in Lengths \cup {MaxLength}},
       exact \in BOOLEAN, planes \in {0, 1} :
        SortingLoopResult(assignments, planes, 0, eid, exact, EntryCount)
            = flex_sort(assignments, planes, 0, eid, exact)
=============================================================================
