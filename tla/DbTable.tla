------------------------------ MODULE DbTable ------------------------------
(***************************************************************************)
(* The prefix table of the control plane (radix/db_table.c): a binary trie *)
(* with compressed paths, one node per stored prefix and one "glue" node   *)
(* where two stored prefixes part.  This module has no state: a table is a *)
(* record, and every function of db_table.c that changes one is an         *)
(* operator that returns the changed record.                               *)
(*                                                                         *)
(* A prefix is the sequence of its bits.  A node is named by its prefix:   *)
(* the table never holds two nodes for one prefix.  Address bits past the  *)
(* prefix length are zero (apply_mask).                                    *)
(***************************************************************************)
EXTENDS Naturals, Sequences, FiniteSets

CONSTANTS
    MaxLen,   \* bits of an address (32 or 128 in the code)
    PNBBY,    \* bits of a byte (8 in the code)
    NULL      \* the null pointer

Prefix == UNION {[1..n -> {0, 1}] : n \in 0..MaxLen}

ASSUME DbTableAssumption ==
    /\ MaxLen \in Nat \ {0}
    /\ PNBBY \in Nat \ {0}
    /\ NULL \notin Prefix

\* Bit i of the address of p, the first one being bit 0.
Bit(p, i) == IF i < Len(p) THEN p[i + 1] ELSE 0

\* Byte i of two addresses is the same.
SameByte(n, p, i) ==
    \A k \in (i * PNBBY)..(i * PNBBY + PNBBY - 1) : Bit(n, k) = Bit(p, k)

\* "If n includes p prefix then return 1": the odd bits through maskbit, then
\* the whole bytes.
prefix_match(n, p) ==
    LET offset == Len(n) \div PNBBY
        shift  == Len(n) % PNBBY
    IN  /\ Len(n) <= Len(p)
        /\ \A k \in 0..(shift - 1) :
              Bit(n, offset * PNBBY + k) = Bit(p, offset * PNBBY + k)
        /\ \A i \in 0..(offset - 1) : SameByte(n, p, i)

\* The common prefix of node n and new prefix p: first whole bytes, as many as
\* p has, then bit by bit up to the length of p.
route_common(n, p) ==
    LET whole == {i \in 0..(Len(p) \div PNBBY) :
                     \A j \in 0..(i - 1) : SameByte(n, p, j)}
        bytes == CHOOSE i \in whole : \A j \in whole : j <= i
        lens  == {l \in (bytes * PNBBY)..Len(p) :
                     \A k \in (bytes * PNBBY)..(l - 1) : Bit(n, k) = Bit(p, k)}
        len   == CHOOSE l \in lens : \A m \in lens : m <= l
    IN  SubSeq(n, 1, len)

check_bit(p, len) == Bit(p, len)

----------------------------------------------------------------------------
\* struct db_table and struct db_node.
db_table_init == [top |-> NULL, node |-> [x \in {} |-> NULL], count |-> 0]

db_node_create == [link |-> <<NULL, NULL>>, parent |-> NULL, info |-> NULL,
                   flags |-> NULL, lock |-> 0]

Nodes(t) == DOMAIN t.node

db_node_set(t, p) ==
    [t EXCEPT !.node = [x \in Nodes(t) \cup {p} |->
                           IF x = p THEN db_node_create ELSE t.node[x]],
              !.count = @ + 1]

\* Child x hangs below node n on the side of its first bit after n; below no
\* node it is the top of the table.
set_link(t, n, x) ==
    IF n = NULL
    THEN [t EXCEPT !.top = x]
    ELSE [t EXCEPT !.node[n].link[check_bit(x, Len(n)) + 1] = x,
                   !.node[x].parent = n]

db_lock_node(t, x) == [t EXCEPT !.node[x].lock = @ + 1]

\* The walk every lookup makes: from the top down the side of the next bit of
\* p, as long as the node includes p.  Covers is the loop's condition, Walk the
\* n-th value of its variable node.
Covers(t, x, p) == x # NULL /\ Len(x) <= Len(p) /\ prefix_match(x, p)

Walk(t, p, stop) ==
    LET at[n \in 0..(MaxLen + 1)] ==
          IF n = 0 THEN t.top
          ELSE LET x == at[n - 1]
               IN  IF Covers(t, x, p) /\ x # stop
                   THEN t.node[x].link[check_bit(p, Len(x)) + 1]
                   ELSE x
    IN  at

Visited(t, p) ==
    {x \in {Walk(t, p, NULL)[n] : n \in 0..(MaxLen + 1)} : Covers(t, x, p)}

\* The node a walk saw last: lengths grow along a walk.
Last(S) == IF S = {} THEN NULL ELSE CHOOSE x \in S : \A y \in S : Len(y) <= Len(x)

\* Mutant: a node without data is an answer too.
db_node_match_AnyNode(t, p) == Last(Visited(t, p))

\* The three lookups; each of them also locks the node it returns.
db_node_match(t, p) == Last({x \in Visited(t, p) : t.node[x].info # NULL})

db_node_match_prefix(t, p) == Last(Visited(t, p))

db_node_match_exact(t, p) ==
    Last({x \in Visited(t, p) : Len(x) = Len(p) /\ t.node[x].info # NULL})

\* Find the node of p or add it: below the last node that includes p, or, when
\* another node is in the way, below a glue node where the two part.
db_node_get(t, p) ==
    LET node  == Walk(t, p, p)[MaxLen + 1]
        match == Last(Visited(t, p) \ {p})
        glue  == route_common(node, p)
        add   == set_link(db_node_set(t, p), match, p)
        split == set_link(set_link(db_node_set(t, glue), glue, node), match, glue)
        fork  == IF glue = p THEN split
                 ELSE set_link(db_node_set(split, p), glue, p)
    IN  IF node = p THEN db_lock_node(t, p)
        ELSE IF node = NULL THEN db_lock_node(add, p)
        ELSE db_lock_node(fork, p)

db_node_set_info(t, x, v) == [t EXCEPT !.node[x].info = v]

\* One round of db_node_delete: a node with at most one child is replaced by it.
db_node_unlink(t, x) ==
    LET child  == IF t.node[x].link[1] # NULL THEN t.node[x].link[1]
                  ELSE t.node[x].link[2]
        parent == t.node[x].parent
        side   == IF parent = NULL THEN 0
                  ELSE CHOOSE b \in 1..2 : t.node[parent].link[b] = x
    IN  [t EXCEPT !.top = IF parent = NULL THEN child ELSE @,
                  !.node = [y \in Nodes(t) \ {x} |->
                              IF y = parent
                              THEN [t.node[y] EXCEPT !.link[side] = child]
                              ELSE IF y = child
                              THEN [t.node[y] EXCEPT !.parent = parent]
                              ELSE t.node[y]],
                  !.count = @ - 1]

\* Mutant: stubs above the removed node stay.
db_node_delete_StubsStay(t, x) ==
    IF t.node[x].link[1] # NULL /\ t.node[x].link[2] # NULL THEN t
    ELSE db_node_unlink(t, x)

\* Remove node x, and its parents as long as they are unlocked stubs.
db_node_delete(t, x) ==
    LET del[n \in 0..(MaxLen + 1)] ==
          IF n = 0 THEN [t |-> t, x |-> x]
          ELSE LET d == del[n - 1]
               IN  IF \/ d.x = NULL
                      \/ d.t.node[d.x].lock > 0
                      \/ d.t.node[d.x].link[1] # NULL /\ d.t.node[d.x].link[2] # NULL
                   THEN [d EXCEPT !.x = NULL]
                   ELSE [t |-> db_node_unlink(d.t, d.x), x |-> d.t.node[d.x].parent]
    IN  del[MaxLen + 1].t

db_unlock_node(t, x) ==
    LET u == [t EXCEPT !.node[x].lock = @ - 1]
    IN  IF u.node[x].lock = 0 THEN db_node_delete(u, x) ELSE u

\* The nodes reached from x over links (the walk of ms_get_tree and of
\* _ms_clean_eid_mapping).
Subtree(t, x) ==
    LET sub[n \in 0..MaxLen] ==
          IF n = 0 THEN {x} \ {NULL}
          ELSE LET S == sub[n - 1]
               IN  S \cup ({t.node[y].link[b] : y \in S, b \in 1..2} \ {NULL})
    IN  sub[MaxLen]
============================================================================
