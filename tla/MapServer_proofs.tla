-------------------------- MODULE MapServer_proofs --------------------------
(***************************************************************************)
(* The map server keeps the EID nodes its sites point to; an update        *)
(* changes the site it is for and those that meet it, with the site's key  *)
(* or without authentication; and where no update raced with another, the  *)
(* stored hash is that of the stored mappings.                             *)
(* All of it is for any number of workers.  The prefix table is DbTable's, *)
(* with the facts of DbTable_proofs.                                       *)
(***************************************************************************)
EXTENDS MapServer, DbTable_proofs

----------------------------------------------------------------------------
(***************************************************************************)
(* Tables of the map server.                                               *)
(***************************************************************************)
\* A linked table with some data in it.
Shaped(t) == Linked(t) /\ \E Data : NULL \in Data /\ t \in Table(Data)

\* One with the root and with flags of their type.
MsTable(t) ==
    /\ Shaped(t)
    /\ <<>> \in Nodes(t)
    /\ \A x \in Nodes(t) : Flags(t, x) \in MappingFlags \cup {NULL}

\* A table of some data is one of more data.
LEMMA MoreData ==
    ASSUME NEW Data, NEW More, Data \subseteq More, NEW t \in Table(Data)
    PROVE  t \in Table(More)
<1>1. /\ t = [top |-> t.top, node |-> t.node, count |-> t.count]
      /\ t.top \in Pointer /\ t.count \in Int
      /\ Nodes(t) \subseteq Prefix /\ t.node \in [Nodes(t) -> Node(Data)]
  BY TableShape
<1>2. Node(Data) \subseteq Node(More)  BY DEF Node
<1>3. t.node \in [Nodes(t) -> Node(More)]
  <2>1. PICK D, f : D = Nodes(t) /\ f = t.node  OBVIOUS
  <2>2. f \in [D -> Node(Data)]  BY <1>1, <2>1
  <2>3. f \in [D -> Node(More)]  BY <1>2, <2>2
  <2> QED  BY <2>1, <2>3
<1>4. PICK D : D = Nodes(t) /\ D \in SUBSET Prefix  BY <1>1
<1> QED  BY <1>1, <1>3, <1>4, TableIntro

\* Locks are left out (Settle): nothing else changes.
LEMMA SettleEffect ==
    ASSUME NEW t, Shaped(t), NEW u, u = Settle(t)
    PROVE  /\ Shaped(u) /\ Nodes(u) = Nodes(t)
           /\ \A y \in Nodes(t) : Info(u, y) = Info(t, y) /\ Flags(u, y) = Flags(t, y)
<1>1. PICK Data : NULL \in Data /\ t \in Table(Data)  BY DEF Shaped
<1>2. /\ t = [top |-> t.top, node |-> t.node, count |-> t.count]
      /\ t.top \in Pointer /\ t.count \in Int
      /\ Nodes(t) \subseteq Prefix /\ t.node \in [Nodes(t) -> Node(Data)]
  BY <1>1, TableShape
<1>3. PICK f : f = [x \in Nodes(t) |-> [t.node[x] EXCEPT !.lock = 0]]  OBVIOUS
<1>4. ASSUME NEW x \in Nodes(t)
      PROVE  /\ f[x] \in Node(Data) /\ f[x].link = t.node[x].link
             /\ f[x].parent = t.node[x].parent /\ f[x].info = t.node[x].info
             /\ f[x].flags = t.node[x].flags
  <2>1. t.node[x] \in Node(Data)  BY <1>2
  <2>2. f[x] = [t.node[x] EXCEPT !.lock = 0]  BY <1>3
  <2>3. PICK n : n = t.node[x]  OBVIOUS
  <2> QED  BY <2>1, <2>2, <2>3 DEF Node
<1>5. f \in [Nodes(t) -> Node(Data)]  BY <1>3, <1>4
<1>6. u = [t EXCEPT !.count = 0, !.node = f]  BY <1>3 DEF Settle
<1>7. u = [top |-> t.top, node |-> f, count |-> 0]  BY <1>2, <1>6
<1>8. u \in Table(Data) /\ Nodes(u) = Nodes(t)
  <2>1. PICK D : D = Nodes(t) /\ D \in SUBSET Prefix  BY <1>2
  <2> QED  BY <1>2, <1>5, <1>7, <2>1, TableIntro
<1>9. \A y \in Nodes(t) : /\ \A b \in 1..2 : Kid(u, y, b) = Kid(t, y, b)
                          /\ Up(u, y) = Up(t, y) /\ Info(u, y) = Info(t, y)
                          /\ Flags(u, y) = Flags(t, y)
  BY <1>4, <1>7 DEF Kid, Up, Info, Flags
<1>10. Linked(u)
  <2>1. Linked(t) /\ u.top = t.top  BY <1>7 DEF Shaped
  <2> QED  BY <1>8, <1>9, <2>1, SameLinks
<1> QED  BY <1>1, <1>8, <1>9, <1>10 DEF Shaped

\* A node is found or added: the others keep their data and flags, and new nodes
\* have none.
LEMMA GetNode ==
    ASSUME NEW t, Shaped(t), NEW p \in Prefix, NEW u, u = Settle(db_node_get(t, p))
    PROVE  /\ Shaped(u) /\ Nodes(t) \cup {p} \subseteq Nodes(u)
           /\ \A y \in Nodes(t) : Info(u, y) = Info(t, y) /\ Flags(u, y) = Flags(t, y)
           /\ \A y \in Nodes(u) \ Nodes(t) : Info(u, y) = NULL /\ Flags(u, y) = NULL
<1>1. PICK Data : NULL \in Data /\ t \in Table(Data)  BY DEF Shaped
<1>2. Linked(t)  BY DEF Shaped
<1>3. PICK g : g = db_node_get(t, p)  OBVIOUS
<1>4. /\ g \in Table(Data) /\ Linked(g) /\ Nodes(t) \cup {p} \subseteq Nodes(g)
      /\ \A y \in Nodes(t) : Info(g, y) = Info(t, y) /\ Marks(g, y) = Marks(t, y)
      /\ p \notin Nodes(t) => Info(g, p) = NULL /\ Marks(g, p) = NULL
      /\ \A y \in Nodes(g) \ (Nodes(t) \cup {p}) : Info(g, y) = NULL /\ Marks(g, y) = NULL
  BY <1>1, <1>2, <1>3, GetEffect
<1>5. Shaped(g)  BY <1>1, <1>4 DEF Shaped
<1>6. /\ Shaped(u) /\ Nodes(u) = Nodes(g)
      /\ \A y \in Nodes(g) : Info(u, y) = Info(g, y) /\ Flags(u, y) = Flags(g, y)
  BY <1>3, <1>5, SettleEffect
<1>7. \A y : Flags(g, y) = Marks(g, y) /\ Flags(t, y) = Marks(t, y)  BY DEF Flags, Marks
<1> QED  BY <1>4, <1>6, <1>7

\* t with other flags at node x.
WithFlags(t, x, f) == [t EXCEPT !.node[x].flags = f]

\* The flags of a node change nothing else.
LEMMA SetFlags ==
    ASSUME NEW t, Shaped(t), NEW x \in Nodes(t), NEW f,
           NEW u, u = WithFlags(t, x, f)
    PROVE  /\ Shaped(u) /\ Nodes(u) = Nodes(t)
           /\ \A y \in Nodes(t) : /\ Info(u, y) = Info(t, y)
                                  /\ Flags(u, y) = IF y = x THEN f ELSE Flags(t, y)
<1>1. PICK Less : NULL \in Less /\ t \in Table(Less)  BY DEF Shaped
<1>2. PICK Data : Data = Less \cup {f}  OBVIOUS
<1>3. NULL \in Data /\ t \in Table(Data) /\ f \in Data
  <2>1. Less \subseteq Data  BY <1>2
  <2> QED  BY <1>1, <1>2, <2>1, MoreData
<1>4. t.node \in [Nodes(t) -> Node(Data)]  BY <1>3, TableShape
<1>5. PICK r : r = [t.node[x] EXCEPT !.flags = f]  OBVIOUS
<1>6. /\ r \in Node(Data) /\ r.link = t.node[x].link /\ r.parent = t.node[x].parent
      /\ r.info = t.node[x].info /\ r.flags = f
  BY <1>3, <1>4, <1>5 DEF Node
<1>7. PICK g : g = [t.node EXCEPT ![x] = r]  OBVIOUS
<1>8. /\ g \in [Nodes(t) -> Node(Data)] /\ g[x] = r
      /\ \A y \in Nodes(t) \ {x} : g[y] = t.node[y]
  BY <1>4, <1>6, <1>7
<1>9. u = [t EXCEPT !.node = g]  BY <1>5, <1>7 DEF WithFlags
<1>10. u = [top |-> t.top, node |-> g, count |-> t.count]  BY <1>3, <1>9, TableShape
<1>11. u \in Table(Data) /\ Nodes(u) = Nodes(t)
  BY <1>3, <1>8, <1>10, TableShape, TableIntro
<1>12. \A y \in Nodes(t) : /\ \A b \in 1..2 : Kid(u, y, b) = Kid(t, y, b)
                           /\ Up(u, y) = Up(t, y) /\ Info(u, y) = Info(t, y)
                           /\ Flags(u, y) = IF y = x THEN f ELSE Flags(t, y)
  BY <1>6, <1>8, <1>10 DEF Kid, Up, Info, Flags
<1>13. Linked(u)
  <2>1. Linked(t) /\ u.top = t.top  BY <1>10 DEF Shaped
  <2> QED  BY <1>11, <1>12, <2>1, SameLinks
<1> QED  BY <1>3, <1>11, <1>12, <1>13 DEF Shaped

\* Nor does its data.
LEMMA SetInfo ==
    ASSUME NEW t, Shaped(t), NEW x \in Nodes(t), NEW v,
           NEW u, u = db_node_set_info(t, x, v)
    PROVE  /\ Shaped(u) /\ Nodes(u) = Nodes(t)
           /\ \A y \in Nodes(t) : /\ Flags(u, y) = Flags(t, y)
                                  /\ Info(u, y) = IF y = x THEN v ELSE Info(t, y)
<1>1. PICK Less : NULL \in Less /\ t \in Table(Less)  BY DEF Shaped
<1>2. PICK Data : Data = Less \cup {v}  OBVIOUS
<1>3. NULL \in Data /\ t \in Table(Data) /\ v \in Data
  <2>1. Less \subseteq Data  BY <1>2
  <2> QED  BY <1>1, <1>2, <2>1, MoreData
<1>4. /\ u \in Table(Data) /\ Nodes(u) = Nodes(t) /\ u.top = t.top
      /\ \A y \in Nodes(t) :
           /\ \A b \in 1..2 : Kid(u, y, b) = Kid(t, y, b)
           /\ Up(u, y) = Up(t, y) /\ Marks(u, y) = Marks(t, y)
           /\ Info(u, y) = IF y = x THEN v ELSE Info(t, y)
  BY <1>3, SetInfoEffect
<1>5. Linked(u)
  <2>1. Linked(t)  BY DEF Shaped
  <2> QED  BY <1>4, <2>1, SameLinks
<1> QED  BY <1>3, <1>4, <1>5 DEF Shaped, Flags, Marks

----------------------------------------------------------------------------
(***************************************************************************)
(* The loops over lists are folds.  One round of each, by loop: "locators" *)
(* adds the configured locators to the node at, "clean" cleans the         *)
(* EID nodes of a site, "ordered" sorts the locators of a record that is   *)
(* sent, "table" enters the mappings of an xTR, "register" collects the    *)
(* locators of a record that was received.                                 *)
(***************************************************************************)
FoldOp(loop, at, t, x) ==
    IF loop = "locators" THEN generic_mapping_add_rloc(t, at, x)
    ELSE IF loop = "clean" THEN CleanEidNode(t, x)
    ELSE IF loop = "ordered" THEN _insert_ip_ordered(t, x)
    ELSE IF loop = "table" THEN ConfiguredMapping(t, x.eid, x.locs, ms_new_node_ex({"MAPP_XTR"}))
    ELSE add_locator(t, x)

\* The recursive function inside FoldLeft, and the value of FoldLeft.
IsFold(it, loop, at, base, seq) ==
    it = [s \in SUBSET DOMAIN seq |->
            IF s = {} THEN base
            ELSE FoldOp(loop, at, it[s \ {Seqs!Max(s)}], seq[Seqs!Max(s)])]

Fold(loop, at, base, seq) == (CHOOSE it : IsFold(it, loop, at, base, seq))[DOMAIN seq]

\* The locators of a configured mapping (parser.c 517-546).
LEMMA LocatorsIsFold ==
    ASSUME NEW t, NEW p, NEW locs
    PROVE  Seqs!FoldLeft(LAMBDA u, e : generic_mapping_add_rloc(u, p, e), t, locs)
             = Fold("locators", p, t, locs)
BY DEF Seqs!FoldLeft, Seqs!MapThenFoldSet, Fold, IsFold, FoldOp

\* The EID nodes of a site (udp.c 3025-3052).
LEMMA CleanIsFold ==
    ASSUME NEW t, NEW eids
    PROVE  _ms_clean_site_mapping(t, eids) = Fold("clean", NULL, t, eids)
BY DEF _ms_clean_site_mapping, Seqs!FoldLeft, Seqs!MapThenFoldSet, Fold, IsFold, FoldOp

\* The locators of a record that is sent (udp.c 3375-3481).
LEMMA OrderedIsFold ==
    ASSUME NEW locs
    PROVE  Seqs!FoldLeft(_insert_ip_ordered, <<>>, locs) = Fold("ordered", NULL, <<>>, locs)
BY DEF Seqs!FoldLeft, Seqs!MapThenFoldSet, Fold, IsFold, FoldOp

\* The locators of a record (udp.c 3277-3348).
LEMMA RegisterIsFold ==
    ASSUME NEW locs
    PROVE  Seqs!FoldLeft(add_locator, <<>>, locs) = Fold("register", NULL, <<>>, locs)
BY DEF Seqs!FoldLeft, Seqs!MapThenFoldSet, Fold, IsFold, FoldOp

\* The table of an xTR (parser.c 517-546).
LEMMA TableIsFold ==
    ASSUME NEW c \in UNION {Mappings[e] : e \in Etrs}
    PROVE  EtrTable[c] = Fold("table", NULL, ms_init_db, c.recs)
BY DEF EtrTable, Seqs!FoldLeft, Seqs!MapThenFoldSet, Fold, IsFold, FoldOp

\* The greatest of a set of numbers that has the last one.
LEMMA MaxIs ==
    ASSUME NEW s, s \subseteq Nat, NEW m \in s, \A k \in s : k <= m
    PROVE  Seqs!Max(s) = m
<1>1. \A x \in s : (\A y \in s : x >= y) => x = m
  BY SMT
<1>2. \A y \in s : m >= y
  BY SMT
<1> QED  BY <1>1, <1>2 DEF Seqs!Max

\* g holds the values of a fold, element by element.
FoldRun(g, loop, at, base, seq, n) ==
    /\ g[0] = base
    /\ \A k \in 1..n : g[k] = FoldOp(loop, at, g[k - 1], seq[k])

\* The recursion has a solution, by induction on the greatest index.
LEMMA FoldExists ==
    ASSUME NEW loop, NEW at, NEW base, NEW seq, NEW n \in Nat, DOMAIN seq = 1..n
    PROVE  \E it : IsFold(it, loop, at, base, seq)
<1> DEFINE value(f, s) == IF s = {} THEN base
                          ELSE FoldOp(loop, at, f[s \ {Seqs!Max(s)}], seq[Seqs!Max(s)])
           Good(f, k) == \A s \in SUBSET (1..k) : f[s] = value(f, s)
           T == {k \in Nat : \E f : Good(f, k)}
<1>1. 0 \in T
  <2>1. Good([s \in SUBSET (1..0) |-> base], 0)
    <3>1. \A s \in SUBSET (1..0) : s = {}  OBVIOUS
    <3> QED  BY <3>1
  <2> QED  BY <2>1
<1>2. ASSUME NEW k \in T  PROVE k + 1 \in T
  <2>1. k \in Nat  BY <1>2
  <2>2. PICK f : Good(f, k)  BY <1>2
  <2>3. PICK h : h = [s \in SUBSET (1..(k + 1)) |->
                        IF k + 1 \in s THEN FoldOp(loop, at, f[s \ {k + 1}], seq[k + 1])
                        ELSE f[s]]
    OBVIOUS
  <2>4. ASSUME NEW s \in SUBSET (1..k)  PROVE h[s] = f[s]
    <3>1. s \in SUBSET (1..(k + 1)) /\ k + 1 \notin s  BY <2>1
    <3> QED  BY <2>3, <3>1
  <2>5. ASSUME NEW s \in SUBSET (1..(k + 1))  PROVE h[s] = value(h, s)
    <3>1. CASE k + 1 \in s
      <4>1. s \subseteq Nat /\ \A j \in s : j <= k + 1  BY <2>1
      <4>2. Seqs!Max(s) = k + 1  BY <3>1, <4>1, MaxIs
      <4>3. s \ {k + 1} \in SUBSET (1..k)  BY <2>1
      <4>4. h[s \ {k + 1}] = f[s \ {k + 1}]  BY <2>4, <4>3
      <4>5. h[s] = FoldOp(loop, at, f[s \ {k + 1}], seq[k + 1])  BY <2>3, <3>1
      <4> QED  BY <3>1, <4>2, <4>4, <4>5
    <3>2. CASE k + 1 \notin s
      <4>1. s \in SUBSET (1..k)  BY <2>1, <3>2
      <4>2. h[s] = value(f, s)  BY <2>2, <2>4, <4>1
      <4>3. CASE s = {}  BY <4>2, <4>3
      <4>4. CASE s # {}
        <5>1. s \ {Seqs!Max(s)} \in SUBSET (1..k)  BY <4>1
        <5>2. h[s \ {Seqs!Max(s)}] = f[s \ {Seqs!Max(s)}]  BY <2>4, <5>1
        <5> QED  BY <4>2, <4>4, <5>2
      <4> QED  BY <4>3, <4>4
    <3> QED  BY <3>1, <3>2
  <2>6. Good(h, k + 1)  BY <2>5
  <2> HIDE DEF Good
  <2> QED  BY <2>1, <2>6
<1>3. T = Nat
  <2>1. T \subseteq Nat  OBVIOUS
  <2> HIDE DEF T
  <2> QED  BY <1>1, <1>2, <2>1, Induction
<1>4. PICK f : Good(f, n)  BY <1>3
<1>5. PICK it : it = [s \in SUBSET (1..n) |-> f[s]]  OBVIOUS
<1>6. ASSUME NEW s \in SUBSET (1..n)  PROVE it[s] = value(it, s)
  <2>1. it[s] = value(f, s)  BY <1>4, <1>5
  <2>2. s \ {Seqs!Max(s)} \in SUBSET (1..n)  OBVIOUS
  <2>3. it[s \ {Seqs!Max(s)}] = f[s \ {Seqs!Max(s)}]  BY <1>5, <2>2
  <2> QED  BY <2>1, <2>3
<1>7. it = [s \in SUBSET (1..n) |-> value(it, s)]
  BY <1>5, <1>6
<1> QED  BY <1>7 DEF IsFold

\* A fold takes the elements from the first to the last.
LEMMA FoldRuns ==
    ASSUME NEW loop, NEW at, NEW base, NEW seq, NEW n \in Nat, DOMAIN seq = 1..n
    PROVE  \E g : FoldRun(g, loop, at, base, seq, n) /\ Fold(loop, at, base, seq) = g[n]
<1>1. PICK it : it = CHOOSE f : IsFold(f, loop, at, base, seq)  OBVIOUS
<1>2. IsFold(it, loop, at, base, seq)
  BY <1>1, FoldExists
<1>3. \A s \in SUBSET (1..n) : it[s] = IF s = {} THEN base
                          ELSE FoldOp(loop, at, it[s \ {Seqs!Max(s)}], seq[Seqs!Max(s)])
  BY <1>2 DEF IsFold
<1>4. PICK g : g = [k \in 0..n |-> it[1..k]]  OBVIOUS
<1>5. g[0] = base
  <2>1. 1..0 = {} /\ 0 \in 0..n  OBVIOUS
  <2>2. g[0] = it[{}]  BY <1>4, <2>1
  <2>3. {} \in SUBSET (1..n)  OBVIOUS
  <2> QED  BY <1>3, <2>2, <2>3
<1>6. ASSUME NEW k \in 1..n  PROVE g[k] = FoldOp(loop, at, g[k - 1], seq[k])
  <2>1. /\ 1..k \in SUBSET (1..n) /\ 1..k # {} /\ k \in 0..n /\ k - 1 \in 0..n
        /\ (1..k) \ {k} = 1..(k - 1) /\ k \in 1..k
        /\ 1..k \subseteq Nat /\ \A j \in 1..k : j <= k
    OBVIOUS
  <2>2. Seqs!Max(1..k) = k  BY <2>1, MaxIs
  <2>3. it[1..k] = FoldOp(loop, at, it[1..(k - 1)], seq[k])  BY <1>3, <2>1, <2>2
  <2> QED  BY <1>4, <2>1, <2>3
<1>7. Fold(loop, at, base, seq) = it[1..n]  BY <1>1 DEF Fold
<1>8. g[n] = it[1..n]  BY <1>4
<1> QED  BY <1>5, <1>6, <1>7, <1>8 DEF FoldRun
----------------------------------------------------------------------------
(***************************************************************************)
(* What the operations of the map server do to a table.                    *)
(***************************************************************************)
\* The flags node p has, or none if there is no such node.
Old(t, p) == IF p \in Nodes(t) THEN Flags(t, p) ELSE NULL

\* u is t with node p, whose flags are f; new nodes beside it have none.
Updated(t, u, p, f) ==
    /\ MsTable(u)
    /\ Nodes(t) \cup {p} \subseteq Nodes(u)
    /\ \A y \in Nodes(t) \ {p} : Info(u, y) = Info(t, y) /\ Flags(u, y) = Flags(t, y)
    /\ \A y \in Nodes(u) \ (Nodes(t) \cup {p}) : Flags(u, y) = NULL
    /\ Flags(u, p) = f

\* The flags generic_mapping_set_flags leaves (server.c 34-58).
Merged(old, mflags) ==
    IF old = NULL THEN mflags
    ELSE [mflags EXCEPT !.range = @ \cup old.range,
                        !.rsvd = IF @ = NULL THEN old.rsvd ELSE @]

\* And those of ms_node_update_type (db.c 110-120).
Ranged(old, type) ==
    IF old = NULL THEN ms_new_node_ex({type}) ELSE [old EXCEPT !.range = @ \cup {type}]

\* The type bits of flags that may be missing.
RangeOf(f) == IF f = NULL THEN {} ELSE f.range

\* Fresh flags are flags.
LEMMA NewFlags ==
    ASSUME NEW range, range \subseteq {"GEID", "EID", "GREID", "MAPP", "MAPP_XTR"}
    PROVE  /\ ms_new_node_ex(range) \in MappingFlags
           /\ ms_new_node_ex(range).range = range
           /\ ms_new_node_ex(range).rsvd = NULL /\ ms_new_node_ex(range).referral = NULL
           /\ ms_new_node_ex(range).proxy = FALSE
BY DEF ms_new_node_ex, MappingFlags

\* Type bits are added, and a site is not forgotten.
LEMMA MergedIs ==
    ASSUME NEW old \in MappingFlags \cup {NULL}, NEW mflags \in MappingFlags
    PROVE  /\ Merged(old, mflags) \in MappingFlags
           /\ Merged(old, mflags).range = mflags.range \cup RangeOf(old)
           /\ Merged(old, mflags).referral = mflags.referral
           /\ Merged(old, mflags).proxy = mflags.proxy
           /\ Merged(old, mflags).rsvd = IF mflags.rsvd # NULL \/ old = NULL
                                         THEN mflags.rsvd ELSE old.rsvd
<1>1. CASE old = NULL
  BY <1>1 DEF Merged, RangeOf
<1>2. CASE old # NULL
  <2>1. old \in MappingFlags  BY <1>2
  <2>2. PICK range, rsvd : /\ range = mflags.range \cup old.range
                           /\ rsvd = IF mflags.rsvd = NULL THEN old.rsvd ELSE mflags.rsvd
    OBVIOUS
  <2>3. /\ range \subseteq {"GEID", "EID", "GREID", "MAPP", "MAPP_XTR"}
        /\ rsvd \in Sites \cup {NULL}
    BY <2>1, <2>2 DEF MappingFlags
  <2>4. Merged(old, mflags) = [mflags EXCEPT !.range = range, !.rsvd = rsvd]
    BY <1>2, <2>2 DEF Merged
  <2>5. PICK m : m = [mflags EXCEPT !.range = range, !.rsvd = rsvd]  OBVIOUS
  <2>6. /\ m \in MappingFlags /\ m.range = range /\ m.rsvd = rsvd
        /\ m.referral = mflags.referral /\ m.proxy = mflags.proxy
    BY <2>3, <2>5 DEF MappingFlags
  <2> QED  BY <1>2, <2>2, <2>4, <2>5, <2>6 DEF RangeOf
<1> QED  BY <1>1, <1>2

\* A type bit is added and nothing else changes.
LEMMA RangedIs ==
    ASSUME NEW old \in MappingFlags \cup {NULL}, NEW type \in {"GEID", "GREID"}
    PROVE  /\ Ranged(old, type) \in MappingFlags
           /\ Ranged(old, type).range = {type} \cup RangeOf(old)
           /\ old # NULL => /\ Ranged(old, type).rsvd = old.rsvd
                            /\ Ranged(old, type).referral = old.referral
                            /\ Ranged(old, type).proxy = old.proxy
<1>1. CASE old = NULL
  <2>1. {type} \subseteq {"GEID", "EID", "GREID", "MAPP", "MAPP_XTR"}  OBVIOUS
  <2> QED  BY <1>1, <2>1, NewFlags DEF Ranged, RangeOf
<1>2. CASE old # NULL
  <2>1. PICK range : range = old.range \cup {type}  OBVIOUS
  <2>2. old \in MappingFlags  BY <1>2
  <2>3. range \subseteq {"GEID", "EID", "GREID", "MAPP", "MAPP_XTR"}
    BY <2>1, <2>2 DEF MappingFlags
  <2>4. Ranged(old, type) = [old EXCEPT !.range = range]  BY <1>2, <2>1 DEF Ranged
  <2>5. PICK m : m = [old EXCEPT !.range = range]  OBVIOUS
  <2>6. /\ m \in MappingFlags /\ m.range = range /\ m.rsvd = old.rsvd
        /\ m.referral = old.referral /\ m.proxy = old.proxy
    BY <2>2, <2>3, <2>5 DEF MappingFlags
  <2> QED  BY <1>2, <2>1, <2>4, <2>5, <2>6 DEF RangeOf
<1> QED  BY <1>1, <1>2

\* The flags of an existing node are set.
LEMMA FlagsUpdated ==
    ASSUME NEW t, MsTable(t), NEW g, Shaped(g), NEW p \in Nodes(g), Nodes(t) \subseteq Nodes(g),
           \A y \in Nodes(t) \ {p} : Info(g, y) = Info(t, y) /\ Flags(g, y) = Flags(t, y),
           \A y \in Nodes(g) \ (Nodes(t) \cup {p}) : Flags(g, y) = NULL,
           NEW f \in MappingFlags, NEW u, u = WithFlags(g, p, f)
    PROVE  /\ Updated(t, u, p, f) /\ Nodes(u) = Nodes(g)
           /\ \A y \in Nodes(g) : Info(u, y) = Info(g, y)
<1>1. /\ Shaped(u) /\ Nodes(u) = Nodes(g)
      /\ \A y \in Nodes(g) : /\ Info(u, y) = Info(g, y)
                             /\ Flags(u, y) = IF y = p THEN f ELSE Flags(g, y)
  BY SetFlags
<1>2. <<>> \in Nodes(u)  BY <1>1 DEF MsTable
<1>3. ASSUME NEW y \in Nodes(u)  PROVE Flags(u, y) \in MappingFlags \cup {NULL}
  <2>1. CASE y = p  BY <1>1, <2>1
  <2>2. CASE y # p /\ y \in Nodes(t)  BY <1>1, <2>2 DEF MsTable
  <2>3. CASE y # p /\ y \notin Nodes(t)  BY <1>1, <2>3
  <2> QED  BY <2>1, <2>2, <2>3
<1>4. MsTable(u)  BY <1>1, <1>2, <1>3 DEF MsTable
<1> QED  BY <1>1, <1>4 DEF Updated

\* ms_node_update_type adds a type bit.
LEMMA UpdateTypeIs ==
    ASSUME NEW g, NEW p, NEW type
    PROVE  ms_node_update_type(g, p, type) = WithFlags(g, p, Ranged(Flags(g, p), type))
BY DEF ms_node_update_type, Ranged, WithFlags

\* A range of the configuration (parser.c 1165-1178).
LEMMA RangeEffect ==
    ASSUME NEW t, MsTable(t), NEW p \in Prefix, NEW type \in {"GEID", "GREID"},
           NEW u, u = ms_node_update_type(Settle(db_node_get(t, p)), p, type)
    PROVE  Updated(t, u, p, Ranged(Old(t, p), type))
           /\ (p \in Nodes(t) => Info(u, p) = Info(t, p))
<1>1. PICK g : g = Settle(db_node_get(t, p))  OBVIOUS
<1>2. /\ Shaped(g) /\ Nodes(t) \cup {p} \subseteq Nodes(g)
      /\ \A y \in Nodes(t) : Info(g, y) = Info(t, y) /\ Flags(g, y) = Flags(t, y)
      /\ \A y \in Nodes(g) \ Nodes(t) : Info(g, y) = NULL /\ Flags(g, y) = NULL
  BY <1>1, GetNode DEF MsTable
<1>3. Flags(g, p) = Old(t, p)  BY <1>2 DEF Old
<1>4. PICK f : f = Ranged(Old(t, p), type)  OBVIOUS
<1>5. f \in MappingFlags
  <2>1. Old(t, p) \in MappingFlags \cup {NULL}  BY DEF Old, MsTable
  <2> QED  BY <1>4, <2>1, RangedIs
<1>6. u = WithFlags(g, p, f)  BY <1>1, <1>3, <1>4, UpdateTypeIs
<1>7. Updated(t, u, p, f) /\ \A y \in Nodes(g) : Info(u, y) = Info(g, y)
  BY <1>2, <1>5, <1>6, FlagsUpdated
<1> QED  BY <1>2, <1>4, <1>7

\* generic_mapping_set_flags writes the merged flags.
LEMMA SetFlagsIs ==
    ASSUME NEW g, NEW p, NEW mflags
    PROVE  generic_mapping_set_flags(g, p, mflags)
             = WithFlags(g, p, Merged(Flags(g, p), mflags))
BY DEF generic_mapping_set_flags, Merged, WithFlags

\* A site's prefix of the configuration (parser.c 1063-1157).
LEMMA SiteEffect ==
    ASSUME NEW t, MsTable(t), NEW p \in Prefix, NEW mflags \in MappingFlags,
           NEW u, u = generic_mapping_set_flags(Settle(db_node_get(t, p)), p, mflags)
    PROVE  Updated(t, u, p, Merged(Old(t, p), mflags))
<1>1. PICK g : g = Settle(db_node_get(t, p))  OBVIOUS
<1>2. /\ Shaped(g) /\ Nodes(t) \cup {p} \subseteq Nodes(g)
      /\ \A y \in Nodes(t) : Info(g, y) = Info(t, y) /\ Flags(g, y) = Flags(t, y)
      /\ \A y \in Nodes(g) \ Nodes(t) : Info(g, y) = NULL /\ Flags(g, y) = NULL
  BY <1>1, GetNode DEF MsTable
<1>3. Flags(g, p) = Old(t, p)  BY <1>2 DEF Old
<1>4. PICK f : f = Merged(Old(t, p), mflags)  OBVIOUS
<1>5. f \in MappingFlags
  <2>1. Old(t, p) \in MappingFlags \cup {NULL}  BY DEF Old, MsTable
  <2> QED  BY <1>4, <2>1, MergedIs
<1>6. u = WithFlags(g, p, f)  BY <1>1, <1>3, <1>4, SetFlagsIs
<1>7. Updated(t, u, p, f)  BY <1>2, <1>5, <1>6, FlagsUpdated
<1> QED  BY <1>4, <1>7

\* A mapping is found or added, with an empty list (server.c 16-32).
LEMMA NewMapping ==
    ASSUME NEW t, MsTable(t), NEW p \in Prefix, NEW u, u = generic_mapping_new(t, p)
    PROVE  /\ Shaped(u) /\ Nodes(t) \cup {p} \subseteq Nodes(u)
           /\ \A y \in Nodes(t) : /\ Flags(u, y) = Flags(t, y)
                                  /\ y # p => Info(u, y) = Info(t, y)
           /\ \A y \in Nodes(u) \ Nodes(t) : Flags(u, y) = NULL
           /\ Info(u, p) = <<>>
<1>1. PICK g : g = Settle(db_node_get(t, p))  OBVIOUS
<1>2. /\ Shaped(g) /\ Nodes(t) \cup {p} \subseteq Nodes(g)
      /\ \A y \in Nodes(t) : Info(g, y) = Info(t, y) /\ Flags(g, y) = Flags(t, y)
      /\ \A y \in Nodes(g) \ Nodes(t) : Info(g, y) = NULL /\ Flags(g, y) = NULL
  BY <1>1, GetNode DEF MsTable
<1>3. u = db_node_set_info(g, p, <<>>) /\ p \in Nodes(g)
  BY <1>1, <1>2 DEF generic_mapping_new
<1>4. /\ Shaped(u) /\ Nodes(u) = Nodes(g)
      /\ \A y \in Nodes(g) : /\ Flags(u, y) = Flags(g, y)
                             /\ Info(u, y) = IF y = p THEN <<>> ELSE Info(g, y)
  BY <1>2, <1>3, SetInfo
<1> QED  BY <1>2, <1>3, <1>4

\* u is t with other data at node p.
OtherData(t, u, p) ==
    /\ Shaped(u) /\ Nodes(u) = Nodes(t)
    /\ \A y \in Nodes(t) : /\ Flags(u, y) = Flags(t, y)
                           /\ y # p => Info(u, y) = Info(t, y)

\* The configured locators change the data of their node only.
LEMMA LocatorsEffect ==
    ASSUME NEW t, Shaped(t), NEW p \in Nodes(t), NEW locs \in Seq(Locator),
           NEW u, u = Fold("locators", p, t, locs)
    PROVE  OtherData(t, u, p)
<1>1. PICK n \in Nat : DOMAIN locs = 1..n  BY Z3
<1>2. PICK g : FoldRun(g, "locators", p, t, locs, n) /\ Fold("locators", p, t, locs) = g[n]
  BY <1>1, FoldRuns
<1>3. u = g[n]  BY <1>2
<1>4. g[0] = t /\ \A k \in 1..n : g[k] = generic_mapping_add_rloc(g[k - 1], p, locs[k])
  BY <1>2 DEF FoldRun, FoldOp
<1> DEFINE T == {k \in Nat : k <= n => OtherData(t, g[k], p)}
<1>5. 0 \in T  BY <1>4 DEF OtherData
<1>6. ASSUME NEW k \in T  PROVE k + 1 \in T
  <2>1. k \in Nat  BY <1>6
  <2>2. CASE k + 1 <= n
    <3>1. k + 1 \in 1..n /\ (k + 1) - 1 = k /\ k <= n  BY <2>1, <2>2
    <3>2. PICK a, b : a = g[k] /\ b = g[k + 1]  OBVIOUS
    <3>3. OtherData(t, a, p)  BY <1>6, <3>1, <3>2
    <3>4. b = generic_mapping_add_rloc(a, p, locs[k + 1])  BY <1>4, <3>1, <3>2
    <3>5. PICK v : v = _insert_ip_ordered(a.node[p].info, locs[k + 1])  OBVIOUS
    <3>6. b = db_node_set_info(a, p, v)
      BY <3>4, <3>5 DEF generic_mapping_add_rloc, db_node_set_info
    <3>7. Shaped(a) /\ p \in Nodes(a)  BY <3>3 DEF OtherData
    <3>8. /\ Shaped(b) /\ Nodes(b) = Nodes(a)
          /\ \A y \in Nodes(a) : /\ Flags(b, y) = Flags(a, y)
                                 /\ Info(b, y) = IF y = p THEN v ELSE Info(a, y)
      BY <3>6, <3>7, SetInfo
    <3>9. OtherData(t, b, p)  BY <3>3, <3>8 DEF OtherData
    <3> QED  BY <2>1, <3>2, <3>9
  <2> QED  BY <2>1, <2>2
<1>7. T = Nat
  <2>1. T \subseteq Nat  OBVIOUS
  <2> HIDE DEF T
  <2> QED  BY <1>5, <1>6, <2>1, Induction
<1> QED  BY <1>3, <1>7

\* ConfiguredMapping by its fold.
LEMMA ConfiguredIs ==
    ASSUME NEW t, NEW p, NEW locs, NEW mflags
    PROVE  ConfiguredMapping(t, p, locs, mflags)
             = generic_mapping_set_flags(Fold("locators", p, generic_mapping_new(t, p), locs),
                                         p, mflags)
BY LocatorsIsFold DEF ConfiguredMapping

\* A delegated prefix or a referral (parser.c 894-1037, udp.c 2402-2570).
LEMMA ConfiguredEffect ==
    ASSUME NEW t, MsTable(t), NEW p \in Prefix, NEW locs \in Seq(Locator),
           NEW mflags \in MappingFlags, NEW u, u = ConfiguredMapping(t, p, locs, mflags)
    PROVE  Updated(t, u, p, Merged(Old(t, p), mflags))
<1>1. PICK g, h : /\ g = generic_mapping_new(t, p)
                  /\ h = Fold("locators", p, g, locs)
  OBVIOUS
<1>2. /\ Shaped(g) /\ Nodes(t) \cup {p} \subseteq Nodes(g)
      /\ \A y \in Nodes(t) : /\ Flags(g, y) = Flags(t, y)
                             /\ y # p => Info(g, y) = Info(t, y)
      /\ \A y \in Nodes(g) \ Nodes(t) : Flags(g, y) = NULL
  BY <1>1, NewMapping
<1>3. p \in Nodes(g)  BY <1>2
<1>4. OtherData(g, h, p)  BY <1>1, <1>2, <1>3, LocatorsEffect
<1>5. /\ Shaped(h) /\ Nodes(h) = Nodes(g)
      /\ \A y \in Nodes(g) : /\ Flags(h, y) = Flags(g, y)
                             /\ y # p => Info(h, y) = Info(g, y)
  BY <1>4 DEF OtherData
<1>6. u = generic_mapping_set_flags(h, p, mflags)  BY <1>1, ConfiguredIs
<1>7. Flags(h, p) = Old(t, p)  BY <1>2, <1>3, <1>5 DEF Old
<1>8. PICK f : f = Merged(Old(t, p), mflags)  OBVIOUS
<1>9. f \in MappingFlags
  <2>1. Old(t, p) \in MappingFlags \cup {NULL}  BY DEF Old, MsTable
  <2> QED  BY <1>8, <2>1, MergedIs
<1>10. u = WithFlags(h, p, f)  BY <1>6, <1>7, <1>8, SetFlagsIs
<1>11. /\ p \in Nodes(h) /\ Nodes(t) \subseteq Nodes(h)
       /\ \A y \in Nodes(t) \ {p} : Info(h, y) = Info(t, y) /\ Flags(h, y) = Flags(t, y)
       /\ \A y \in Nodes(h) \ (Nodes(t) \cup {p}) : Flags(h, y) = NULL
  BY <1>2, <1>5
<1>12. Updated(t, u, p, f)  BY <1>5, <1>9, <1>10, <1>11, FlagsUpdated
<1> QED  BY <1>8, <1>12

\* The flags of a registered mapping.
Registering(proxy) == [ms_new_node_ex({"MAPP"}) EXCEPT !.proxy = proxy]

\* A record by its fold.
LEMMA RecordIs ==
    ASSUME NEW t, NEW r, NEW proxy
    PROVE  _ms_process_register_record(t, r, proxy)
             = db_node_set_info(
                  generic_mapping_set_flags(generic_mapping_new(t, r.eid), r.eid,
                                            Registering(proxy)),
                  r.eid, Fold("register", NULL, <<>>, r.locs))
BY RegisterIsFold DEF _ms_process_register_record, Registering

\* A record of a register (udp.c 3055-3348).
LEMMA RecordEffect ==
    ASSUME NEW t, MsTable(t), NEW r \in Record, NEW proxy \in BOOLEAN,
           NEW u, u = _ms_process_register_record(t, r, proxy)
    PROVE  /\ Updated(t, u, r.eid, Merged(Old(t, r.eid), Registering(proxy)))
           /\ Info(u, r.eid) = Fold("register", NULL, <<>>, r.locs)
<1>0. PICK p \in Prefix : p = r.eid  BY DEF Record
<1>1. PICK g, h, l : /\ g = generic_mapping_new(t, p)
                     /\ h = generic_mapping_set_flags(g, p, Registering(proxy))
                     /\ l = Fold("register", NULL, <<>>, r.locs)
  OBVIOUS
<1>2. /\ Shaped(g) /\ Nodes(t) \cup {p} \subseteq Nodes(g)
      /\ \A y \in Nodes(t) : /\ Flags(g, y) = Flags(t, y)
                             /\ y # p => Info(g, y) = Info(t, y)
      /\ \A y \in Nodes(g) \ Nodes(t) : Flags(g, y) = NULL
  BY <1>1, NewMapping
<1>3. Flags(g, p) = Old(t, p)  BY <1>2 DEF Old
<1>4. PICK f : f = Merged(Old(t, p), Registering(proxy))  OBVIOUS
<1>5. f \in MappingFlags
  <2>1. Old(t, p) \in MappingFlags \cup {NULL}  BY DEF Old, MsTable
  <2>2. Registering(proxy) \in MappingFlags
    BY DEF Registering, ms_new_node_ex, MappingFlags
  <2> QED  BY <1>4, <2>1, <2>2, MergedIs
<1>6. h = WithFlags(g, p, f)  BY <1>1, <1>3, <1>4, SetFlagsIs
<1>7. p \in Nodes(g)  BY <1>2
<1>8. Updated(t, h, p, f)  BY <1>2, <1>5, <1>6, <1>7, FlagsUpdated
<1>9. u = db_node_set_info(h, p, l)
  BY <1>0, <1>1, RecordIs
<1>10. /\ MsTable(h) /\ Nodes(t) \cup {p} \subseteq Nodes(h) /\ p \in Nodes(h)
       /\ \A y \in Nodes(t) \ {p} : Info(h, y) = Info(t, y) /\ Flags(h, y) = Flags(t, y)
       /\ \A y \in Nodes(h) \ (Nodes(t) \cup {p}) : Flags(h, y) = NULL
       /\ Flags(h, p) = f
  BY <1>8 DEF Updated
<1>11. /\ Shaped(u) /\ Nodes(u) = Nodes(h)
       /\ \A y \in Nodes(h) : /\ Flags(u, y) = Flags(h, y)
                              /\ Info(u, y) = IF y = p THEN l ELSE Info(h, y)
  BY <1>9, <1>10, SetInfo DEF MsTable
<1>12. MsTable(u)  BY <1>10, <1>11 DEF MsTable
<1>13. Updated(t, u, p, f)  BY <1>10, <1>11, <1>12 DEF Updated
<1> QED  BY <1>0, <1>1, <1>4, <1>10, <1>11, <1>13

\* The table before the configuration (db.c 32-59): its root has no type.
LEMMA InitEffect ==
    /\ MsTable(ms_init_db)
    /\ \A y \in Nodes(ms_init_db) : RangeOf(Flags(ms_init_db, y)) = {}
<1>1. PICK e : e = db_table_init  OBVIOUS
<1>2. Shaped(e)
  <2>1. PICK node : node = [x \in {} |-> NULL]  OBVIOUS
  <2>2. e = [top |-> NULL, node |-> node, count |-> 0]  BY <1>1, <2>1 DEF db_table_init
  <2>3. node \in [{} -> Node({NULL})]  BY <2>1
  <2>4. e \in Table({NULL}) /\ Nodes(e) = {}
    <3>0. PICK Data : Data = {NULL}  OBVIOUS
    <3>1. PICK top, D, k : top = NULL /\ D = {} /\ k = 0  OBVIOUS
    <3>2. top \in Pointer /\ D \in SUBSET Prefix /\ k \in Int  BY <3>1 DEF Pointer
    <3>3. node \in [D -> Node(Data)]  BY <2>3, <3>0, <3>1
    <3>4. e = [top |-> top, node |-> node, count |-> k]  BY <2>2, <3>1
    <3>5. e \in Table(Data) /\ Nodes(e) = D  BY <3>2, <3>3, <3>4, TableIntro
    <3> QED  BY <3>0, <3>1, <3>5
  <2>5. Linked(e)  BY <2>2, <2>4 DEF Linked
  <2> QED  BY <2>4, <2>5 DEF Shaped
<1>3. Nodes(e) = {}  BY <1>1 DEF db_table_init, Nodes
<1>4. <<>> \in Prefix
  <2>1. MaxLen \in Nat  BY DbTableAssumption, Zenon
  <2>2. <<>> \in Seq({0, 1}) /\ Len(<<>>) = 0  OBVIOUS
  <2>3. Len(<<>>) <= MaxLen  BY <2>1, <2>2
  <2> QED  BY <2>2, <2>3, PrefixIntro
<1>5. PICK h, u, f : /\ h = db_node_get(e, <<>>) /\ f = ms_new_node_ex({})
                     /\ u = WithFlags(h, <<>>, f)
  OBVIOUS
<1>6. ms_init_db = Settle(u)  BY <1>1, <1>5 DEF ms_init_db, WithFlags
<1>7. PICK Data : NULL \in Data /\ e \in Table(Data)  BY <1>2 DEF Shaped
<1>8. /\ h \in Table(Data) /\ Linked(h) /\ <<>> \in Nodes(h)
      /\ Marks(h, <<>>) = NULL
      /\ \A y \in Nodes(h) \ {<<>>} : Marks(h, y) = NULL
  <2>1. Linked(e)  BY <1>2 DEF Shaped
  <2>2. /\ h \in Table(Data) /\ Linked(h) /\ Nodes(e) \cup {<<>>} \subseteq Nodes(h)
        /\ <<>> \notin Nodes(e) => Info(h, <<>>) = NULL /\ Marks(h, <<>>) = NULL
        /\ \A y \in Nodes(h) \ (Nodes(e) \cup {<<>>}) : Info(h, y) = NULL /\ Marks(h, y) = NULL
    BY <1>4, <1>5, <1>7, <2>1, GetEffect
  <2> QED  BY <1>3, <2>2
<1>9. /\ Shaped(u) /\ Nodes(u) = Nodes(h)
      /\ \A y \in Nodes(h) : Flags(u, y) = IF y = <<>> THEN f ELSE Flags(h, y)
  <2>1. Shaped(h)  BY <1>7, <1>8 DEF Shaped
  <2> QED  BY <1>5, <1>8, <2>1, SetFlags
<1>10. PICK s : s = ms_init_db  OBVIOUS
<1>11. /\ Shaped(s) /\ Nodes(s) = Nodes(u)
       /\ \A y \in Nodes(u) : Flags(s, y) = Flags(u, y)
  BY <1>6, <1>9, <1>10, SettleEffect
<1>12. f \in MappingFlags /\ f.range = {}  BY <1>5, NewFlags
<1>13. \A y \in Nodes(s) : Flags(s, y) = IF y = <<>> THEN f ELSE NULL
  BY <1>8, <1>9, <1>11 DEF Flags, Marks
<1>14. \A y \in Nodes(s) : Flags(s, y) \in MappingFlags \cup {NULL} /\ RangeOf(Flags(s, y)) = {}
  BY <1>12, <1>13 DEF RangeOf
<1> QED  BY <1>8, <1>9, <1>10, <1>11, <1>14 DEF MsTable

----------------------------------------------------------------------------
(***************************************************************************)
(* Cleaning a site.                                                        *)
(***************************************************************************)
\* The flags an EID node is left with (udp.c 3040-3048).
Cleaned(old) ==
    [ms_new_node_ex(IF old.range = {"MAPP"} THEN old.range ELSE old.range \ {"MAPP"})
        EXCEPT !.rsvd = old.rsvd]

\* The nodes that stay when node x is cleaned.
Kept(t, x) == {y \in Nodes(t) : y = x \/ ~Includes(x, y)}

\* Their fields then.
CleanedNodes(t, x) ==
    [y \in Kept(t, x) |->
       IF y = x THEN [t.node[x] EXCEPT !.link = <<NULL, NULL>>, !.info = NULL,
                                       !.flags = Cleaned(Flags(t, x))]
       ELSE t.node[y]]

\* CleanEidNode, written as one node function.
LEMMA CleanIs ==
    ASSUME NEW t, MsTable(t), NEW x \in Nodes(t)
    PROVE  CleanEidNode(t, x)
             = [top |-> t.top, node |-> CleanedNodes(t, x), count |-> t.count]
<1>0. PICK f : f = CleanedNodes(t, x)  OBVIOUS
<1>1. Linked(t)  BY DEF MsTable, Shaped
<1>2. Nodes(t) \subseteq Prefix /\ x \in Prefix /\ NULL \notin Prefix
  BY <1>1, DbTableAssumption, Zenon DEF Linked
<1>3. Subtree(t, x) = {y \in Nodes(t) : Includes(x, y)}
  <2>1. x \in Nodes(t) \cup {NULL} /\ x # NULL  BY <1>2
  <2> QED  BY <1>1, <2>1, SubtreeBelow
<1>4. Nodes(t) \ (Subtree(t, x) \ {x}) = Kept(t, x)  BY <1>3 DEF Kept
<1>5. x \in Kept(t, x)  BY DEF Kept
<1>6. PICK h : h = [y \in Kept(t, x) |-> t.node[y]]  OBVIOUS
<1>7. PICK a : a = [h EXCEPT ![x].link = <<NULL, NULL>>]  OBVIOUS
<1>8. PICK v : v = [t EXCEPT !.node = a]  OBVIOUS
<1>9. _ms_clean_eid_mapping(t, x) = v
  BY <1>4, <1>6, <1>7, <1>8 DEF _ms_clean_eid_mapping
<1>10. PICK c : c = Cleaned(Flags(t, x))  OBVIOUS
<1>11. CleanEidNode(t, x) = [v EXCEPT !.node[x].info = NULL, !.node[x].flags = c]
  BY <1>9, <1>10 DEF CleanEidNode, Cleaned
<1>12. PICK e, b : e = [a EXCEPT ![x].info = NULL] /\ b = [e EXCEPT ![x].flags = c]
  OBVIOUS
<1>13. PICK Data : t \in Table(Data)  BY DEF MsTable, Shaped
<1>14. t = [top |-> t.top, node |-> t.node, count |-> t.count]  BY <1>13, TableShape
<1>15. v.node = a /\ v = [top |-> t.top, node |-> a, count |-> t.count]
  BY <1>8, <1>14
<1>16. CleanEidNode(t, x) = [top |-> t.top, node |-> b, count |-> t.count]
  <2>1. PICK k : k = [v EXCEPT !.node = e]  OBVIOUS
  <2>2. k = [top |-> t.top, node |-> e, count |-> t.count] /\ k.node = e
    BY <1>15, <2>1
  <2>3. k = [v EXCEPT !.node[x].info = NULL]  BY <1>12, <1>15, <2>1
  <2>4. CleanEidNode(t, x) = [k EXCEPT !.node[x].flags = c]  BY <1>11, <2>3
  <2>5. CleanEidNode(t, x) = [k EXCEPT !.node = b]  BY <1>12, <2>2, <2>4
  <2> QED  BY <2>2, <2>5
<1>17. b = f
  <2>1. PICK n : n = t.node[x]  OBVIOUS
  <2>2. /\ DOMAIN b = Kept(t, x) /\ DOMAIN f = Kept(t, x)
        /\ b[x] = [[[n EXCEPT !.link = <<NULL, NULL>>] EXCEPT !.info = NULL] EXCEPT !.flags = c]
        /\ f[x] = [n EXCEPT !.link = <<NULL, NULL>>, !.info = NULL, !.flags = c]
    BY <1>0, <1>5, <1>6, <1>7, <1>10, <1>12, <2>1 DEF CleanedNodes
  <2>3. b[x] = f[x]  BY <2>2
  <2>4. \A y \in Kept(t, x) \ {x} : b[y] = t.node[y] /\ f[y] = t.node[y]
    BY <1>0, <1>6, <1>7, <1>12 DEF CleanedNodes
  <2>5. b = [y \in Kept(t, x) |-> b[y]] /\ f = [y \in Kept(t, x) |-> f[y]]
    BY <1>0, <1>6, <1>7, <1>12 DEF CleanedNodes
  <2> QED  BY <2>3, <2>4, <2>5
<1> QED  BY <1>0, <1>16, <1>17

\* The nodes below an EID node are gone, the node has no mapping, the others stay
\* as they are.
LEMMA CleanEffect ==
    ASSUME NEW t, MsTable(t), NEW x \in Nodes(t), Flags(t, x) # NULL,
           NEW u, u = CleanEidNode(t, x)
    PROVE  /\ MsTable(u) /\ Nodes(u) = Kept(t, x)
           /\ \A y \in Kept(t, x) \ {x} : Info(u, y) = Info(t, y) /\ Flags(u, y) = Flags(t, y)
           /\ Flags(u, x) = Cleaned(Flags(t, x))
<1>1. Linked(t) /\ <<>> \in Nodes(t)  BY DEF MsTable, Shaped
<1>2. Nodes(t) \subseteq Prefix /\ x \in Prefix /\ NULL \notin Prefix
  BY <1>1, DbTableAssumption, Zenon DEF Linked
<1>3. PICK Less : NULL \in Less /\ t \in Table(Less)  BY DEF MsTable, Shaped
<1>4. PICK c : c = Cleaned(Flags(t, x))  OBVIOUS
<1>5. PICK Data : Data = Less \cup {c}  OBVIOUS
<1>6. NULL \in Data /\ c \in Data /\ t \in Table(Data)
  <2>1. Less \subseteq Data  BY <1>5
  <2> QED  BY <1>3, <1>5, <2>1, MoreData
<1>7. /\ t = [top |-> t.top, node |-> t.node, count |-> t.count]
      /\ t.top \in Pointer /\ t.count \in Int /\ t.node \in [Nodes(t) -> Node(Data)]
  BY <1>6, TableShape
<1>8. PICK D : D = Kept(t, x) /\ D \subseteq Nodes(t) /\ x \in D
  <2>1. Kept(t, x) \subseteq Nodes(t) /\ x \in Kept(t, x)  BY DEF Kept
  <2> QED  BY <2>1
<1>9. PICK r : r = [t.node[x] EXCEPT !.link = <<NULL, NULL>>, !.info = NULL, !.flags = c]
  OBVIOUS
<1>10. /\ r \in Node(Data) /\ r.parent = t.node[x].parent /\ r.flags = c
       /\ r.link[1] = NULL /\ r.link[2] = NULL
  <2>1. t.node[x] \in Node(Data)  BY <1>7
  <2>2. PICK link : link = <<NULL, NULL>>  OBVIOUS
  <2>3. link \in [1..2 -> Pointer] /\ link[1] = NULL /\ link[2] = NULL
    BY <2>2 DEF Pointer
  <2>4. r = [t.node[x] EXCEPT !.link = link, !.info = NULL, !.flags = c]  BY <1>9, <2>2
  <2> QED  BY <1>6, <2>1, <2>3, <2>4 DEF Node
<1>11. PICK f : f = [y \in D |-> IF y = x THEN r ELSE t.node[y]]  OBVIOUS
<1>12. f \in [D -> Node(Data)] /\ f[x] = r /\ \A y \in D \ {x} : f[y] = t.node[y]
  BY <1>7, <1>8, <1>10, <1>11
<1>13. f = CleanedNodes(t, x)  BY <1>4, <1>8, <1>9, <1>11 DEF CleanedNodes
<1>14. u = [top |-> t.top, node |-> f, count |-> t.count]  BY <1>13, CleanIs
<1>15. u \in Table(Data) /\ Nodes(u) = D
  <2>1. D \in SUBSET Prefix  BY <1>2, <1>8
  <2> QED  BY <1>7, <1>12, <1>14, <2>1, TableIntro
<1>16. /\ \A y \in D \ {x} : /\ \A b \in 1..2 : Kid(u, y, b) = Kid(t, y, b)
                             /\ Info(u, y) = Info(t, y) /\ Flags(u, y) = Flags(t, y)
       /\ \A y \in D : Up(u, y) = Up(t, y)
       /\ \A b \in 1..2 : Kid(u, x, b) = NULL
       /\ Flags(u, x) = c
  BY <1>8, <1>10, <1>12, <1>14 DEF Kid, Up, Info, Flags
<1>17. \A y \in Nodes(t) : Includes(x, y) /\ y \in D => y = x  BY <1>8 DEF Kept
<1>18. \A y \in Nodes(t) : ~Includes(x, y) => y \in D  BY <1>8 DEF Kept
<1>19. \A y \in Nodes(t) : Includes(y, x) => y \in D
  <2>1. SUFFICES ASSUME NEW y \in Nodes(t), Includes(y, x), Includes(x, y)  PROVE y \in D
    BY <1>18
  <2>2. Len(x) \in Nat /\ Len(y) \in Nat  BY <1>2, PrefixShape
  <2>3. Len(x) = Len(y)  BY <2>1, <2>2 DEF Includes
  <2>4. y = x  BY <1>2, <2>1, <2>3, IncludesOrder
  <2> QED  BY <1>8, <2>4
<1>20. u.top = t.top /\ t.top \in D
  <2>1. t.top \in Nodes(t) /\ Includes(t.top, x)  BY <1>1, TopIncludesAll
  <2> QED  BY <1>14, <1>19, <2>1
<1>21. ASSUME NEW y \in D  PROVE LinkedUp(u, y)
  <2>1. LinkedUp(t, y) /\ Up(u, y) = Up(t, y)  BY <1>1, <1>8, <1>16 DEF Linked
  <2>2. CASE Up(t, y) = NULL  BY <1>20, <2>1, <2>2 DEF LinkedUp
  <2>3. CASE Up(t, y) # NULL
    <3>1. PICK z : z = Up(t, y)  OBVIOUS
    <3>2. /\ z \in Nodes(t) /\ Len(z) < Len(y) /\ Includes(z, y)
          /\ Kid(t, z, Side(y, Len(z))) = y
      BY <2>1, <2>3, <3>1 DEF LinkedUp
    <3>3. ~Includes(x, z)
      <4>1. SUFFICES ASSUME Includes(x, z)  PROVE FALSE  OBVIOUS
      <4>2. Includes(x, y)  BY <1>2, <1>8, <3>2, <4>1, IncludesOrder
      <4>3. y = x  BY <1>8, <1>17, <4>2
      <4>4. Len(x) \in Nat /\ Len(z) \in Nat  BY <1>2, <3>2, PrefixShape
      <4> QED  BY <3>2, <4>1, <4>3, <4>4 DEF Includes
    <3>4. z \in D /\ z # x
      <4>1. Includes(x, x)  BY <1>2, IncludesOrder
      <4> QED  BY <1>18, <3>2, <3>3, <4>1
    <3>5. Side(y, Len(z)) \in 1..2  BY <1>2, <1>8, <3>2, SideIs, PrefixShape
    <3>6. Kid(u, z, Side(y, Len(z))) = y  BY <1>16, <3>2, <3>4, <3>5
    <3> QED  BY <1>15, <1>20, <2>1, <2>3, <3>1, <3>2, <3>4, <3>6 DEF LinkedUp
  <2> QED  BY <2>2, <2>3
<1>22. ASSUME NEW y \in D  PROVE LinkedDown(u, y)
  <2>1. SUFFICES ASSUME NEW b \in 1..2, Kid(u, y, b) # NULL
                 PROVE  /\ Kid(u, y, b) \in D
                        /\ Up(u, Kid(u, y, b)) = y
                        /\ Side(Kid(u, y, b), Len(y)) = b
    BY <1>15 DEF LinkedDown
  <2>2. y # x  BY <1>16, <2>1
  <2>3. PICK k : k = Kid(t, y, b)  OBVIOUS
  <2>4. Kid(u, y, b) = k /\ k # NULL  BY <1>16, <2>1, <2>2, <2>3
  <2>5. k \in Nodes(t) /\ Up(t, k) = y /\ Side(k, Len(y)) = b
    BY <1>1, <1>8, <2>3, <2>4 DEF Linked, LinkedDown
  <2>6. k \in D
    <3>1. SUFFICES ASSUME Includes(x, k), k # x  PROVE FALSE  BY <1>8, <1>18, <2>5
    <3>2. Includes(x, y)  BY <1>1, <2>5, <3>1, ParentIsNext
    <3> QED  BY <1>8, <1>17, <2>2, <3>2
  <2> QED  BY <1>16, <2>4, <2>5, <2>6
<1>23. Linked(u)
  <2>1. D \subseteq Prefix  BY <1>2, <1>8
  <2> QED  BY <1>15, <1>20, <1>21, <1>22, <2>1 DEF Linked
<1>24. c \in MappingFlags
  <2>1. PICK old \in MappingFlags : old = Flags(t, x)  BY DEF MsTable
  <2>2. PICK range : range = IF old.range = {"MAPP"} THEN old.range ELSE old.range \ {"MAPP"}
    OBVIOUS
  <2>3. range \subseteq {"GEID", "EID", "GREID", "MAPP", "MAPP_XTR"}
        /\ old.rsvd \in Sites \cup {NULL}
    BY <2>1, <2>2 DEF MappingFlags
  <2>4. ms_new_node_ex(range) \in MappingFlags  BY <2>3, NewFlags
  <2>5. c = [ms_new_node_ex(range) EXCEPT !.rsvd = old.rsvd]
    BY <1>4, <2>1, <2>2 DEF Cleaned
  <2> QED  BY <2>3, <2>4, <2>5 DEF MappingFlags
<1>25. MsTable(u)
  <2>1. <<>> \in D
    <3>1. <<>> \in Prefix /\ Len(<<>>) = 0  BY <1>1, <1>2
    <3>2. PICK e \in Nodes(t) : e = <<>>  BY <1>1
    <3>3. Len(e) = 0  BY <3>2
    <3>4. Includes(e, x)  BY <1>2, <3>3, PrefixShape DEF Includes
    <3> QED  BY <1>19, <3>2, <3>4
  <2>2. \A y \in D : Flags(u, y) \in MappingFlags \cup {NULL}
    BY <1>8, <1>16, <1>24 DEF MsTable
  <2>3. Shaped(u)  BY <1>6, <1>15, <1>23 DEF Shaped
  <2> QED  BY <1>15, <2>1, <2>2, <2>3 DEF MsTable
<1> QED  BY <1>4, <1>8, <1>15, <1>16, <1>25
----------------------------------------------------------------------------
\* A node some site was given: it keeps that bit.
IsSited(t, x) == x \in Nodes(t) /\ "EID" \in RangeOf(Flags(t, x))

\* u is t with the EID nodes E cleaned, of which those below others are gone too.
AreCleaned(t, u, E) ==
    /\ MsTable(u)
    /\ Nodes(u) = {y \in Nodes(t) : \A x \in E : y = x \/ ~Includes(x, y)}
    /\ \A y \in Nodes(u) \ E : Info(u, y) = Info(t, y) /\ Flags(u, y) = Flags(t, y)
    /\ \A x \in E \cap Nodes(u) :
          /\ IsSited(u, x) /\ RangeOf(Flags(u, x)) = RangeOf(Flags(t, x)) \ {"MAPP"}
          /\ Flags(u, x).rsvd = Flags(t, x).rsvd

\* What cleaning leaves of the flags of an EID node.
LEMMA CleanedIs ==
    ASSUME NEW old \in MappingFlags, "EID" \in old.range
    PROVE  /\ Cleaned(old) # NULL /\ Cleaned(old).range = old.range \ {"MAPP"}
           /\ Cleaned(old).rsvd = old.rsvd
<1>1. old.range # {"MAPP"}
  <2>1. "EID" \notin {"MAPP"}  OBVIOUS
  <2> QED  BY <2>1
<1>2. PICK range : range = old.range \ {"MAPP"}  OBVIOUS
<1>3. range \subseteq {"GEID", "EID", "GREID", "MAPP", "MAPP_XTR"} /\ old.rsvd \in Sites \cup {NULL}
  BY <1>2 DEF MappingFlags
<1>4. PICK m \in MappingFlags : m = ms_new_node_ex(range) /\ m.range = range
  BY <1>3, NewFlags
<1>5. Cleaned(old) = [m EXCEPT !.rsvd = old.rsvd]  BY <1>1, <1>2, <1>4 DEF Cleaned
<1>6. PICK c : c = [m EXCEPT !.rsvd = old.rsvd]  OBVIOUS
<1>7. c \in MappingFlags /\ c.range = range /\ c.rsvd = old.rsvd
  BY <1>3, <1>4, <1>6 DEF MappingFlags
<1>8. NULL \notin MappingFlags  BY MapServerAssumption, Zenon
<1> QED  BY <1>2, <1>5, <1>6, <1>7, <1>8

\* One EID node more.
LEMMA CleanStep ==
    ASSUME NEW t, MsTable(t), NEW E, NEW x, IsSited(t, x), E \subseteq Nodes(t),
           \A y \in E : x = y \/ ~Includes(y, x),
           NEW u, AreCleaned(t, u, E), NEW v, v = FoldOp("clean", NULL, u, x)
    PROVE  AreCleaned(t, v, E \cup {x})
<1>1. Linked(t)  BY DEF MsTable, Shaped
<1>2. Nodes(t) \subseteq Prefix /\ x \in Prefix /\ x \in Nodes(t)
  BY <1>1 DEF Linked, IsSited
<1>4. x \in Nodes(u)  BY <1>2 DEF AreCleaned
<1>5. v = CleanEidNode(u, x)  BY DEF FoldOp
<1>6. MsTable(u) /\ Nodes(u) \subseteq Nodes(t)  BY DEF AreCleaned
<1>7. /\ "EID" \in RangeOf(Flags(u, x)) /\ Flags(u, x).rsvd = Flags(t, x).rsvd
      /\ RangeOf(Flags(u, x)) \ {"MAPP"} = RangeOf(Flags(t, x)) \ {"MAPP"}
  <2>1. CASE x \in E
    <3>1. /\ "EID" \in RangeOf(Flags(u, x)) /\ Flags(u, x).rsvd = Flags(t, x).rsvd
          /\ RangeOf(Flags(u, x)) = RangeOf(Flags(t, x)) \ {"MAPP"}
      BY <1>4, <2>1 DEF AreCleaned, IsSited
    <3> QED  BY <3>1
  <2>2. CASE x \notin E
    <3>1. Flags(u, x) = Flags(t, x)  BY <1>4, <2>2 DEF AreCleaned
    <3> QED  BY <3>1 DEF IsSited
  <2> QED  BY <2>1, <2>2
<1>8. Flags(u, x) \in MappingFlags /\ Flags(u, x) # NULL /\ "EID" \in Flags(u, x).range
  BY <1>4, <1>6, <1>7 DEF MsTable, RangeOf
<1>9. /\ MsTable(v) /\ Nodes(v) = Kept(u, x)
      /\ \A y \in Kept(u, x) \ {x} : Info(v, y) = Info(u, y) /\ Flags(v, y) = Flags(u, y)
      /\ Flags(v, x) = Cleaned(Flags(u, x))
  BY <1>4, <1>5, <1>6, <1>8, CleanEffect
<1>10. /\ IsSited(v, x) /\ RangeOf(Flags(v, x)) = RangeOf(Flags(t, x)) \ {"MAPP"}
       /\ Flags(v, x).rsvd = Flags(t, x).rsvd
  <2>1. PICK old \in MappingFlags : old = Flags(u, x) /\ "EID" \in old.range  BY <1>8
  <2>2. /\ Cleaned(old) # NULL /\ Cleaned(old).range = old.range \ {"MAPP"}
        /\ Cleaned(old).rsvd = old.rsvd
    BY <2>1, CleanedIs
  <2>3. x \in Nodes(v)  BY <1>4, <1>9 DEF Kept
  <2>4. "EID" \in old.range \ {"MAPP"}  BY <2>1
  <2>5. RangeOf(Flags(u, x)) = old.range  BY <1>8, <2>1 DEF RangeOf
  <2>6. RangeOf(Flags(v, x)) = old.range \ {"MAPP"}  BY <1>9, <2>1, <2>2 DEF RangeOf
  <2> QED  BY <1>7, <1>9, <2>1, <2>2, <2>3, <2>4, <2>5, <2>6 DEF IsSited
<1>11. Nodes(v) = {y \in Nodes(t) : \A z \in E \cup {x} : y = z \/ ~Includes(z, y)}
  <2>1. Nodes(u) = {y \in Nodes(t) : \A z \in E : y = z \/ ~Includes(z, y)}
    BY DEF AreCleaned
  <2> QED  BY <1>9, <2>1 DEF Kept
<1>12. ASSUME NEW y \in Nodes(v) \ (E \cup {x})
       PROVE  Info(v, y) = Info(t, y) /\ Flags(v, y) = Flags(t, y)
  <2>1. y \in Nodes(u) \ E /\ y \in Kept(u, x) \ {x}  BY <1>9 DEF Kept
  <2> QED  BY <1>9, <2>1 DEF AreCleaned
<1>13. ASSUME NEW y \in E \cap Nodes(v), y # x
       PROVE  /\ IsSited(v, y) /\ RangeOf(Flags(v, y)) = RangeOf(Flags(t, y)) \ {"MAPP"}
              /\ Flags(v, y).rsvd = Flags(t, y).rsvd
  <2>1. y \in Kept(u, x) \ {x}  BY <1>9, <1>13
  <2>2. y \in E \cap Nodes(u)  BY <1>13, <2>1 DEF Kept
  <2>3. /\ "EID" \in RangeOf(Flags(u, y)) /\ Flags(u, y).rsvd = Flags(t, y).rsvd
        /\ RangeOf(Flags(u, y)) = RangeOf(Flags(t, y)) \ {"MAPP"}
    BY <2>2 DEF AreCleaned, IsSited
  <2>4. y \in Nodes(v) /\ Flags(v, y) = Flags(u, y)  BY <1>9, <1>13, <2>1
  <2> QED  BY <2>3, <2>4 DEF IsSited
<1> QED  BY <1>9, <1>10, <1>11, <1>12, <1>13 DEF AreCleaned

\* What AllThere says of the nodes it looks at.
LEMMA AllThereIs ==
    ASSUME NEW t, MsTable(t), NEW eids \in Seq(Prefix), NEW n \in Nat, DOMAIN eids = 1..n,
           AllThere(t, eids)
    PROVE  /\ \A i \in 1..n : IsSited(t, eids[i])
           /\ \A i \in 1..n : \A j \in 1..(i - 1) :
                 eids[i] = eids[j] \/ ~Includes(eids[j], eids[i])
<1>1. Linked(t)  BY DEF MsTable, Shaped
<1>2. Nodes(t) \subseteq Prefix /\ NULL \notin Prefix
  BY <1>1, DbTableAssumption, Zenon DEF Linked
<1>3. ASSUME NEW i \in 1..n  PROVE IsSited(t, eids[i])
  <2>1. PICK x : x = eids[i]  OBVIOUS
  <2>2. x \in Nodes(t) /\ ms_node_is_type(t, x, {"EID"})  BY <2>1 DEF AllThere
  <2>3. Flags(t, x) # NULL /\ "EID" \in Flags(t, x).range  BY <2>2 DEF ms_node_is_type
  <2> QED  BY <2>1, <2>2, <2>3 DEF IsSited, RangeOf
<1>4. ASSUME NEW i \in 1..n, NEW j \in 1..(i - 1)
      PROVE  eids[i] = eids[j] \/ ~Includes(eids[j], eids[i])
  <2>1. j \in 1..n  OBVIOUS
  <2>2. PICK x, y : x = eids[i] /\ y = eids[j]  OBVIOUS
  <2>3. x \notin Subtree(t, y) \ {y}  BY <2>2 DEF AllThere
  <2>4. x \in Nodes(t) /\ y \in Nodes(t)  BY <1>3, <2>1, <2>2 DEF IsSited
  <2>5. Subtree(t, y) = {z \in Nodes(t) : Includes(y, z)}
    <3>1. y \in Nodes(t) \cup {NULL} /\ y # NULL  BY <1>2, <2>4
    <3> QED  BY <1>1, <3>1, SubtreeBelow
  <2> QED  BY <2>2, <2>3, <2>4, <2>5
<1> QED  BY <1>3, <1>4

\* All EID nodes of a site.
LEMMA CleanSiteEffect ==
    ASSUME NEW t, MsTable(t), NEW eids \in Seq(Prefix), NEW E,
           E = {eids[i] : i \in DOMAIN eids}, AllThere(t, eids),
           NEW u, u = _ms_clean_site_mapping(t, eids)
    PROVE  AreCleaned(t, u, E) /\ \A x \in E : IsSited(t, x)
<1>1. PICK n \in Nat : DOMAIN eids = 1..n  BY Z3
<1>2. u = Fold("clean", NULL, t, eids)  BY CleanIsFold
<1>3. PICK g : FoldRun(g, "clean", NULL, t, eids, n) /\ Fold("clean", NULL, t, eids) = g[n]
  BY <1>1, FoldRuns
<1>4. u = g[n]  BY <1>2, <1>3
<1>5. g[0] = t /\ \A k \in 1..n : g[k] = FoldOp("clean", NULL, g[k - 1], eids[k])
  BY <1>3 DEF FoldRun
<1>a. /\ \A i \in 1..n : IsSited(t, eids[i])
      /\ \A i \in 1..n : \A j \in 1..(i - 1) :
            eids[i] = eids[j] \/ ~Includes(eids[j], eids[i])
  BY <1>1, AllThereIs
<1> DEFINE F(k) == {eids[i] : i \in 1..k}
           T == {k \in Nat : k <= n => AreCleaned(t, g[k], F(k))}
<1>6. 0 \in T
  <2>1. F(0) = {}  OBVIOUS
  <2> HIDE DEF F
  <2>2. AreCleaned(t, t, {})  BY DEF AreCleaned
  <2> QED  BY <1>5, <2>1, <2>2
<1>7. ASSUME NEW k \in T  PROVE k + 1 \in T
  <2>1. k \in Nat  BY <1>7
  <2>2. CASE k + 1 <= n
    <3>1. k + 1 \in 1..n /\ (k + 1) - 1 = k /\ k <= n  BY <2>1, <2>2
    <3>2. F(k + 1) = F(k) \cup {eids[k + 1]}
      <4>1. 1..(k + 1) = 1..k \cup {k + 1}  BY <2>1
      <4> QED  BY <4>1
    <3>a. \A y \in F(k) : eids[k + 1] = y \/ ~Includes(y, eids[k + 1])
      <4>1. \A j \in 1..k : eids[k + 1] = eids[j] \/ ~Includes(eids[j], eids[k + 1])
        BY <1>a, <3>1
      <4> QED  BY <4>1
    <3>b. F(k) \subseteq Nodes(t)
      <4>1. 1..k \subseteq 1..n  BY <2>1, <3>1
      <4> QED  BY <1>a, <4>1 DEF IsSited
    <3> HIDE DEF F
    <3>3. PICK A, x, a, b : A = F(k) /\ x = eids[k + 1] /\ a = g[k] /\ b = g[k + 1]
      OBVIOUS
    <3>4. AreCleaned(t, a, A)  BY <1>7, <3>1, <3>3
    <3>5. b = FoldOp("clean", NULL, a, x)  BY <1>5, <3>1, <3>3
    <3>6. A \subseteq Nodes(t) /\ IsSited(t, x) /\ \A y \in A : x = y \/ ~Includes(y, x)
      BY <1>a, <3>1, <3>a, <3>b, <3>3
    <3>8. AreCleaned(t, b, A \cup {x})  BY <3>4, <3>5, <3>6, CleanStep
    <3>9. AreCleaned(t, g[k + 1], F(k + 1))  BY <3>2, <3>3, <3>8
    <3>10. k + 1 \in Nat  BY <2>1
    <3> QED  BY <3>9, <3>10
  <2> QED  BY <2>1, <2>2
<1>8. T = Nat
  <2>1. T \subseteq Nat  OBVIOUS
  <2> HIDE DEF T
  <2> QED  BY <1>6, <1>7, <2>1, Induction
<1>9. F(n) = E  BY <1>1
<1> HIDE DEF F
<1>10. AreCleaned(t, g[n], F(n))  BY <1>8
<1>11. \A x \in E : IsSited(t, x)  BY <1>1, <1>a
<1> QED  BY <1>4, <1>9, <1>10, <1>11
----------------------------------------------------------------------------
(***************************************************************************)
(* Validation: which site a prefix belongs to.                             *)
(***************************************************************************)
\* Over and the table's Includes are the same for prefixes.
LEMMA OverIs ==
    ASSUME NEW x \in Prefix, NEW p \in Prefix
    PROVE  Over(x, p) <=> Includes(x, p)
<1>2. Len(x) \in Nat /\ Len(p) \in Nat  BY PrefixShape
<1>3. CASE Len(x) <= Len(p)
  <2>1. Len(x) \in 0..Len(p)  BY <1>2, <1>3
  <2>2. PICK s : s = SubSeq(p, 1, Len(x))  OBVIOUS
  <2>3. s \in Prefix /\ Len(s) = Len(x) /\ \A k \in 1..Len(x) : s[k] = p[k]
    BY <2>1, <2>2, PrefixCut
  <2>4. s = x => Includes(x, p)  BY <1>3, <2>3 DEF Includes
  <2>5. Includes(x, p) => s = x  BY <2>3, PrefixEqual DEF Includes
  <2> QED  BY <1>3, <2>2, <2>4, <2>5 DEF Over
<1>4. CASE ~(Len(x) <= Len(p))  BY <1>4 DEF Over, Includes
<1> QED  BY <1>3, <1>4

\* Where a climb stops: _ms_validate_eid (udp.c 2850-2860) looks for an EID node,
\* ms_get_target (db.c 158-166) for a node with a type.
Stops(climb, t, y) ==
    IF climb = "site" THEN ms_node_is_type(t, y, {"EID"}) ELSE HasType(t, y)

Above(climb, t, y) == IF y = t.top \/ Stops(climb, t, y) THEN y ELSE t.node[y].parent

IsClimb(up, climb, t, x) ==
    up = [n \in 0..MaxLen |-> IF n = 0 THEN x ELSE Above(climb, t, up[n - 1])]

ClimbEnd(climb, t, x) == (CHOOSE up : IsClimb(up, climb, t, x))[MaxLen]

\* _ms_validate_eid with this climb.
LEMMA ValidateIs ==
    ASSUME NEW t, NEW p, NEW x, x = db_node_match_prefix(t, p)
    PROVE  _ms_validate_eid(t, p) = IF ClimbEnd("site", t, x) = t.top THEN NULL
                                    ELSE Flags(t, ClimbEnd("site", t, x)).rsvd
<1>1. TypeAbove(t, x, {"EID"}) = ClimbEnd("site", t, x)
  BY DEF TypeAbove, Climb, ClimbEnd, IsClimb, Above, Stops
<1> QED  BY <1>1 DEF _ms_validate_eid

\* ms_get_target is one.
LEMMA TargetIs ==
    ASSUME NEW t, NEW x
    PROVE  ms_get_target(t, x) = ClimbEnd("target", t, x)
BY DEF ms_get_target, Climb, ClimbEnd, IsClimb, Above, Stops

\* One step up.
LEMMA AboveIs ==
    ASSUME NEW climb, NEW t, Linked(t), NEW y \in Nodes(t)
    PROVE  /\ Above(climb, t, y) \in Nodes(t) /\ Includes(Above(climb, t, y), y)
           /\ y = t.top \/ Stops(climb, t, y) => Above(climb, t, y) = y
           /\ Above(climb, t, y) # y => Len(Above(climb, t, y)) < Len(y)
<1>0. Nodes(t) \subseteq Prefix  BY DEF Linked
<1>1. Includes(y, y)  BY <1>0, IncludesOrder
<1>2. LinkedUp(t, y)  BY DEF Linked
<1> QED  BY <1>1, <1>2 DEF Above, LinkedUp, Up

\* It ends at the top or at a node where it stops, the next one.
LEMMA ClimbEnds ==
    ASSUME NEW climb, NEW t, Linked(t), NEW x \in Nodes(t), NEW y, y = ClimbEnd(climb, t, x)
    PROVE  /\ y \in Nodes(t) /\ Includes(y, x)
           /\ \A z \in Nodes(t) : Includes(z, x) /\ Stops(climb, t, z) => Includes(z, y)
           /\ y = t.top \/ Stops(climb, t, y)
<1>0. MaxLen \in Nat  BY DbTableAssumption, Zenon
<1>1. Nodes(t) \subseteq Prefix  BY DEF Linked
<1>2. PICK S, step : S = Nodes(t) /\ step = [z \in S |-> Above(climb, t, z)]  OBVIOUS
<1>3. step \in [S -> S] /\ x \in S  BY <1>2, AboveIs
<1>4. PICK g : IsRun(g, S, x, step, MaxLen)  BY <1>0, <1>3, Iterates
<1>5. g \in [0..MaxLen -> S] /\ g[0] = x /\ \A n \in 1..MaxLen : g[n] = step[g[n - 1]]
  BY <1>4 DEF IsRun
<1>6. \A n \in 1..MaxLen : g[n] = Above(climb, t, g[n - 1])
  <2>1. \A n \in 1..MaxLen : g[n - 1] \in S  BY <1>0, <1>5
  <2> QED  BY <1>2, <1>5, <2>1
<1>7. IsClimb(g, climb, t, x)  BY <1>0, <1>5, <1>6 DEF IsClimb
<1>8. PICK up : up = CHOOSE f : IsClimb(f, climb, t, x)  OBVIOUS
<1>9. IsClimb(up, climb, t, x)  BY <1>7, <1>8
<1>10. up[0] = x /\ \A n \in 1..MaxLen : up[n] = Above(climb, t, up[n - 1])
  BY <1>0, <1>9 DEF IsClimb
<1>11. y = up[MaxLen]  BY <1>8 DEF ClimbEnd
<1> DEFINE Nearest(a) == \A z \in Nodes(t) :
                        Includes(z, x) /\ Stops(climb, t, z) => Includes(z, a)
           Good(n) == /\ up[n] \in Nodes(t) /\ Includes(up[n], x) /\ Nearest(up[n])
                      /\ \/ up[n] = t.top \/ Stops(climb, t, up[n])
                         \/ Len(up[n]) + n <= Len(x)
           T == {n \in Nat : n <= MaxLen => Good(n)}
<1>12. 0 \in T
  <2>1. Includes(x, x) /\ Len(x) \in Nat  BY <1>1, IncludesOrder, PrefixShape
  <2> QED  BY <1>10, <2>1
<1>13. ASSUME NEW n \in T  PROVE n + 1 \in T
  <2>1. n \in Nat  BY <1>13
  <2>2. CASE n + 1 <= MaxLen
    <3>1. n + 1 \in 1..MaxLen /\ (n + 1) - 1 = n /\ n <= MaxLen  BY <1>0, <2>1, <2>2
    <3>2. PICK a, b : a = up[n] /\ b = up[n + 1]  OBVIOUS
    <3>3. /\ a \in Nodes(t) /\ Includes(a, x) /\ Nearest(a)
          /\ \/ a = t.top \/ Stops(climb, t, a)
             \/ Len(a) + n <= Len(x)
      BY <1>13, <3>1, <3>2
    <3>4. b = Above(climb, t, a)  BY <1>10, <3>1, <3>2
    <3>5. /\ b \in Nodes(t) /\ Includes(b, a)
          /\ (a = t.top \/ Stops(climb, t, a)) => b = a
          /\ b # a => Len(b) < Len(a)
      BY <3>3, <3>4, AboveIs
    <3>6. Includes(b, x)  BY <1>1, <3>3, <3>5, IncludesOrder
    <3>7. Len(a) \in Nat /\ Len(b) \in Nat /\ Len(x) \in Nat
      BY <1>1, <3>3, <3>5, PrefixShape
    <3>8. \/ b = t.top \/ Stops(climb, t, b)
          \/ Len(b) + (n + 1) <= Len(x)
      <4>1. CASE a = t.top \/ Stops(climb, t, a)  BY <3>5, <4>1
      <4>2. CASE ~(a = t.top \/ Stops(climb, t, a))
        <5>1. Len(a) + n <= Len(x)  BY <3>3, <4>2
        <5>2. b # a
          <6>1. LinkedUp(t, a)  BY <3>3 DEF Linked
          <6>2. b = Up(t, a)  BY <3>4, <4>2 DEF Above, Up
          <6>3. Up(t, a) # NULL  BY <4>2, <6>1 DEF LinkedUp
          <6>4. Len(Up(t, a)) < Len(a)  BY <6>1, <6>3 DEF LinkedUp
          <6> QED  BY <3>7, <6>2, <6>4
        <5>3. Len(b) < Len(a)  BY <3>5, <5>2
        <5> QED  BY <2>1, <3>7, <5>1, <5>3
      <4> QED  BY <4>1, <4>2
    <3>11. Nearest(b)
      <4>1. CASE a = t.top \/ Stops(climb, t, a)  BY <3>3, <3>5, <4>1
      <4>2. CASE ~(a = t.top \/ Stops(climb, t, a))
        <5>1. b = Up(t, a)  BY <3>4, <4>2 DEF Above, Up
        <5>2. ASSUME NEW z \in Nodes(t), Includes(z, x), Stops(climb, t, z)
              PROVE  Includes(z, b)
          <6>1. Includes(z, a) /\ z # a  BY <3>3, <4>2, <5>2
          <6> QED  BY <3>3, <5>1, <6>1, ParentIsNext
        <5> QED  BY <5>2
      <4> QED  BY <4>1, <4>2
    <3>9. Good(n + 1)  BY <3>2, <3>5, <3>6, <3>8, <3>11
    <3>10. n + 1 \in Nat  BY <2>1
    <3> QED  BY <3>9, <3>10
  <2> QED  BY <2>1, <2>2
<1>14. T = Nat
  <2>1. T \subseteq Nat  OBVIOUS
  <2> HIDE DEF T
  <2> QED  BY <1>12, <1>13, <2>1, Induction
<1>15. Good(MaxLen)  BY <1>0, <1>14
<1>16. /\ y \in Nodes(t) /\ Includes(y, x) /\ Nearest(y)
       /\ \/ y = t.top \/ Stops(climb, t, y)
          \/ Len(y) + MaxLen <= Len(x)
  BY <1>11, <1>15
<1>17. ASSUME Len(y) + MaxLen <= Len(x)  PROVE y = t.top
  <2>1. Len(x) \in 0..MaxLen /\ Len(y) \in Nat  BY <1>1, <1>16, PrefixShape
  <2>2. Len(y) = 0  BY <1>0, <1>17, <2>1
  <2>3. t.top \in Nodes(t) /\ Includes(t.top, y)  BY <1>16, TopIncludesAll
  <2>4. Len(t.top) \in Nat  BY <1>1, <2>3, PrefixShape
  <2>5. Len(t.top) = Len(y)  BY <2>2, <2>3, <2>4 DEF Includes
  <2> QED  BY <1>1, <1>16, <2>3, <2>5, IncludesOrder
<1> QED  BY <1>16, <1>17

\* A lookup finds the longest of the nodes that include p.
LEMMA MatchFinds ==
    ASSUME NEW t, MsTable(t), NEW p \in Prefix, NEW x, x = db_node_match_prefix(t, p)
    PROVE  /\ x \in Nodes(t) /\ Includes(x, p)
           /\ \A z \in Nodes(t) : Includes(z, p) => Includes(z, x)
<1>1. Linked(t) /\ <<>> \in Nodes(t)  BY DEF MsTable, Shaped
<1>2. Nodes(t) \subseteq Prefix  BY <1>1 DEF Linked
<1>3. PICK V : V = {z \in Nodes(t) : Includes(z, p)}  OBVIOUS
<1>4. x = Last(V)  BY <1>1, <1>3, VisitedIs DEF db_node_match_prefix
<1>5. V # {}
  <2>1. PICK e \in Nodes(t) : e = <<>>  BY <1>1
  <2>2. Len(e) = 0  BY <2>1
  <2>3. Includes(e, p)  BY <2>2, PrefixShape DEF Includes
  <2> QED  BY <1>3, <2>3
<1>6. V \subseteq {z \in Prefix : Includes(z, p)}  BY <1>2, <1>3
<1>7. Last(V) \in V /\ \A z \in V : Includes(z, Last(V))  BY <1>5, <1>6, LastIs
<1> QED  BY <1>3, <1>4, <1>7

\* A site is only found through one of its EID nodes.
LEMMA ValidateFinds ==
    ASSUME NEW t, MsTable(t), NEW p \in Prefix, NEW s, s = _ms_validate_eid(t, p), s # NULL
    PROVE  \E y \in Nodes(t) : IsSited(t, y) /\ Includes(y, p) /\ Flags(t, y).rsvd = s
<1>1. Linked(t) /\ <<>> \in Nodes(t)  BY DEF MsTable, Shaped
<1>2. Nodes(t) \subseteq Prefix  BY <1>1 DEF Linked
<1>3. PICK x : x = db_node_match_prefix(t, p)  OBVIOUS
<1>4. x \in Nodes(t) /\ Includes(x, p)  BY <1>3, MatchFinds
<1>5. PICK y : y = ClimbEnd("site", t, x)  OBVIOUS
<1>6. /\ y \in Nodes(t) /\ Includes(y, x)
      /\ y = t.top \/ ms_node_is_type(t, y, {"EID"})
  BY <1>1, <1>4, <1>5, ClimbEnds DEF Stops
<1>7. s = IF y = t.top THEN NULL ELSE Flags(t, y).rsvd  BY <1>3, <1>5, ValidateIs
<1>8. y # t.top /\ s = Flags(t, y).rsvd  BY <1>7
<1>9. IsSited(t, y)  BY <1>6, <1>8 DEF IsSited, ms_node_is_type, RangeOf
<1>10. Includes(y, p)  BY <1>2, <1>4, <1>6, IncludesOrder
<1> QED  BY <1>6, <1>8, <1>9, <1>10
----------------------------------------------------------------------------
(***************************************************************************)
(* The configuration.                                                      *)
(***************************************************************************)
\* The elements that give a site a prefix.
EidElements == {k \in DOMAIN Config : Config[k].kind = "EID"}

\* The EID nodes are those of the configuration, with their sites.
Sited(t) ==
    \A x : IsSited(t, x) =>
        \E k \in EidElements : Config[k].eid = x /\ Config[k].site = Flags(t, x).rsvd

\* The elements are of their types.
LEMMA ConfigIs ==
    ASSUME NEW k \in DOMAIN Config
    PROVE  /\ k \in 1..Len(Config) /\ Len(Config) \in Nat
           /\ Config[k].eid \in Prefix /\ Config[k].kind \in {"GEID", "GREID", "EID", "REID"}
           /\ Config[k].kind = "EID" => Config[k].site \in Sites
           /\ Config[k].kind = "REID" => /\ Config[k].locs \in Seq(Locator)
                                         /\ Config[k].referral \in Referral
                                         /\ Config[k].A \in BOOLEAN
<1>1. PICK R, E, D :
         /\ R = [kind : {"GEID", "GREID"}, eid : Prefix]
         /\ E = [kind : {"EID"}, eid : Prefix, site : Sites]
         /\ D = [kind : {"REID"}, eid : Prefix, locs : Seq(Locator),
                 referral : Referral, A : BOOLEAN]
         /\ Config \in Seq(R \cup E \cup D)
  BY MapServerAssumption
<1>2. k \in 1..Len(Config) /\ Len(Config) \in Nat /\ Config[k] \in R \cup E \cup D
  BY <1>1
<1>3. PICK c : c = Config[k]  OBVIOUS
<1>4. CASE c \in R  BY <1>1, <1>2, <1>3, <1>4
<1>5. CASE c \in E  BY <1>1, <1>2, <1>3, <1>5
<1>6. CASE c \in D  BY <1>1, <1>2, <1>3, <1>6
<1> QED  BY <1>2, <1>3, <1>4, <1>5, <1>6

\* The EIDs of a site.
LEMMA EidsOfAre ==
    ASSUME NEW s \in Sites
    PROVE  /\ EidsOf[s] \subseteq Prefix
           /\ \A p : p \in EidsOf[s] <=>
                 \E k \in EidElements : Config[k].site = s /\ Config[k].eid = p
<1>1. EidsOf[s] = {Config[k].eid : k \in {k \in DOMAIN Config :
                                            Config[k].kind = "EID" /\ Config[k].site = s}}
  BY DEF EidsOf
<1>2. \A p : p \in EidsOf[s] <=>
         \E k \in EidElements : Config[k].site = s /\ Config[k].eid = p
  BY <1>1 DEF EidElements
<1>3. \A k \in EidElements : Config[k].eid \in Prefix  BY ConfigIs DEF EidElements
<1> QED  BY <1>2, <1>3

\* What lies in a site.
LEMMA WithinIs ==
    ASSUME NEW s \in Sites, NEW x \in Prefix
    PROVE  Within(x, s) <=> \E p \in EidsOf[s] : Includes(p, x)
<1>1. \A p \in EidsOf[s] : p \in Prefix  BY EidsOfAre
<1>2. \A p \in EidsOf[s] : Over(p, x) <=> Includes(p, x)  BY <1>1, OverIs
<1> QED  BY <1>2 DEF Within

\* Sites that have a place in common meet.
LEMMA MeetingIs ==
    ASSUME NEW s \in Sites, NEW q \in Sites
    PROVE  q \in Meeting[s] <=>
              \E x \in EidsOf[s] : \E y \in EidsOf[q] : Includes(x, y) \/ Includes(y, x)
<1>1. Meeting[s] = {r \in Sites : \E x \in EidsOf[s], y \in EidsOf[r] : Over(x, y) \/ Over(y, x)}
  BY DEF Meeting
<1>2. (\A x \in EidsOf[s] : x \in Prefix) /\ \A y \in EidsOf[q] : y \in Prefix
  BY EidsOfAre
<1>3. \A x \in EidsOf[s] : \A y \in EidsOf[q] :
         (Over(x, y) <=> Includes(x, y)) /\ (Over(y, x) <=> Includes(y, x))
  BY <1>2, OverIs
<1> QED  BY <1>1, <1>3

\* Whichever of them is asked.
LEMMA MeetingBoth ==
    ASSUME NEW s \in Sites, NEW q \in Sites
    PROVE  q \in Meeting[s] <=> s \in Meeting[q]
BY MeetingIs

\* Two prefixes above a third are one above the other.
LEMMA Comparable ==
    ASSUME NEW a \in Prefix, NEW b \in Prefix, NEW x \in Prefix, Includes(a, x), Includes(b, x)
    PROVE  Includes(a, b) \/ Includes(b, a)
<1>1. Len(a) \in Nat /\ Len(b) \in Nat  BY PrefixShape
<1>2. Len(a) <= Len(b) \/ Len(b) <= Len(a)  BY <1>1
<1> QED  BY <1>2, IncludesOrder

\* A prefix that lies in two sites makes them meet.
LEMMA WithinMeets ==
    ASSUME NEW s \in Sites, NEW q \in Sites, NEW x \in Prefix, Within(x, s), Within(x, q)
    PROVE  q \in Meeting[s]
<1>1. PICK a \in EidsOf[s] : Includes(a, x)  BY WithinIs
<1>2. PICK b \in EidsOf[q] : Includes(b, x)  BY WithinIs
<1>3. a \in Prefix /\ b \in Prefix  BY EidsOfAre
<1>4. Includes(a, b) \/ Includes(b, a)  BY <1>1, <1>2, <1>3, Comparable
<1> QED  BY <1>4, MeetingIs

\* What lies below a prefix of a site lies in the site.
LEMMA WithinBelow ==
    ASSUME NEW s \in Sites, NEW x \in Prefix, NEW y \in Prefix, Within(x, s), Includes(x, y)
    PROVE  Within(y, s)
<1>1. PICK a \in EidsOf[s] : Includes(a, x)  BY WithinIs
<1>2. a \in Prefix  BY EidsOfAre
<1>3. Includes(a, y)  BY <1>1, <1>2, IncludesOrder
<1> QED  BY <1>3, WithinIs

\* What lies in an EID node is its site's.
LEMMA SitedWithin ==
    ASSUME NEW t, Sited(t), NEW y, IsSited(t, y), NEW p \in Prefix, Includes(y, p)
    PROVE  Flags(t, y).rsvd \in Sites /\ Within(p, Flags(t, y).rsvd)
<1>1. PICK k \in EidElements : Config[k].eid = y /\ Config[k].site = Flags(t, y).rsvd
  BY DEF Sited
<1>2. PICK s \in Sites : s = Config[k].site  BY ConfigIs DEF EidElements
<1>3. y \in EidsOf[s]  BY <1>1, <1>2, EidsOfAre
<1>4. Within(p, s)  BY <1>3, WithinIs
<1> QED  BY <1>1, <1>2, <1>4

\* A register that is not refused lies within one site, and one that is to be
\* applied carries the key of that site, unless it has no authentication data.
LEMMA RegisterValid ==
    ASSUME NEW t, MsTable(t), Sited(t), NEW h, NEW m, m.recs \in Seq(Record),
           NEW n \in Nat, DOMAIN m.recs = 1..n, \A i \in 1..n : m.recs[i].eid \in Prefix,
           NEW v, v = _ms_validate_register(t, h, m)
    PROVE  /\ v.rt \in {-1, 0, 1}
           /\ v.rt # -1 => /\ v.site \in Sites /\ m.recs # <<>>
                           /\ \A i \in 1..n : Within(m.recs[i].eid, v.site)
           /\ v.rt = 0 => SameHash(h[v.site], m)
           /\ v.rt = 1 => (m.auth => m.key = v.site)
<1>1. PICK f : f = [i \in 1..n |-> _ms_validate_eid(t, m.recs[i].eid)]  OBVIOUS
<1>2. PICK sites : sites = {f[i] : i \in 1..n}  OBVIOUS
<1>3. PICK s : s = CHOOSE r \in sites : TRUE  OBVIOUS
<1>4. v = IF m.recs = <<>> \/ NULL \in sites \/ Cardinality(sites) > 1
          THEN [site |-> NULL, rt |-> -1]
          ELSE [site |-> s,
                rt   |-> CASE SameHash(h[s], m) -> 0
                           [] m.auth /\ m.key # s -> -1
                           [] OTHER -> 1]
  <2>1. sites = {_ms_validate_eid(t, m.recs[i].eid) : i \in DOMAIN m.recs}
    BY <1>1, <1>2
  <2> QED  BY <1>3, <2>1 DEF _ms_validate_register
<1>5. CASE m.recs = <<>> \/ NULL \in sites \/ Cardinality(sites) > 1
  BY <1>4, <1>5
<1>6. CASE ~(m.recs = <<>> \/ NULL \in sites \/ Cardinality(sites) > 1)
  <2>1. v.site = s /\ v.rt = CASE SameHash(h[s], m) -> 0
                               [] m.auth /\ m.key # s -> -1
                               [] OTHER -> 1
    BY <1>4, <1>6
  <2>2. /\ v.rt \in {-1, 0, 1}
        /\ v.rt = 0 => SameHash(h[v.site], m)
        /\ v.rt = 1 => (m.auth => m.key = v.site)
    <3>a. PICK same, other : /\ same = SameHash(h[s], m) /\ same \in BOOLEAN
                             /\ other = (m.auth /\ m.key # s) /\ other \in BOOLEAN
      BY Zenon DEF SameHash
    <3>b. v.rt = CASE same -> 0 [] other -> -1 [] OTHER -> 1  BY <2>1, <3>a, Zenon
    <3>1. CASE same  BY <2>1, <3>a, <3>b, <3>1
    <3>2. CASE ~same /\ other
      <4>1. v.rt = -1  BY <3>b, <3>2
      <4> QED  BY <4>1
    <3>3. CASE ~same /\ ~other
      <4>1. v.rt = 1  BY <3>b, <3>3
      <4>2. m.auth => m.key = v.site  BY <2>1, <3>a, <3>3, Zenon
      <4> QED  BY <4>1, <4>2
    <3> QED  BY <3>1, <3>2, <3>3, Zenon
  <2>3. ASSUME v.rt # -1
        PROVE  /\ v.site \in Sites /\ m.recs # <<>>
               /\ \A i \in 1..n : Within(m.recs[i].eid, v.site)
    <3>1. IsFiniteSet(sites)
      <4>1. IsFiniteSet(1..n)
        <5>1. 1 \in Int /\ n \in Int  OBVIOUS
        <5> QED  BY <5>1, FS_Interval
      <4>2. f \in Surjection(1..n, sites)  BY <1>1, <1>2 DEF Surjection
      <4> QED  BY <4>1, <4>2, FS_Surjection
    <3>2. Cardinality(sites) \in Nat /\ ~(Cardinality(sites) > 1)
      BY <1>6, <3>1, FS_CardinalityType
    <3>3. \A a \in sites : \A b \in sites : a = b
      <4>1. SUFFICES ASSUME NEW a \in sites, NEW b \in sites, a # b  PROVE FALSE
        OBVIOUS
      <4>2. PICK one, two : one = {a} /\ two = one \cup {b}  OBVIOUS
      <4>3. IsFiniteSet(one) /\ Cardinality(one) = 1  BY <4>2, FS_Singleton
      <4>4. b \notin one  BY <4>1, <4>2
      <4>5. Cardinality(two) = 2
        <5>1. Cardinality(one \cup {b}) = Cardinality(one) + 1
          BY <4>3, <4>4, FS_AddElement
        <5>2. Cardinality(two) = Cardinality(one \cup {b})  BY <4>2, Zenon
        <5>3. Cardinality(one \cup {b}) = 1 + 1  BY <4>3, <5>1, Zenon
        <5>4. Cardinality(two) = 1 + 1  BY <5>2, <5>3, Zenon
        <5> QED  BY <5>4
      <4>6. two \in SUBSET sites  BY <4>2
      <4>7. Cardinality(two) <= Cardinality(sites)  BY <3>1, <4>6, FS_Subset
      <4> QED  BY <3>2, <4>5, <4>7
    <3>4. \A i \in 1..n : f[i] = s
      <4>1. \A i \in 1..n : f[i] \in sites  BY <1>2
      <4>2. \A i \in 1..n : s \in sites  BY <1>3, <4>1
      <4> QED  BY <3>3, <4>1, <4>2
    <3>5. m.recs # <<>>  BY <1>6
    <3>6. ASSUME NEW i \in 1..n  PROVE Within(m.recs[i].eid, s) /\ s \in Sites
      <4>1. PICK p \in Prefix : p = m.recs[i].eid  OBVIOUS
      <4>2. s = _ms_validate_eid(t, p)  BY <1>1, <3>4, <4>1
      <4>3. s # NULL  BY <1>2, <1>6, <3>4
      <4>4. PICK y \in Nodes(t) : IsSited(t, y) /\ Includes(y, p) /\ Flags(t, y).rsvd = s
        BY <4>2, <4>3, ValidateFinds
      <4> QED  BY <4>1, <4>4, SitedWithin
    <3>7. n # 0
      <4>1. SUFFICES ASSUME n = 0  PROVE FALSE  OBVIOUS
      <4>2. m.recs = <<>>
        <5>1. PICK l \in Seq(Record) : l = m.recs  OBVIOUS
        <5>2. DOMAIN l = 1..Len(l) /\ Len(l) \in Nat  BY <5>1
        <5>3. 1..Len(l) = 1..n  BY <5>1, <5>2, Zenon
        <5>4. PICK k \in Nat : k = Len(l)  BY <5>2
        <5>5. k = 0
          <6>1. 1 \notin 1..n  BY <4>1
          <6>2. 1 \notin 1..k  BY <5>3, <5>4, <6>1
          <6> QED  BY <6>2
        <5>6. Len(l) = 0  BY <5>4, <5>5
        <5> QED  BY <5>1, <5>6
      <4> QED  BY <3>5, <4>2
    <3>8. s \in Sites
      <4>1. 1 \in 1..n  BY <3>7
      <4> QED  BY <3>6, <4>1
    <3> QED  BY <2>1, <3>5, <3>6, <3>8
  <2> QED  BY <2>2, <2>3
<1> QED  BY <1>5, <1>6
----------------------------------------------------------------------------
(***************************************************************************)
(* Records as they are sent.                                               *)
(***************************************************************************)
\* A locator is put in its place.
LEMMA InsertIs ==
    ASSUME NEW l \in Seq(Locator), NEW e \in Locator, NEW u, u = _insert_ip_ordered(l, e)
    PROVE  u \in Seq(Locator) /\ SetOf(u) = SetOf(l) \cup {e}
<1>1. PICK n \in Nat : n = Len(l) /\ DOMAIN l = 1..n /\ \A i \in 1..n : l[i] \in Locator
  BY Z3
<1>2. PICK K, k : K = {i \in DOMAIN l : l[i].rloc < e.rloc} /\ k = Cardinality(K)
  OBVIOUS
<1>3. k \in 0..n
  <2>1. IsFiniteSet(1..n) /\ Cardinality(1..n) = n
    <3>1. IsFiniteSet(1..n) /\ Cardinality(1..n) = IF 1 > n THEN 0 ELSE n - 1 + 1
      BY FS_Interval
    <3> QED  BY <3>1
  <2>2. K \in SUBSET (1..n)  BY <1>1, <1>2
  <2>3. IsFiniteSet(K) /\ Cardinality(K) <= n  BY <2>1, <2>2, FS_Subset
  <2>4. k \in Nat  BY <1>2, <2>3, FS_CardinalityType
  <2> QED  BY <1>2, <2>3, <2>4
<1>4. u = SubSeq(l, 1, k) \o <<e>> \o SubSeq(l, k + 1, n)
  BY <1>1, <1>2 DEF _insert_ip_ordered
<1>5. PICK a, b, d : /\ a = SubSeq(l, 1, k) /\ b = SubSeq(l, k + 1, n)
                    /\ d = a \o <<e>>
  OBVIOUS
<1>6. a \in Seq(Locator) /\ Len(a) = k /\ \A i \in 1..k : a[i] = l[i]
  BY <1>1, <1>3, <1>5
<1>7. b \in Seq(Locator) /\ Len(b) = n - k /\ \A i \in 1..(n - k) : b[i] = l[k + i]
  BY <1>1, <1>3, <1>5
<1>8. /\ d \in Seq(Locator) /\ Len(d) = k + 1
      /\ \A i \in 1..k : d[i] = l[i]
      /\ d[k + 1] = e
  <2>1. /\ d \in Seq(Locator) /\ Len(d) = Len(a) + 1
        /\ \A i \in 1..Len(a) : d[i] = a[i]
        /\ d[Len(a) + 1] = e
    <3>1. a \in Seq(Locator)  BY <1>6
    <3>2. d = a \o <<e>>  BY <1>5
    <3> QED  BY <3>1, <3>2
  <2> QED  BY <1>6, <2>1
<1>11. u = d \o b  BY <1>4, <1>5
<1>12. /\ u \in Seq(Locator) /\ Len(u) = n + 1
       /\ \A i \in 1..(k + 1) : u[i] = d[i]
       /\ \A i \in (k + 2)..(n + 1) : u[i] = b[i - (k + 1)]
  BY <1>3, <1>7, <1>8, <1>11
<1>13. DOMAIN u = 1..(n + 1)  BY <1>12
<1>14. \A i \in 1..(n + 1) : u[i] \in SetOf(l) \cup {e}
  <2>1. SUFFICES ASSUME NEW i \in 1..(n + 1)  PROVE u[i] \in SetOf(l) \cup {e}
    OBVIOUS
  <2>2. CASE i <= k
    <3>1. u[i] = l[i] /\ i \in 1..n  BY <1>3, <1>8, <1>12, <2>2
    <3> QED  BY <1>1, <3>1 DEF SetOf
  <2>3. CASE i = k + 1
    <3>1. u[i] = e  BY <1>3, <1>8, <1>12, <2>3
    <3> QED  BY <3>1
  <2>4. CASE i > k + 1
    <3>1. i \in (k + 2)..(n + 1) /\ i - (k + 1) \in 1..(n - k)  BY <1>3, <2>4
    <3>2. u[i] = l[k + (i - (k + 1))]  BY <1>7, <1>12, <3>1
    <3>3. k + (i - (k + 1)) = i - 1 /\ i - 1 \in 1..n  BY <1>3, <2>4
    <3> QED  BY <1>1, <3>2, <3>3 DEF SetOf
  <2> QED  BY <1>3, <2>2, <2>3, <2>4
<1>15. \A i \in 1..n : \E j \in 1..(n + 1) : u[j] = l[i]
  <2>1. SUFFICES ASSUME NEW i \in 1..n  PROVE \E j \in 1..(n + 1) : u[j] = l[i]
    OBVIOUS
  <2>2. CASE i <= k
    <3>1. u[i] = l[i] /\ i \in 1..(n + 1)  BY <1>3, <1>8, <1>12, <2>2
    <3> QED  BY <3>1
  <2>3. CASE i > k
    <3>1. i + 1 \in (k + 2)..(n + 1) /\ (i + 1) - (k + 1) = i - k /\ i - k \in 1..(n - k)
      BY <1>3, <2>3
    <3>2. u[i + 1] = l[k + (i - k)] /\ k + (i - k) = i  BY <1>3, <1>7, <1>12, <3>1
    <3> QED  BY <1>3, <3>1, <3>2
  <2> QED  BY <1>3, <2>2, <2>3
<1>16. \E j \in 1..(n + 1) : u[j] = e
  <2>1. k + 1 \in 1..(n + 1) /\ u[k + 1] = e  BY <1>3, <1>8, <1>12
  <2> QED  BY <2>1
<1>17. SetOf(u) \subseteq SetOf(l) \cup {e}  BY <1>13, <1>14 DEF SetOf
<1>18. SetOf(l) \cup {e} \subseteq SetOf(u)  BY <1>1, <1>13, <1>15, <1>16 DEF SetOf
<1> QED  BY <1>12, <1>17, <1>18

\* The elements of the first k ones.
FirstOf(l, k) == {l[i] : i \in 1..k}

\* The first k + 1 elements are the first k and one more.
LEMMA FirstOfIs ==
    ASSUME NEW l, NEW k \in Nat
    PROVE  /\ FirstOf(l, 0) = {}
           /\ FirstOf(l, k + 1) = FirstOf(l, k) \cup {l[k + 1]}
<1>1. 1..0 = {} /\ 1..(k + 1) = 1..k \cup {k + 1}  OBVIOUS
<1> QED  BY <1>1 DEF FirstOf

\* Sorting loses and invents no locator.
LEMMA OrderedEffect ==
    ASSUME NEW locs \in Seq(Locator), NEW u, u = Fold("ordered", NULL, <<>>, locs)
    PROVE  u \in Seq(Locator) /\ SetOf(u) = SetOf(locs)
<1>1. PICK n \in Nat : DOMAIN locs = 1..n /\ \A i \in 1..n : locs[i] \in Locator  BY Z3
<1>2. PICK base : base = <<>>  OBVIOUS
<1>3. PICK g : FoldRun(g, "ordered", NULL, base, locs, n)
               /\ Fold("ordered", NULL, base, locs) = g[n]
  BY <1>1, FoldRuns
<1>4. u = g[n] /\ g[0] = base /\ \A k \in 1..n : g[k] = _insert_ip_ordered(g[k - 1], locs[k])
  BY <1>2, <1>3 DEF FoldRun, FoldOp
<1> DEFINE Good(k) == g[k] \in Seq(Locator) /\ SetOf(g[k]) = FirstOf(locs, k)
           T == {k \in Nat : k <= n => Good(k)}
<1>5. 0 \in T
  <2>1. base \in Seq(Locator) /\ DOMAIN base = {}  BY <1>2
  <2>2. SetOf(base) = {}  BY <2>1 DEF SetOf
  <2>3. FirstOf(locs, 0) = {}  BY FirstOfIs
  <2> QED  BY <1>4, <2>1, <2>2, <2>3
<1>6. ASSUME NEW k \in T  PROVE k + 1 \in T
  <2>1. k \in Nat  BY <1>6
  <2>2. CASE k + 1 <= n
    <3>1. k + 1 \in 1..n /\ (k + 1) - 1 = k /\ k <= n  BY <2>1, <2>2
    <3>2. PICK a, b, e : a = g[k] /\ b = g[k + 1] /\ e = locs[k + 1]  OBVIOUS
    <3>3. a \in Seq(Locator) /\ SetOf(a) = FirstOf(locs, k)  BY <1>6, <3>1, <3>2
    <3>4. b = _insert_ip_ordered(a, e) /\ e \in Locator  BY <1>1, <1>4, <3>1, <3>2
    <3>5. b \in Seq(Locator) /\ SetOf(b) = SetOf(a) \cup {e}  BY <3>3, <3>4, InsertIs
    <3>6. FirstOf(locs, k + 1) = FirstOf(locs, k) \cup {e}  BY <2>1, <3>2, FirstOfIs
    <3>7. Good(k + 1)  BY <3>2, <3>3, <3>5, <3>6
    <3>8. k + 1 \in Nat  BY <2>1
    <3> QED  BY <3>7, <3>8
  <2> QED  BY <2>1, <2>2
<1>7. T = Nat
  <2>1. T \subseteq Nat  OBVIOUS
  <2> HIDE DEF T
  <2> QED  BY <1>5, <1>6, <2>1, Induction
<1>8. Good(n)  BY <1>7
<1>9. FirstOf(locs, n) = SetOf(locs)  BY <1>1 DEF FirstOf, SetOf
<1> QED  BY <1>4, <1>8, <1>9

\* A record is sent with its EID and its locators.
LEMMA AnnouncedIs ==
    ASSUME NEW r \in Record
    PROVE  /\ Announced(r) \in Record /\ Announced(r).eid = r.eid
           /\ SetOf(Announced(r).locs) = SetOf(r.locs)
<1>1. PICK l, u : l = r.locs /\ u = Fold("ordered", NULL, <<>>, l)  OBVIOUS
<1>2. l \in Seq(Locator)  BY <1>1 DEF Record
<1>3. u \in Seq(Locator) /\ SetOf(u) = SetOf(l)  BY <1>1, <1>2, OrderedEffect
<1>4. Announced(r) = [r EXCEPT !.locs = u]  BY <1>1, OrderedIsFold DEF Announced
<1>5. PICK a : a = [r EXCEPT !.locs = u]  OBVIOUS
<1>6. a \in Record /\ a.eid = r.eid /\ a.locs = u  BY <1>3, <1>5 DEF Record
<1> QED  BY <1>1, <1>3, <1>4, <1>5, <1>6
----------------------------------------------------------------------------
(***************************************************************************)
(* The tables of the invariant, and what keeps them.                       *)
(***************************************************************************)
\* A site's list holds EIDs of the site; those the first n elements gave it are
\* there.
ListsAre(n, lists) ==
    /\ lists \in [Sites -> Seq(Prefix)]
    /\ \A s \in Sites : \A i \in DOMAIN lists[s] : lists[s][i] \in EidsOf[s]
    /\ \A k \in EidElements :
          k < n => \E i \in DOMAIN lists[Config[k].site] :
                      lists[Config[k].site][i] = Config[k].eid

\* The EIDs that are below no other one, of the first n elements, have their node.
Held(t, n) ==
    \A k \in EidElements : k < n /\ Lone(k) =>
        /\ IsSited(t, Config[k].eid)
        /\ Flags(t, Config[k].eid).rsvd = Config[k].site

TableInv(t, lists, n) ==
    /\ MsTable(t) /\ Sited(t)
    /\ ListsAre(n, lists)
    /\ Held(t, n)

\* The same EID nodes with the same sites.
SameSites(t, u) ==
    \A y : /\ IsSited(u, y) <=> IsSited(t, y)
           /\ IsSited(t, y) => Flags(u, y).rsvd = Flags(t, y).rsvd

\* The invariant passes to a table that keeps the sited nodes as they were.
LEMMA SameSitesKeep ==
    ASSUME NEW t, NEW lists, NEW n, TableInv(t, lists, n), NEW u, MsTable(u), SameSites(t, u)
    PROVE  TableInv(u, lists, n)
<1>1. Sited(u)
  <2>1. SUFFICES ASSUME NEW x, IsSited(u, x)
                 PROVE  \E k \in EidElements : Config[k].eid = x
                                               /\ Config[k].site = Flags(u, x).rsvd
    BY DEF Sited
  <2>2. IsSited(t, x) /\ Flags(u, x).rsvd = Flags(t, x).rsvd  BY <2>1 DEF SameSites
  <2> QED  BY <2>2 DEF TableInv, Sited
<1>2. Held(u, n)  BY DEF TableInv, Held, SameSites
<1> QED  BY <1>1, <1>2 DEF TableInv

\* An update that leaves the site of the node alone.
LEMMA UpdatedSites ==
    ASSUME NEW t, NEW u, NEW p, NEW f, Updated(t, u, p, f),
           "EID" \in RangeOf(f) <=> "EID" \in RangeOf(Old(t, p)),
           "EID" \in RangeOf(f) => f.rsvd = Old(t, p).rsvd
    PROVE  SameSites(t, u)
<1>1. SUFFICES ASSUME NEW y
               PROVE  /\ IsSited(u, y) <=> IsSited(t, y)
                      /\ IsSited(t, y) => Flags(u, y).rsvd = Flags(t, y).rsvd
  BY DEF SameSites
<1>2. CASE y = p
  <2>1. p \in Nodes(u) /\ Flags(u, p) = f  BY DEF Updated
  <2>2. CASE p \in Nodes(t)
    <3>1. Old(t, p) = Flags(t, p)  BY <2>2 DEF Old
    <3> QED  BY <1>2, <2>1, <2>2, <3>1 DEF IsSited
  <2>3. CASE p \notin Nodes(t)
    <3>1. RangeOf(Old(t, p)) = {}  BY <2>3 DEF Old, RangeOf
    <3> QED  BY <1>2, <2>1, <2>3, <3>1 DEF IsSited
  <2> QED  BY <2>2, <2>3
<1>3. CASE y # p /\ y \in Nodes(t)
  <2>1. y \in Nodes(u) /\ Flags(u, y) = Flags(t, y)  BY <1>3 DEF Updated
  <2> QED  BY <1>3, <2>1 DEF IsSited
<1>4. CASE y # p /\ y \notin Nodes(t) /\ y \in Nodes(u)
  <2>1. Flags(u, y) = NULL  BY <1>4 DEF Updated
  <2> QED  BY <1>4, <2>1 DEF IsSited, RangeOf
<1>5. CASE y # p /\ y \notin Nodes(t) /\ y \notin Nodes(u)  BY <1>5 DEF IsSited
<1> QED  BY <1>2, <1>3, <1>4, <1>5

\* Adding a mapping leaves the site of its node alone.
LEMMA MappingSites ==
    ASSUME NEW t, MsTable(t), NEW u, NEW p, NEW m \in MappingFlags, m.rsvd = NULL,
           m.range = {"MAPP"}, Updated(t, u, p, Merged(Old(t, p), m))
    PROVE  SameSites(t, u)
<1>1. PICK old, f : old = Old(t, p) /\ f = Merged(old, m)  OBVIOUS
<1>2. old \in MappingFlags \cup {NULL}  BY <1>1 DEF Old, MsTable
<1>3. /\ f \in MappingFlags /\ f.range = {"MAPP"} \cup RangeOf(old)
      /\ f.rsvd = IF old = NULL THEN NULL ELSE old.rsvd
  BY <1>1, <1>2, MergedIs
<1>4. NULL \notin MappingFlags  BY MapServerAssumption, Zenon
<1>5. RangeOf(f) = {"MAPP"} \cup RangeOf(old)  BY <1>3, <1>4 DEF RangeOf
<1>6. "EID" \in RangeOf(f) <=> "EID" \in RangeOf(old)  BY <1>5
<1>7. "EID" \in RangeOf(f) => f.rsvd = old.rsvd
  <2>1. "EID" \in RangeOf(old) => old # NULL  BY DEF RangeOf
  <2> QED  BY <1>3, <1>6, <2>1
<1> QED  BY <1>1, <1>6, <1>7, UpdatedSites

\* So does a range.
LEMMA RangeSites ==
    ASSUME NEW t, MsTable(t), NEW u, NEW p, NEW type \in {"GEID", "GREID"},
           Updated(t, u, p, Ranged(Old(t, p), type))
    PROVE  SameSites(t, u)
<1>1. PICK old, f : old = Old(t, p) /\ f = Ranged(old, type)  OBVIOUS
<1>2. old \in MappingFlags \cup {NULL}  BY <1>1 DEF Old, MsTable
<1>3. /\ f \in MappingFlags /\ f.range = {type} \cup RangeOf(old)
      /\ old # NULL => f.rsvd = old.rsvd
  BY <1>1, <1>2, RangedIs
<1>4. NULL \notin MappingFlags  BY MapServerAssumption, Zenon
<1>5. RangeOf(f) = {type} \cup RangeOf(old)  BY <1>3, <1>4 DEF RangeOf
<1>6. "EID" \in RangeOf(f) <=> "EID" \in RangeOf(old)
  <2>1. "EID" \notin {type}  OBVIOUS
  <2> QED  BY <1>5, <2>1
<1>7. "EID" \in RangeOf(f) => f.rsvd = old.rsvd
  <2>1. "EID" \in RangeOf(old) => old # NULL  BY DEF RangeOf
  <2> QED  BY <1>3, <1>6, <2>1
<1> QED  BY <1>1, <1>6, <1>7, UpdatedSites

\* A place no other element is at or above.
LEMMA LoneIs ==
    ASSUME NEW k \in EidElements, Lone(k), NEW j \in EidElements,
           Includes(Config[j].eid, Config[k].eid)
    PROVE  j = k
<1>1. Config[j].eid \in Prefix /\ Config[k].eid \in Prefix  BY ConfigIs DEF EidElements
<1>2. Over(Config[j].eid, Config[k].eid)  BY <1>1, OverIs
<1>3. j \in DOMAIN Config /\ Config[j].kind = "EID"  BY DEF EidElements
<1> QED  BY <1>2, <1>3 DEF Lone

\* The cleaning of a site frees EID nodes of others, but none that stands alone.
LEMMA CleanTable ==
    ASSUME NEW t, NEW lists, NEW n, TableInv(t, lists, n), NEW u, NEW E,
           \A x \in E : IsSited(t, x), AreCleaned(t, u, E)
    PROVE  TableInv(u, lists, n)
<1>1. MsTable(u) /\ Sited(t)  BY DEF AreCleaned, TableInv
<1>2. ASSUME NEW y, IsSited(u, y)
      PROVE  IsSited(t, y) /\ Flags(u, y).rsvd = Flags(t, y).rsvd
  <2>1. y \in Nodes(u) /\ y \in Nodes(t)  BY <1>2 DEF IsSited, AreCleaned
  <2>2. CASE y \in E  BY <2>1, <2>2 DEF AreCleaned
  <2>3. CASE y \notin E
    <3>1. Flags(u, y) = Flags(t, y)  BY <2>1, <2>3 DEF AreCleaned
    <3> QED  BY <1>2, <2>1, <3>1 DEF IsSited
  <2> QED  BY <2>2, <2>3
<1>3. Sited(u)  BY <1>1, <1>2 DEF Sited
<1>4. ASSUME NEW k \in EidElements, k < n, Lone(k)
      PROVE  /\ IsSited(u, Config[k].eid)
             /\ Flags(u, Config[k].eid).rsvd = Config[k].site
  <2>1. PICK y : y = Config[k].eid  OBVIOUS
  <2>2. IsSited(t, y) /\ Flags(t, y).rsvd = Config[k].site
    BY <1>4, <2>1 DEF TableInv, Held
  <2>3. ASSUME NEW x \in E, Includes(x, y)  PROVE y = x
    <3>1. PICK j \in EidElements : Config[j].eid = x  BY <1>1 DEF Sited
    <3>2. j = k  BY <1>4, <2>1, <2>3, <3>1, LoneIs
    <3> QED  BY <2>1, <3>1, <3>2
  <2>4. y \in Nodes(u)  BY <2>2, <2>3 DEF AreCleaned, IsSited
  <2>5. CASE y \in E  BY <2>1, <2>2, <2>4, <2>5 DEF AreCleaned
  <2>6. CASE y \notin E
    <3>1. Flags(u, y) = Flags(t, y)  BY <2>4, <2>6 DEF AreCleaned
    <3> QED  BY <2>1, <2>2, <2>4, <3>1 DEF IsSited
  <2> QED  BY <2>5, <2>6
<1>5. Held(u, n)  BY <1>4 DEF Held
<1> QED  BY <1>1, <1>3, <1>5 DEF TableInv

\* One prefix more in a list.
LEMMA Appended ==
    ASSUME NEW l \in Seq(Prefix), NEW p \in Prefix, NEW b, b = Append(l, p)
    PROVE  /\ b \in Seq(Prefix) /\ DOMAIN b = 1..(Len(l) + 1) /\ Len(l) \in Nat
           /\ b[Len(l) + 1] = p
           /\ \A j \in 1..Len(l) : b[j] = l[j] /\ j \in DOMAIN l
OBVIOUS

\* A list with the prefix of one element more.
LEMMA ListGrows ==
    ASSUME NEW n \in Nat, NEW lists, ListsAre(n, lists), n \in EidElements,
           NEW more, more = [lists EXCEPT ![Config[n].site] = Append(@, Config[n].eid)]
    PROVE  ListsAre(n + 1, more)
<1>1. PICK p \in Prefix, s \in Sites : p = Config[n].eid /\ s = Config[n].site
  BY ConfigIs DEF EidElements
<1>2. PICK l \in Seq(Prefix) : l = lists[s]  BY DEF ListsAre
<1>3. PICK b : b = Append(l, p)  OBVIOUS
<1>4. /\ b \in Seq(Prefix) /\ DOMAIN b = 1..(Len(l) + 1) /\ Len(l) \in Nat
      /\ b[Len(l) + 1] = p
      /\ \A j \in 1..Len(l) : b[j] = l[j] /\ j \in DOMAIN l
  BY <1>3, Appended
<1>5. more = [lists EXCEPT ![s] = b]  BY <1>1, <1>2, <1>3
<1>6. more \in [Sites -> Seq(Prefix)] /\ \A r \in Sites : more[r] = IF r = s THEN b ELSE lists[r]
  BY <1>4, <1>5 DEF ListsAre
<1>7. p \in EidsOf[s]  BY <1>1, EidsOfAre
<1>8. ASSUME NEW r \in Sites, NEW i \in DOMAIN more[r]  PROVE more[r][i] \in EidsOf[r]
  <2>1. CASE r # s  BY <1>6, <1>8, <2>1 DEF ListsAre
  <2>2. CASE r = s
    <3>1. i \in 1..(Len(l) + 1) /\ more[r] = b  BY <1>4, <1>6, <1>8, <2>2
    <3>2. CASE i = Len(l) + 1  BY <1>4, <1>7, <2>2, <3>1, <3>2
    <3>3. CASE i # Len(l) + 1
      <4>1. i \in 1..Len(l)  BY <1>4, <3>1, <3>3
      <4>2. more[r][i] = lists[s][i] /\ i \in DOMAIN lists[s]  BY <1>2, <1>4, <3>1, <4>1
      <4> QED  BY <2>2, <4>2 DEF ListsAre
    <3> QED  BY <3>2, <3>3
  <2> QED  BY <2>1, <2>2
<1>9. ASSUME NEW k \in EidElements, k < n + 1
      PROVE  \E i \in DOMAIN more[Config[k].site] : more[Config[k].site][i] = Config[k].eid
  <2>1. k \in Nat /\ Config[k].site \in Sites  BY ConfigIs DEF EidElements
  <2>2. CASE k = n
    <3>1. Len(l) + 1 \in DOMAIN b  BY <1>4
    <3> QED  BY <1>1, <1>4, <1>6, <2>2, <3>1
  <2>3. CASE k < n
    <3>1. PICK i \in DOMAIN lists[Config[k].site] : lists[Config[k].site][i] = Config[k].eid
      BY <2>3 DEF ListsAre
    <3>2. CASE Config[k].site # s  BY <1>6, <2>1, <3>1, <3>2
    <3>3. CASE Config[k].site = s
      <4>1. i \in 1..Len(l)  BY <1>2, <1>4, <3>1, <3>3
      <4>2. i \in DOMAIN b /\ b[i] = l[i]  BY <1>4, <4>1
      <4> QED  BY <1>2, <1>6, <3>1, <3>3, <4>2
    <3> QED  BY <3>2, <3>3
  <2> QED  BY <1>9, <2>1, <2>2, <2>3
<1> QED  BY <1>6, <1>8, <1>9 DEF ListsAre

\* A site's prefix: its node belongs to the site from now on.
LEMMA SiteKeeps ==
    ASSUME NEW t, NEW lists, NEW k \in EidElements, k \in Nat, TableInv(t, lists, k),
           NEW m \in MappingFlags, m.range = {"EID"}, m.rsvd = Config[k].site, NEW u,
           Updated(t, u, Config[k].eid, Merged(Old(t, Config[k].eid), m)),
           NEW more, more = [lists EXCEPT ![Config[k].site] = Append(@, Config[k].eid)]
    PROVE  TableInv(u, more, k + 1)
<1>1. PICK p \in Prefix, s \in Sites : p = Config[k].eid /\ s = Config[k].site
  BY ConfigIs DEF EidElements
<1>2. PICK old, f : old = Old(t, p) /\ f = Merged(old, m)  OBVIOUS
<1>3. old \in MappingFlags \cup {NULL}  BY <1>2 DEF Old, TableInv, MsTable
<1>4. NULL \notin MappingFlags /\ NULL \notin Sites  BY MapServerAssumption, Zenon
<1>5. f \in MappingFlags /\ f.range = {"EID"} \cup RangeOf(old) /\ f.rsvd = s
  BY <1>1, <1>2, <1>3, <1>4, MergedIs
<1>6. /\ MsTable(u) /\ Nodes(t) \cup {p} \subseteq Nodes(u) /\ Flags(u, p) = f
      /\ \A y \in Nodes(t) \ {p} : Flags(u, y) = Flags(t, y)
      /\ \A y \in Nodes(u) \ (Nodes(t) \cup {p}) : Flags(u, y) = NULL
  BY <1>1, <1>2 DEF Updated
<1>7. IsSited(u, p) /\ Flags(u, p).rsvd = s
  BY <1>4, <1>5, <1>6 DEF IsSited, RangeOf
<1>8. \A y : y # p => /\ IsSited(u, y) <=> IsSited(t, y)
                      /\ IsSited(t, y) => Flags(u, y).rsvd = Flags(t, y).rsvd
  BY <1>6 DEF IsSited, RangeOf
<1>9. Sited(u)
  <2>1. SUFFICES ASSUME NEW x, IsSited(u, x)
                 PROVE  \E j \in EidElements : Config[j].eid = x
                                               /\ Config[j].site = Flags(u, x).rsvd
    BY DEF Sited
  <2>2. CASE x = p  BY <1>1, <1>7, <2>2
  <2>3. CASE x # p  BY <1>8, <2>1, <2>3 DEF TableInv, Sited
  <2> QED  BY <2>2, <2>3
<1>10. ASSUME NEW j \in EidElements, j < k + 1, Lone(j)
       PROVE  IsSited(u, Config[j].eid) /\ Flags(u, Config[j].eid).rsvd = Config[j].site
  <2>1. j \in Nat  BY ConfigIs DEF EidElements
  <2>2. CASE j = k  BY <1>1, <1>7, <2>2
  <2>3. CASE j < k
    <3>1. Config[j].eid # p
      <4>1. SUFFICES ASSUME Config[j].eid = p  PROVE FALSE  OBVIOUS
      <4>2. Includes(Config[k].eid, Config[j].eid)  BY <1>1, <4>1, IncludesOrder
      <4>3. k = j  BY <1>10, <4>2, LoneIs
      <4> QED  BY <2>1, <2>3, <4>3
    <3>2. IsSited(t, Config[j].eid) /\ Flags(t, Config[j].eid).rsvd = Config[j].site
      BY <1>10, <2>3 DEF TableInv, Held
    <3> QED  BY <1>8, <3>1, <3>2
  <2> QED  BY <1>10, <2>1, <2>2, <2>3
<1>11. ListsAre(k + 1, more)  BY ListGrows DEF TableInv
<1>12. Held(u, k + 1)  BY <1>10 DEF Held
<1> QED  BY <1>6, <1>9, <1>11, <1>12 DEF TableInv

\* Elements that give no site a prefix leave the next one's to do.
LEMMA NextElement ==
    ASSUME NEW t, NEW lists, NEW n \in Nat, TableInv(t, lists, n), n \notin EidElements
    PROVE  TableInv(t, lists, n + 1)
<1>1. \A k \in EidElements : k < n + 1 => k < n
  <2>1. \A k \in EidElements : k \in Nat /\ k # n  BY ConfigIs DEF EidElements
  <2> QED  BY <2>1
<1> QED  BY <1>1 DEF TableInv, ListsAre, Held

\* When the program ends nothing is promised.
LEMMA NoElement ==
    ASSUME NEW t, NEW lists, NEW n, TableInv(t, lists, n)
    PROVE  TableInv(t, lists, 0)
<1>1. \A k \in EidElements : ~(k < 0)  BY ConfigIs DEF EidElements
<1> QED  BY <1>1 DEF TableInv, ListsAre, Held

----------------------------------------------------------------------------
(***************************************************************************)
(* The invariant.                                                          *)
(***************************************************************************)
Register == [from : Etrs, recs : Seq(Record), proxy : BOOLEAN, M : BOOLEAN, key : Sites,
             auth : BOOLEAN]

WorkerState == [pc : {"idle", "got", "clean", "add"}, msg : Register \cup {NULL},
                site : Sites \cup {NULL}, todo : Seq(Record)]

\* A worker that applies a register does so for the site whose key it carries, if
\* it is authenticated, and to EIDs of that site.
Working(k) ==
    /\ k.pc # "idle" => k.msg \in Register
    /\ k.pc \in {"clean", "add"} =>
          /\ k.site \in Sites
          /\ k.msg.auth => k.msg.key = k.site
          /\ \A i \in DOMAIN k.msg.recs : Within(k.msg.recs[i].eid, k.site)
          /\ \A i \in DOMAIN k.todo : Within(k.todo[i].eid, k.site)

EtrInv == /\ etr \in [Etrs -> UNION {Mappings[e] : e \in Etrs}]
          /\ \A e \in Etrs : etr[e] \in Mappings[e]

WkInv == /\ wk \in [Workers -> WorkerState]
         /\ \A w \in Workers : Working(wk[w])
         /\ \A w \in Workers : wk[w].pc # "idle" => Running \/ line = 0

MSInv ==
    /\ line \in 0..(Len(Config) + 1)
    /\ TableInv(db, eid, line)
    /\ WkInv
    /\ EtrInv
    /\ net \subseteq Register
    /\ raced \subseteq Sites

\* A free worker.
LEMMA IdleIs == Idle \in WorkerState /\ Working(Idle) /\ Idle.pc = "idle"
<1>1. PICK none : none = <<>>  OBVIOUS
<1>2. none \in Seq(Record)  BY <1>1
<1>3. Idle = [pc |-> "idle", msg |-> NULL, site |-> NULL, todo |-> none]
  BY <1>1 DEF Idle
<1> QED  BY <1>2, <1>3 DEF WorkerState, Working

\* It holds when the program starts.
LEMMA MSInvInit ==
    ASSUME Init
    PROVE  MSInv
<1>1. Len(Config) \in Nat
  <2>1. PICK R : Config \in Seq(R)  BY MapServerAssumption
  <2> QED  BY <2>1
<1>2. line \in 0..(Len(Config) + 1)  BY <1>1 DEF Init
<1>3. TableInv(db, eid, line)
  <2>1. db = ms_init_db /\ line = 1  BY DEF Init
  <2>2. MsTable(db) /\ \A x : ~IsSited(db, x)
    BY <2>1, InitEffect DEF IsSited
  <2>3. PICK none : none = <<>>  OBVIOUS
  <2>4. none \in Seq(Prefix) /\ DOMAIN none = {}  BY <2>3
  <2>5. eid = [s \in Sites |-> none]  BY <2>3 DEF Init
  <2>6. eid \in [Sites -> Seq(Prefix)]  BY <2>4, <2>5
  <2>7. \A k \in EidElements : ~(k < line)  BY <2>1, ConfigIs DEF EidElements
  <2>8. ListsAre(line, eid)  BY <2>4, <2>5, <2>6, <2>7 DEF ListsAre
  <2>9. Held(db, line)  BY <2>7 DEF Held
  <2> QED  BY <2>2, <2>8, <2>9 DEF TableInv, Sited
<1>4. WkInv
  <2>1. wk = [w \in Workers |-> Idle]  BY DEF Init
  <2> QED  BY <2>1, IdleIs DEF WkInv
<1>5. EtrInv  BY DEF Init, EtrInv
<1>6. net \subseteq Register /\ raced \subseteq Sites  BY DEF Init
<1> QED  BY <1>2, <1>3, <1>4, <1>5, <1>6 DEF MSInv

\* What every record in a mapping is, as sent.
LEMMA MappingIs ==
    ASSUME NEW e \in Etrs, NEW a \in Mappings[e]
    PROVE  a.proxy \in BOOLEAN /\ a.auth \in BOOLEAN /\ a.recs \in Seq(Record)
<1>1. Mappings[e] \in SUBSET [proxy : BOOLEAN, auth : BOOLEAN, recs : Seq(Record)]
  BY MapServerAssumption, Zenon
<1> QED  BY <1>1

\* A range of the configuration: its node gets the type.
LEMMA RangeStep ==
    ASSUME MSInv, NEW c, line \in DOMAIN Config, c = Config[line], eid_prefix(c)
    PROVE  /\ line \in 1..Len(Config) /\ Len(Config) \in Nat /\ line' = line + 1
           /\ c.kind \in {"GEID", "GREID"} /\ c.eid \in Prefix /\ eid' = eid
           /\ TableInv(db', eid, line')
           /\ db' = db \/ Updated(db, db', c.eid, Ranged(Old(db, c.eid), c.kind))
<1>1. /\ line \in 1..Len(Config) /\ Len(Config) \in Nat
      /\ c.eid \in Prefix
  BY ConfigIs
<1>2. c.kind \in {"GEID", "GREID"} /\ eid' = eid /\ line' = line + 1
  BY DEF eid_prefix
<1>a. line \in Nat /\ line \notin EidElements
  <2>1. c.kind # "EID"  BY <1>2
  <2> QED  BY <1>1, <2>1 DEF EidElements
<1>3. TableInv(db, eid, line)  BY DEF MSInv
<1>4. CASE db' = db  BY <1>a, <1>1, <1>2, <1>3, <1>4, NextElement
<1>5. CASE db' = ms_node_update_type(Settle(db_node_get(db, c.eid)), c.eid, c.kind)
  <2>1. PICK u : u = db'  OBVIOUS
  <2>2. MsTable(db)  BY <1>3 DEF TableInv
  <2>3. Updated(db, u, c.eid, Ranged(Old(db, c.eid), c.kind))
    BY <1>1, <1>2, <1>5, <2>1, <2>2, RangeEffect
  <2>4. SameSites(db, u)  BY <1>2, <2>2, <2>3, RangeSites
  <2>5. MsTable(u)  BY <2>3 DEF Updated
  <2>6. TableInv(u, eid, line)  BY <1>3, <2>4, <2>5, SameSitesKeep
  <2>7. TableInv(u, eid, line + 1)  BY <1>a, <2>6, NextElement
  <2> QED  BY <1>1, <1>2, <2>1, <2>3, <2>7
<1> QED  BY <1>4, <1>5 DEF eid_prefix

\* The flags of a site's prefix.
SiteFlags(s) == [ms_new_node_ex({"EID"}) EXCEPT !.rsvd = s]

\* The flags a site's EID prefix is created with.
LEMMA SiteFlagsAre ==
    ASSUME NEW s \in Sites
    PROVE  /\ SiteFlags(s) \in MappingFlags /\ SiteFlags(s).range = {"EID"}
           /\ SiteFlags(s).rsvd = s /\ SiteFlags(s).referral = NULL
BY DEF SiteFlags, ms_new_node_ex, MappingFlags

\* A site's prefix of the configuration: its node becomes the site's.
LEMMA SiteStep ==
    ASSUME MSInv, NEW c, line \in DOMAIN Config, c = Config[line], site_eid_prefix(c)
    PROVE  /\ line \in 1..Len(Config) /\ Len(Config) \in Nat
           /\ c.kind = "EID" /\ c.eid \in Prefix /\ c.site \in Sites
           /\ \/ line' = 0 /\ db' = db /\ eid' = eid
              \/ /\ line' = line + 1
                 /\ eid' = [eid EXCEPT ![c.site] = Append(@, c.eid)]
                 /\ TableInv(db', eid', line')
                 /\ Updated(db, db', c.eid, Merged(Old(db, c.eid), SiteFlags(c.site)))
<1>1. /\ line \in 1..Len(Config) /\ Len(Config) \in Nat /\ c.kind = "EID"
      /\ c.eid \in Prefix /\ c.site \in Sites /\ line \in EidElements
  BY ConfigIs DEF site_eid_prefix, EidElements
<1>2. TableInv(db, eid, line)  BY DEF MSInv
<1>3. CASE line' = 0 /\ UNCHANGED <<db, eid>>  BY <1>1, <1>3
<1>4. CASE ~(line' = 0 /\ UNCHANGED <<db, eid>>)
  <2>1. PICK u, m, more : /\ u = db' /\ m = SiteFlags(c.site)
                          /\ more = [eid EXCEPT ![c.site] = Append(@, c.eid)]
    OBVIOUS
  <2>2. /\ u = generic_mapping_set_flags(Settle(db_node_get(db, c.eid)), c.eid, m)
        /\ eid' = more /\ line' = line + 1
    BY <1>4, <2>1 DEF site_eid_prefix, SiteFlags
  <2>3. m \in MappingFlags /\ m.range = {"EID"} /\ m.rsvd = c.site
    BY <1>1, <2>1, SiteFlagsAre
  <2>4. MsTable(db)  BY <1>2 DEF TableInv
  <2>5. Updated(db, u, c.eid, Merged(Old(db, c.eid), m))
    BY <1>1, <2>2, <2>3, <2>4, SiteEffect
  <2>6. TableInv(u, more, line + 1)
    <3>1. PICK k \in EidElements : k = line /\ c = Config[k] /\ k \in Nat  BY <1>1
    <3> QED  BY <1>2, <2>1, <2>3, <2>5, <3>1, SiteKeeps
  <2> QED  BY <1>1, <2>1, <2>2, <2>5, <2>6
<1> QED  BY <1>3, <1>4

\* A mapping with a referral, delegated or learned.
LEMMA ReferralKeeps ==
    ASSUME NEW t, NEW lists, NEW n, TableInv(t, lists, n), NEW p \in Prefix,
           NEW locs \in Seq(Locator), NEW f \in MappingFlags, f.range = {"MAPP"},
           f.rsvd = NULL, NEW u, u = ConfiguredMapping(t, p, locs, f)
    PROVE  TableInv(u, lists, n) /\ Updated(t, u, p, Merged(Old(t, p), f))
<1>2. MsTable(t)  BY DEF TableInv
<1>3. Updated(t, u, p, Merged(Old(t, p), f))  BY <1>2, ConfiguredEffect
<1>4. SameSites(t, u)  BY <1>2, <1>3, MappingSites
<1>5. MsTable(u)  BY <1>3 DEF Updated
<1> QED  BY <1>3, <1>4, <1>5, SameSitesKeep

\* The flags of a delegated prefix.
LEMMA DelegatedFlags ==
    ASSUME NEW act \in Referral, NEW A \in BOOLEAN, NEW f,
           f = [ms_new_node_ex({"MAPP"}) EXCEPT !.referral = act, !.A = A]
    PROVE  f \in MappingFlags /\ f.range = {"MAPP"} /\ f.rsvd = NULL /\ f.referral = act
BY DEF ms_new_node_ex, MappingFlags

\* A delegated prefix of the configuration: its node becomes a referral.
LEMMA DelegatedStep ==
    ASSUME MSInv, NEW c, line \in DOMAIN Config, c = Config[line], delegated_eid_prefix(c)
    PROVE  /\ line \in 1..Len(Config) /\ Len(Config) \in Nat /\ eid' = eid
           /\ c.kind = "REID" /\ c.eid \in Prefix
           /\ \/ line' = 0 /\ db' = db
              \/ /\ line' = line + 1
                 /\ \E f \in MappingFlags :
                      /\ f.range = {"MAPP"} /\ f.rsvd = NULL /\ f.referral \in Referral
                      /\ TableInv(db', eid, line')
                      /\ Updated(db, db', c.eid, Merged(Old(db, c.eid), f))
<1>1. /\ line \in 1..Len(Config) /\ Len(Config) \in Nat /\ c.kind = "REID"
      /\ c.eid \in Prefix /\ c.locs \in Seq(Locator) /\ c.referral \in Referral /\ c.A \in BOOLEAN
  BY ConfigIs DEF delegated_eid_prefix
<1>2. TableInv(db, eid, line) /\ eid' = eid  BY DEF MSInv, delegated_eid_prefix
<1>a. line \in Nat /\ line \notin EidElements
  <2>1. c.kind # "EID"  BY <1>1
  <2> QED  BY <1>1, <2>1 DEF EidElements
<1>3. CASE line' = 0 /\ UNCHANGED db  BY <1>1, <1>2, <1>3
<1>4. CASE ~(line' = 0 /\ UNCHANGED db)
  <2>1. PICK u, f : /\ u = db'
                    /\ f = [ms_new_node_ex({"MAPP"}) EXCEPT !.referral = c.referral, !.A = c.A]
    OBVIOUS
  <2>2. u = ConfiguredMapping(db, c.eid, c.locs, f) /\ line' = line + 1
    BY <1>4, <2>1 DEF delegated_eid_prefix
  <2>3. f \in MappingFlags /\ f.range = {"MAPP"} /\ f.rsvd = NULL /\ f.referral \in Referral
    BY <1>1, <2>1, DelegatedFlags
  <2>4. TableInv(u, eid, line) /\ Updated(db, u, c.eid, Merged(Old(db, c.eid), f))
    BY <1>1, <1>2, <2>2, <2>3, ReferralKeeps
  <2>5. TableInv(u, eid, line + 1)  BY <1>a, <2>4, NextElement
  <2> QED  BY <1>1, <1>2, <2>1, <2>2, <2>3, <2>4, <2>5
<1> QED  BY <1>3, <1>4

\* Reading the configuration.
LEMMA ParserInv ==
    ASSUME MSInv, _parser_config
    PROVE  MSInv'
<1>1. PICK c : c = Config[line]  OBVIOUS
<1>2. /\ line \in DOMAIN Config /\ UNCHANGED <<hashing, wk, etr, count, changes, net, raced>>
      /\ eid_prefix(c) \/ site_eid_prefix(c) \/ delegated_eid_prefix(c)
  BY <1>1 DEF _parser_config
<1>3. TableInv(db', eid', line') /\ line' \in 0..(Len(Config) + 1)
  <2>1. TableInv(db, eid, 0)  BY NoElement DEF MSInv
  <2>2. CASE eid_prefix(c)  BY <1>1, <1>2, <2>2, RangeStep
  <2>3. CASE site_eid_prefix(c)  BY <1>1, <1>2, <2>1, <2>3, SiteStep
  <2>4. CASE delegated_eid_prefix(c)
    <3>1. PICK n \in Nat : n = line /\ n \in 1..Len(Config) /\ Len(Config) \in Nat
      BY <1>1, <1>2, <2>4, DelegatedStep
    <3> QED  BY <1>1, <1>2, <2>1, <2>4, <3>1, DelegatedStep
  <2> QED  BY <1>2, <2>2, <2>3, <2>4
<1>4. line # Len(Config) + 1 /\ line # 0  BY <1>2, ConfigIs
<1>5. \A w \in Workers : wk[w].pc = "idle"  BY <1>4 DEF MSInv, WkInv, Running
<1>6. WkInv'  BY <1>2, <1>5 DEF MSInv, WkInv
<1>7. EtrInv'  BY <1>2 DEF MSInv, EtrInv
<1> QED  BY <1>2, <1>3, <1>6, <1>7 DEF MSInv
----------------------------------------------------------------------------
\* A worker changes to a state that is one.
LEMMA WorkerChanges ==
    ASSUME WkInv, NEW w \in Workers, NEW k \in WorkerState, Working(k),
           k.pc # "idle" => Running \/ line = 0, line' = line, wk' = [wk EXCEPT ![w] = k]
    PROVE  WkInv'
<1>1. wk' \in [Workers -> WorkerState]  BY DEF WkInv
<1>2. \A x \in Workers : wk'[x] = IF x = w THEN k ELSE wk[x]  BY DEF WkInv
<1>3. Running' <=> Running  BY DEF Running
<1>4. \A x \in Workers : Working(wk'[x]) /\ (wk'[x].pc # "idle" => Running' \/ line' = 0)
  BY <1>2, <1>3 DEF WkInv
<1>5. \A x : Working(x)' <=> Working(x)  BY DEF Working
<1> QED  BY <1>1, <1>4, <1>5 DEF WkInv

\* A worker takes a register.
LEMMA TakeInv ==
    ASSUME MSInv, Running, NEW w \in Workers, NEW m, Take(w, m)
    PROVE  MSInv'
<1>1. m \in Register /\ net' \subseteq Register /\ Running
  BY DEF MSInv, Take
<1>2. PICK k : k = [Idle EXCEPT !.pc = "got", !.msg = m]  OBVIOUS
<1>3. k \in WorkerState /\ k.pc = "got" /\ k.msg = m
  BY <1>1, <1>2, IdleIs DEF WorkerState
<1>4. Working(k)  BY <1>1, <1>3 DEF Working
<1>5. UNCHANGED <<line, db, eid, etr, raced>> /\ wk' = [wk EXCEPT ![w] = k]
  BY <1>2 DEF Take
<1>6. WkInv'  BY <1>1, <1>3, <1>4, <1>5, WorkerChanges DEF MSInv
<1>7. EtrInv'  BY <1>5 DEF MSInv, EtrInv
<1> QED  BY <1>1, <1>5, <1>6, <1>7 DEF MSInv

\* What the validation of a worker's register says.
LEMMA WorkerValid ==
    ASSUME MSInv, NEW w \in Workers, wk[w].pc # "idle", NEW v,
           v = _ms_validate_register(db, hashing, wk[w].msg)
    PROVE  /\ v.rt \in {-1, 0, 1}
           /\ v.rt # -1 => /\ v.site \in Sites /\ wk[w].msg.recs # <<>>
                           /\ \A i \in DOMAIN wk[w].msg.recs : Within(wk[w].msg.recs[i].eid, v.site)
           /\ v.rt = 0 => SameHash(hashing[v.site], wk[w].msg)
           /\ v.rt = 1 => (wk[w].msg.auth => wk[w].msg.key = v.site)
<1>1. MsTable(db) /\ Sited(db)  BY DEF MSInv, TableInv
<1>2. PICK m \in Register : m = wk[w].msg  BY DEF MSInv, WkInv, Working
<1>3. PICK l \in Seq(Record) : l = m.recs  BY DEF Register
<1>4. PICK n \in Nat : n = Len(l) /\ DOMAIN l = 1..n /\ \A i \in 1..n : l[i] \in Record
  BY Z3
<1>5. \A i \in 1..n : m.recs[i].eid \in Prefix  BY <1>3, <1>4 DEF Record
<1>6. DOMAIN m.recs = 1..n /\ m.recs \in Seq(Record)  BY <1>3, <1>4
<1>7. /\ v.rt \in {-1, 0, 1}
      /\ v.rt # -1 => /\ v.site \in Sites /\ m.recs # <<>>
                      /\ \A i \in 1..n : Within(m.recs[i].eid, v.site)
      /\ v.rt = 0 => SameHash(hashing[v.site], m)
      /\ v.rt = 1 => (m.auth => m.key = v.site)
  <2>1. PICK h, t : h = hashing /\ t = db  OBVIOUS
  <2>2. v = _ms_validate_register(t, h, m)  BY <1>2, <2>1
  <2>3. MsTable(t) /\ Sited(t)  BY <1>1, <2>1
  <2>4. /\ v.rt \in {-1, 0, 1}
        /\ v.rt # -1 => /\ v.site \in Sites /\ m.recs # <<>>
                        /\ \A i \in 1..n : Within(m.recs[i].eid, v.site)
        /\ v.rt = 0 => SameHash(h[v.site], m)
        /\ v.rt = 1 => (m.auth => m.key = v.site)
    BY <1>5, <1>6, <2>2, <2>3, RegisterValid
  <2> QED  BY <2>1, <2>4
<1> QED  BY <1>2, <1>6, <1>7

\* A worker that goes on with a register.
Applying(k0, site) == [k0 EXCEPT !.pc = "clean", !.site = site, !.todo = k0.msg.recs]

\* What a worker holds when it starts on a register that is accepted.
LEMMA ApplyIs ==
    ASSUME NEW k0 \in WorkerState, k0.msg \in Register, NEW site \in Sites,
           NEW k, k = Applying(k0, site)
    PROVE  /\ k \in WorkerState /\ k.pc = "clean" /\ k.site = site
           /\ k.msg = k0.msg /\ k.todo = k0.msg.recs
<1>1. k0.msg.recs \in Seq(Record)  BY DEF Register
<1>2. PICK l : l = k0.msg.recs  OBVIOUS
<1>3. k = [k0 EXCEPT !.pc = "clean", !.site = site, !.todo = l]  BY <1>2 DEF Applying
<1> QED  BY <1>1, <1>2, <1>3 DEF WorkerState

\* It validates it.
LEMMA RegisterInv ==
    ASSUME MSInv, Running, NEW w \in Workers, _register(w)
    PROVE  MSInv'
<1>1. wk[w].pc = "got"  BY DEF _register
<1>2. PICK m \in Register : m = wk[w].msg  BY <1>1 DEF MSInv, WkInv, Working
<1>3. PICK v : v = IF "MS" \in Fncs THEN _ms_validate_register(db, hashing, m)
                   ELSE [site |-> NULL, rt |-> -1]
  OBVIOUS
<1>4. /\ wk' = [wk EXCEPT ![w] = IF v.rt = 1 THEN Apply(w, v.site) ELSE Idle]
      /\ UNCHANGED <<line, db, eid, etr, net>>
      /\ raced' = IF v.rt = 1
                  THEN raced \cup {s \in Meeting[v.site] : s # v.site \/ Other(w, s)}
                  ELSE raced
  BY <1>2, <1>3 DEF _register
<1>5. PICK k : k = IF v.rt = 1 THEN Apply(w, v.site) ELSE Idle  OBVIOUS
<1>6. k \in WorkerState /\ Working(k)
  <2>1. CASE v.rt = 1
    <3>1. v = _ms_validate_register(db, hashing, wk[w].msg)
      <4>1. CASE "MS" \in Fncs  BY <1>2, <1>3, <4>1
      <4>2. CASE "MS" \notin Fncs
        <5>1. v.rt = -1  BY <1>3, <4>2
        <5> QED  BY <2>1, <5>1
      <4> QED  BY <4>1, <4>2
    <3>2. /\ v.site \in Sites /\ (m.auth => m.key = v.site)
          /\ \A i \in DOMAIN m.recs : Within(m.recs[i].eid, v.site)
      BY <1>1, <1>2, <2>1, <3>1, WorkerValid
    <3>3. PICK k0 \in WorkerState : k0 = wk[w]  BY DEF MSInv, WkInv
    <3>4. k = Applying(k0, v.site)  BY <1>5, <2>1, <3>3 DEF Apply, Applying
    <3>5. k \in WorkerState /\ k.site = v.site /\ k.msg = m /\ k.todo = m.recs
      <4>1. k0.msg = m /\ k0.msg \in Register  BY <1>2, <3>3
      <4> QED  BY <3>2, <3>4, <4>1, ApplyIs
    <3> QED  BY <1>2, <3>2, <3>5 DEF Working
  <2>2. CASE v.rt # 1  BY <1>5, <2>2, IdleIs
  <2> QED  BY <2>1, <2>2
<1>7. WkInv'  BY <1>1, <1>4, <1>5, <1>6, WorkerChanges DEF MSInv
<1>8. EtrInv'  BY <1>4 DEF MSInv, EtrInv
<1>9. raced' \subseteq Sites
  <2>1. CASE v.rt = 1
    <3>1. v.site \in Sites  BY <1>6, <1>5, <2>1 DEF Apply, Working, WorkerState, MSInv, WkInv
    <3>2. Meeting[v.site] \subseteq Sites  BY <3>1 DEF Meeting
    <3> QED  BY <1>4, <2>1, <3>2 DEF MSInv
  <2>2. CASE v.rt # 1  BY <1>4, <2>2 DEF MSInv
  <2> QED  BY <2>1, <2>2
<1> QED  BY <1>4, <1>7, <1>8, <1>9 DEF MSInv

\* The EID nodes of a worker's site are cleaned.
LEMMA CleanedSite ==
    ASSUME MSInv, NEW w \in Workers, CleanSite(w), AllThere(db, eid[wk[w].site])
    PROVE  /\ wk[w].site \in Sites /\ (wk[w].msg.auth => wk[w].msg.key = wk[w].site)
           /\ \A x \in SetOf(eid[wk[w].site]) : IsSited(db, x) /\ x \in EidsOf[wk[w].site]
           /\ AreCleaned(db, db', SetOf(eid[wk[w].site]))
<1>1. PICK s : s = wk[w].site  OBVIOUS
<1>2. s \in Sites /\ (wk[w].msg.auth => wk[w].msg.key = s)
  BY <1>1 DEF CleanSite, MSInv, WkInv, Working
<1>3. PICK l, E : l \in Seq(Prefix) /\ l = eid[s] /\ E = {l[i] : i \in DOMAIN l}
  BY <1>2 DEF MSInv, TableInv, ListsAre
<1>4. \A x \in E : x \in EidsOf[s]
  BY <1>2, <1>3 DEF MSInv, TableInv, ListsAre
<1>5. MsTable(db)  BY DEF MSInv, TableInv
<1>6. AllThere(db, l)  BY <1>1, <1>3
<1>7. PICK u : u = db'  OBVIOUS
<1>8. u = _ms_clean_site_mapping(db, l)  BY <1>1, <1>3, <1>7 DEF CleanSite
<1>9. AreCleaned(db, u, E) /\ \A x \in E : IsSited(db, x)
  BY <1>3, <1>5, <1>6, <1>8, CleanSiteEffect
<1>10. SetOf(eid[s]) = E  BY <1>3 DEF SetOf
<1> QED  BY <1>1, <1>2, <1>4, <1>7, <1>9, <1>10

\* A worker has removed what its site registered before, or has used a freed node.
LEMMA CleanInv ==
    ASSUME MSInv, Running, NEW w \in Workers, CleanSite(w)
    PROVE  MSInv'
<1>1. PICK s : s = wk[w].site  OBVIOUS
<1>2. UNCHANGED <<eid, etr, net>>  BY DEF CleanSite
<1>3. EtrInv'  BY <1>2 DEF MSInv, EtrInv
<1>4. CASE ~AllThere(db, eid[s])
  <2>1. line' = 0 /\ UNCHANGED <<db, wk, raced>>  BY <1>1, <1>4 DEF CleanSite
  <2>2. TableInv(db', eid', line')  BY <1>2, <2>1, NoElement DEF MSInv
  <2>3. WkInv'  BY <2>1 DEF MSInv, WkInv, Working, Running
  <2>4. line' \in 0..(Len(Config) + 1)
    <3>1. PICK n : n = Len(Config) + 1  OBVIOUS
    <3>2. line \in 0..n  BY <3>1 DEF MSInv
    <3>3. 0 \in 0..n
      <4>1. PICK k : k = line  OBVIOUS
      <4>2. k \in 0..n  BY <3>2, <4>1
      <4>3. PICK R : Config \in Seq(R)  BY MapServerAssumption
      <4>4. n \in Nat  BY <3>1, <4>3
      <4> QED  BY <4>4
    <3> QED  BY <2>1, <3>1, <3>3
  <2> QED  BY <1>2, <1>3, <2>1, <2>2, <2>3, <2>4 DEF MSInv
<1>5. CASE AllThere(db, eid[s])
  <2>1. PICK u, E : u = db' /\ E = SetOf(eid[s])  OBVIOUS
  <2>2. (\A x \in E : IsSited(db, x)) /\ AreCleaned(db, u, E)
    BY <1>1, <1>5, <2>1, CleanedSite
  <2>3. TableInv(u, eid, line)  BY <2>2, CleanTable DEF MSInv
  <2>4. PICK k0 \in WorkerState : k0 = wk[w] /\ k0.pc = "clean" /\ Working(k0)
    BY DEF MSInv, WkInv, CleanSite
  <2>5. PICK k : k = [k0 EXCEPT !.pc = "add"]  OBVIOUS
  <2>6. /\ k \in WorkerState /\ k.pc = "add" /\ k.msg = k0.msg /\ k.site = k0.site
        /\ k.todo = k0.todo
    BY <2>4, <2>5 DEF WorkerState
  <2>7. Working(k)  BY <2>4, <2>6 DEF Working
  <2>8. line' = line /\ wk' = [wk EXCEPT ![w] = k]
    BY <1>1, <1>5, <2>4, <2>5 DEF CleanSite
  <2>9. WkInv'  BY <2>6, <2>7, <2>8, WorkerChanges DEF MSInv
  <2>10. raced' \subseteq raced
    <3>1. raced' = raced \/ raced' = raced \ {s}  BY <1>1, <1>5 DEF CleanSite
    <3> QED  BY <3>1
  <2> QED  BY <1>2, <1>3, <2>1, <2>3, <2>8, <2>9, <2>10 DEF MSInv
<1> QED  BY <1>4, <1>5

\* A record is applied to the site its worker works for.
LEMMA AddedRecord ==
    ASSUME MSInv, NEW w \in Workers, AddRecord(w), NEW r, r = Head(wk[w].todo),
           NEW f, f = Registering(wk[w].msg.proxy)
    PROVE  /\ r \in Record /\ Within(r.eid, wk[w].site) /\ wk[w].site \in Sites
           /\ wk[w].msg.auth => wk[w].msg.key = wk[w].site
           /\ f \in MappingFlags /\ f.range = {"MAPP"} /\ f.rsvd = NULL
           /\ f.referral = NULL /\ f.proxy = wk[w].msg.proxy
           /\ Updated(db, db', r.eid, Merged(Old(db, r.eid), f))
           /\ Info(db', r.eid) = Fold("register", NULL, <<>>, r.locs)
<1>1. PICK k0 \in WorkerState : k0 = wk[w] /\ k0.pc = "add" /\ Working(k0)
  BY DEF MSInv, WkInv, AddRecord
<1>2. PICK l \in Seq(Record) : l = k0.todo /\ l # <<>>
  BY <1>1 DEF WorkerState, AddRecord
<1>3. 1 \in DOMAIN l /\ r = l[1] /\ r \in Record  BY <1>1, <1>2
<1>4. /\ k0.msg \in Register /\ k0.site \in Sites
      /\ k0.msg.auth => k0.msg.key = k0.site
      /\ Within(r.eid, k0.site)
  BY <1>1, <1>2, <1>3 DEF Working
<1>5. PICK proxy \in BOOLEAN : proxy = k0.msg.proxy  BY <1>4 DEF Register
<1>6. /\ f \in MappingFlags /\ f.range = {"MAPP"} /\ f.rsvd = NULL
      /\ f.referral = NULL /\ f.proxy = proxy
  BY <1>1, <1>5 DEF Registering, ms_new_node_ex, MappingFlags
<1>7. PICK u : u = db'  OBVIOUS
<1>8. u = _ms_process_register_record(db, r, proxy)
  BY <1>1, <1>5, <1>7 DEF AddRecord
<1>9. MsTable(db)  BY DEF MSInv, TableInv
<1>10. /\ Updated(db, u, r.eid, Merged(Old(db, r.eid), Registering(proxy)))
       /\ Info(u, r.eid) = Fold("register", NULL, <<>>, r.locs)
  BY <1>3, <1>8, <1>9, RecordEffect
<1>11. f = Registering(proxy)  BY <1>1, <1>5
<1> QED  BY <1>1, <1>3, <1>4, <1>5, <1>6, <1>7, <1>10, <1>11

\* A worker has added the next record of its register.
LEMMA AddInv ==
    ASSUME MSInv, Running, NEW w \in Workers, AddRecord(w)
    PROVE  MSInv'
<1>1. PICK r, f, u : r = Head(wk[w].todo) /\ f = Registering(wk[w].msg.proxy) /\ u = db'
  OBVIOUS
<1>2. /\ f \in MappingFlags /\ f.range = {"MAPP"} /\ f.rsvd = NULL
      /\ Updated(db, u, r.eid, Merged(Old(db, r.eid), f))
  BY <1>1, AddedRecord
<1>3. TableInv(u, eid, line)
  <2>1. TableInv(db, eid, line) /\ MsTable(db)  BY DEF MSInv, TableInv
  <2>2. SameSites(db, u)  BY <1>2, <2>1, MappingSites
  <2>3. MsTable(u)  BY <1>2 DEF Updated
  <2> QED  BY <2>1, <2>2, <2>3, SameSitesKeep
<1>4. PICK k0 \in WorkerState : k0 = wk[w] /\ k0.pc = "add" /\ Working(k0)
  BY DEF MSInv, WkInv, AddRecord
<1>5. PICK l, rest : l \in Seq(Record) /\ l = k0.todo /\ l # <<>> /\ rest = Tail(l)
  BY <1>4 DEF WorkerState, AddRecord
<1>6. rest \in Seq(Record) /\ \A i \in DOMAIN rest : rest[i] = l[i + 1] /\ i + 1 \in DOMAIN l
  BY <1>5
<1>7. PICK k : k = [k0 EXCEPT !.todo = rest]  OBVIOUS
<1>8. /\ k \in WorkerState /\ k.pc = "add" /\ k.msg = k0.msg /\ k.site = k0.site
      /\ k.todo = rest
  BY <1>4, <1>6, <1>7 DEF WorkerState
<1>9. Working(k)  BY <1>4, <1>5, <1>6, <1>8 DEF Working
<1>10. UNCHANGED <<line, eid, etr, net, raced>> /\ wk' = [wk EXCEPT ![w] = k]
  BY <1>4, <1>5, <1>7 DEF AddRecord
<1>12. WkInv'  BY <1>8, <1>9, <1>10, WorkerChanges DEF MSInv
<1>13. EtrInv'  BY <1>10 DEF MSInv, EtrInv
<1> QED  BY <1>1, <1>3, <1>10, <1>12, <1>13 DEF MSInv
----------------------------------------------------------------------------
\* A worker has applied its register.
LEMMA RegisteredInv ==
    ASSUME MSInv, NEW w \in Workers, Registered(w)
    PROVE  MSInv'
<1>1. UNCHANGED <<line, db, eid, etr, net, raced>> /\ wk' = [wk EXCEPT ![w] = Idle]
  BY DEF Registered
<1>2. WkInv'  BY <1>1, IdleIs, WorkerChanges DEF MSInv
<1>3. EtrInv'  BY <1>1 DEF MSInv, EtrInv
<1> QED  BY <1>1, <1>2, <1>3 DEF MSInv

\* The flags of a referral.
LEMMA ReferralFlags ==
    ASSUME NEW act \in Referral, NEW f,
           f = [ms_new_node_ex({"MAPP"}) EXCEPT !.referral = act]
    PROVE  f \in MappingFlags /\ f.range = {"MAPP"} /\ f.rsvd = NULL /\ f.referral = act
BY DEF ms_new_node_ex, MappingFlags

\* A referral is kept.
LEMMA ReferralStep ==
    ASSUME MSInv, NEW r \in Referrals, _process_referral_record(r), NEW f,
           f = [ms_new_node_ex({"MAPP"}) EXCEPT !.referral = r.act]
    PROVE  /\ r.eid \in Prefix /\ r.act \in Referral
           /\ f \in MappingFlags /\ f.range = {"MAPP"} /\ f.rsvd = NULL /\ f.referral = r.act
           /\ TableInv(db', eid, line) /\ Updated(db, db', r.eid, Merged(Old(db, r.eid), f))
<1>1. /\ r.eid \in Prefix /\ r.act \in Referral /\ r.locs \in Seq(Locator)
  <2>1. Referrals \subseteq [eid : Prefix, act : Referral, incomplete : BOOLEAN,
                             locs : Seq(Locator)]
    BY MapServerAssumption, Zenon
  <2> QED  BY <2>1
<1>2. f \in MappingFlags /\ f.range = {"MAPP"} /\ f.rsvd = NULL /\ f.referral = r.act
  BY <1>1, ReferralFlags
<1>3. PICK u : u = db'  OBVIOUS
<1>4. u = ConfiguredMapping(db, r.eid, r.locs, f)  BY <1>3 DEF _process_referral_record
<1>5. TableInv(db, eid, line)  BY DEF MSInv
<1>6. TableInv(u, eid, line) /\ Updated(db, u, r.eid, Merged(Old(db, r.eid), f))
  BY <1>1, <1>2, <1>4, <1>5, ReferralKeeps
<1> QED  BY <1>1, <1>2, <1>3, <1>6

\* It keeps the invariant.
LEMMA ReferralInv ==
    ASSUME MSInv, NEW r \in Referrals, _process_referral_record(r)
    PROVE  MSInv'
<1>1. TableInv(db', eid, line)
  <2>1. PICK f : f = [ms_new_node_ex({"MAPP"}) EXCEPT !.referral = r.act]  OBVIOUS
  <2> QED  BY <2>1, ReferralStep
<1>2. UNCHANGED <<line, eid, wk, etr, net>>  BY DEF _process_referral_record
<1>3. WkInv'  BY <1>2 DEF MSInv, WkInv, Running, Working
<1>4. EtrInv'  BY <1>2 DEF MSInv, EtrInv
<1>5. raced' \subseteq Sites  BY DEF _process_referral_record, MSInv
<1> QED  BY <1>1, <1>2, <1>3, <1>4, <1>5 DEF MSInv

\* What an xTR sends.
SentRecs(l) == [i \in DOMAIN l |-> Announced(l[i])]

\* The records of a register: one for each mapping of the xTR, in order.
LEMMA SentRecsAre ==
    ASSUME NEW l \in Seq(Record)
    PROVE  /\ SentRecs(l) \in Seq(Record) /\ DOMAIN SentRecs(l) = DOMAIN l
           /\ \A i \in DOMAIN l : SentRecs(l)[i] = Announced(l[i]) /\ l[i] \in Record
<1>1. PICK n \in Nat : DOMAIN l = 1..n /\ \A i \in 1..n : l[i] \in Record  BY Z3
<1>2. PICK s : s = SentRecs(l)  OBVIOUS
<1>3. s = [i \in 1..n |-> Announced(l[i])]  BY <1>1, <1>2 DEF SentRecs
<1>4. \A i \in 1..n : Announced(l[i]) \in Record  BY <1>1, AnnouncedIs
<1>5. s \in [1..n -> Record]  BY <1>3, <1>4
<1>6. s \in Seq(Record)  BY <1>5
<1> QED  BY <1>1, <1>2, <1>3, <1>6

\* An xTR sends its mappings, with its key.
LEMMA SendStep ==
    ASSUME MSInv, NEW e \in Etrs, general_register_process(e)
    PROVE  \E M \in BOOLEAN : \E recs \in Seq(Record) :
             /\ recs = SentRecs(etr[e].recs)
             /\ etr[e].proxy \in BOOLEAN /\ etr[e].auth \in BOOLEAN
             /\ KeyOf[e] \in Sites /\ etr[e].recs \in Seq(Record)
             /\ net' \subseteq net \cup {[from |-> e, recs |-> recs, proxy |-> etr[e].proxy,
                                          M |-> M, key |-> KeyOf[e], auth |-> etr[e].auth]}
<1>1. etr[e].proxy \in BOOLEAN /\ etr[e].auth \in BOOLEAN /\ etr[e].recs \in Seq(Record)
  BY MappingIs DEF MSInv, EtrInv
<1>2. KeyOf[e] \in Sites
  <2>1. KeyOf \in [Etrs -> Sites]  BY MapServerAssumption, Zenon
  <2> QED  BY <2>1
<1>3. PICK recs, M : recs = SentRecs(etr[e].recs) /\ M = (count[e] % NotifyEvery = 0)  OBVIOUS
<1>4. net' \subseteq net \cup {[from |-> e, recs |-> recs, proxy |-> etr[e].proxy,
                                M |-> M, key |-> KeyOf[e], auth |-> etr[e].auth]}
  BY <1>3 DEF general_register_process, SentRecs
<1>5. recs \in Seq(Record)  BY <1>1, <1>3, SentRecsAre
<1>6. M \in BOOLEAN  BY <1>3
<1> QED  BY <1>1, <1>2, <1>3, <1>4, <1>5, <1>6

\* An xTR has sent its register.
LEMMA SendInv ==
    ASSUME MSInv, NEW e \in Etrs, general_register_process(e)
    PROVE  MSInv'
<1>1. net' \subseteq Register
  <2>1. PICK M \in BOOLEAN, recs \in Seq(Record) :
             /\ etr[e].proxy \in BOOLEAN /\ etr[e].auth \in BOOLEAN /\ KeyOf[e] \in Sites
             /\ net' \subseteq net \cup {[from |-> e, recs |-> recs, proxy |-> etr[e].proxy,
                                          M |-> M, key |-> KeyOf[e], auth |-> etr[e].auth]}
    BY SendStep
  <2>2. PICK proxy \in BOOLEAN, auth \in BOOLEAN, key \in Sites :
           proxy = etr[e].proxy /\ auth = etr[e].auth /\ key = KeyOf[e]
    BY <2>1
  <2>3. [from |-> e, recs |-> recs, proxy |-> proxy, M |-> M, key |-> key, auth |-> auth]
           \in Register
    BY DEF Register
  <2>4. net \subseteq Register  BY DEF MSInv
  <2> QED  BY <2>1, <2>2, <2>3, <2>4
<1>2. UNCHANGED <<line, db, eid, wk, etr, raced>>  BY DEF general_register_process, ms
<1>3. WkInv'  BY <1>2 DEF MSInv, WkInv, Running, Working
<1>4. EtrInv'  BY <1>2 DEF MSInv, EtrInv
<1> QED  BY <1>1, <1>2, <1>3, <1>4 DEF MSInv

\* An xTR starts again with other mappings.
LEMMA RestartInv ==
    ASSUME MSInv, NEW e \in Etrs, NEW a \in Mappings[e], Restart(e, a)
    PROVE  MSInv'
<1>1. UNCHANGED <<line, db, eid, wk, net, raced>> /\ etr' = [etr EXCEPT ![e] = a]
  BY DEF Restart, ms
<1>2. EtrInv'
  <2>1. PICK R : R = UNION {Mappings[x] : x \in Etrs}  OBVIOUS
  <2>2. a \in R /\ etr \in [Etrs -> R]  BY <2>1 DEF MSInv, EtrInv
  <2>3. etr' \in [Etrs -> R]  BY <1>1, <2>2
  <2>4. \A x \in Etrs : etr'[x] \in Mappings[x]  BY <1>1 DEF MSInv, EtrInv
  <2> QED  BY <2>1, <2>3, <2>4 DEF EtrInv
<1>3. WkInv'  BY <1>1 DEF MSInv, WkInv, Running, Working
<1> QED  BY <1>1, <1>2, <1>3 DEF MSInv

\* The steps that leave the map server alone.
LEMMA OutsideInv ==
    ASSUME MSInv, UNCHANGED <<ms, etr>>, net' \subseteq net
    PROVE  MSInv'
<1>1. UNCHANGED <<line, db, eid, wk, etr, raced>>  BY DEF ms
<1>2. WkInv'  BY <1>1 DEF MSInv, WkInv, Running, Working
<1>3. EtrInv'  BY <1>1 DEF MSInv, EtrInv
<1> QED  BY <1>1, <1>2, <1>3 DEF MSInv

\* The invariant is inductive.
LEMMA MSInvNext ==
    ASSUME MSInv, [Next]_vars
    PROVE  MSInv'
<1>1. CASE _parser_config  BY <1>1, ParserInv
<1>2. ASSUME Running, NEW w \in Workers, Worker(w)  PROVE MSInv'
  BY <1>2, RegisterInv, CleanInv, AddInv, RegisteredInv DEF Worker
<1>3. ASSUME Running, NEW w \in Workers, NEW m \in net, Take(w, m)  PROVE MSInv'
  BY <1>3, TakeInv
<1>4. ASSUME NEW r \in Referrals, _process_referral_record(r)  PROVE MSInv'
  BY <1>4, ReferralInv
<1>5. ASSUME NEW e \in Etrs, general_register_process(e)  PROVE MSInv'
  BY <1>5, SendInv
<1>6. ASSUME NEW e \in Etrs, NEW a \in Mappings[e], Restart(e, a)  PROVE MSInv'
  BY <1>6, RestartInv
<1>7. ASSUME NEW m \in net, Lose(m)  PROVE MSInv'  BY <1>7, OutsideInv DEF Lose
<1>8. CASE Delivered  BY <1>8, OutsideInv DEF Delivered
<1>9. CASE UNCHANGED vars  BY <1>9, OutsideInv DEF vars
<1> QED
  BY <1>1, <1>2, <1>3, <1>4, <1>5, <1>6, <1>7, <1>8, <1>9 DEF Next, Serve

\* It says what TypeOK says.
LEMMA MSInvTyped ==
    ASSUME MSInv
    PROVE  TypeOK
<1>1. TableInv(db, eid, line) /\ WkInv /\ line \in 0..(Len(Config) + 1) /\ raced \subseteq Sites
  BY DEF MSInv
<1>2. Linked(db)  BY <1>1 DEF TableInv, MsTable, Shaped
<1>3. ASSUME NEW x \in Nodes(db)
      PROVE  x \in Prefix /\ db.node[x].parent \in Nodes(db) \cup {NULL}
  <2>1. x \in Prefix /\ LinkedUp(db, x)  BY <1>2 DEF Linked
  <2> QED  BY <2>1 DEF LinkedUp, Up
<1>4. ASSUME NEW w \in Workers  PROVE wk[w].pc \in {"idle", "got", "clean", "add"}
  BY <1>1 DEF WkInv, WorkerState
<1>5. ASSUME NEW k \in DOMAIN Config, k < line, Config[k].kind = "EID", Lone(k)
      PROVE  /\ \E i \in DOMAIN eid[Config[k].site] : eid[Config[k].site][i] = Config[k].eid
             /\ Config[k].eid \in Nodes(db)
             /\ ms_node_is_type(db, Config[k].eid, {"EID"})
             /\ Flags(db, Config[k].eid).rsvd = Config[k].site
  <2>1. k \in EidElements  BY <1>5 DEF EidElements
  <2>2. PICK x : x = Config[k].eid  OBVIOUS
  <2>3. IsSited(db, x) /\ Flags(db, x).rsvd = Config[k].site
    BY <1>1, <1>5, <2>1, <2>2 DEF TableInv, Held
  <2>4. ms_node_is_type(db, x, {"EID"})  BY <2>3 DEF IsSited, RangeOf, ms_node_is_type
  <2>5. \E i \in DOMAIN eid[Config[k].site] : eid[Config[k].site][i] = Config[k].eid
    BY <1>1, <1>5, <2>1 DEF TableInv, ListsAre
  <2> QED  BY <2>2, <2>3, <2>4, <2>5 DEF IsSited
<1> QED  BY <1>1, <1>3, <1>4, <1>5 DEF TypeOK

\* The nodes a site's list points to stay in the table, as EID nodes of the site
\* (udp.c 3025-3052 uses them without a test), unless the configuration has placed
\* them at or below another one (parser.c 145, 183): for every configuration, any
\* number of workers and whatever they are sent.
THEOREM MapServerTyped == Spec => []TypeOK
<1>1. Init => MSInv  BY MSInvInit
<1>2. MSInv /\ [Next]_vars => MSInv'  BY MSInvNext
<1>3. MSInv => TypeOK  BY MSInvTyped
<1> QED  BY <1>1, <1>2, <1>3, PTL DEF Spec

----------------------------------------------------------------------------
(***************************************************************************)
(* A register changes the site it is for and those that meet it.           *)
(***************************************************************************)
\* A mapping somebody registered.
Mapped(t, x) ==
    /\ x \in Nodes(t)
    /\ "MAPP" \in RangeOf(Flags(t, x))
    /\ Flags(t, x).referral = NULL

\* What is stored of it.
Entry(t, x) == [eid |-> x, proxy |-> Flags(t, x).proxy, locs |-> SetOf(Info(t, x))]

\* Stored in these terms.
LEMMA StoredIs ==
    ASSUME NEW t, NEW s
    PROVE  \A e : e \in Stored(t, s)
                    <=> \E x : Mapped(t, x) /\ Within(x, s) /\ e = Entry(t, x)
<1>1. PICK S : S = {x \in Nodes(t) : /\ ms_node_is_type(t, x, {"MAPP"})
                                     /\ ~ms_node_is_referral(t, x)
                                     /\ Within(x, s)}
  OBVIOUS
<1>2. \A x : x \in S <=> Mapped(t, x) /\ Within(x, s)
  BY <1>1 DEF ms_node_is_type, ms_node_is_referral, Mapped, RangeOf
<1>3. Stored(t, s) = {Entry(t, x) : x \in S}
  BY <1>1 DEF Stored, Entry, Info
<1> QED  BY <1>2, <1>3

\* The registered mappings that stay as they are.
Same(t, u, x) ==
    /\ Mapped(u, x) <=> Mapped(t, x)
    /\ Mapped(t, x) => Flags(u, x).proxy = Flags(t, x).proxy /\ Info(u, x) = Info(t, x)

\* A site whose registered mappings all stay as they are stores the same.
LEMMA SameStored ==
    ASSUME NEW t, NEW u, NEW s, \A x : Within(x, s) => Same(t, u, x)
    PROVE  Stored(u, s) = Stored(t, s)
<1>1. \A x : Within(x, s) /\ Mapped(t, x) => Entry(u, x) = Entry(t, x)
  BY DEF Same, Entry
<1>2. \A e : e \in Stored(u, s) <=> e \in Stored(t, s)
  BY <1>1, StoredIs DEF Same
<1> QED  BY <1>2

\* An update elsewhere.
LEMMA UpdatedElsewhere ==
    ASSUME NEW t, NEW u, NEW p, NEW f, Updated(t, u, p, f), NEW x, x # p
    PROVE  Same(t, u, x)
<1>1. CASE x \in Nodes(t)
  BY <1>1 DEF Updated, Same, Mapped
<1>2. CASE x \notin Nodes(t)
  <2>1. x \in Nodes(u) => Flags(u, x) = NULL  BY <1>2 DEF Updated
  <2>2. ~Mapped(u, x) /\ ~Mapped(t, x)  BY <1>2, <2>1 DEF Mapped, RangeOf
  <2> QED  BY <2>2 DEF Same
<1> QED  BY <1>1, <1>2

\* An update of a node outside the site.
LEMMA UpdatedOutside ==
    ASSUME NEW t, NEW u, NEW p, NEW f, Updated(t, u, p, f), NEW s, ~Within(p, s)
    PROVE  Stored(u, s) = Stored(t, s)
<1>1. \A x : Within(x, s) => Same(t, u, x)  BY UpdatedElsewhere
<1> QED  BY <1>1, SameStored

\* A worker cleans its own site, and what lies below an EID of it.
LEMMA CleanIsolated ==
    ASSUME MSInv, NEW w \in Workers, CleanSite(w), AllThere(db, eid[wk[w].site]),
           NEW s \in Sites, wk[w].site \notin Meeting[s]
    PROVE  Stored(db', s) = Stored(db, s)
<1>1. PICK u, E, own : u = db' /\ E = SetOf(eid[wk[w].site]) /\ own = wk[w].site  OBVIOUS
<1>2. /\ own \in Sites /\ AreCleaned(db, u, E)
      /\ \A y \in E : y \in EidsOf[own]
  BY <1>1, CleanedSite
<1>3. Nodes(db) \subseteq Prefix
  BY DEF MSInv, TableInv, MsTable, Shaped, Linked
<1>4. ASSUME NEW x, Within(x, s)
      PROVE  Same(db, u, x)
  <2>1. CASE x \in Nodes(db)
    <3>1. x \in Prefix  BY <1>3, <2>1
    <3>2. ASSUME NEW y \in E  PROVE ~Includes(y, x)
      <4>1. SUFFICES ASSUME Includes(y, x)  PROVE FALSE  OBVIOUS
      <4>2. Within(x, own)  BY <1>2, <3>1, <4>1, WithinIs
      <4>3. own \in Meeting[s]  BY <1>2, <1>4, <3>1, <4>2, WithinMeets
      <4> QED  BY <1>1, <4>3
    <3>3. x \notin E
      <4>1. Includes(x, x)  BY <3>1, IncludesOrder
      <4> QED  BY <3>2, <4>1
    <3>4. x \in Nodes(u) \ E  BY <1>2, <2>1, <3>2, <3>3 DEF AreCleaned
    <3>5. Info(u, x) = Info(db, x) /\ Flags(u, x) = Flags(db, x)
      BY <1>2, <3>4 DEF AreCleaned
    <3> QED  BY <2>1, <3>4, <3>5 DEF Same, Mapped
  <2>2. CASE x \notin Nodes(db)
    <3>1. x \notin Nodes(u)  BY <1>2, <2>2 DEF AreCleaned
    <3> QED  BY <2>2, <3>1 DEF Same, Mapped
  <2> QED  BY <2>1, <2>2
<1> QED  BY <1>1, <1>4, SameStored

\* It adds mappings within its own site.
LEMMA AddIsolated ==
    ASSUME MSInv, NEW w \in Workers, AddRecord(w),
           NEW s \in Sites, wk[w].site \notin Meeting[s]
    PROVE  Stored(db', s) = Stored(db, s)
<1>1. PICK r, f, u : r = Head(wk[w].todo) /\ f = Registering(wk[w].msg.proxy) /\ u = db'
  OBVIOUS
<1>2. /\ r \in Record /\ Within(r.eid, wk[w].site) /\ wk[w].site \in Sites
      /\ Updated(db, u, r.eid, Merged(Old(db, r.eid), f))
  BY <1>1, AddedRecord
<1>3. r.eid \in Prefix  BY <1>2 DEF Record
<1>4. ~Within(r.eid, s)  BY <1>2, <1>3, WithinMeets
<1> QED  BY <1>1, <1>2, <1>4, UpdatedOutside

\* A referral changes the sites it lies in.
LEMMA ReferralIsolated ==
    ASSUME MSInv, NEW r \in Referrals, _process_referral_record(r),
           NEW s \in Sites, ~Within(r.eid, s)
    PROVE  Stored(db', s) = Stored(db, s)
<1>1. PICK f, u : f = [ms_new_node_ex({"MAPP"}) EXCEPT !.referral = r.act] /\ u = db'
  OBVIOUS
<1>2. Updated(db, u, r.eid, Merged(Old(db, r.eid), f))  BY <1>1, ReferralStep
<1> QED  BY <1>1, <1>2, UpdatedOutside

\* The worker that changes the table goes on with its own update.
LEMMA WorkerMoves ==
    ASSUME MSInv, NEW w \in Workers,
           AddRecord(w) \/ (CleanSite(w) /\ AllThere(db, eid[wk[w].site]))
    PROVE  /\ wk'[w] # wk[w] /\ wk[w].pc \in {"clean", "add"}
           /\ wk[w].msg.auth => wk[w].msg.key = wk[w].site
<1>1. PICK k0 \in WorkerState : k0 = wk[w] /\ Working(k0)  BY DEF MSInv, WkInv
<1>2. CASE AddRecord(w)
  <2>1. PICK l, rest : l \in Seq(Record) /\ l = k0.todo /\ l # <<>> /\ rest = Tail(l)
    BY <1>1, <1>2 DEF WorkerState, AddRecord
  <2>2. PICK k : k = [k0 EXCEPT !.todo = rest]  OBVIOUS
  <2>3. wk' = [wk EXCEPT ![w] = k]  BY <1>1, <1>2, <2>1, <2>2 DEF AddRecord
  <2>4. wk'[w] = k  BY <2>3 DEF MSInv, WkInv
  <2>5. k.todo = rest  BY <1>1, <2>2 DEF WorkerState
  <2>6. rest # l
    <3>1. Len(rest) = Len(l) - 1 /\ Len(l) \in Nat  BY <2>1
    <3> QED  BY <3>1
  <2>7. k0.pc = "add"  BY <1>1, <1>2 DEF AddRecord
  <2> QED  BY <1>1, <2>1, <2>4, <2>5, <2>6, <2>7 DEF Working
<1>3. CASE CleanSite(w) /\ AllThere(db, eid[wk[w].site])
  <2>1. PICK k : k = [k0 EXCEPT !.pc = "add"]  OBVIOUS
  <2>2. wk' = [wk EXCEPT ![w] = k]  BY <1>1, <1>3, <2>1 DEF CleanSite
  <2>3. wk'[w] = k  BY <2>2 DEF MSInv, WkInv
  <2>4. k.pc = "add" /\ k0.pc = "clean"  BY <1>1, <1>3, <2>1 DEF WorkerState, CleanSite
  <2> QED  BY <1>1, <2>3, <2>4 DEF Working
<1> QED  BY <1>2, <1>3

\* Once the configuration has been read only the workers and the resolver change
\* the table.
LEMMA TableChanges ==
    ASSUME MSInv, [Next]_vars, Running, db' # db
    PROVE  \/ \E w \in Workers : AddRecord(w) \/ (CleanSite(w) /\ AllThere(db, eid[wk[w].site]))
           \/ \E r \in Referrals : _process_referral_record(r)
<1>1. ASSUME NEW w \in Workers, CleanSite(w)
      PROVE  AllThere(db, eid[wk[w].site])
  BY <1>1 DEF CleanSite
<1>2. ASSUME NEW w \in Workers, _register(w) \/ Registered(w)
      PROVE  FALSE
  BY <1>2 DEF _register, Registered
<1>3. ASSUME NEW w \in Workers, NEW m, Take(w, m)  PROVE FALSE
  BY <1>3 DEF Take
<1>4. ASSUME NEW e, general_register_process(e)  PROVE FALSE
  BY <1>4 DEF general_register_process, ms
<1>5. ASSUME NEW e, NEW a, Restart(e, a)  PROVE FALSE  BY <1>5 DEF Restart, ms
<1>6. ASSUME NEW m, Lose(m)  PROVE FALSE  BY <1>6 DEF Lose, ms
<1>7. ~Delivered  BY DEF Delivered, ms
<1>8. ~UNCHANGED vars  BY DEF vars, ms
<1>9. ~_parser_config
  <2>1. SUFFICES ASSUME line \in DOMAIN Config  PROVE FALSE  BY DEF _parser_config
  <2>2. line \in 1..Len(Config) /\ Len(Config) \in Nat  BY <2>1, ConfigIs
  <2> QED  BY <2>2 DEF Running
<1> QED
  BY <1>1, <1>2, <1>3, <1>4, <1>5, <1>6, <1>7, <1>8, <1>9 DEF Next, Worker, Serve

\* What a step may do to the mappings of the sites.
LEMMA Isolated ==
    ASSUME MSInv, [Next]_vars, Running, db' # db,
           NEW s \in Sites, Stored(db', s) # Stored(db, s)
    PROVE  \/ \E w \in Workers : /\ wk'[w] # wk[w]
                                 /\ Busy(w, s)
                                 /\ wk[w].msg.auth => wk[w].msg.key = wk[w].site
           \/ wk' = wk /\ \E r \in Referrals : Within(r.eid, s)
<1>1. ASSUME NEW w \in Workers,
             AddRecord(w) \/ (CleanSite(w) /\ AllThere(db, eid[wk[w].site]))
      PROVE  /\ wk'[w] # wk[w] /\ Busy(w, s)
             /\ wk[w].msg.auth => wk[w].msg.key = wk[w].site
  <2>1. wk[w].site \in Meeting[s]  BY <1>1, CleanIsolated, AddIsolated
  <2> QED  BY <1>1, <2>1, WorkerMoves DEF Busy
<1>2. ASSUME NEW r \in Referrals, _process_referral_record(r)
      PROVE  wk' = wk /\ Within(r.eid, s)
  <2>1. Within(r.eid, s)  BY <1>2, ReferralIsolated
  <2> QED  BY <1>2, <2>1 DEF _process_referral_record
<1> QED  BY <1>1, <1>2, TableChanges

\* The mappings of a site change only in the update a worker makes for it or for a
\* site that meets it, with a register that has the key of the site it is for or
\* no authentication data, or by a referral for an EID in it (udp.c 2911-2924,
\* 2945-2954): for every configuration, any number of workers and whatever EIDs
\* the registers name.
THEOREM MapServerSitesIsolated == Spec => SitesIsolated
<1>1. Init => MSInv  BY MSInvInit
<1>2. MSInv /\ [Next]_vars => MSInv'  BY MSInvNext
<1>3. MSInv /\ [Next]_vars =>
        [Running /\ db' # db => \A s \in Sites : Stored(db', s) # Stored(db, s) =>
          \/ \E w \in Workers : /\ wk'[w] # wk[w]
                                /\ Busy(w, s)
                                /\ wk[w].msg.auth => wk[w].msg.key = wk[w].site
          \/ wk' = wk /\ \E r \in Referrals : Within(r.eid, s)]_vars
  BY Isolated
<1> QED  BY <1>1, <1>2, <1>3, PTL DEF Spec, SitesIsolated

----------------------------------------------------------------------------
(***************************************************************************)
(* The locators of a registered mapping.                                   *)
(***************************************************************************)
\* Each address with its best priority.
Best(S) == {l \in S : \A k \in S : k.rloc = l.rloc => l.priority <= k.priority}

\* Whoever names an address twice with one priority says the same of it.
Single(S) == \A k, l \in S : k.rloc = l.rloc /\ k.priority = l.priority => k = l

\* The list l of what was seen so far, A: every address once, none worse.
Collected(l, A) ==
    /\ l \in Seq(Locator) /\ SetOf(l) \subseteq A
    /\ \A i, j \in DOMAIN l : l[i].rloc = l[j].rloc => i = j
    /\ \A a \in A : \E i \in DOMAIN l : l[i].rloc = a.rloc /\ l[i].priority <= a.priority

\* One locator more (udp.c 3277-3348).
LEMMA CollectStep ==
    ASSUME NEW A, A \subseteq Locator, NEW l, Collected(l, A), NEW e \in Locator,
           NEW u, u = add_locator(l, e)
    PROVE  Collected(u, A \cup {e})
<1>1. PICK n \in Nat : /\ n = Len(l) /\ DOMAIN l = 1..n
                       /\ \A i \in 1..n : l[i] \in Locator /\ l[i] \in A
  <2>1. l \in Seq(Locator)  BY DEF Collected
  <2>2. PICK n \in Nat : n = Len(l) /\ DOMAIN l = 1..n /\ \A i \in 1..n : l[i] \in Locator
    BY <2>1, Z3
  <2> QED  BY <2>2 DEF Collected, SetOf
<1>2. /\ \A i, j \in 1..n : l[i].rloc = l[j].rloc => i = j
      /\ \A a \in A : \E i \in 1..n : l[i].rloc = a.rloc /\ l[i].priority <= a.priority
  BY <1>1 DEF Collected
<1>3. e.priority \in Nat /\ \A i \in 1..n : l[i].priority \in Nat  BY <1>1 DEF Locator
<1>4. \A a \in A : a.priority \in Nat  BY DEF Locator
<1>5. CASE \A i \in 1..n : l[i].rloc # e.rloc
  <2>1. u = Append(l, e)  BY <1>1, <1>5 DEF add_locator
  <2>2. /\ u \in Seq(Locator) /\ DOMAIN u = 1..(n + 1) /\ u[n + 1] = e
        /\ \A i \in 1..n : u[i] = l[i]
    <3>1. l \in Seq(Locator) /\ Len(l) = n  BY <1>1 DEF Collected
    <3> QED  BY <2>1, <3>1
  <2>3. \A i \in 1..(n + 1) : i \in 1..n \/ i = n + 1  OBVIOUS
  <2>4. SetOf(u) \subseteq A \cup {e}  BY <1>1, <2>2, <2>3 DEF SetOf
  <2>5. ASSUME NEW i \in 1..(n + 1), NEW j \in 1..(n + 1), u[i].rloc = u[j].rloc
        PROVE  i = j
    BY <1>2, <1>5, <2>2, <2>3, <2>5
  <2>6. ASSUME NEW a \in A \cup {e}
        PROVE  \E i \in 1..(n + 1) : u[i].rloc = a.rloc /\ u[i].priority <= a.priority
    <3>1. CASE a = e
      <4>1. n + 1 \in 1..(n + 1) /\ e.priority <= e.priority  BY <1>3
      <4> QED  BY <2>2, <3>1, <4>1
    <3>2. CASE a \in A
      <4>1. PICK i \in 1..n : l[i].rloc = a.rloc /\ l[i].priority <= a.priority
        BY <1>2, <3>2
      <4>2. i \in 1..(n + 1)  OBVIOUS
      <4> QED  BY <2>2, <4>1, <4>2
    <3> QED  BY <3>1, <3>2
  <2> QED  BY <2>2, <2>4, <2>5, <2>6 DEF Collected
<1>6. CASE \E i \in 1..n : l[i].rloc = e.rloc
  <2>1. PICK o \in 1..n : l[o].rloc = e.rloc  BY <1>6
  <2>2. u = [i \in 1..n |-> IF l[i].rloc = e.rloc /\ l[i].priority > e.priority
                            THEN e ELSE l[i]]
    BY <1>1, <1>6 DEF add_locator
  <2>3. \A i \in 1..n : u[i] = IF l[i].rloc = e.rloc /\ l[i].priority > e.priority
                               THEN e ELSE l[i]
    BY <2>2
  <2>4. \A i \in 1..n : /\ u[i] \in Locator /\ u[i].rloc = l[i].rloc
                        /\ u[i].priority <= l[i].priority
                        /\ u[i] = e \/ u[i] = l[i]
    <3>1. SUFFICES ASSUME NEW i \in 1..n
                   PROVE  /\ u[i] \in Locator /\ u[i].rloc = l[i].rloc
                          /\ u[i].priority <= l[i].priority
                          /\ u[i] = e \/ u[i] = l[i]
      OBVIOUS
    <3>2. CASE l[i].rloc = e.rloc /\ l[i].priority > e.priority
      BY <1>3, <2>3, <3>2
    <3>3. CASE ~(l[i].rloc = e.rloc /\ l[i].priority > e.priority)
      BY <1>1, <1>3, <2>3, <3>3
    <3> QED  BY <3>2, <3>3
  <2>5. u \in Seq(Locator) /\ DOMAIN u = 1..n
    <3>1. u \in [1..n -> Locator]  BY <2>2, <2>4
    <3> QED  BY <3>1
  <2>6. SetOf(u) \subseteq A \cup {e}  BY <1>1, <2>4, <2>5 DEF SetOf
  <2>7. \A i, j \in 1..n : u[i].rloc = u[j].rloc => i = j  BY <1>2, <2>4
  <2>8. ASSUME NEW a \in A \cup {e}
        PROVE  \E i \in 1..n : u[i].rloc = a.rloc /\ u[i].priority <= a.priority
    <3>1. CASE a = e
      <4>1. u[o].priority <= e.priority
        <5>1. CASE l[o].priority > e.priority
          <6>1. u[o] = e  BY <2>1, <2>3, <5>1
          <6> QED  BY <1>3, <6>1
        <5>2. CASE ~(l[o].priority > e.priority)
          <6>1. u[o] = l[o]  BY <2>1, <2>3, <5>2
          <6> QED  BY <1>3, <5>2, <6>1
        <5> QED  BY <5>1, <5>2
      <4> QED  BY <2>1, <2>4, <3>1, <4>1
    <3>2. CASE a \in A
      <4>1. PICK i \in 1..n : l[i].rloc = a.rloc /\ l[i].priority <= a.priority
        BY <1>2, <3>2
      <4>2. u[i].priority \in Nat /\ l[i].priority \in Nat /\ a.priority \in Nat
        BY <1>3, <1>4, <2>4, <3>2 DEF Locator
      <4>3. u[i].priority <= l[i].priority /\ u[i].rloc = l[i].rloc  BY <2>4
      <4>4. u[i].priority <= a.priority  BY <4>1, <4>2, <4>3
      <4> QED  BY <4>1, <4>3, <4>4
    <3> QED  BY <3>1, <3>2
  <2> QED  BY <2>5, <2>6, <2>7, <2>8 DEF Collected
<1> QED  BY <1>5, <1>6

\* Then the list is the best locators.
LEMMA CollectedBest ==
    ASSUME NEW A, A \subseteq Locator, Single(A), NEW l, Collected(l, A)
    PROVE  SetOf(l) = Best(A)
<1>1. \A a \in A : a.priority \in Nat  BY DEF Locator
<1>2. \A x \in SetOf(l) : x \in A  BY DEF Collected
<1>3. \A a \in A : \E x \in SetOf(l) : x.rloc = a.rloc /\ x.priority <= a.priority
  BY DEF Collected, SetOf
<1>4. \A x, y \in SetOf(l) : x.rloc = y.rloc => x = y  BY DEF Collected, SetOf
<1>5. ASSUME NEW x \in SetOf(l)  PROVE x \in Best(A)
  <2>1. SUFFICES ASSUME NEW k \in A, k.rloc = x.rloc  PROVE x.priority <= k.priority
    BY <1>2 DEF Best
  <2>2. PICK y \in SetOf(l) : y.rloc = k.rloc /\ y.priority <= k.priority  BY <1>3
  <2>3. y = x  BY <1>4, <2>1, <2>2
  <2> QED  BY <2>2, <2>3
<1>6. ASSUME NEW x \in Best(A)  PROVE x \in SetOf(l)
  <2>1. x \in A /\ \A k \in A : k.rloc = x.rloc => x.priority <= k.priority  BY DEF Best
  <2>2. PICK y \in SetOf(l) : y.rloc = x.rloc /\ y.priority <= x.priority  BY <1>3, <2>1
  <2>3. y \in A /\ x.priority <= y.priority  BY <1>2, <2>1, <2>2
  <2>4. x.priority \in Nat /\ y.priority \in Nat  BY <1>1, <2>1, <2>3
  <2>5. x.priority = y.priority  BY <2>2, <2>3, <2>4
  <2>6. y = x  BY <2>1, <2>2, <2>3, <2>5 DEF Single
  <2> QED  BY <2>6
<1> QED  BY <1>5, <1>6

\* What a record leaves at its node.
LEMMA RegisterBest ==
    ASSUME NEW locs \in Seq(Locator), Single(SetOf(locs)),
           NEW u, u = Fold("register", NULL, <<>>, locs)
    PROVE  u \in Seq(Locator) /\ SetOf(u) = Best(SetOf(locs))
<1>1. PICK n \in Nat : DOMAIN locs = 1..n /\ \A i \in 1..n : locs[i] \in Locator  BY Z3
<1>2. PICK base : base = <<>>  OBVIOUS
<1>3. PICK g : FoldRun(g, "register", NULL, base, locs, n)
               /\ Fold("register", NULL, base, locs) = g[n]
  BY <1>1, FoldRuns
<1>4. u = g[n] /\ g[0] = base /\ \A k \in 1..n : g[k] = add_locator(g[k - 1], locs[k])
  BY <1>2, <1>3 DEF FoldRun, FoldOp
<1> DEFINE Good(k) == Collected(g[k], FirstOf(locs, k))
           T == {k \in Nat : k <= n => Good(k)}
<1>5. 0 \in T
  <2>1. base \in Seq(Locator) /\ DOMAIN base = {}  BY <1>2
  <2>2. SetOf(base) = {}  BY <2>1 DEF SetOf
  <2>3. FirstOf(locs, 0) = {}  BY FirstOfIs
  <2> QED  BY <1>4, <2>1, <2>2, <2>3 DEF Collected
<1>6. ASSUME NEW k \in T  PROVE k + 1 \in T
  <2>1. k \in Nat  BY <1>6
  <2>2. CASE k + 1 <= n
    <3>1. k + 1 \in 1..n /\ (k + 1) - 1 = k /\ k <= n  BY <2>1, <2>2
    <3>2. PICK a, b, e, A : /\ a = g[k] /\ b = g[k + 1] /\ e = locs[k + 1]
                            /\ A = FirstOf(locs, k)
      OBVIOUS
    <3>3. Collected(a, A)  BY <1>6, <3>1, <3>2
    <3>4. b = add_locator(a, e) /\ e \in Locator  BY <1>1, <1>4, <3>1, <3>2
    <3>5. A \subseteq Locator  BY <1>1, <3>1, <3>2 DEF FirstOf
    <3>6. Collected(b, A \cup {e})  BY <3>3, <3>4, <3>5, CollectStep
    <3>7. FirstOf(locs, k + 1) = A \cup {e}  BY <2>1, <3>2, FirstOfIs
    <3>8. Good(k + 1)  BY <3>2, <3>6, <3>7
    <3>9. k + 1 \in Nat  BY <2>1
    <3> HIDE DEF Good
    <3> QED  BY <3>8, <3>9
  <2>3. CASE ~(k + 1 <= n)
    <3>1. k + 1 \in Nat  BY <2>1
    <3> QED  BY <2>3, <3>1
  <2> QED  BY <2>2, <2>3
<1>7. T = Nat
  <2>1. T \subseteq Nat  OBVIOUS
  <2> HIDE DEF T
  <2> QED  BY <1>5, <1>6, <2>1, Induction
<1>8. Good(n)  BY <1>7
<1>9. FirstOf(locs, n) = SetOf(locs) /\ SetOf(locs) \subseteq Locator
  BY <1>1 DEF FirstOf, SetOf
<1>10. Collected(u, SetOf(locs))  BY <1>4, <1>8, <1>9
<1> QED  BY <1>9, <1>10, CollectedBest DEF Collected
----------------------------------------------------------------------------
(***************************************************************************)
(* What the registers of the xTRs leave in the table.                      *)
(***************************************************************************)
\* No two records for one EID, and what they say of their locators is clear.
Plain(S) ==
    /\ \A q, r \in S : q.eid = r.eid => q = r
    /\ \A r \in S : Single(SetOf(r.locs))

\* The xTRs configure a mapping once.
PlainMappings == \A e \in Etrs : \A a \in Mappings[e] : Plain(SetOf(a.recs))

\* A register that an xTR sent.
SentBy(m) ==
    /\ m \in Register
    /\ \E a \in Mappings[m.from] : m.recs = SentRecs(a.recs)

\* What a record leaves in the table.
Entered(r, proxy) == [eid |-> r.eid, proxy |-> proxy, locs |-> Best(SetOf(r.locs))]

EnteredAll(S, proxy) == {Entered(r, proxy) : r \in S}

\* The records of a sent register are as plain as the mapping they come from.
LEMMA SentPlain ==
    ASSUME PlainMappings, NEW m, SentBy(m)
    PROVE  Plain(SetOf(m.recs)) /\ SetOf(m.recs) \subseteq Record
<1>1. m.from \in Etrs  BY DEF SentBy, Register
<1>2. PICK a \in Mappings[m.from] : m.recs = SentRecs(a.recs)  BY DEF SentBy
<1>3. PICK l, u : l = a.recs /\ u = m.recs  OBVIOUS
<1>4. l \in Seq(Record) /\ Plain(SetOf(l))  BY <1>1, <1>3, MappingIs DEF PlainMappings
<1>5. /\ DOMAIN u = DOMAIN l
      /\ \A i \in DOMAIN l : u[i] = Announced(l[i]) /\ l[i] \in Record
  <2>1. u = SentRecs(l)  BY <1>2, <1>3
  <2> QED  BY <1>4, <2>1, SentRecsAre
<1>6. ASSUME NEW i \in DOMAIN l
      PROVE  /\ u[i] \in Record /\ u[i].eid = l[i].eid
             /\ SetOf(u[i].locs) = SetOf(l[i].locs)
  <2>1. PICK r \in Record : r = l[i]  BY <1>5
  <2>2. u[i] = Announced(r)  BY <1>5, <2>1
  <2> QED  BY <2>1, <2>2, AnnouncedIs
<1>7. \A q \in SetOf(u) : \E i \in DOMAIN l : q = u[i]  BY <1>5 DEF SetOf
<1>8. \A i \in DOMAIN l : l[i] \in SetOf(l)  BY DEF SetOf
<1>9. ASSUME NEW q \in SetOf(u), NEW r \in SetOf(u), q.eid = r.eid  PROVE q = r
  <2>1. PICK i \in DOMAIN l, j \in DOMAIN l : q = u[i] /\ r = u[j]  BY <1>7
  <2>2. l[i].eid = l[j].eid  BY <1>6, <1>9, <2>1
  <2>3. l[i] = l[j]  BY <1>4, <1>8, <2>2 DEF Plain
  <2> QED  BY <1>5, <2>1, <2>3
<1>10. ASSUME NEW r \in SetOf(u)  PROVE Single(SetOf(r.locs)) /\ r \in Record
  <2>1. PICK i \in DOMAIN l : r = u[i]  BY <1>7
  <2>2. Single(SetOf(l[i].locs))  BY <1>4, <1>8 DEF Plain
  <2> QED  BY <1>6, <2>1, <2>2
<1> QED  BY <1>3, <1>9, <1>10 DEF Plain

\* What a hash asks for is what its register leaves.
LEMMA WantedIs ==
    ASSUME NEW m \in Register
    PROVE  /\ _ms_recal_hashing(m) # NULL /\ _ms_recal_hashing(m) \in Hash
           /\ Wanted(_ms_recal_hashing(m)) = EnteredAll(SetOf(m.recs), m.proxy)
<1>1. PICK h : h = _ms_recal_hashing(m)  OBVIOUS
<1>2. h \in Hash /\ h.recs = m.recs /\ h.proxy = m.proxy
  BY <1>1 DEF _ms_recal_hashing, Register, Hash
<1>3. NULL \notin Hash  BY MapServerAssumption, Zenon
<1>4. h # NULL  BY <1>2, <1>3
<1>5. Wanted(h) = EnteredAll(SetOf(m.recs), m.proxy)
  BY <1>2, <1>4 DEF Wanted, EnteredAll, Entered, Best
<1> QED  BY <1>1, <1>2, <1>4, <1>5

\* After the cleaning nothing is stored of the site.
LEMMA CleanedStored ==
    ASSUME NEW t, NEW u, NEW E, Nodes(t) \subseteq Prefix, AreCleaned(t, u, E),
           NEW s \in Sites, EidsOf[s] \subseteq E
    PROVE  Stored(u, s) = {}
<1>1. ASSUME NEW x, Mapped(u, x), Within(x, s)  PROVE FALSE
  <2>1. x \in Nodes(u) /\ x \in Prefix /\ "MAPP" \in RangeOf(Flags(u, x))
    BY <1>1 DEF Mapped, AreCleaned
  <2>2. PICK p \in EidsOf[s] : Includes(p, x)  BY <1>1, <2>1, WithinIs
  <2>3. x = p  BY <2>1, <2>2 DEF AreCleaned
  <2> QED  BY <2>1, <2>2, <2>3 DEF AreCleaned
<1>2. \A e : e \notin Stored(u, s)  BY <1>1, StoredIs
<1> QED  BY <1>2

\* A record is entered.
LEMMA RecordEntered ==
    ASSUME NEW t, MsTable(t), NEW u, NEW r \in Record, Single(SetOf(r.locs)),
           NEW f \in MappingFlags, f.range = {"MAPP"}, f.referral = NULL,
           Updated(t, u, r.eid, Merged(Old(t, r.eid), f)),
           Info(u, r.eid) = Fold("register", NULL, <<>>, r.locs)
    PROVE  /\ Mapped(u, r.eid) /\ Entry(u, r.eid) = Entered(r, f.proxy)
           /\ \A x : x # r.eid => Same(t, u, x)
<1>1. PICK p, old : p = r.eid /\ old = Old(t, p)  OBVIOUS
<1>2. PICK g : g = Merged(old, f)  OBVIOUS
<1>3. old \in MappingFlags \cup {NULL}  BY <1>1 DEF Old, MsTable
<1>4. /\ g \in MappingFlags /\ g.range = {"MAPP"} \cup RangeOf(old)
      /\ g.referral = NULL /\ g.proxy = f.proxy
  <2>1. /\ Merged(old, f) \in MappingFlags /\ Merged(old, f).range = f.range \cup RangeOf(old)
        /\ Merged(old, f).referral = f.referral /\ Merged(old, f).proxy = f.proxy
    BY <1>3, MergedIs
  <2> QED  BY <1>2, <2>1
<1>5. NULL \notin MappingFlags  BY MapServerAssumption, Zenon
<1>6. p \in Nodes(u) /\ Flags(u, p) = g  BY <1>1, <1>2 DEF Updated
<1>7. Mapped(u, p)  BY <1>4, <1>5, <1>6 DEF Mapped, RangeOf
<1>8. SetOf(Info(u, p)) = Best(SetOf(r.locs))
  <2>1. PICK l : l = r.locs  OBVIOUS
  <2>2. l \in Seq(Locator)  BY <2>1 DEF Record
  <2> QED  BY <1>1, <2>1, <2>2, RegisterBest
<1>9. Entry(u, p) = Entered(r, f.proxy)  BY <1>1, <1>4, <1>6, <1>8 DEF Entry, Entered
<1>10. \A x : x # p => Same(t, u, x)  BY <1>1, UpdatedElsewhere
<1> QED  BY <1>1, <1>7, <1>9, <1>10

\* It adds its entry to its site, and replaces none but its own.
LEMMA AddedStored ==
    ASSUME NEW t, NEW u, NEW r, NEW proxy, Mapped(u, r.eid),
           Entry(u, r.eid) = Entered(r, proxy), \A x : x # r.eid => Same(t, u, x),
           NEW s, Within(r.eid, s), NEW S, Stored(t, s) = EnteredAll(S, proxy),
           \A q \in S : q.eid = r.eid => q = r
    PROVE  Stored(u, s) = EnteredAll(S \cup {r}, proxy)
<1>1. PICK p : p = r.eid  OBVIOUS
<1>2. \A x : x # p /\ Mapped(t, x) => Entry(u, x) = Entry(t, x)
  BY <1>1 DEF Same, Entry
<1>3. ASSUME NEW e \in Stored(u, s)  PROVE e \in EnteredAll(S \cup {r}, proxy)
  <2>1. PICK x : Mapped(u, x) /\ Within(x, s) /\ e = Entry(u, x)  BY StoredIs
  <2>2. CASE x = p  BY <1>1, <2>1, <2>2 DEF EnteredAll
  <2>3. CASE x # p
    <3>1. Mapped(t, x) /\ e = Entry(t, x)  BY <1>1, <1>2, <2>1, <2>3 DEF Same
    <3>2. e \in Stored(t, s)  BY <2>1, <3>1, StoredIs
    <3> QED  BY <3>2 DEF EnteredAll
  <2> QED  BY <2>2, <2>3
<1>4. ASSUME NEW q \in S \cup {r}  PROVE Entered(q, proxy) \in Stored(u, s)
  <2>1. CASE q.eid = p
    <3>1. q = r  BY <1>1, <1>4, <2>1
    <3> QED  BY <1>1, <3>1, StoredIs
  <2>2. CASE q.eid # p
    <3>1. q \in S  BY <1>1, <1>4, <2>2
    <3>2. Entered(q, proxy) \in Stored(t, s)  BY <3>1 DEF EnteredAll
    <3>3. PICK x : Mapped(t, x) /\ Within(x, s) /\ Entered(q, proxy) = Entry(t, x)
      BY <3>2, StoredIs
    <3>4. x = q.eid  BY <3>3 DEF Entered, Entry
    <3>5. Mapped(u, x) /\ Entry(u, x) = Entry(t, x)  BY <1>1, <1>2, <2>2, <3>3, <3>4 DEF Same
    <3> QED  BY <3>3, <3>5, StoredIs
  <2> QED  BY <2>1, <2>2
<1> QED  BY <1>3, <1>4 DEF EnteredAll

\* The first of a list and the others.
LEMMA HeadTail ==
    ASSUME NEW l \in Seq(Record), l # <<>>
    PROVE  Head(l) \in Record /\ SetOf(l) = {Head(l)} \cup SetOf(Tail(l))
<1>1. PICK n \in Nat : n = Len(l) /\ DOMAIN l = 1..n /\ n >= 1  OBVIOUS
<1>2. PICK a : a = Tail(l)  OBVIOUS
<1>3. DOMAIN a = 1..(n - 1) /\ \A i \in 1..(n - 1) : a[i] = l[i + 1]  BY <1>1, <1>2
<1>4. Head(l) = l[1] /\ l[1] \in Record /\ 1 \in 1..n  BY <1>1
<1>5. \A i \in 1..n : i = 1 \/ (i - 1 \in 1..(n - 1) /\ l[i] = a[i - 1])
  BY <1>3
<1>6. \A i \in 1..(n - 1) : i + 1 \in 1..n  BY <1>1
<1>7. \A x \in SetOf(l) : x = l[1] \/ x \in SetOf(a)  BY <1>1, <1>3, <1>5 DEF SetOf
<1>8. \A x \in SetOf(a) : x \in SetOf(l)  BY <1>1, <1>3, <1>6 DEF SetOf
<1>9. l[1] \in SetOf(l)  BY <1>1, <1>4 DEF SetOf
<1> QED  BY <1>2, <1>4, <1>7, <1>8, <1>9

----------------------------------------------------------------------------
(***************************************************************************)
(* The sites of which the last update was alone.                           *)
(***************************************************************************)
\* A worker's update of site s or one that meets it.
At(k, s) == k.pc \in {"clean", "add"} /\ k.site \in Meeting[s]

\* What it has entered already: the records S.
Entering(k, t, s) ==
    k.pc = "add" => \E S : /\ SetOf(k.msg.recs) = S \cup SetOf(k.todo)
                           /\ Stored(t, s) = EnteredAll(S, k.msg.proxy)

\* At most one worker is at s, with the register whose hash is stored; when none
\* is, the table holds what the hash says.
Alone(ws, hs, t, s) ==
    /\ \A w \in Workers : At(ws[w], s) =>
          /\ ws[w].site = s
          /\ hs[s] = _ms_recal_hashing(ws[w].msg)
          /\ Entering(ws[w], t, s)
    /\ \A w, x \in Workers : At(ws[w], s) /\ At(ws[x], s) => w = x
    /\ (\A w \in Workers : ~At(ws[w], s)) => Stored(t, s) = Wanted(hs[s])

\* The only mappings are those that the configuration delegates.
DelegatedOnly(t) ==
    \A x \in Nodes(t) : "MAPP" \in RangeOf(Flags(t, x)) =>
        \E k \in DOMAIN Config : Config[k].kind = "REID" /\ Config[k].eid = x

\* Before the program runs.
Fresh(ws, hs, t, R) ==
    /\ \A w \in Workers : ws[w].pc = "idle"
    /\ hs = [s \in Sites |-> NULL]
    /\ DelegatedOnly(t)
    /\ \A s \in Sites \ R : \A k \in DOMAIN Config :
          Config[k].kind = "REID" => ~Within(Config[k].eid, s)

\* What is known of a worker, whatever the others do.
Sending(k) ==
    /\ k.pc # "idle" => SentBy(k.msg)
    /\ k.pc = "clean" => k.todo = k.msg.recs
    /\ k.pc \in {"clean", "add"} => k.site \in Meeting[k.site]

RacedInv ==
    /\ MSInv
    /\ line \in 1..Len(Config) => Fresh(wk, hashing, db, raced)
    /\ \A m \in net : SentBy(m)
    /\ \A w \in Workers : Sending(wk[w])
    /\ hashing \in [Sites -> Hash \cup {NULL}]
    /\ Running => \A s \in Sites \ raced : Alone(wk, hashing, db, s)

\* It after a step, in these terms.
LEMMA RacedPrimed ==
    ASSUME MSInv', line' \in 1..Len(Config) => Fresh(wk', hashing', db', raced'),
           \A m \in net' : SentBy(m), \A w \in Workers : Sending(wk'[w]),
           hashing' \in [Sites -> Hash \cup {NULL}],
           line' = Len(Config) + 1 =>
              \A s \in Sites \ raced' : Alone(wk', hashing', db', s)
    PROVE  RacedInv'
<1>1. (line \in 1..Len(Config) => Fresh(wk, hashing, db, raced))'
  BY DEF Fresh, DelegatedOnly
<1>2. (\A m \in net : SentBy(m))'  BY DEF SentBy
<1>3. (\A w \in Workers : Sending(wk[w]))'  BY DEF Sending, SentBy
<1>4. (Running => \A s \in Sites \ raced : Alone(wk, hashing, db, s))'
  BY DEF Running, Alone, At, Entering
<1> QED  BY <1>1, <1>2, <1>3, <1>4 DEF RacedInv

\* A site that is not delegated to holds nothing at first.
LEMMA FreshAlone ==
    ASSUME NEW ws, NEW hs, NEW t, NEW R, Fresh(ws, hs, t, R), NEW s \in Sites \ R
    PROVE  Alone(ws, hs, t, s)
<1>1. \A x : ~(Mapped(t, x) /\ Within(x, s))  BY DEF Mapped, Fresh, DelegatedOnly
<1>2. Stored(t, s) = {}
  <2>1. \A e : e \notin Stored(t, s)  BY <1>1, StoredIs
  <2> QED  BY <2>1
<1>3. Wanted(hs[s]) = {}  BY DEF Fresh, Wanted
<1>4. \A w \in Workers : ~At(ws[w], s)  BY DEF Fresh, At
<1> QED  BY <1>2, <1>3, <1>4 DEF Alone

\* It is so when the program starts.
LEMMA RacedInvInit ==
    ASSUME Init
    PROVE  RacedInv
<1>1. MSInv  BY MSInvInit
<1>2. Fresh(wk, hashing, db, raced)
  <2>1. wk = [w \in Workers |-> Idle] /\ Idle.pc = "idle"  BY IdleIs DEF Init
  <2>2. hashing = [s \in Sites |-> NULL]  BY DEF Init
  <2>3. DelegatedOnly(db)
    <3>1. PICK t : t = ms_init_db  OBVIOUS
    <3>2. \A y \in Nodes(t) : RangeOf(Flags(t, y)) = {}  BY <3>1, InitEffect
    <3>3. db = t  BY <3>1 DEF Init
    <3> QED  BY <3>2, <3>3 DEF DelegatedOnly
  <2>4. raced = {s \in Sites : \E k \in DOMAIN Config :
                                 Config[k].kind = "REID" /\ Within(Config[k].eid, s)}
    BY DEF Init
  <2> QED  BY <2>1, <2>2, <2>3, <2>4 DEF Fresh
<1>3. \A w \in Workers : Sending(wk[w])  BY <1>2 DEF Fresh, Sending
<1>4. hashing \in [Sites -> Hash \cup {NULL}] /\ net = {}  BY DEF Init
<1>5. \A s \in Sites \ raced : Alone(wk, hashing, db, s)  BY <1>2, FreshAlone
<1> QED  BY <1>1, <1>2, <1>3, <1>4, <1>5 DEF RacedInv

\* An element of the configuration.
LEMMA DelegatedKeeps ==
    ASSUME NEW t, DelegatedOnly(t), NEW u, NEW p, NEW f, Updated(t, u, p, f),
           \/ "MAPP" \in RangeOf(f) => "MAPP" \in RangeOf(Old(t, p))
           \/ \E k \in DOMAIN Config : Config[k].kind = "REID" /\ Config[k].eid = p
    PROVE  DelegatedOnly(u)
<1>1. SUFFICES ASSUME NEW x \in Nodes(u), "MAPP" \in RangeOf(Flags(u, x))
               PROVE  \E k \in DOMAIN Config : Config[k].kind = "REID" /\ Config[k].eid = x
  BY DEF DelegatedOnly
<1>2. CASE x = p
  <2>1. Flags(u, p) = f  BY DEF Updated
  <2>2. CASE "MAPP" \in RangeOf(Old(t, p))
    <3>1. p \in Nodes(t) /\ "MAPP" \in RangeOf(Flags(t, p))  BY <2>2 DEF Old, RangeOf
    <3> QED  BY <1>2, <3>1 DEF DelegatedOnly
  <2> QED  BY <1>1, <1>2, <2>1, <2>2
<1>3. CASE x # p /\ x \in Nodes(t)
  <2>1. Flags(u, x) = Flags(t, x)  BY <1>3 DEF Updated
  <2> QED  BY <1>1, <1>3, <2>1 DEF DelegatedOnly
<1>4. CASE x # p /\ x \notin Nodes(t)
  <2>1. Flags(u, x) = NULL  BY <1>1, <1>4 DEF Updated
  <2> QED  BY <1>1, <2>1 DEF RangeOf
<1> QED  BY <1>2, <1>3, <1>4

\* Reading the configuration delegates only what it says.
LEMMA ParserDelegated ==
    ASSUME MSInv, DelegatedOnly(db), _parser_config
    PROVE  DelegatedOnly(db')
<1>1. PICK c, u : c = Config[line] /\ u = db'  OBVIOUS
<1>2. /\ line \in DOMAIN Config
      /\ eid_prefix(c) \/ site_eid_prefix(c) \/ delegated_eid_prefix(c)
  BY <1>1 DEF _parser_config
<1>4. MsTable(db)  BY DEF MSInv, TableInv
<1>5. PICK old : old = Old(db, c.eid)  OBVIOUS
<1>6. old \in MappingFlags \cup {NULL}  BY <1>4, <1>5 DEF Old, MsTable
<1>7. NULL \notin MappingFlags  BY MapServerAssumption, Zenon
<1>8. CASE eid_prefix(c)
  <2>1. c.kind \in {"GEID", "GREID"} /\ (u = db \/ Updated(db, u, c.eid, Ranged(old, c.kind)))
    BY <1>1, <1>2, <1>5, <1>8, RangeStep
  <2>2. CASE u = db  BY <1>1, <2>2
  <2>3. CASE u # db
    <3>1. PICK f : f = Ranged(old, c.kind)  OBVIOUS
    <3>2. f \in MappingFlags /\ f.range = {c.kind} \cup RangeOf(old)
      BY <1>6, <2>1, <3>1, RangedIs
    <3>3. "MAPP" \in RangeOf(f) => "MAPP" \in RangeOf(old)
      <4>1. RangeOf(f) = {c.kind} \cup RangeOf(old)  BY <1>7, <3>2 DEF RangeOf
      <4>2. "MAPP" \notin {c.kind}  BY <2>1
      <4> QED  BY <4>1, <4>2
    <3>5. Updated(db, u, c.eid, f)  BY <2>1, <2>3, <3>1
    <3> QED  BY <1>1, <1>5, <3>3, <3>5, DelegatedKeeps
  <2> QED  BY <2>2, <2>3
<1>9. CASE site_eid_prefix(c)
  <2>1. /\ c.site \in Sites
        /\ u = db \/ Updated(db, u, c.eid, Merged(old, SiteFlags(c.site)))
    BY <1>1, <1>2, <1>5, <1>9, SiteStep
  <2>2. CASE u = db  BY <1>1, <2>2
  <2>3. CASE u # db
    <3>1. PICK f, m : f = Merged(old, m) /\ m = SiteFlags(c.site)  OBVIOUS
    <3>2. m \in MappingFlags /\ m.range = {"EID"}  BY <2>1, <3>1, SiteFlagsAre
    <3>3. f \in MappingFlags /\ f.range = {"EID"} \cup RangeOf(old)
      <4>1. PICK k : k = m /\ k \in MappingFlags  BY <3>2
      <4>2. /\ Merged(old, k) \in MappingFlags
            /\ Merged(old, k).range = k.range \cup RangeOf(old)
        BY <1>6, <4>1, MergedIs
      <4> QED  BY <3>1, <3>2, <4>1, <4>2
    <3>4. "MAPP" \in RangeOf(f) => "MAPP" \in RangeOf(old)
      <4>1. RangeOf(f) = {"EID"} \cup RangeOf(old)  BY <1>7, <3>3 DEF RangeOf
      <4>2. "MAPP" \notin {"EID"}  OBVIOUS
      <4> QED  BY <4>1, <4>2
    <3>6. Updated(db, u, c.eid, f)  BY <2>1, <2>3, <3>1
    <3> QED  BY <1>1, <1>5, <3>4, <3>6, DelegatedKeeps
  <2> QED  BY <2>2, <2>3
<1>10. CASE delegated_eid_prefix(c)
  <2>1. /\ c.kind = "REID"
        /\ u = db \/ \E f \in MappingFlags : Updated(db, u, c.eid, Merged(old, f))
    BY <1>1, <1>2, <1>5, <1>10, DelegatedStep
  <2>2. CASE u = db  BY <1>1, <2>2
  <2>3. CASE u # db
    <3>1. PICK f : Updated(db, u, c.eid, f)  BY <2>1, <2>3
    <3> QED  BY <1>1, <1>2, <2>1, <3>1, DelegatedKeeps
  <2> QED  BY <2>2, <2>3
<1> QED  BY <1>2, <1>8, <1>9, <1>10

\* Reading the configuration.
LEMMA ParserRaced ==
    ASSUME RacedInv, _parser_config
    PROVE  RacedInv'
<1>1. MSInv /\ MSInv'  BY ParserInv DEF RacedInv
<1>2. line \in 1..Len(Config) /\ UNCHANGED <<hashing, wk, net, raced>>
  BY ConfigIs DEF _parser_config
<1>3. Fresh(wk, hashing, db, raced)  BY <1>2 DEF RacedInv
<1>4. Fresh(wk', hashing', db', raced')
  <2>1. PICK u : u = db'  OBVIOUS
  <2>2. DelegatedOnly(u)  BY <1>1, <1>3, <2>1, ParserDelegated DEF Fresh
  <2> QED  BY <1>2, <1>3, <2>1, <2>2 DEF Fresh
<1>5. \A s \in Sites \ raced' : Alone(wk', hashing', db', s)  BY <1>4, FreshAlone
<1>6. \A m \in net' : SentBy(m)  BY <1>2 DEF RacedInv
<1>7. \A w \in Workers : Sending(wk'[w])  BY <1>2 DEF RacedInv
<1>8. hashing' \in [Sites -> Hash \cup {NULL}]  BY <1>2 DEF RacedInv
<1> QED  BY <1>1, <1>4, <1>5, <1>6, <1>7, <1>8, RacedPrimed

----------------------------------------------------------------------------
(***************************************************************************)
(* The steps of a running program.                                         *)
(***************************************************************************)
\* What such a step has to show.
LEMMA RunningRaced ==
    ASSUME MSInv', Running, line' = line \/ line' = 0,
           \A m \in net' : SentBy(m), \A w \in Workers : Sending(wk'[w]),
           hashing' \in [Sites -> Hash \cup {NULL}],
           line' = line => \A s \in Sites \ raced' : Alone(wk', hashing', db', s)
    PROVE  RacedInv'
<1>1. Len(Config) \in Nat
  <2>1. PICK R : Config \in Seq(R)  BY MapServerAssumption
  <2> QED  BY <2>1
<1>2. line' \notin 1..Len(Config)  BY <1>1 DEF Running
<1>3. line' = Len(Config) + 1 => line' = line  BY <1>1
<1> QED  BY <1>2, <1>3, RacedPrimed

\* A step elsewhere.
LEMMA AloneKeeps ==
    ASSUME NEW ws, NEW hs, NEW t, NEW s, Alone(ws, hs, t, s), NEW ws2, NEW hs2, NEW u,
           hs2[s] = hs[s], Stored(u, s) = Stored(t, s),
           \A x \in Workers : ws2[x] = ws[x] \/ (~At(ws[x], s) /\ ~At(ws2[x], s))
    PROVE  Alone(ws2, hs2, u, s)
<1>1. \A x \in Workers : At(ws2[x], s) => ws2[x] = ws[x]  OBVIOUS
<1>2. \A x \in Workers : At(ws2[x], s) <=> At(ws[x], s)  OBVIOUS
<1>3. ASSUME NEW x \in Workers, At(ws2[x], s)
      PROVE  /\ ws2[x].site = s
             /\ hs2[s] = _ms_recal_hashing(ws2[x].msg)
             /\ Entering(ws2[x], u, s)
  <2>1. ws2[x] = ws[x] /\ At(ws[x], s)  BY <1>1, <1>3
  <2>2. Entering(ws[x], t, s) /\ ws[x].site = s /\ hs[s] = _ms_recal_hashing(ws[x].msg)
    BY <2>1 DEF Alone
  <2> QED  BY <2>1, <2>2 DEF Entering
<1>4. \A w, x \in Workers : At(ws2[w], s) /\ At(ws2[x], s) => w = x  BY <1>2 DEF Alone
<1>5. (\A w \in Workers : ~At(ws2[w], s)) => Stored(u, s) = Wanted(hs2[s])
  BY <1>2 DEF Alone
<1> QED  BY <1>3, <1>4, <1>5 DEF Alone

\* The worker w alone is at the site, with the register whose hash is stored.
LEMMA AloneThere ==
    ASSUME NEW ws, NEW hs, NEW t, NEW s, NEW w \in Workers, At(ws[w], s),
           ws[w].site = s, hs[s] = _ms_recal_hashing(ws[w].msg), Entering(ws[w], t, s),
           \A x \in Workers \ {w} : ~At(ws[x], s)
    PROVE  Alone(ws, hs, t, s)
<1>1. \A x \in Workers : At(ws[x], s) => x = w  OBVIOUS
<1> QED  BY <1>1 DEF Alone

\* Busy and Other in these terms.
LEMMA OtherIs ==
    ASSUME NEW w \in Workers, NEW s
    PROVE  Other(w, s) <=> \E x \in Workers \ {w} : At(wk[x], s)
BY DEF Other, Busy, At

\* A site of which a worker registers a prefix meets itself.
LEMMA MeetsItself ==
    ASSUME NEW s \in Sites, NEW x \in Prefix, Within(x, s)
    PROVE  s \in Meeting[s]
BY WithinMeets

\* A register is validated: its hash is the site's when it is to be applied.
LEMMA RegisterRaced ==
    ASSUME RacedInv, Running, NEW w \in Workers, _register(w)
    PROVE  RacedInv'
<1>1. /\ MSInv /\ MSInv' /\ wk \in [Workers -> WorkerState]
      /\ wk[w].pc = "got" /\ SentBy(wk[w].msg)
  BY RegisterInv DEF _register, RacedInv, MSInv, WkInv, Sending
<1>2. PICK m : m = wk[w].msg  OBVIOUS
<1>3. m \in Register /\ SentBy(m)  BY <1>1, <1>2 DEF SentBy
<1>4. PICK v : v = IF "MS" \in Fncs THEN _ms_validate_register(db, hashing, m)
                   ELSE [site |-> NULL, rt |-> -1]
  OBVIOUS
<1>5. PICK k, h : /\ k = IF v.rt = 1 THEN Apply(w, v.site) ELSE Idle
                  /\ h = IF v.rt = 1 THEN [hashing EXCEPT ![v.site] = _ms_recal_hashing(m)]
                         ELSE hashing
  OBVIOUS
<1>6. /\ wk' = [wk EXCEPT ![w] = k] /\ hashing' = h
      /\ UNCHANGED <<line, db, eid, net>>
      /\ raced' = IF v.rt = 1 THEN raced \cup {s \in Meeting[v.site] : s # v.site \/ Other(w, s)}
                  ELSE raced
  BY <1>2, <1>4, <1>5 DEF _register
<1>7. wk'[w] = k /\ \A x \in Workers \ {w} : wk'[x] = wk[x]  BY <1>1, <1>6
<1>8. hashing \in [Sites -> Hash \cup {NULL}]  BY DEF RacedInv
<1>9. \A s \in Sites \ raced : Alone(wk, hashing, db, s)  BY DEF RacedInv
<1>10. \A q \in net' : SentBy(q)  BY <1>6 DEF RacedInv
<1>11. \A x \in Workers \ {w} : Sending(wk'[x])  BY <1>7 DEF RacedInv
<1>12. \A s : ~At(wk[w], s)  BY <1>1 DEF At
<1>13. CASE v.rt = 1
  <2>1. v = _ms_validate_register(db, hashing, wk[w].msg)
    <3>1. CASE "MS" \in Fncs  BY <1>2, <1>4, <3>1
    <3>2. CASE "MS" \notin Fncs
      <4>1. v.rt = -1  BY <1>4, <3>2
      <4> QED  BY <1>13, <4>1
    <3> QED  BY <3>1, <3>2
  <2>2. /\ v.site \in Sites /\ m.recs # <<>>
        /\ \A i \in DOMAIN m.recs : Within(m.recs[i].eid, v.site)
    BY <1>1, <1>2, <1>13, <2>1, WorkerValid
  <2>3. PICK r : r = v.site  OBVIOUS
  <2>4. r \in Meeting[r]
    <3>1. PICK l \in Seq(Record) : l = m.recs  BY <1>3 DEF Register
    <3>2. 1 \in DOMAIN l /\ l[1] \in Record  BY <2>2, <3>1
    <3>3. l[1].eid \in Prefix  BY <3>2 DEF Record
    <3> QED  BY <2>2, <2>3, <3>1, <3>2, <3>3, MeetsItself
  <2>5. k.pc = "clean" /\ k.site = r /\ k.msg = m /\ k.todo = m.recs
    <3>1. PICK k0 \in WorkerState : k0 = wk[w]  BY <1>1
    <3>2. k = Applying(k0, r)  BY <1>5, <1>13, <2>3, <3>1 DEF Apply, Applying
    <3>3. k0.msg = m /\ k0.msg \in Register  BY <1>2, <1>3, <3>1
    <3> QED  BY <2>2, <2>3, <3>2, <3>3, ApplyIs
  <2>6. Sending(k)  BY <1>3, <2>4, <2>5 DEF Sending
  <2>7. PICK x : x = _ms_recal_hashing(m)  OBVIOUS
  <2>8. x \in Hash  BY <1>3, <2>7, WantedIs
  <2>9. h = [hashing EXCEPT ![r] = x]  BY <1>5, <1>13, <2>3, <2>7
  <2>10. /\ h \in [Sites -> Hash \cup {NULL}] /\ h[r] = x
         /\ \A s \in Sites : s # r => h[s] = hashing[s]
    BY <1>8, <2>2, <2>3, <2>8, <2>9
  <2>11. ASSUME NEW s \in Sites \ raced'  PROVE Alone(wk', h, db, s)
    <3>1. s \notin raced /\ (s \notin Meeting[r] \/ (s = r /\ ~Other(w, s)))
      BY <1>6, <1>13, <2>3, <2>11
    <3>2. CASE s \notin Meeting[r]
      <4>1. r \notin Meeting[s] /\ s # r  BY <2>2, <2>3, <2>4, <3>2, MeetingBoth
      <4>2. ~At(k, s)  BY <2>5, <4>1 DEF At
      <4>3. h[s] = hashing[s]  BY <2>10, <4>1
      <4>4. \A y \in Workers : wk'[y] = wk[y] \/ (~At(wk[y], s) /\ ~At(wk'[y], s))
        BY <1>7, <1>12, <4>2
      <4> QED  BY <1>9, <3>1, <4>3, <4>4, AloneKeeps
    <3>3. CASE s = r /\ ~Other(w, s)
      <4>1. At(k, s) /\ k.site = s  BY <2>4, <2>5, <3>3 DEF At
      <4>2. h[s] = _ms_recal_hashing(k.msg)  BY <2>5, <2>7, <2>10, <3>3
      <4>3. Entering(k, db, s)  BY <2>5 DEF Entering
      <4>4. \A y \in Workers \ {w} : ~At(wk'[y], s)  BY <1>7, <3>3, OtherIs
      <4> QED  BY <1>7, <4>1, <4>2, <4>3, <4>4, AloneThere
    <3> QED  BY <3>1, <3>2, <3>3
  <2>12. \A y \in Workers : Sending(wk'[y])  BY <1>7, <1>11, <2>6
  <2>13. \A s \in Sites \ raced' : Alone(wk', hashing', db', s)  BY <1>6, <2>11
  <2>14. hashing' \in [Sites -> Hash \cup {NULL}]  BY <1>6, <2>10
  <2> QED  BY <1>1, <1>6, <1>10, <2>12, <2>13, <2>14, RunningRaced
<1>14. CASE v.rt # 1
  <2>1. k.pc = "idle" /\ h = hashing /\ raced' = raced  BY <1>5, <1>6, <1>14, IdleIs
  <2>2. Sending(k) /\ \A s : ~At(k, s)  BY <2>1 DEF Sending, At
  <2>3. ASSUME NEW s \in Sites \ raced'  PROVE Alone(wk', h, db, s)
    <3>1. \A y \in Workers : wk'[y] = wk[y] \/ (~At(wk[y], s) /\ ~At(wk'[y], s))
      BY <1>7, <1>12, <2>2
    <3> QED  BY <1>9, <2>1, <2>3, <3>1, AloneKeeps
  <2>4. \A y \in Workers : Sending(wk'[y])  BY <1>7, <1>11, <2>2
  <2>5. \A s \in Sites \ raced' : Alone(wk', hashing', db', s)  BY <1>6, <2>3
  <2> QED  BY <1>1, <1>6, <1>8, <1>10, <2>1, <2>4, <2>5, RunningRaced
<1> QED  BY <1>13, <1>14

\* A running program has read the EIDs of every site.
LEMMA AllListed ==
    ASSUME MSInv, Running, NEW s \in Sites
    PROVE  EidsOf[s] \subseteq SetOf(eid[s])
<1>1. ListsAre(line, eid)  BY DEF MSInv, TableInv
<1>2. ASSUME NEW p \in EidsOf[s]  PROVE p \in SetOf(eid[s])
  <2>1. PICK j \in EidElements : Config[j].site = s /\ Config[j].eid = p  BY EidsOfAre
  <2>2. j \in 1..Len(Config) /\ Len(Config) \in Nat  BY ConfigIs DEF EidElements
  <2>3. j < line  BY <2>2 DEF Running
  <2> QED  BY <1>1, <2>1, <2>3 DEF ListsAre, SetOf
<1> QED  BY <1>2

\* The site is cleaned: nothing is stored of it, none of its records is done.
LEMMA CleanRaced ==
    ASSUME RacedInv, Running, NEW w \in Workers, CleanSite(w)
    PROVE  RacedInv'
<1>1. /\ MSInv /\ MSInv' /\ wk \in [Workers -> WorkerState]
      /\ wk[w].pc = "clean" /\ Sending(wk[w])
  BY CleanInv DEF CleanSite, RacedInv, MSInv, WkInv
<1>2. UNCHANGED <<eid, hashing, net>>  BY DEF CleanSite
<1>3. (\A q \in net' : SentBy(q)) /\ hashing' \in [Sites -> Hash \cup {NULL}]
  BY <1>2 DEF RacedInv
<1>4. PICK r : r = wk[w].site  OBVIOUS
<1>5. CASE ~AllThere(db, eid[r])
  <2>1. line' = 0 /\ wk' = wk  BY <1>4, <1>5 DEF CleanSite
  <2>2. line' # line
    <3>1. PICK R : Config \in Seq(R)  BY MapServerAssumption
    <3>2. Len(Config) \in Nat  BY <3>1
    <3> QED  BY <2>1, <3>2 DEF Running
  <2>3. \A y \in Workers : Sending(wk'[y])  BY <2>1 DEF RacedInv
  <2> QED  BY <1>1, <1>3, <2>1, <2>2, <2>3, RunningRaced
<1>6. CASE AllThere(db, eid[r])
  <2>1. PICK k0 \in WorkerState : k0 = wk[w]  BY <1>1
  <2>2. PICK k : k = [k0 EXCEPT !.pc = "add"]  OBVIOUS
  <2>3. /\ k.pc = "add" /\ k.msg = k0.msg /\ k.site = k0.site /\ k.todo = k0.todo
    BY <2>1, <2>2 DEF WorkerState
  <2>4. /\ wk' = [wk EXCEPT ![w] = k] /\ line' = line
        /\ raced' = IF ~Other(w, r) /\ hashing[r] = _ms_recal_hashing(wk[w].msg)
                    THEN raced \ {r} ELSE raced
    BY <1>4, <1>6, <2>1, <2>2 DEF CleanSite
  <2>5. wk'[w] = k /\ \A x \in Workers \ {w} : wk'[x] = wk[x]  BY <1>1, <2>4
  <2>6. PICK u, E : u = db' /\ E = SetOf(eid[r])  OBVIOUS
  <2>7. r \in Sites /\ AreCleaned(db, u, E)  BY <1>1, <1>4, <1>6, <2>6, CleanedSite
  <2>8. Stored(u, r) = {}
    <3>1. Nodes(db) \subseteq Prefix  BY <1>1 DEF MSInv, TableInv, MsTable, Shaped, Linked
    <3>2. EidsOf[r] \subseteq E  BY <1>1, <2>6, <2>7, AllListed
    <3> QED  BY <2>7, <3>1, <3>2, CleanedStored
  <2>9. Sending(k) /\ k.todo = k.msg.recs /\ k.site \in Meeting[k.site] /\ k.site = r
    BY <1>1, <1>4, <2>1, <2>3 DEF Sending
  <2>10. Entering(k, u, r)
    <3>1. PICK S : S = {}  OBVIOUS
    <3>2. SetOf(k.msg.recs) = S \cup SetOf(k.todo)  BY <2>9, <3>1
    <3>3. EnteredAll(S, k.msg.proxy) = {}  BY <3>1 DEF EnteredAll
    <3> QED  BY <2>8, <3>2, <3>3 DEF Entering
  <2>11. ASSUME NEW s \in Sites \ raced'  PROVE Alone(wk', hashing, u, s)
    <3>1. CASE r \notin Meeting[s]
      <4>1. s \notin raced
        <5>1. s # r  BY <2>9, <3>1
        <5> QED  BY <2>4, <2>11, <5>1
      <4>2. Alone(wk, hashing, db, s)  BY <2>11, <4>1 DEF RacedInv
      <4>3. Stored(u, s) = Stored(db, s)
        BY <1>1, <1>4, <1>6, <2>6, <2>11, <3>1, CleanIsolated
      <4>4. \A y \in Workers : wk'[y] = wk[y] \/ (~At(wk[y], s) /\ ~At(wk'[y], s))
        BY <1>4, <2>5, <2>9, <3>1 DEF At
      <4> QED  BY <4>2, <4>3, <4>4, AloneKeeps
    <3>2. CASE r \in Meeting[s]
      <4>1. At(wk[w], s) /\ At(k, s)  BY <1>1, <1>4, <2>3, <2>9, <3>2 DEF At
      <4>2. /\ s = r /\ hashing[s] = _ms_recal_hashing(wk[w].msg)
            /\ \A x \in Workers \ {w} : ~At(wk[x], s)
        <5>1. CASE s \notin raced
          <6>1. Alone(wk, hashing, db, s)  BY <2>11, <5>1 DEF RacedInv
          <6> QED  BY <1>4, <4>1, <6>1 DEF Alone
        <5>2. CASE s \in raced
          <6>1. s = r /\ ~Other(w, r) /\ hashing[r] = _ms_recal_hashing(wk[w].msg)
            BY <2>4, <2>11, <5>2
          <6> QED  BY <6>1, OtherIs
        <5> QED  BY <5>1, <5>2
      <4>3. hashing[s] = _ms_recal_hashing(k.msg)  BY <2>1, <2>3, <4>2
      <4>4. \A x \in Workers \ {w} : ~At(wk'[x], s)  BY <2>5, <4>2
      <4> QED  BY <2>5, <2>9, <2>10, <4>1, <4>2, <4>3, <4>4, AloneThere
    <3> QED  BY <3>1, <3>2
  <2>12. \A y \in Workers : Sending(wk'[y])  BY <2>5, <2>9 DEF RacedInv
  <2>13. \A s \in Sites \ raced' : Alone(wk', hashing', db', s)  BY <1>2, <2>6, <2>11
  <2> QED  BY <1>1, <1>3, <2>4, <2>12, <2>13, RunningRaced
<1> QED  BY <1>5, <1>6

\* A record is added: it is done.
LEMMA AddRaced ==
    ASSUME PlainMappings, RacedInv, Running, NEW w \in Workers, AddRecord(w)
    PROVE  RacedInv'
<1>1. /\ MSInv /\ MSInv' /\ wk \in [Workers -> WorkerState]
      /\ wk[w].pc = "add" /\ Sending(wk[w]) /\ SentBy(wk[w].msg)
  BY AddInv DEF AddRecord, RacedInv, MSInv, WkInv, Sending
<1>2. PICK k0 \in WorkerState : k0 = wk[w]  BY <1>1
<1>3. PICK l, rest : l \in Seq(Record) /\ l = k0.todo /\ l # <<>> /\ rest = Tail(l)
  BY <1>2 DEF WorkerState, AddRecord
<1>4. PICK k : k = [k0 EXCEPT !.todo = rest]  OBVIOUS
<1>5. /\ k.pc = "add" /\ k.msg = k0.msg /\ k.site = k0.site /\ k.todo = rest
  BY <1>1, <1>2, <1>4 DEF WorkerState
<1>6. UNCHANGED <<line, eid, hashing, net, raced>> /\ wk' = [wk EXCEPT ![w] = k]
  BY <1>2, <1>3, <1>4 DEF AddRecord
<1>7. wk'[w] = k /\ \A x \in Workers \ {w} : wk'[x] = wk[x]  BY <1>1, <1>6
<1>8. (\A q \in net' : SentBy(q)) /\ hashing' \in [Sites -> Hash \cup {NULL}]
  BY <1>6 DEF RacedInv
<1>9. Sending(k)  BY <1>1, <1>2, <1>5 DEF Sending
<1>10. \A y \in Workers : Sending(wk'[y])  BY <1>7, <1>9 DEF RacedInv
<1>11. PICK u, own, r, proxy, f : /\ u = db' /\ own = k0.site /\ r = Head(l)
                                  /\ proxy = k0.msg.proxy /\ f = Registering(proxy)
  OBVIOUS
<1>12. /\ r \in Record /\ Within(r.eid, own) /\ own \in Sites
       /\ f \in MappingFlags /\ f.range = {"MAPP"} /\ f.referral = NULL /\ f.proxy = proxy
       /\ Updated(db, u, r.eid, Merged(Old(db, r.eid), f))
       /\ Info(u, r.eid) = Fold("register", NULL, <<>>, r.locs)
  <2>1. r = Head(wk[w].todo) /\ f = Registering(wk[w].msg.proxy)  BY <1>2, <1>3, <1>11
  <2> QED  BY <1>1, <1>2, <1>11, <2>1, AddedRecord
<1>13. ASSUME NEW s \in Sites \ raced'  PROVE Alone(wk', hashing', u, s)
  <2>1. Alone(wk, hashing, db, s)  BY <1>6, <1>13 DEF RacedInv
  <2>2. CASE own \notin Meeting[s]
    <3>1. Stored(u, s) = Stored(db, s)  BY <1>1, <1>2, <1>11, <1>13, <2>2, AddIsolated
    <3>2. \A y \in Workers : wk'[y] = wk[y] \/ (~At(wk[y], s) /\ ~At(wk'[y], s))
      BY <1>2, <1>5, <1>7, <1>11, <2>2 DEF At
    <3> QED  BY <1>6, <2>1, <3>1, <3>2, AloneKeeps
  <2>3. CASE own \in Meeting[s]
    <3>1. At(k0, s) /\ At(k, s)  BY <1>1, <1>2, <1>5, <1>11, <2>3 DEF At
    <3>2. /\ k0.site = s /\ hashing[s] = _ms_recal_hashing(k0.msg) /\ Entering(k0, db, s)
          /\ \A x \in Workers \ {w} : ~At(wk[x], s)
      BY <1>2, <2>1, <3>1 DEF Alone
    <3>3. PICK S : /\ SetOf(k0.msg.recs) = S \cup SetOf(l)
                   /\ Stored(db, s) = EnteredAll(S, proxy)
      BY <1>1, <1>2, <1>3, <1>11, <3>2 DEF Entering
    <3>4. SetOf(l) = {r} \cup SetOf(rest)  BY <1>3, <1>11, HeadTail
    <3>5. Plain(SetOf(k0.msg.recs))  BY <1>1, <1>2, SentPlain
    <3>6. Single(SetOf(r.locs)) /\ \A q \in S : q.eid = r.eid => q = r
      BY <3>3, <3>4, <3>5 DEF Plain
    <3>7. MsTable(db)  BY <1>1 DEF MSInv, TableInv
    <3>8. Stored(u, s) = EnteredAll(S \cup {r}, proxy)
      <4>1. /\ Mapped(u, r.eid) /\ Entry(u, r.eid) = Entered(r, f.proxy)
            /\ \A x : x # r.eid => Same(db, u, x)
        BY <1>12, <3>6, <3>7, RecordEntered
      <4>2. Entry(u, r.eid) = Entered(r, proxy)  BY <1>12, <4>1
      <4>3. Within(r.eid, s)  BY <1>11, <1>12, <3>2
      <4> QED  BY <3>3, <3>6, <4>1, <4>2, <4>3, AddedStored
    <3>9. Entering(k, u, s)
      <4>1. PICK Z : Z = S \cup {r}  OBVIOUS
      <4>2. SetOf(k.msg.recs) = Z \cup SetOf(k.todo)  BY <1>5, <3>3, <3>4, <4>1
      <4>3. Stored(u, s) = EnteredAll(Z, k.msg.proxy)  BY <1>5, <1>11, <3>8, <4>1
      <4> QED  BY <4>2, <4>3 DEF Entering
    <3>10. k.site = s /\ hashing'[s] = _ms_recal_hashing(k.msg)  BY <1>5, <1>6, <3>2
    <3>11. \A x \in Workers \ {w} : ~At(wk'[x], s)  BY <1>7, <3>2
    <3> QED  BY <1>7, <3>1, <3>9, <3>10, <3>11, AloneThere
  <2> QED  BY <2>2, <2>3
<1>14. \A s \in Sites \ raced' : Alone(wk', hashing', db', s)  BY <1>11, <1>13
<1> QED  BY <1>1, <1>6, <1>8, <1>10, <1>14, RunningRaced

\* A register whose records are all done is stored, if its update was alone.
LEMMA DoneStored ==
    ASSUME RacedInv, Running, NEW w \in Workers, wk[w].pc = "add", wk[w].todo = <<>>,
           NEW s \in Sites \ raced, wk[w].site \in Meeting[s]
    PROVE  /\ wk[w].site = s /\ \A x \in Workers \ {w} : ~At(wk[x], s)
           /\ Stored(db, s) = EnteredAll(SetOf(wk[w].msg.recs), wk[w].msg.proxy)
           /\ Stored(db, s) = Wanted(hashing[s])
<1>1. PICK k : k = wk[w]  OBVIOUS
<1>2. At(k, s) /\ SentBy(k.msg)  BY <1>1 DEF At, RacedInv, Sending
<1>3. Alone(wk, hashing, db, s)  BY DEF RacedInv
<1>4. /\ k.site = s /\ hashing[s] = _ms_recal_hashing(k.msg) /\ Entering(k, db, s)
      /\ \A x \in Workers \ {w} : ~At(wk[x], s)
  BY <1>1, <1>2, <1>3 DEF Alone
<1>5. PICK S : /\ SetOf(k.msg.recs) = S \cup SetOf(k.todo)
               /\ Stored(db, s) = EnteredAll(S, k.msg.proxy)
  BY <1>1, <1>4 DEF Entering
<1>6. SetOf(k.todo) = {}  BY <1>1 DEF SetOf
<1>7. S = SetOf(k.msg.recs)  BY <1>5, <1>6
<1>8. k.msg \in Register  BY <1>2 DEF SentBy
<1>9. Stored(db, s) = Wanted(hashing[s])  BY <1>4, <1>5, <1>7, <1>8, WantedIs
<1> QED  BY <1>1, <1>4, <1>5, <1>7, <1>9

\* The worker is free again.
LEMMA RegisteredRaced ==
    ASSUME RacedInv, Running, NEW w \in Workers, Registered(w)
    PROVE  RacedInv'
<1>1. /\ MSInv' /\ wk \in [Workers -> WorkerState] /\ wk[w].pc = "add" /\ wk[w].todo = <<>>
  BY RegisteredInv DEF Registered, RacedInv, MSInv, WkInv
<1>2. PICK k : k = Idle  OBVIOUS
<1>3. k.pc = "idle" /\ Sending(k) /\ \A s : ~At(k, s)  BY <1>2, IdleIs DEF Sending, At
<1>4. UNCHANGED <<line, db, eid, hashing, net, raced>> /\ wk' = [wk EXCEPT ![w] = k]
  BY <1>2 DEF Registered
<1>5. wk'[w] = k /\ \A x \in Workers \ {w} : wk'[x] = wk[x]  BY <1>1, <1>4
<1>6. (\A q \in net' : SentBy(q)) /\ hashing' \in [Sites -> Hash \cup {NULL}]
  BY <1>4 DEF RacedInv
<1>7. \A y \in Workers : Sending(wk'[y])  BY <1>3, <1>5 DEF RacedInv
<1>8. ASSUME NEW s \in Sites \ raced'  PROVE Alone(wk', hashing', db', s)
  <2>1. s \in Sites \ raced /\ Alone(wk, hashing, db, s)  BY <1>4, <1>8 DEF RacedInv
  <2>2. CASE wk[w].site \in Meeting[s]
    <3>1. /\ \A x \in Workers \ {w} : ~At(wk[x], s)
          /\ Stored(db, s) = Wanted(hashing[s])
      BY <1>1, <2>1, <2>2, DoneStored
    <3>2. \A x \in Workers : ~At(wk'[x], s)  BY <1>3, <1>5, <3>1
    <3>3. Stored(db', s) = Wanted(hashing'[s])  BY <1>4, <3>1
    <3> QED  BY <3>2, <3>3 DEF Alone
  <2>3. CASE wk[w].site \notin Meeting[s]
    <3>1. \A y \in Workers : wk'[y] = wk[y] \/ (~At(wk[y], s) /\ ~At(wk'[y], s))
      BY <1>3, <1>5, <2>3 DEF At
    <3> QED  BY <1>4, <2>1, <3>1, AloneKeeps
  <2> QED  BY <2>2, <2>3
<1> QED  BY <1>1, <1>4, <1>6, <1>7, <1>8, RunningRaced

\* A worker takes a register.
LEMMA TakeRaced ==
    ASSUME RacedInv, Running, NEW w \in Workers, NEW m \in net, Take(w, m)
    PROVE  RacedInv'
<1>1. MSInv' /\ wk \in [Workers -> WorkerState] /\ SentBy(m) /\ wk[w].pc = "idle"
  BY TakeInv DEF Take, RacedInv, MSInv, WkInv
<1>2. PICK k : k = [Idle EXCEPT !.pc = "got", !.msg = m]  OBVIOUS
<1>3. k.pc = "got" /\ k.msg = m
  <2>1. PICK none : none = <<>>  OBVIOUS
  <2>2. Idle = [pc |-> "idle", msg |-> NULL, site |-> NULL, todo |-> none]
    BY <2>1 DEF Idle
  <2> QED  BY <1>2, <2>2
<1>4. /\ UNCHANGED <<line, db, eid, hashing, raced>> /\ wk' = [wk EXCEPT ![w] = k]
      /\ net' \subseteq net
  BY <1>2 DEF Take
<1>5. wk'[w] = k /\ \A x \in Workers \ {w} : wk'[x] = wk[x]  BY <1>1, <1>4
<1>6. (\A q \in net' : SentBy(q)) /\ hashing' \in [Sites -> Hash \cup {NULL}]
  BY <1>4 DEF RacedInv
<1>7. Sending(k) /\ \A s : ~At(k, s) /\ ~At(wk[w], s)  BY <1>1, <1>3 DEF Sending, At
<1>8. \A y \in Workers : Sending(wk'[y])  BY <1>5, <1>7 DEF RacedInv
<1>9. ASSUME NEW s \in Sites \ raced'  PROVE Alone(wk', hashing', db', s)
  <2>1. Alone(wk, hashing, db, s)  BY <1>4, <1>9 DEF RacedInv
  <2>2. \A y \in Workers : wk'[y] = wk[y] \/ (~At(wk[y], s) /\ ~At(wk'[y], s))
    BY <1>5, <1>7
  <2> QED  BY <1>4, <2>1, <2>2, AloneKeeps
<1> QED  BY <1>1, <1>4, <1>6, <1>8, <1>9, RunningRaced

\* A referral is kept: the sites it lies in are not alone any more.
LEMMA ReferralRaced ==
    ASSUME RacedInv, Running, NEW r \in Referrals, _process_referral_record(r)
    PROVE  RacedInv'
<1>1. MSInv /\ MSInv'  BY ReferralInv DEF RacedInv
<1>2. /\ UNCHANGED <<line, hashing, wk, net>>
      /\ raced' = raced \cup {s \in Sites : Within(r.eid, s)}
  BY DEF _process_referral_record
<1>3. (\A q \in net' : SentBy(q)) /\ hashing' \in [Sites -> Hash \cup {NULL}]
  BY <1>2 DEF RacedInv
<1>4. \A y \in Workers : Sending(wk'[y])  BY <1>2 DEF RacedInv
<1>5. ASSUME NEW s \in Sites \ raced'  PROVE Alone(wk', hashing', db', s)
  <2>1. ~Within(r.eid, s) /\ Alone(wk, hashing, db, s)  BY <1>2, <1>5 DEF RacedInv
  <2>2. Stored(db', s) = Stored(db, s)  BY <1>1, <1>5, <2>1, ReferralIsolated
  <2> QED  BY <1>2, <2>1, <2>2, AloneKeeps
<1> QED  BY <1>1, <1>2, <1>3, <1>4, <1>5, RunningRaced

\* Steps that leave the table, the hashes and the workers alone.
LEMMA OutsideRaced ==
    ASSUME RacedInv, MSInv', UNCHANGED ms, \A m \in net' : SentBy(m)
    PROVE  RacedInv'
<1>1. UNCHANGED <<line, db, eid, hashing, wk, raced>>  BY DEF ms
<1>2. PICK t, ws, hs, R : t = db /\ ws = wk /\ hs = hashing /\ R = raced  OBVIOUS
<1>3. db' = t /\ wk' = ws /\ hashing' = hs /\ raced' = R  BY <1>1, <1>2
<1>4. /\ line \in 1..Len(Config) => Fresh(ws, hs, t, R)
      /\ \A w \in Workers : Sending(ws[w])
      /\ hs \in [Sites -> Hash \cup {NULL}]
      /\ line = Len(Config) + 1 => \A s \in Sites \ R : Alone(ws, hs, t, s)
  BY <1>2 DEF RacedInv, Running
<1> QED  BY <1>1, <1>3, <1>4, RacedPrimed

\* An xTR sends.
LEMMA SendRaced ==
    ASSUME RacedInv, NEW e \in Etrs, general_register_process(e)
    PROVE  RacedInv'
<1>1. MSInv /\ MSInv' /\ etr[e] \in Mappings[e]  BY SendInv DEF RacedInv, MSInv, EtrInv
<1>2. PICK M \in BOOLEAN, recs \in Seq(Record) :
           /\ recs = SentRecs(etr[e].recs)
           /\ etr[e].proxy \in BOOLEAN /\ etr[e].auth \in BOOLEAN /\ KeyOf[e] \in Sites
           /\ net' \subseteq net \cup {[from |-> e, recs |-> recs, proxy |-> etr[e].proxy,
                                        M |-> M, key |-> KeyOf[e], auth |-> etr[e].auth]}
  BY <1>1, SendStep
<1>3. PICK m : m = [from |-> e, recs |-> recs, proxy |-> etr[e].proxy, M |-> M,
                    key |-> KeyOf[e], auth |-> etr[e].auth]
  OBVIOUS
<1>4. m \in Register /\ m.from = e /\ m.recs = recs
  BY <1>2, <1>3 DEF Register
<1>5. SentBy(m)  BY <1>1, <1>2, <1>4 DEF SentBy
<1>6. \A q \in net' : SentBy(q)  BY <1>2, <1>3, <1>5 DEF RacedInv
<1>7. UNCHANGED ms  BY DEF general_register_process
<1> QED  BY <1>1, <1>6, <1>7, OutsideRaced

\* Every step keeps the invariant.
LEMMA RacedInvNext ==
    ASSUME PlainMappings, RacedInv, [Next]_vars
    PROVE  RacedInv'
<1>1. CASE _parser_config  BY <1>1, ParserRaced
<1>2. ASSUME Running, NEW w \in Workers, Worker(w)  PROVE RacedInv'
  BY <1>2, RegisterRaced, CleanRaced, AddRaced, RegisteredRaced DEF Worker
<1>3. ASSUME Running, NEW w \in Workers, NEW m \in net, Take(w, m)  PROVE RacedInv'
  BY <1>3, TakeRaced
<1>4. ASSUME Running, NEW r \in Referrals, _process_referral_record(r)  PROVE RacedInv'
  BY <1>4, ReferralRaced
<1>5. ASSUME NEW e \in Etrs, general_register_process(e)  PROVE RacedInv'
  BY <1>5, SendRaced
<1>6. CASE UNCHANGED ms /\ net' \subseteq net
  <2>1. \A m \in net' : SentBy(m)  BY <1>6 DEF RacedInv
  <2>2. MSInv'  BY MSInvNext DEF RacedInv
  <2> QED  BY <1>6, <2>1, <2>2, OutsideRaced
<1>8. ASSUME NEW e \in Etrs, NEW a \in Mappings[e], Restart(e, a)
      PROVE  UNCHANGED ms /\ net' \subseteq net
  BY <1>8 DEF Restart
<1>10. ASSUME NEW m \in net, Lose(m)  PROVE UNCHANGED ms /\ net' \subseteq net
  BY <1>10 DEF Lose
<1>11. Delivered => UNCHANGED ms /\ net' \subseteq net  BY DEF Delivered
<1>12. UNCHANGED vars => UNCHANGED ms /\ net' \subseteq net  BY DEF vars
<1> QED
  BY <1>1, <1>2, <1>3, <1>4, <1>5, <1>6, <1>8, <1>10, <1>11, <1>12 DEF Next, Serve

\* The stored hash of a site is that of the mappings stored (udp.c 2926-2942),
\* whenever nobody is updating it and its last update was alone: for every
\* configuration, any number of workers, whatever registers are lost or overtake
\* each other, and xTRs that configure a mapping once.
THEOREM MapServerUnracedExactly ==
    ASSUME PlainMappings
    PROVE  Spec => []UnracedExactly
<1>1. Init => RacedInv  BY RacedInvInit
<1>2. RacedInv /\ [Next]_vars => RacedInv'  BY RacedInvNext
<1>3. RacedInv => UnracedExactly
  <2>1. SUFFICES ASSUME RacedInv, Running, NEW s \in Sites \ raced,
                        \A w \in Workers : ~Busy(w, s)
                 PROVE  Stored(db, s) = Wanted(hashing[s])
    BY DEF UnracedExactly
  <2>2. Alone(wk, hashing, db, s)  BY <2>1 DEF RacedInv
  <2>3. \A w \in Workers : ~At(wk[w], s)  BY <2>1 DEF At, Busy
  <2> QED  BY <2>2, <2>3 DEF Alone
<1> QED  BY <1>1, <1>2, <1>3, PTL DEF Spec
----------------------------------------------------------------------------
\* A Map-Notify comes from a worker's step.
LEMMA NotifyOnly ==
    ASSUME MSInv, [Next]_vars, sent' # NULL, NEW w \in Workers, wk'[w] # wk[w]
    PROVE  Running /\ (_register(w) \/ Registered(w))
<1>1. ~_parser_config  BY DEF _parser_config
<1>2. ASSUME NEW x \in Workers, Worker(x)
      PROVE  w = x /\ (_register(x) \/ Registered(x))
  <2>1. _register(x) \/ Registered(x)  BY <1>2 DEF Worker, CleanSite, AddRecord
  <2>2. wk' = [wk EXCEPT ![x] = wk'[x]]
    <3>1. wk \in [Workers -> WorkerState]  BY DEF MSInv, WkInv
    <3>2. PICK a : wk' = [wk EXCEPT ![x] = a]
      <4>1. CASE Registered(x)  BY <4>1 DEF Registered
      <4>2. CASE _register(x)
        <5>1. PICK v : v = IF "MS" \in Fncs THEN _ms_validate_register(db, hashing, wk[x].msg)
                           ELSE [site |-> NULL, rt |-> -1]
          OBVIOUS
        <5>2. wk' = [wk EXCEPT ![x] = IF v.rt = 1 THEN Apply(x, v.site) ELSE Idle]
          BY <4>2, <5>1 DEF _register
        <5> QED  BY <5>2
      <4> QED  BY <2>1, <4>1, <4>2
    <3> QED  BY <3>1, <3>2
  <2>3. wk \in [Workers -> WorkerState] /\ (w # x => wk'[w] = wk[w])
    <3>1. wk \in [Workers -> WorkerState]  BY DEF MSInv, WkInv
    <3> QED  BY <2>2, <3>1
  <2> QED  BY <2>1, <2>3
<1>3. \A x, m : ~Take(x, m)  BY DEF Take
<1>5. \A r : ~_process_referral_record(r)  BY DEF _process_referral_record
<1>6. \A e : ~general_register_process(e)  BY DEF general_register_process
<1>7. \A e, a : ~Restart(e, a)  BY DEF Restart
<1>9. \A m : ~Lose(m)  BY DEF Lose
<1>10. ~Delivered  BY DEF Delivered
<1>11. ~UNCHANGED vars  BY DEF vars, ms
<1> QED
  BY <1>1, <1>2, <1>3, <1>5, <1>6, <1>7, <1>9, <1>10, <1>11 DEF Next, Serve

\* The EIDs of a register the table holds.
LEMMA EntriesThere ==
    ASSUME NEW t, NEW s, NEW S, NEW proxy, Stored(t, s) = EnteredAll(S, proxy), NEW r \in S
    PROVE  \E x \in Stored(t, s) : x.eid = r.eid
<1>1. Entered(r, proxy) \in Stored(t, s)  BY DEF EnteredAll
<1>2. Entered(r, proxy).eid = r.eid  BY DEF Entered
<1> QED  BY <1>1, <1>2

\* What a Map-Notify says of a site whose last update was alone.
LEMMA NotifySite ==
    ASSUME RacedInv, Running, NEW w \in Workers, _register(w) \/ Registered(w),
           sent' # NULL, sent'.auth
    PROVE  \E s \in Sites :
              /\ \A i \in DOMAIN wk[w].msg.recs : Within(wk[w].msg.recs[i].eid, s)
              /\ sent'.recs = wk[w].msg.recs
              /\ Other(w, s) \/ s \in raced
                 \/ \E proxy : Stored(db, s) = EnteredAll(SetOf(wk[w].msg.recs), proxy)
<1>1. PICK m : m = wk[w].msg  OBVIOUS
<1>2. wk[w].pc # "idle" /\ SentBy(m) /\ m \in Register /\ MSInv
  BY <1>1 DEF _register, Registered, RacedInv, Sending, SentBy
<1>3. CASE Registered(w)
  <2>1. wk[w].pc = "add" /\ wk[w].todo = <<>>  BY <1>3 DEF Registered
  <2>2. PICK s : s = wk[w].site  OBVIOUS
  <2>3. /\ s \in Sites /\ \A i \in DOMAIN m.recs : Within(m.recs[i].eid, s)
    BY <1>1, <1>2, <2>1, <2>2 DEF MSInv, WkInv, Working
  <2>4. s \in Meeting[s]  BY <2>1, <2>2 DEF RacedInv, Sending
  <2>5. sent'.recs = m.recs  BY <1>1, <1>3 DEF Registered, _register_notify
  <2>6. s \notin raced => Stored(db, s) = EnteredAll(SetOf(m.recs), m.proxy)
    BY <1>1, <2>1, <2>2, <2>3, <2>4, DoneStored
  <2> QED  BY <1>1, <2>3, <2>5, <2>6
<1>4. CASE _register(w)
  <2>1. PICK v : v = IF "MS" \in Fncs THEN _ms_validate_register(db, hashing, m)
                     ELSE [site |-> NULL, rt |-> -1]
    OBVIOUS
  <2>2. wk[w].pc = "got" /\ IF v.rt = 0 THEN _register_notify(m) ELSE sent' = NULL
    BY <1>1, <1>4, <2>1 DEF _register
  <2>3. v.rt = 0 /\ sent'.recs = m.recs /\ sent'.auth = m.auth
    <3>1. v.rt = 0 /\ _register_notify(m)  BY <2>2
    <3>2. sent' = [kind |-> "notify", to |-> m.from, recs |-> m.recs, auth |-> m.auth]
      BY <3>1 DEF _register_notify
    <3> QED  BY <3>1, <3>2
  <2>4. v = _ms_validate_register(db, hashing, wk[w].msg)
    <3>1. CASE "MS" \in Fncs  BY <1>1, <2>1, <3>1
    <3>2. CASE "MS" \notin Fncs
      <4>1. v.rt = -1  BY <2>1, <3>2
      <4> QED  BY <2>3, <4>1
    <3> QED  BY <3>1, <3>2
  <2>5. /\ v.site \in Sites /\ \A i \in DOMAIN m.recs : Within(m.recs[i].eid, v.site)
        /\ SameHash(hashing[v.site], m)
    BY <1>1, <1>2, <2>3, <2>4, WorkerValid
  <2>6. PICK s : s = v.site  OBVIOUS
  <2>7. hashing[s] = _ms_recal_hashing(m)  BY <2>3, <2>5, <2>6 DEF SameHash
  <2>8. s \notin raced /\ ~Other(w, s) => Stored(db, s) = EnteredAll(SetOf(m.recs), m.proxy)
    <3>1. SUFFICES ASSUME s \notin raced, ~Other(w, s)
                   PROVE  Stored(db, s) = EnteredAll(SetOf(m.recs), m.proxy)
      OBVIOUS
    <3>2. \A x \in Workers : ~At(wk[x], s)
      <4>1. \A x \in Workers \ {w} : ~At(wk[x], s)  BY <3>1, OtherIs
      <4>2. ~At(wk[w], s)  BY <2>2 DEF At
      <4> QED  BY <4>1, <4>2
    <3>3. Alone(wk, hashing, db, s)  BY <2>5, <2>6, <3>1 DEF RacedInv
    <3>4. Stored(db, s) = Wanted(hashing[s])  BY <3>2, <3>3 DEF Alone
    <3> QED  BY <1>2, <2>7, <3>4, WantedIs
  <2> QED  BY <1>1, <2>3, <2>5, <2>6, <2>8
<1> QED  BY <1>3, <1>4

\* A Map-Notify for an authenticated register names mappings the table holds (udp.c
\* 2705-2708), unless another worker is updating the site or its last update was
\* not alone: for every configuration, any number of workers, and xTRs that
\* configure a mapping once.
THEOREM MapServerNotifyTrue ==
    ASSUME PlainMappings
    PROVE  Spec => NotifyTrue
<1>1. Init => RacedInv  BY RacedInvInit
<1>2. RacedInv /\ [Next]_vars => RacedInv'  BY RacedInvNext
<1>3. ASSUME RacedInv, [Next]_vars, NEW w \in Workers, sent' # NULL, sent'.auth,
             wk'[w] # wk[w], NEW r \in SetOf(sent'.recs)
      PROVE  \E s \in Sites :
               /\ Within(r.eid, s)
               /\ \/ Other(w, s) \/ s \in raced
                  \/ \E x \in Stored(db, s) : x.eid = r.eid
  <2>1. Running /\ (_register(w) \/ Registered(w))  BY <1>3, NotifyOnly DEF RacedInv
  <2>2. PICK m : m = wk[w].msg  OBVIOUS
  <2>3. PICK s \in Sites :
              /\ \A i \in DOMAIN m.recs : Within(m.recs[i].eid, s)
              /\ sent'.recs = m.recs
              /\ Other(w, s) \/ s \in raced
                 \/ \E proxy : Stored(db, s) = EnteredAll(SetOf(m.recs), proxy)
    BY <1>3, <2>1, <2>2, NotifySite
  <2>4. r \in SetOf(m.recs) /\ Within(r.eid, s)  BY <1>3, <2>3 DEF SetOf
  <2> QED  BY <2>3, <2>4, EntriesThere
<1>4. RacedInv /\ [Next]_vars =>
        [\A w \in Workers :
         sent' # NULL /\ sent'.kind = "notify" /\ sent'.auth /\ wk'[w] # wk[w] =>
            \A r \in SetOf(sent'.recs) : \E s \in Sites :
               /\ Within(r.eid, s)
               /\ \/ Other(w, s) \/ s \in raced
                  \/ \E x \in Stored(db, s) : x.eid = r.eid]_vars
  BY <1>3
<1> QED  BY <1>1, <1>2, <1>4, PTL DEF Spec, NotifyTrue
=============================================================================
