----------------------------- MODULE Db_proofs -----------------------------
(***************************************************************************)
(* The prefix table in use is well formed and implements the map, for      *)
(* every width of an address and of a byte, every set of keys and every    *)
(* number of locks.                                                        *)
(***************************************************************************)
EXTENDS Db, DbTable_proofs

\* What a node may hold.
Data == Values \cup {NULL}

\* The inductive invariant: a typed table whose links agree, whose counter is
\* exact, and in which a node nobody holds is a fork without data.
DbInv ==
    /\ table \in Table(Data) /\ Linked(table) /\ Counted(table)
    /\ \A y \in Nodes(table) : Settled(table, y)

\* The empty table satisfies it.
LEMMA InitInv == Init => DbInv
<1> SUFFICES ASSUME Init  PROVE DbInv  OBVIOUS
<1>1. PICK f : f = [x \in {} |-> NULL]  OBVIOUS
<1>2. table = [top |-> NULL, node |-> f, count |-> 0]
  BY <1>1 DEF Init, db_table_init
<1>3. f \in [{} -> Node(Data)]  BY <1>1
<1>4. table \in Table(Data) /\ Nodes(table) = {}
  <2>1. NULL \in Pointer /\ 0 \in Int /\ {} \in SUBSET Prefix  BY DEF Pointer
  <2>2. PICK D \in SUBSET Prefix : D = {}  BY <2>1
  <2>3. f \in [D -> Node(Data)]  BY <1>3, <2>2
  <2>4. f \in UNION {[E -> Node(Data)] : E \in SUBSET Prefix}  BY <2>3
  <2>5. table \in Table(Data)  BY <1>2, <2>1, <2>4 DEF Table
  <2> QED  BY <1>1, <1>2, <2>5 DEF Nodes
<1>5. Linked(table)  BY <1>2, <1>4 DEF Linked
<1>6. Counted(table)  BY <1>2, <1>4, FS_EmptySet DEF Counted
<1> QED  BY <1>4, <1>5, <1>6 DEF DbInv

\* No data changes from t to u, whatever nodes come and go.
SameData(t, u) ==
    /\ \A y \in Nodes(t) \cap Nodes(u) : Info(u, y) = Info(t, y)
    /\ \A y \in Nodes(t) \ Nodes(u) : Info(t, y) = NULL
    /\ \A y \in Nodes(u) \ Nodes(t) : Info(u, y) = NULL

\* db_node_get (db_table.c 427-479) keeps the invariant and everybody's data.
LEMMA GetKeeps ==
    ASSUME NEW p \in Keys, DbInv, Get(p)
    PROVE  DbInv' /\ SameData(table, table')
<1>0. p \in Prefix /\ NULL \in Data  BY DbAssumption DEF Data
<1>1. PICK t, u : t = table /\ u = table'  OBVIOUS
<1>2. /\ t \in Table(Data) /\ Linked(t) /\ Counted(t) /\ u = db_node_get(t, p)
      /\ \A y \in Nodes(t) : Settled(t, y)
  BY <1>1 DEF DbInv, Get
<1>3. /\ u \in Table(Data) /\ Linked(u) /\ Counted(u)
      /\ Nodes(t) \cup {p} \subseteq Nodes(u)
      /\ \A y \in Nodes(t) : /\ Info(u, y) = Info(t, y)
                             /\ y # p => Locks(u, y) = Locks(t, y)
                             /\ \A b \in 1..2 : Kid(t, y, b) # NULL => Kid(u, y, b) # NULL
      /\ p \notin Nodes(t) => Info(u, p) = NULL
      /\ Locks(u, p) > 0
      /\ \A y \in Nodes(u) \ (Nodes(t) \cup {p}) :
            Info(u, y) = NULL /\ \A b \in 1..2 : Kid(u, y, b) # NULL
  BY <1>0, <1>2, GetEffect
<1>4. ASSUME NEW y \in Nodes(u)  PROVE Settled(u, y)
  <2>1. CASE y = p  BY <1>3, <2>1 DEF Settled
  <2>2. CASE y # p /\ y \in Nodes(t)
    <3>1. Settled(t, y) /\ Info(u, y) = Info(t, y) /\ Locks(u, y) = Locks(t, y)
      BY <1>2, <1>3, <2>2
    <3>2. Fork(t, y) => Fork(u, y)  BY <1>3, <2>2 DEF Fork
    <3> QED  BY <3>1, <3>2 DEF Settled
  <2>3. CASE y # p /\ y \notin Nodes(t)  BY <1>3, <2>3 DEF Settled, Fork
  <2> QED  BY <2>1, <2>2, <2>3
<1>5. SameData(t, u)  BY <1>3 DEF SameData
<1> QED  BY <1>1, <1>3, <1>4, <1>5 DEF DbInv

\* db_node_set_info changes the data of one node, which somebody holds.
LEMMA SetInfoKeeps ==
    ASSUME NEW p \in Keys, NEW v \in Data, DbInv, SetInfo(p, v)
    PROVE  /\ DbInv'
           /\ Nodes(table)' = Nodes(table) /\ p \in Nodes(table)
           /\ \A y \in Nodes(table) : Info(table', y) = IF y = p THEN v ELSE Info(table, y)
<1>1. PICK t, u : t = table /\ u = table'  OBVIOUS
<1>2. /\ t \in Table(Data) /\ Linked(t) /\ Counted(t) /\ u = db_node_set_info(t, p, v)
      /\ \A y \in Nodes(t) : Settled(t, y)
      /\ p \in Nodes(t) /\ Locks(t, p) > 0
  BY <1>1 DEF DbInv, SetInfo, Locks
<1>3. /\ u \in Table(Data)
      /\ Nodes(u) = Nodes(t) /\ u.top = t.top /\ u.count = t.count
      /\ \A y \in Nodes(t) :
           /\ \A b \in 1..2 : Kid(u, y, b) = Kid(t, y, b)
           /\ Up(u, y) = Up(t, y) /\ Locks(u, y) = Locks(t, y)
           /\ Info(u, y) = IF y = p THEN v ELSE Info(t, y)
  BY <1>2, SetInfoEffect
<1>4. Linked(u)  BY <1>2, <1>3, SameLinks
<1>5. Counted(u)  BY <1>2, <1>3 DEF Counted
<1>6. ASSUME NEW y \in Nodes(u)  PROVE Settled(u, y)
  <2>1. CASE y = p  BY <1>2, <1>3, <2>1 DEF Settled
  <2>2. CASE y # p  BY <1>2, <1>3, <2>2 DEF Settled, Fork
  <2> QED  BY <2>1, <2>2
<1> QED  BY <1>1, <1>2, <1>3, <1>4, <1>5, <1>6 DEF DbInv

\* db_unlock_node (db_table.c 315-323), with the removals it starts, keeps the
\* invariant and everybody's data.
LEMMA UnlockKeeps ==
    ASSUME NEW p \in Keys, DbInv, Unlock(p)
    PROVE  DbInv' /\ SameData(table, table')
<1>1. PICK t, u : t = table /\ u = table'  OBVIOUS
<1>2. /\ t \in Table(Data) /\ Linked(t) /\ Counted(t) /\ u = db_unlock_node(t, p)
      /\ \A y \in Nodes(t) : Settled(t, y)
      /\ p \in Nodes(t) /\ Locks(t, p) > 0
      /\ Locks(t, p) = 1 => Info(t, p) = NULL
  BY <1>1 DEF DbInv, Unlock, Locks, Info
<1>3. Locks(t, p) \in Nat  BY <1>2, TableShape DEF Locks, Node
<1>4. PICK n \in Nat : n = Locks(t, p) - 1  BY <1>2, <1>3
<1>5. PICK w : w = [t EXCEPT !.node[p].lock = n]  OBVIOUS
<1>6. /\ w \in Table(Data)
      /\ Nodes(w) = Nodes(t) /\ w.top = t.top /\ w.count = t.count
      /\ \A y \in Nodes(t) :
           /\ \A b \in 1..2 : Kid(w, y, b) = Kid(t, y, b)
           /\ Up(w, y) = Up(t, y) /\ Info(w, y) = Info(t, y)
           /\ Locks(w, y) = IF y = p THEN n ELSE Locks(t, y)
  BY <1>2, <1>5, LockEffect
<1>7. u = IF Locks(w, p) = 0 THEN db_node_delete(w, p) ELSE w
  BY <1>2, <1>4, <1>5 DEF db_unlock_node, Locks
<1>8. Linked(w) /\ Counted(w)
  <2>1. Linked(w)  BY <1>2, <1>6, SameLinks
  <2> QED  BY <1>2, <1>6, <2>1 DEF Counted
<1>9. ASSUME NEW y \in Nodes(t) \ {p}  PROVE Settled(w, y)
  BY <1>2, <1>6 DEF Settled, Fork
<1>10. CASE Locks(w, p) = 0
  <2>1. Info(w, p) = NULL  BY <1>2, <1>3, <1>4, <1>6, <1>10
  <2>2. /\ u \in Table(Data) /\ Linked(u) /\ Counted(u) /\ Pruned(w, u)
        /\ \A y \in Nodes(u) : Settled(u, y)
    BY <1>2, <1>6, <1>7, <1>8, <1>9, <1>10, <2>1, DeleteEffect
  <2>3. SameData(t, u)  BY <1>6, <2>2 DEF SameData, Pruned
  <2> QED  BY <1>1, <2>2, <2>3 DEF DbInv
<1>11. CASE Locks(w, p) # 0
  <2>1. Settled(w, p)  BY <1>11 DEF Settled
  <2>2. SameData(t, w)  BY <1>6 DEF SameData
  <2> QED  BY <1>1, <1>6, <1>7, <1>8, <1>9, <1>11, <2>1, <2>2 DEF DbInv
<1> QED  BY <1>10, <1>11

\* Every step keeps the invariant.
LEMMA StepInv == DbInv /\ [Next]_vars => DbInv'
<1> SUFFICES ASSUME DbInv, [Next]_vars  PROVE DbInv'  OBVIOUS
<1>1. ASSUME NEW p \in Keys, Get(p)  PROVE DbInv'  BY <1>1, GetKeeps
<1>2. ASSUME NEW p \in Keys, NEW v \in Values \cup {NULL}, SetInfo(p, v)  PROVE DbInv'
  BY <1>2, SetInfoKeeps DEF Data
<1>3. ASSUME NEW p \in Keys, Unlock(p)  PROVE DbInv'  BY <1>3, UnlockKeeps
<1>4. ASSUME UNCHANGED table  PROVE DbInv'  BY <1>4 DEF DbInv
<1>5. ASSUME NEW p \in Keys, Match(p)  PROVE DbInv'  BY <1>4, <1>5 DEF Match
<1> QED  BY <1>1, <1>2, <1>3, <1>4, <1>5 DEF Next, vars

\* So it always holds.
LEMMA Inv == Spec => []DbInv
BY InitInv, StepInv, PTL DEF Spec

\* In such a table every link agrees with the parent pointer.
LEMMA InvWellFormed == DbInv => WellFormed
<1> SUFFICES ASSUME DbInv  PROVE WellFormed  OBVIOUS
<1>0. Nodes(table) \subseteq Prefix /\ Linked(table)
  BY DEF DbInv, Linked
<1>1. Subtree(table, table.top) = Nodes(table)  BY <1>0, SubtreeIs
<1>2. ASSUME NEW x \in Nodes(table), NEW up, up = table.node[x].parent
      PROVE  /\ (x = table.top) <=> (up = NULL)
             /\ up # NULL => /\ Len(up) < Len(x)
                             /\ SubSeq(x, 1, Len(up)) = up
                             /\ table.node[up].link[x[Len(up) + 1] + 1] = x
             /\ \A b \in 1..2 : table.node[x].link[b] # NULL =>
                   table.node[table.node[x].link[b]].parent = x
  <2>1. LinkedUp(table, x) /\ LinkedDown(table, x) /\ up = Up(table, x)
    BY <1>0, <1>2 DEF Linked, Up
  <2>2. ASSUME up # NULL
        PROVE  /\ Len(up) < Len(x) /\ SubSeq(x, 1, Len(up)) = up
               /\ table.node[up].link[x[Len(up) + 1] + 1] = x
    <3>1. /\ up \in Nodes(table) /\ Len(up) < Len(x) /\ Includes(up, x)
          /\ Kid(table, up, Side(x, Len(up))) = x
      BY <2>1, <2>2 DEF LinkedUp
    <3>2. up \in Prefix /\ x \in Prefix /\ Len(up) \in Nat /\ Len(x) \in Nat
      BY <1>0, <3>1, PrefixShape
    <3>3. Len(up) \in 0..Len(x)  BY <3>1, <3>2
    <3>4. PICK s : s = SubSeq(x, 1, Len(up))  OBVIOUS
    <3>5. s \in Prefix /\ Len(s) = Len(up) /\ \A k \in 1..Len(up) : s[k] = x[k]
      BY <3>2, <3>3, <3>4, PrefixCut
    <3>6. s = up  BY <3>1, <3>2, <3>5, PrefixEqual DEF Includes
    <3>7. Side(x, Len(up)) = x[Len(up) + 1] + 1  BY <3>1, <3>2, SideIs
    <3> QED  BY <3>1, <3>4, <3>6, <3>7 DEF Kid
  <2> QED  BY <2>1, <2>2 DEF LinkedUp, LinkedDown, Kid, Up
<1>3. WellLinked  BY <1>1, <1>2 DEF WellLinked
<1>4. NoStubs  BY DEF DbInv, NoStubs, Counted, Settled, Fork, Kid, Info, Locks
<1> QED  BY <1>3, <1>4 DEF WellFormed

\* Whatever sequence of insertions (db_table.c 427-479), removals (481-521) and
\* assignments of data a table goes through, each node hangs where its bits say,
\* all are reached from the top, no unheld stub stays, and the counter is exact.
THEOREM DbWellFormed == Spec => []WellFormed
BY Inv, InvWellFormed, PTL

----------------------------------------------------------------------------
\* The data of a table: what stands for the map of PrefixMap.
DataOf(t) == [x \in {y \in Nodes(t) : t.node[y].info # NULL} |-> t.node[x].info]

\* It is a function of the nodes' data alone.
LEMMA SameDataOf ==
    ASSUME NEW t, NEW u, SameData(t, u)
    PROVE  DataOf(u) = DataOf(t)
<1>1. {y \in Nodes(u) : Info(u, y) # NULL} = {y \in Nodes(t) : Info(t, y) # NULL}
  BY DEF SameData
<1>2. \A y \in {x \in Nodes(t) : Info(t, x) # NULL} : Info(u, y) = Info(t, y)
  BY <1>1 DEF SameData
<1> QED  BY <1>1, <1>2 DEF DataOf, Info

\* prefix_match and the map agree on what includes a prefix.
LEMMA IncludesIsPrefix ==
    ASSUME NEW x \in Prefix, NEW p \in Prefix
    PROVE  Includes(x, p) <=> Map!IsPrefix(x, p)
<1>0. Len(x) \in Nat /\ Len(p) \in Nat  BY PrefixShape
<1>1. CASE Len(x) <= Len(p)
  <2>0. Len(x) \in 0..Len(x) /\ Len(x) \in 0..Len(p)  BY <1>0, <1>1
  <2>1. PICK a, b : a = SubSeq(x, 1, Len(x)) /\ b = SubSeq(p, 1, Len(x))  OBVIOUS
  <2>2. a \in Prefix /\ Len(a) = Len(x) /\ \A k \in 1..Len(x) : a[k] = x[k]
    BY <2>0, <2>1, PrefixCut
  <2>3. b \in Prefix /\ Len(b) = Len(x) /\ \A k \in 1..Len(x) : b[k] = p[k]
    BY <2>0, <2>1, PrefixCut
  <2>4. a = b <=> \A k \in 1..Len(x) : x[k] = p[k]
    BY <2>2, <2>3, PrefixEqual
  <2> QED  BY <1>1, <2>1, <2>4 DEF Includes, Map!IsPrefix
<1> QED  BY <1>1 DEF Includes, Map!IsPrefix

\* A map with one value more, or another, and one with a value less.
WithPut(f, p, v) == [x \in DOMAIN f \cup {p} |-> IF x = p THEN v ELSE f[x]]
WithDrop(f, p) == [x \in DOMAIN f \ {p} |-> f[x]]

\* The data of the two tables of a step of SetInfo.
LEMMA SetInfoData ==
    ASSUME NEW t, NEW u, NEW p, NEW v, Nodes(u) = Nodes(t), p \in Nodes(t),
           \A y \in Nodes(t) : Info(u, y) = IF y = p THEN v ELSE Info(t, y)
    PROVE  /\ v # NULL => DataOf(u) = WithPut(DataOf(t), p, v)
           /\ v = NULL => DataOf(u) = WithDrop(DataOf(t), p)
<1> DEFINE H(w) == {y \in Nodes(w) : w.node[y].info # NULL}
<1>1. /\ DOMAIN DataOf(t) = H(t) /\ \A x \in H(t) : DataOf(t)[x] = Info(t, x)
  BY DEF DataOf, Info
<1>2. ASSUME v # NULL
      PROVE  DataOf(u) = [x \in H(t) \cup {p} |-> IF x = p THEN v ELSE DataOf(t)[x]]
  <2>1. H(u) = H(t) \cup {p}  BY <1>2 DEF Info
  <2>2. \A x \in H(u) : u.node[x].info = IF x = p THEN v ELSE DataOf(t)[x]
    BY <1>1, <2>1 DEF Info
  <2>3. DataOf(u) = [x \in H(u) |-> u.node[x].info]  BY DEF DataOf
  <2> HIDE DEF H
  <2> QED  BY <2>1, <2>2, <2>3
<1>3. ASSUME v = NULL
      PROVE  DataOf(u) = [x \in H(t) \ {p} |-> DataOf(t)[x]]
  <2>1. H(u) = H(t) \ {p}  BY <1>3 DEF Info
  <2>2. \A x \in H(u) : u.node[x].info = DataOf(t)[x]
    BY <1>1, <2>1 DEF Info
  <2>3. DataOf(u) = [x \in H(u) |-> u.node[x].info]  BY DEF DataOf
  <2> HIDE DEF H
  <2> QED  BY <2>1, <2>2, <2>3
<1> QED  BY <1>1, <1>2, <1>3 DEF WithPut, WithDrop

\* db_node_match finds the longest prefix with data that includes p.
LEMMA MatchIsLongest ==
    ASSUME NEW p \in Prefix, DbInv
    PROVE  /\ db_node_match(table, p) = Map!Longest(p)
           /\ db_node_match_exact(table, p) = IF p \in Held THEN p ELSE NULL
<1>0. Nodes(table) \subseteq Prefix /\ Linked(table)
  BY DEF DbInv, Linked
<1>1. Visited(table, p) = {x \in Nodes(table) : Includes(x, p)}  BY <1>0, VisitedIs
<1>2. {x \in Visited(table, p) : table.node[x].info # NULL}
        = {k \in Held : Map!IsPrefix(k, p)}
  BY <1>0, <1>1, IncludesIsPrefix DEF Held
<1>3. DOMAIN [x \in Held |-> table.node[x].info] = Held  OBVIOUS
<1>4. db_node_match(table, p) = Map!Longest(p)
  <2> DEFINE found == {k \in DOMAIN [x \in Held |-> table.node[x].info] : Map!IsPrefix(k, p)}
  <2>1. Map!Longest(p) = IF found = {} THEN NULL
                         ELSE CHOOSE k \in found : \A j \in found : Len(j) <= Len(k)
    BY DEF Map!Longest
  <2>2. found = {x \in Visited(table, p) : table.node[x].info # NULL}  BY <1>2, <1>3
  <2> HIDE DEF found
  <2>3. Map!Longest(p) = Last(found)  BY <2>1 DEF Last
  <2> QED  BY <2>2, <2>3 DEF db_node_match
<1>5. {x \in Visited(table, p) : Len(x) = Len(p) /\ table.node[x].info # NULL}
        = IF p \in Held THEN {p} ELSE {}
  <2>1. \A x \in Nodes(table) : Includes(x, p) /\ Len(x) = Len(p) <=> x = p
    BY <1>0, IncludesOrder
  <2> QED  BY <1>1, <2>1 DEF Held
<1>6. db_node_match_exact(table, p) = IF p \in Held THEN p ELSE NULL
  <2>1. Last({}) = NULL  BY DEF Last
  <2>2. Last({p}) = p  BY PrefixShape DEF Last
  <2> QED  BY <1>5, <2>1, <2>2 DEF db_node_match_exact
<1> QED  BY <1>4, <1>6

\* Every step of the table is a step of the map or changes neither map nor answer.
LEMMA StepMaps ==
    DbInv /\ [Next]_vars => [Map!Next]_<<[x \in Held |-> table.node[x].info], answer>>
<1> SUFFICES ASSUME DbInv, [Next]_vars
             PROVE  [Map!Next]_<<[x \in Held |-> table.node[x].info], answer>>
  OBVIOUS
<1>0. /\ [x \in Held |-> table.node[x].info] = DataOf(table)
      /\ [x \in Held |-> table.node[x].info]' = DataOf(table')
  BY DEF Held, DataOf, Nodes
<1>1. ASSUME SameData(table, table'), UNCHANGED answer
      PROVE  UNCHANGED <<[x \in Held |-> table.node[x].info], answer>>
  BY <1>0, <1>1, SameDataOf
<1>2. ASSUME NEW p \in Keys, Get(p)
      PROVE  UNCHANGED <<[x \in Held |-> table.node[x].info], answer>>
  BY <1>1, <1>2, GetKeeps DEF Get
<1>3. ASSUME NEW p \in Keys, Unlock(p)
      PROVE  UNCHANGED <<[x \in Held |-> table.node[x].info], answer>>
  BY <1>1, <1>3, UnlockKeeps DEF Unlock
<1>4. ASSUME NEW p \in Keys, NEW v \in Values \cup {NULL}, SetInfo(p, v)
      PROVE  Map!Next
  <2>1. /\ Nodes(table') = Nodes(table) /\ p \in Nodes(table)
        /\ \A y \in Nodes(table) : Info(table', y) = IF y = p THEN v ELSE Info(table, y)
    BY <1>4, SetInfoKeeps DEF Data
  <2>2. UNCHANGED answer  BY <1>4 DEF SetInfo
  <2>3. CASE v # NULL
    <3>1. DataOf(table') = WithPut(DataOf(table), p, v)
      BY <2>1, <2>3, SetInfoData
    <3>2. Map!Put(p, v)  BY <1>0, <2>2, <3>1 DEF Map!Put, WithPut
    <3>3. v \in Values  BY <2>3
    <3> QED  BY <3>2, <3>3 DEF Map!Next
  <2>4. CASE v = NULL
    <3>1. DataOf(table') = WithDrop(DataOf(table), p)
      BY <2>1, <2>4, SetInfoData
    <3>2. p \in DOMAIN DataOf(table)
      BY <1>4, <2>1, <2>4 DEF SetInfo, DataOf
    <3>3. Map!Drop(p)  BY <1>0, <2>2, <3>1, <3>2 DEF Map!Drop, WithDrop
    <3> QED  BY <3>3 DEF Map!Next
  <2> QED  BY <2>3, <2>4
<1>5. ASSUME NEW p \in Keys, Match(p)  PROVE Map!Next
  <2>1. p \in Prefix  BY DbAssumption
  <2>2. /\ answer' = [asked |-> p, found |-> Map!Longest(p),
                      exact |-> IF p \in Held THEN p ELSE NULL]
    BY <1>5, <2>1, MatchIsLongest DEF Match
  <2>3. UNCHANGED [x \in Held |-> table.node[x].info]
    BY <1>0, <1>5 DEF Match
  <2>4. DOMAIN [x \in Held |-> table.node[x].info] = Held  OBVIOUS
  <2>5. Map!Lookup(p)  BY <2>2, <2>3, <2>4 DEF Map!Lookup
  <2> QED  BY <2>5 DEF Map!Next
<1>6. ASSUME UNCHANGED vars
      PROVE  UNCHANGED <<[x \in Held |-> table.node[x].info], answer>>
  BY <1>0, <1>6 DEF vars
<1> QED  BY <1>2, <1>3, <1>4, <1>5, <1>6 DEF Next

\* The table behaves as a map: insertions, glue nodes and removals change no data
\* (in particular the nodes db_node_delete frees have none, the assertion of
\* db_table.c 490), and db_node_match (325-351) finds the longest stored prefix.
THEOREM DbImplementsMap == Spec => ImplementsMap
<1>1. Init => Map!Init
  <2> SUFFICES ASSUME Init  PROVE Map!Init  OBVIOUS
  <2>1. Held = {}  BY DEF Init, db_table_init, Held, Nodes
  <2> QED  BY <2>1 DEF Init, Map!Init
<1> QED  BY <1>1, Inv, StepMaps, PTL DEF Spec, ImplementsMap, Map!Spec
============================================================================
