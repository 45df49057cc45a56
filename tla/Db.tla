--------------------------------- MODULE Db ---------------------------------
(***************************************************************************)
(* A prefix table in use: nodes are found or added (and locked), given and *)
(* deprived of their data, looked up, and released; the table must behave  *)
(* as the map of PrefixMap whatever nodes it adds and removes by itself.   *)
(***************************************************************************)
EXTENDS DbTable

CONSTANTS
    Keys,      \* the prefixes that are stored and looked up
    Values,    \* the data of a node
    LockMax    \* bound on the locks held on a node

VARIABLES
    table,     \* struct db_table
    answer     \* the last lookup: prefix, best match, exact match

vars == <<table, answer>>

ASSUME DbAssumption == Keys \subseteq Prefix /\ NULL \notin Values

Init ==
    /\ table = db_table_init
    /\ answer = NULL

Get(p) ==
    /\ p \in Nodes(table) => table.node[p].lock < LockMax
    /\ table' = db_node_get(table, p)
    /\ UNCHANGED answer

\* Only a node that somebody holds is given data.
SetInfo(p, v) ==
    /\ p \in Nodes(table)
    /\ table.node[p].lock > 0
    /\ table.node[p].info # v
    /\ table' = db_node_set_info(table, p, v)
    /\ UNCHANGED answer

\* db_node_delete asserts that a node losing its last lock has no data.
Unlock(p) ==
    /\ p \in Nodes(table)
    /\ table.node[p].lock > 0
    /\ table.node[p].lock = 1 => table.node[p].info = NULL
    /\ table' = db_unlock_node(table, p)
    /\ UNCHANGED answer

\* The two lookups of one prefix; the lock on the node found is released again.
\* Both need a table with a top (the code reads its family without a test).
Match(p) ==
    /\ table.top # NULL
    /\ answer' = [asked |-> p, found |-> db_node_match(table, p),
                  exact |-> db_node_match_exact(table, p)]
    /\ UNCHANGED table

Next ==
    \E p \in Keys :
        \/ Get(p)
        \/ \E v \in Values \cup {NULL} : SetInfo(p, v)
        \/ Unlock(p)
        \/ Match(p)

Spec == Init /\ [][Next]_vars

----------------------------------------------------------------------------
\* db_table.c links: every node but the top is a child of its parent, on the
\* side of its own next bit and strictly below it; nothing else is linked, and
\* what is linked is reached from the top.
WellLinked ==
    /\ Subtree(table, table.top) = Nodes(table)
    /\ \A x \in Nodes(table) :
          LET up == table.node[x].parent
          IN  /\ (x = table.top) <=> (up = NULL)
              /\ up # NULL => /\ Len(up) < Len(x)
                              /\ SubSeq(x, 1, Len(up)) = up
                              /\ table.node[up].link[x[Len(up) + 1] + 1] = x
              /\ \A b \in 1..2 : table.node[x].link[b] # NULL =>
                    table.node[table.node[x].link[b]].parent = x

\* db_node_delete leaves no stub behind: a node nobody holds (db_table.c 520-522)
\* is a fork, or it would have been removed; and the node counter of the table
\* (db_table.h "number of node") is exact through forks and removals.
NoStubs ==
    /\ \A x \in Nodes(table) : table.node[x].lock = 0 =>
          /\ table.node[x].info = NULL
          /\ table.node[x].link[1] # NULL /\ table.node[x].link[2] # NULL
    /\ table.count = Cardinality(Nodes(table))

\* Insertion (db_table.c 427-479) and removal (481-521) keep both.
WellFormed == WellLinked /\ NoStubs

\* The table implements the map: whatever glue nodes come and go, its data
\* changes only by SetInfo and db_node_match finds the longest stored prefix
\* (db_table.h: "Get the node in table that best match prefix").
Held == {x \in Nodes(table) : table.node[x].info # NULL}

Map == INSTANCE PrefixMap WITH
    map <- [x \in Held |-> table.node[x].info], None <- NULL

ImplementsMap == Map!Spec
============================================================================
