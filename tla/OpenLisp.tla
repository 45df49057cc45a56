------------------------------ MODULE OpenLisp ------------------------------
(***************************************************************************)
(* The OpenLISP plugin of the control plane (plugin_openlisp.c): it puts   *)
(* the local mappings in the kernel's database, resolves the EIDs the      *)
(* kernel has no mapping for, and puts the answers in the kernel's cache.  *)
(*                                                                         *)
(* Its thread runs event_loop.  With srcport_rand every lookup has a       *)
(* socket of its own that the loop polls; without, Map-Replies come to the *)
(* main port and workers of the thread pool handle them (get_mr).  The     *)
(* kernel's tables outlive the process; every entry the plugin writes is   *)
(* static.  An EID is a sequence of Width bits, a prefix a shorter one.    *)
(* A write past an array of the lookup table sets corrupted, where the     *)
(* model ends.                                                             *)
(***************************************************************************)
EXTENDS Integers, FiniteSets, FiniteSetsExt, Sequences, SequencesExt

CONSTANTS
    Width,           \* bits of an EID
    Eids,            \* EIDs the data plane has packets for
    Replies,         \* Map-Replies: sequences of records
    etr_db,          \* the local mappings: a function from prefixes to locators
    Leftovers,       \* what an earlier process may have left in the database
    Confs,           \* configurations
    Mine,            \* addresses of the machine's interfaces
    PetrRlocs,       \* locators of _petr, where there is one
    MAX_LOOKUPS, COUNT, MAX_COUNT,
    timeout,         \* MAP_REPLY_TIMEOUT
    MaxOpened,       \* bound: lookups of the process
    MaxAge,          \* bound: age of a lookup
    NULL

EidPrefix == BoundedSeq({0, 1}, Width)
Conf == [srcport_rand : BOOLEAN, lisp_te : BOOLEAN, petr : BOOLEAN,
         fncs : SUBSET {"XTR", "RTR"}]

\* A locator of a record lists the hops of an explicit path (LCAF_TE), or has
\* one hop, its address; v is the address family, 0 for an unknown one.
Hop == [v : {0, 4, 6}, addr : Nat]
Locator == [elp : BOOLEAN, hops : Seq(Hop), priority : 0..255]
Record == [eid : EidPrefix, v : {0, 4, 6}, locs : Seq(Locator)]
Rloc == [v : {4, 6}, addr : Nat, priority : 0..255]

ASSUME OpenLispAssumption ==
    /\ Width \in Nat \ {0} /\ Eids \subseteq [1..Width -> {0, 1}]
    /\ Replies \subseteq Seq(Record)
    /\ DOMAIN etr_db \subseteq EidPrefix /\ IsFiniteSet(DOMAIN etr_db)
    /\ Confs \subseteq Conf
    /\ {MAX_LOOKUPS, COUNT, MAX_COUNT, timeout} \subseteq Nat \ {0}
    /\ {MaxOpened, MaxAge} \subseteq Nat
    /\ MAX_LOOKUPS > 1 /\ COUNT = MAX_COUNT
    /\ MaxAge >= (COUNT + 1) * timeout

VARIABLES
    conf,        \* the configuration file
    process,     \* "started", "running"
    lookups,     \* lookups[1 .. MAX_LOOKUPS - 1]
    l,           \* the slot event_loop polls for with a timeout, or NULL
    opened,      \* the lookups so far, the requests sent for each, and whether
                 \* an answer to one of them was accepted
    database, cache,   \* the kernel's tables: functions on prefixes
    corrupted

vars == <<conf, process, lookups, l, opened, database, cache,
          corrupted>>

Slot == 1..(MAX_LOOKUPS - 1)

\* struct eid_lookup: id numbers the lookup, nonce[k] is the lookup whose k-th
\* request has that nonce, rx the socket: 0 for the main one, the number of the
\* lookup for one of its own.  Replies are compared with the MAX_COUNT nonces and
\* with what lies behind them, the first half of another nonce and the source
\* port: the nonce of no request, hence 0.
NoLookup == [active |-> FALSE, eid |-> NULL, id |-> 0, rx |-> 0, count |-> 0,
             age |-> 0, nonce |-> [k \in 0..MAX_COUNT |-> 0]]

Init ==
    /\ conf \in Confs
    /\ process = "started"
    /\ lookups = [i \in Slot |-> NoLookup]
    /\ l = NULL /\ opened = <<>>
    /\ database \in Leftovers
    /\ cache = <<>>
    /\ corrupted = FALSE

Running == process = "running" /\ ~corrupted

----------------------------------------------------------------------------
(***************************************************************************)
(* The kernel's tables.                                                    *)
(***************************************************************************)
\* The kernel refuses to add what is there (EEXIST) and to delete what is not.
kernel_add(table, p, entry) ==
    [q \in DOMAIN table \cup {p} |->
        IF q \in DOMAIN table THEN table[q] ELSE entry]
kernel_delete(table, p) == [q \in DOMAIN table \ {p} |-> table[q]]

\* opl_add_mapp: a mask is sent only for lengths strictly between none and all;
\* without one the kernel takes the EID, padded with zeros, for a host.
opl_add_mapp(p) ==
    IF Len(p) \in 1..(Width - 1) THEN p
    ELSE [b \in 1..Width |-> IF b <= Len(p) THEN p[b] ELSE 0]

\* A mapping without locators is negative, or leads to the proxy ETR.
opl_add(table, p, rlocs) ==
    kernel_add(table, opl_add_mapp(p),
               IF rlocs = <<>> /\ conf.petr THEN PetrRlocs ELSE rlocs)

opl_del(table, p) == kernel_delete(table, opl_add_mapp(p))

\* Mutant: the old mapping is not deleted first.
opl_update_NotDeleted(table, p, rlocs) == opl_add(table, p, rlocs)

opl_update(table, p, rlocs) == opl_add(opl_del(table, p), p, rlocs)

----------------------------------------------------------------------------
(***************************************************************************)
(* read_rec: the locators of a record, NULL if it is refused.              *)
(***************************************************************************)
is_my_addr(hop) == hop.addr \in Mine

\* The hops at which the loop over an explicit path stops.  The test for the
\* last hop has a misplaced parenthesis for IPv4 and counts in units of 20 bytes
\* for IPv6, where it does not look at lisp_te: it always holds for paths of
\* fewer than 20 hops.
StopsAt(hops, k) ==
    \/ k = 1 /\ conf.lisp_te /\ "XTR" \in conf.fncs
    \/ /\ conf.lisp_te /\ "RTR" \in conf.fncs
       /\ \E j \in 1..(k - 1) : is_my_addr(hops[j])
    \/ hops[k].v = 4 /\ ~conf.lisp_te
    \/ hops[k].v = 6

\* The hop the data plane is given; NULL if there is none.
elp_hop(hops) ==
    LET stops == {k \in 1..Len(hops) : StopsAt(hops, k)} IN
    IF stops = {} \/ \E k \in 1..Len(hops) : hops[k].v = 0 THEN NULL
    ELSE hops[Min(stops)]

read_rloc(loc) == IF loc.elp THEN elp_hop(loc.hops)
                  ELSE IF loc.hops[1].v = 0 THEN NULL ELSE loc.hops[1]

\* Mutant: of two locators with one address the worse stays.
AddRloc_Worse(rlocs, loc) ==
    LET hop  == read_rloc(loc)
        rloc == [v |-> hop.v, addr |-> hop.addr, priority |-> loc.priority]
        same == {k \in 1..Len(rlocs) : rlocs[k].addr = hop.addr}
    IN  IF same = {} THEN Append(rlocs, rloc)
        ELSE [k \in 1..Len(rlocs) |->
                IF k \in same /\ rlocs[k].priority < loc.priority THEN rloc
                ELSE rlocs[k]]

\* A locator whose address is in the list replaces the one there if its
\* priority is the better, the lower, one.
AddRloc(rlocs, loc) ==
    LET hop  == read_rloc(loc)
        rloc == [v |-> hop.v, addr |-> hop.addr, priority |-> loc.priority]
        same == {k \in 1..Len(rlocs) : rlocs[k].addr = hop.addr}
    IN  IF same = {} THEN Append(rlocs, rloc)
        ELSE [k \in 1..Len(rlocs) |->
                IF k \in same /\ rlocs[k].priority > loc.priority THEN rloc
                ELSE rlocs[k]]

Refused(rec) ==
    rec.v = 0 \/ \E k \in 1..Len(rec.locs) : read_rloc(rec.locs[k]) = NULL

read_rec(table, rec) ==
    opl_add(table, rec.eid, FoldLeft(AddRloc, <<>>, rec.locs))

\* The loop over the records.  A refused one counts as 0 bytes long: the loop
\* reads it again instead of those that follow.
read_records(table, recs) ==
    LET bad == {k \in 1..Len(recs) : Refused(recs[k])}
        n   == IF bad = {} THEN Len(recs) ELSE Min(bad) - 1
    IN  FoldLeft(read_rec, table, SubSeq(recs, 1, n))

----------------------------------------------------------------------------
(***************************************************************************)
(* The lookup table.                                                       *)
(***************************************************************************)
\* Mutant: the last slot is not looked at.
check_eid_LastUnseen(eid) ==
    \A i \in Slot \ {MAX_LOOKUPS - 1} : lookups[i].active => lookups[i].eid # eid

check_eid(eid) == \A i \in Slot : lookups[i].active => lookups[i].eid # eid

\* Time until the next request of a lookup is due, in whole units: the clock has
\* always gone a little further.  The wait is for the first of the lookups that
\* are due within one timeout, without a time-out (NULL) if there is none.
delta(lookup) == (lookup.count + 1) * timeout - lookup.age

Due(lks) == {i \in Slot : lks[i].active /\ delta(lks[i]) <= timeout}

Earliest(lks, due) ==
    IF due = {} THEN {NULL}
    ELSE {i \in due : \A j \in due : delta(lks[i]) <= delta(lks[j])}

\* The slots the loop may poll for; of two that are due in the same unit of time
\* either may be the first.
NextDue(lks) == Earliest(lks, Due(lks))

\* The slot is free; nobody reads its EID and start time again.
Ended(lookup) == [lookup EXCEPT !.active = FALSE, !.eid = NULL, !.age = 0]

\* Mutant: the limit is tested after the request.
GivesUp_Late(lookup) == lookup.count > COUNT /\ conf.srcport_rand

GivesUp(lookup) == lookup.count >= COUNT /\ conf.srcport_rand

\* Mutant: the socket is closed, but the slot stays taken.
GiveUp_Taken(lks, reqs, i) ==
    /\ GivesUp(lks[i])
    /\ lookups' = [lks EXCEPT ![i].rx = 0]
    /\ opened' = reqs
    /\ UNCHANGED corrupted

\* send_mr: the lookup is given up, or a request is sent and its nonce stored.
\* lks and reqs are the tables as the caller leaves them.
GiveUp(lks, reqs, i) ==
    /\ GivesUp(lks[i])
    /\ lookups' = [lks EXCEPT ![i] = Ended(@)]
    /\ opened' = reqs
    /\ UNCHANGED corrupted

Request(lks, reqs, i) ==
    LET n == lks[i].count IN
    /\ ~GivesUp(lks[i])
    /\ opened' = [reqs EXCEPT ![lks[i].id].sent = @ + 1]
    /\ \/ /\ n < MAX_COUNT
          /\ lookups' = [lks EXCEPT ![i].count = n + 1, ![i].nonce[n] = lks[i].id]
          /\ UNCHANGED corrupted
       \/ n >= MAX_COUNT /\ corrupted' = TRUE /\ lookups' = lks

SendFails(lks, reqs, i) ==
    /\ ~GivesUp(lks[i])
    /\ lookups' = lks /\ opened' = reqs
    /\ UNCHANGED corrupted

send_mr(lks, reqs, i) ==
    GiveUp(lks, reqs, i) \/ Request(lks, reqs, i) \/ SendFails(lks, reqs, i)

\* The first free slot; the nonces of its last lookup stay in it.
FreeSlot == Min({i \in Slot : ~lookups[i].active})

\* Mutant: the socket of the slot's last lookup is used again.
Socket_Kept(i, id) == IF lookups[i].rx # 0 THEN lookups[i].rx ELSE id

Socket(i, id) == IF conf.srcport_rand THEN id ELSE 0

\* Nothing happens when there is no slot, or no socket.
new_lookup(eid) ==
    LET id == Len(opened) + 1 IN
    \/ /\ conf.srcport_rand \/ \A i \in Slot : lookups[i].active
       /\ UNCHANGED <<lookups, opened, corrupted>>
    \/ /\ \E i \in Slot : ~lookups[i].active
       /\ id <= MaxOpened
       /\ send_mr([lookups EXCEPT ![FreeSlot] =
                      [@ EXCEPT !.active = TRUE, !.eid = eid, !.id = id,
                                !.rx = Socket(FreeSlot, id), !.count = 0, !.age = 0]],
                  Append(opened, [eid |-> eid, rx |-> Socket(FreeSlot, id),
                                  sent |-> 0, answered |-> FALSE]),
                  FreeSlot)

----------------------------------------------------------------------------
(***************************************************************************)
(* event_loop.  Each action is one return of poll, up to the next poll.    *)
(***************************************************************************)
\* plugin_openlisp: the local mappings, whatever an earlier process left.
plugin_openlisp ==
    /\ process = "started"
    /\ process' = "running"
    /\ database' = IF conf.fncs = {} THEN database
                   ELSE FoldLeft(LAMBDA t, p : opl_update(t, p, etr_db[p]),
                                 database, SetToSeq(DOMAIN etr_db))
    /\ UNCHANGED <<conf, lookups, l, opened, cache, corrupted>>

tables == <<conf, process, database>>

\* A packet missed the kernel's cache; that may have changed since.
map_message_handler(eid) ==
    /\ Running
    /\ \/ check_eid(eid) /\ new_lookup(eid)
       \/ ~check_eid(eid) /\ UNCHANGED <<lookups, opened, corrupted>>
    /\ l' \in NextDue(lookups')
    /\ UNCHANGED <<tables, cache>>

\* Any other message of the kernel, or a signal: the loop only starts over.
Wakes ==
    /\ Running
    /\ l' \in NextDue(lookups)
    /\ UNCHANGED <<tables, lookups, opened, cache, corrupted>>

\* poll ends at its timeout; the slot it was for may have been freed by get_mr
\* meanwhile, and a request is sent all the same.
Expires == Running /\ l # NULL /\ delta(lookups[l]) <= 0

Retry ==
    /\ Expires
    /\ send_mr(lookups, opened, l)
    /\ l' \in NextDue(lookups')
    /\ UNCHANGED <<tables, cache>>

\* A Map-Reply to a request of lookup q; the map server answers for a prefix the
\* EID is in.  It may come late, more than once or never.
Answer(q, recs) == /\ opened[q].sent > 0
                   /\ recs # <<>> /\ IsPrefix(recs[1].eid, opened[q].eid)

Matches(lookup, q) == \E k \in DOMAIN lookup.nonce : lookup.nonce[k] = q

\* On the socket of a lookup.  Other messages, empty replies and other nonces
\* are dropped.
read_mr(i, q, recs) ==
    /\ Running /\ conf.srcport_rand
    /\ lookups[i].active /\ lookups[i].rx = opened[q].rx
    /\ Answer(q, recs) /\ Matches(lookups[i], q)
    /\ cache' = read_records(cache, recs)
    /\ lookups' = [lookups EXCEPT ![i] = Ended(@)]
    /\ opened' = [opened EXCEPT ![q].answered = TRUE]
    /\ l' \in NextDue(lookups')
    /\ UNCHANGED <<tables, corrupted>>

\* On the main port, by a worker while the loop polls.  All slots are searched,
\* active or not; a reply that matches none is used all the same, and the slot
\* after the last is written.  The EID and the start time stay in the slot.
get_mr(q, recs) ==
    LET found == {i \in Slot : Matches(lookups[i], q)} IN
    /\ Running /\ ~conf.srcport_rand
    /\ Answer(q, recs)
    /\ cache' = read_records(cache, recs)
    /\ opened' = [opened EXCEPT ![q].answered = TRUE]
    /\ \/ /\ found # {}
          /\ lookups' = [lookups EXCEPT ![Min(found)].active = FALSE]
          /\ UNCHANGED corrupted
       \/ found = {} /\ corrupted' = TRUE /\ UNCHANGED lookups
    /\ UNCHANGED <<tables, l>>

\* Nothing depends on an age above MaxAge, where it stays, or on that of a slot
\* that is neither active nor the one poll is waiting for.
Tick ==
    /\ Running
    /\ lookups' = [i \in Slot |->
                     IF (lookups[i].active \/ i = l) /\ lookups[i].age < MaxAge
                     THEN [lookups[i] EXCEPT !.age = @ + 1]
                     ELSE lookups[i]]
    /\ UNCHANGED <<tables, l, opened, cache, corrupted>>

----------------------------------------------------------------------------
Next ==
    \/ plugin_openlisp
    \/ \E eid \in Eids : map_message_handler(eid)
    \/ Wakes
    \/ Retry
    \/ \E q \in DOMAIN opened, recs \in Replies :
          \/ \E i \in Slot : read_mr(i, q, recs)
          \/ get_mr(q, recs)
    \/ Tick

(***************************************************************************)
(* Fairness: the thread runs, time passes, and a poll whose time-out has   *)
(* passed ends with a request that is sent: sending does not fail for      *)
(* ever, and the loop does not find a message at every single poll.        *)
(* Nothing is assumed of the sockets beyond that; when poll has no         *)
(* time-out and no message comes, the loop waits for ever.                 *)
(***************************************************************************)
Progress ==
    /\ Expires
    /\ GiveUp(lookups, opened, l) \/ Request(lookups, opened, l)
    /\ l' \in NextDue(lookups')
    /\ UNCHANGED <<tables, cache>>

Spec == /\ Init /\ [][Next]_vars
        /\ WF_vars(plugin_openlisp) /\ WF_vars(Tick) /\ WF_vars(Progress)

----------------------------------------------------------------------------
\* Types; with random source ports nothing is written past the nonces of a
\* slot, whose number is COUNT (plugin_openlisp.c 274, 436-438).
TypeOK ==
    /\ conf \in Conf /\ process \in {"started", "running"}
    /\ lookups \in [Slot -> [active : BOOLEAN, eid : Eids \cup {NULL},
                             id : 0..MaxOpened, rx : 0..MaxOpened,
                             count : 0..MAX_COUNT, age : 0..MaxAge,
                             nonce : [0..MAX_COUNT -> 0..MaxOpened]]]
    /\ l \in Slot \cup {NULL}
    /\ opened \in Seq([eid : Eids, rx : 0..MaxOpened,
                       sent : 0..(MAX_COUNT + 1), answered : BOOLEAN])
    /\ corrupted \in BOOLEAN /\ (corrupted => ~conf.srcport_rand)

\* An EID is looked up once at a time, however many packets miss it
\* (plugin_openlisp.c 167-180).
OneLookupPerEid ==
    \A i, j \in Slot :
        lookups[i].active /\ lookups[j].active /\ i # j
            => lookups[i].eid # lookups[j].eid

\* A lookup ends because it was answered or because COUNT requests were sent for
\* it: with random source ports a late answer to an earlier lookup of its slot,
\* whose nonces are still there, does not end it (plugin_openlisp.c 200-228,
\* 780-783, 800).
EndsForAReason ==
    conf.srcport_rand =>
        \A q \in DOMAIN opened :
            \/ \E i \in Slot : lookups[i].active /\ lookups[i].id = q
            \/ opened[q].answered \/ opened[q].sent = COUNT

\* Once the plugin runs, the kernel's database has the mappings of the
\* configuration, whatever an earlier process with another one left there
\* (plugin_openlisp.c 961-972).
LocalsInstalled ==
    process = "running" /\ conf.fncs # {} =>
        \A p \in DOMAIN etr_db :
            /\ opl_add_mapp(p) \in DOMAIN database
            /\ database[opl_add_mapp(p)] =
                 (IF etr_db[p] = <<>> /\ conf.petr THEN PetrRlocs ELSE etr_db[p])

\* What the cache holds of a record: each address once, with the best priority
\* announced for it (plugin_openlisp.c 705-728).
Announces(rec, rlocs) ==
    LET addrs == {read_rloc(rec.locs[k]).addr : k \in 1..Len(rec.locs)} IN
    IF rec.locs = <<>> THEN rlocs = IF conf.petr THEN PetrRlocs ELSE <<>>
    ELSE /\ Len(rlocs) = Cardinality(addrs)
         /\ \A a \in addrs : \E k \in 1..Len(rlocs) :
              /\ rlocs[k].addr = a
              /\ rlocs[k].priority =
                   Min({rec.locs[n].priority : n \in
                          {m \in 1..Len(rec.locs) : read_rloc(rec.locs[m]).addr = a}})

CacheAsAnnounced ==
    \A p \in DOMAIN cache :
        \E rec \in UNION {ToSet(recs) : recs \in Replies} :
            ~Refused(rec) /\ opl_add_mapp(rec.eid) = p /\ Announces(rec, cache[p])

\* Every lookup ends, answered or not, as long as the loop does not stay in a
\* poll without time-out; it polls so right after a request, whose lookup is not
\* due within one timeout (plugin_openlisp.c 274-278, 874-915).
LookupsEnd ==
    \/ <>[](l = NULL)
    \/ \A i \in Slot : lookups[i].active ~> (~lookups[i].active \/ corrupted)

\* "if lisp_te: if xTR --> get the first hop, if RTR --> get the hop after RTR;
\* if not lisp_te --> get last hop" (plugin_openlisp.c 553-558).
Documented(hops) ==
    IF ~conf.lisp_te THEN Last(hops)
    ELSE IF "XTR" \in conf.fncs THEN hops[1]
    ELSE LET me == {k \in 1..(Len(hops) - 1) : is_my_addr(hops[k])} IN
         IF me = {} THEN NULL ELSE hops[Min(me) + 1]

\* The hop of an explicit path that is put in the cache is the one this says.
HopAsDocumented ==
    \A p \in DOMAIN cache, rec \in UNION {ToSet(recs) : recs \in Replies} :
        ~Refused(rec) /\ opl_add_mapp(rec.eid) = p /\ Announces(rec, cache[p])
        => \A loc \in ToSet(rec.locs) :
             loc.elp => \E k \in 1..Len(cache[p]) :
                           cache[p][k].addr = Documented(loc.hops).addr
=============================================================================
