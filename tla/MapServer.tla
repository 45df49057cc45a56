------------------------------ MODULE MapServer ------------------------------
(***************************************************************************)
(* The map server of the control plane (server.c, db.c, udp.c) with the    *)
(* xTRs that register with it: the table built from the configuration,     *)
(* Map-Registers validated and applied by the workers of the thread pool,  *)
(* and the answers given to Map-Requests from the table.                   *)
(*                                                                         *)
(* The workers share the table without a lock.  A worker validates a       *)
(* register in one step, cleans the site in one and enters each record in  *)
(* one; these interleave in any order, also with the referrals the         *)
(* resolver's thread is sent.  A worker that answers a request changes     *)
(* nothing: its answer is an operator, of the table as it is at that time. *)
(*                                                                         *)
(* One address family is modelled: the two tables never meet.  Explicit    *)
(* locator paths (lisp_te) are left out: lisp_te is off.                   *)
(***************************************************************************)
EXTENDS DbTable, Integers

CONSTANTS
    Sites,        \* site_db
    Etrs,         \* the xTRs that register
    Fncs,         \* _fncs: a subset of {"MS", "NODE", "MR"}
    Config,       \* the elements of the configuration files, in parsing order
    KeyOf,        \* the site whose key an xTR was given
    Mappings,     \* what the xTR's own configuration may be: [proxy, auth, recs]
    Home,         \* the xTR that has a locator address
    Referrals,    \* the referral records a resolver may be sent
    Addresses,    \* the EIDs that are asked for
    Workers,      \* threads of the pool
    NotifyEvery,  \* every n-th Map-Register asks for a Map-Notify (15)
    MaxChanges,   \* bound on configuration changes of the xTRs
    MaxInFlight   \* bound on the Map-Registers of an xTR on their way

VARIABLES
    line,      \* the next element of the configuration; 0: the program ended, or
               \* its behaviour is undefined
    db,        \* ms_db: the prefix table
    eid,       \* site_info.eid: the EID nodes of each site, in order
    hashing,   \* site_info.hashing: what the hash of the last register covers
    wk,        \* the workers
    etr,       \* the mappings an xTR has configured
    count,     \* general_register_process: its counter
    changes,   \* configuration changes made so far
    net,       \* Map-Registers on their way
    sent,      \* the Map-Notify the last step sent, or NULL
    raced      \* history: the sites whose mappings are not those of one update alone

ms == <<line, db, eid, hashing, wk, raced>>
vars == <<ms, etr, count, changes, net, sent>>

\* A locator, a record of a register, and the flags of a node.  Addresses are
\* numbers.
Locator == [rloc : Nat, priority : Nat, r : BOOLEAN]

Record == [eid : Prefix, locs : Seq(Locator)]

\* A mapping of a site: the locators are those with the best priority.
Mapping == [eid : Prefix, proxy : BOOLEAN, locs : SUBSET Locator]

\* What the hash of a register is taken over.  auth: whether the register has
\* authentication data; one without has a hash of no bytes.
Hash == [recs : Seq(Record), proxy : BOOLEAN, M : BOOLEAN, auth : BOOLEAN]

Referral == {"NODE_REFERRAL", "MS_REFERRAL", "MS_ACK", "MS_NOT_REGISTERED",
             "DELEGATION_HOLE", "NOT_AUTHORITATIVE"}

MappingFlags == [range : SUBSET {"GEID", "EID", "GREID", "MAPP", "MAPP_XTR"},
                 referral : Referral \cup {NULL}, proxy : BOOLEAN, A : BOOLEAN,
                 rsvd : Sites \cup {NULL}]

ASSUME MapServerAssumption ==
    /\ Fncs \subseteq {"MS", "NODE", "MR"}
    /\ NULL \notin Sites \cup MappingFlags \cup Referral
    /\ NULL \notin Hash \cup Record \cup Mapping
    /\ Config \in Seq([kind : {"GEID", "GREID"}, eid : Prefix]
                      \cup [kind : {"EID"}, eid : Prefix, site : Sites]
                      \cup [kind : {"REID"}, eid : Prefix, locs : Seq(Locator),
                            referral : Referral, A : BOOLEAN])
    /\ KeyOf \in [Etrs -> Sites]
    /\ Mappings \in [Etrs -> SUBSET [proxy : BOOLEAN, auth : BOOLEAN, recs : Seq(Record)]]
    /\ \A rloc \in DOMAIN Home : Home[rloc] \in Etrs
    /\ Referrals \subseteq [eid : Prefix, act : Referral, incomplete : BOOLEAN,
                            locs : Seq(Locator)]
    /\ Addresses \subseteq [1..MaxLen -> {0, 1}]
    /\ NotifyEvery \in Nat \ {0}

Seqs == INSTANCE SequencesExt

----------------------------------------------------------------------------
\* Nodes and their flags.  The type bits of a node are a set; _ROOT is {}.
ms_new_node_ex(range) ==
    [range |-> range, referral |-> NULL, proxy |-> FALSE, A |-> FALSE, rsvd |-> NULL]

Flags(t, x) == t.node[x].flags

ms_node_is_type(t, x, types) == Flags(t, x) # NULL /\ Flags(t, x).range \cap types # {}

ms_node_is_referral(t, x) == Flags(t, x) # NULL /\ Flags(t, x).referral # NULL

ms_node_is_proxy_reply(t, x) == Flags(t, x) # NULL /\ Flags(t, x).proxy

ms_node_update_type(t, x, type) ==
    LET old == Flags(t, x)
    IN  [t EXCEPT !.node[x].flags = IF old = NULL THEN ms_new_node_ex({type})
                                    ELSE [old EXCEPT !.range = @ \cup {type}]]

\* No caller releases the node a lookup locked: locks and the node counter only
\* grow, and are left out.
Settle(t) ==
    [t EXCEPT !.count = 0,
              !.node = [x \in Nodes(t) |-> [t.node[x] EXCEPT !.lock = 0]]]

ms_init_db ==
    LET t == db_node_get(db_table_init, <<>>)
    IN  Settle([t EXCEPT !.node[<<>>].flags = ms_new_node_ex({})])

\* The loops over node->parent: the nearest node for which Here holds, x itself
\* included, or the top of the table.
Climb(t, x, Here(_)) ==
    LET up[n \in 0..MaxLen] ==
          IF n = 0 THEN x
          ELSE LET y == up[n - 1]
               IN  IF y = t.top \/ Here(y) THEN y ELSE t.node[y].parent
    IN  up[MaxLen]

HasType(t, x) == Flags(t, x) # NULL /\ Flags(t, x).range # {}

ms_get_target(t, x) == Climb(t, x, LAMBDA y : HasType(t, y))

TypeAbove(t, x, types) == Climb(t, x, LAMBDA y : ms_node_is_type(t, y, types))

ms_get_tree(t, x, types) == {y \in Subtree(t, x) : ms_node_is_type(t, y, types)}

----------------------------------------------------------------------------
\* Mappings.
generic_mapping_new(t, p) == db_node_set_info(Settle(db_node_get(t, p)), p, <<>>)

\* Mutant: the site of the node is not kept.
generic_mapping_set_flags_SiteLost(t, x, mflags) ==
    LET old == Flags(t, x)
    IN  [t EXCEPT !.node[x].flags =
            IF old = NULL THEN mflags ELSE [mflags EXCEPT !.range = @ \cup old.range]]

generic_mapping_set_flags(t, x, mflags) ==
    LET old == Flags(t, x)
    IN  [t EXCEPT !.node[x].flags =
            IF old = NULL THEN mflags
            ELSE [mflags EXCEPT !.range = @ \cup old.range,
                                !.rsvd = IF @ = NULL THEN old.rsvd ELSE @]]

\* The list of a configured mapping is in the order of the addresses.
_insert_ip_ordered(l, e) ==
    LET k == Cardinality({i \in DOMAIN l : l[i].rloc < e.rloc})
    IN  SubSeq(l, 1, k) \o <<e>> \o SubSeq(l, k + 1, Len(l))

generic_mapping_add_rloc(t, x, e) ==
    [t EXCEPT !.node[x].info = _insert_ip_ordered(@, e)]

ConfiguredMapping(t, p, locs, mflags) ==
    generic_mapping_set_flags(
        Seqs!FoldLeft(LAMBDA u, e : generic_mapping_add_rloc(u, p, e),
                      generic_mapping_new(t, p), locs),
        p, mflags)

\* The configuration's check of a prefix: only the nodes above it are looked at,
\* and a prefix that has a node already is always accepted.
_valid_prefix(t, p, type) ==
    LET rn    == db_node_match_prefix(t, p)
        up    == Climb(t, rn, LAMBDA y : Flags(t, y) # NULL)
        range == IF up = t.top THEN {} ELSE Flags(t, up).range
    IN  \/ Len(rn) = Len(p)
        \/ up = t.top
        \/ type = "MAPP_XTR" /\ range = {"MAPP_XTR"}
        \/ type = "EID" /\ range \cap {"GEID", "EID"} # {}
        \/ type = "REID" /\ range = {"GREID"}

----------------------------------------------------------------------------
\* One element of the configuration files.  A range that overlaps is skipped, a
\* site's or a delegated prefix that does not fit ends the program.
eid_prefix(c) ==
    /\ c.kind \in {"GEID", "GREID"}
    /\ db' = IF _valid_prefix(db, c.eid, c.kind)
             THEN ms_node_update_type(Settle(db_node_get(db, c.eid)), c.eid, c.kind)
             ELSE db
    /\ line' = line + 1
    /\ UNCHANGED eid

site_eid_prefix(c) ==
    /\ c.kind = "EID"
    /\ IF _valid_prefix(db, c.eid, "EID")
       THEN /\ db' = generic_mapping_set_flags(
                        Settle(db_node_get(db, c.eid)), c.eid,
                        [ms_new_node_ex({"EID"}) EXCEPT !.rsvd = c.site])
            /\ eid' = [eid EXCEPT ![c.site] = Append(@, c.eid)]
            /\ line' = line + 1
       ELSE line' = 0 /\ UNCHANGED <<db, eid>>

delegated_eid_prefix(c) ==
    /\ c.kind = "REID"
    /\ IF _valid_prefix(db, c.eid, "REID")
       THEN /\ db' = ConfiguredMapping(db, c.eid, c.locs,
                        [ms_new_node_ex({"MAPP"}) EXCEPT !.referral = c.referral, !.A = c.A])
            /\ line' = line + 1
       ELSE line' = 0 /\ UNCHANGED db
    /\ UNCHANGED eid

_parser_config ==
    /\ line \in DOMAIN Config
    /\ LET c == Config[line]
       IN  eid_prefix(c) \/ site_eid_prefix(c) \/ delegated_eid_prefix(c)
    /\ sent' = NULL
    /\ UNCHANGED <<hashing, wk, etr, count, changes, net, raced>>

Running == line = Len(Config) + 1

----------------------------------------------------------------------------
\* Messages that answer a Map-Request.
_request_reply(t, x) ==
    {[kind |-> "reply",
      recs |-> {[eid |-> y, locs |-> t.node[y].info] :
                   y \in ms_get_tree(t, x, {"MAPP", "MAPP_XTR"})}]}

_request_reply_negative(t, x) ==
    {[kind |-> "reply", recs |-> {[eid |-> x, locs |-> <<>>]}]}

_request_referral(t, x) ==
    {[kind |-> "referral", eid |-> x, locs |-> t.node[x].info,
      act |-> IF ms_node_is_referral(t, x) THEN Flags(t, x).referral ELSE "MS_ACK"]}

_request_referral_negative(p, act) ==
    {[kind |-> "referral", eid |-> p, locs |-> <<>>, act |-> act]}

\* The request goes on to the first locator that is reachable.
Reachable(t, x) == {i \in DOMAIN t.node[x].info : t.node[x].info[i].r}

\* Mutant: the first locator, reachable or not.
_forward_to_etr_First(t, x) ==
    IF t.node[x].info = <<>> THEN {}
    ELSE {[kind |-> "forward", to |-> Head(t.node[x].info).rloc]}

_forward_to_etr(t, x) ==
    LET first == CHOOSE i \in Reachable(t, x) : \A j \in Reachable(t, x) : i <= j
    IN  IF Reachable(t, x) = {} THEN {}
        ELSE {[kind |-> "forward", to |-> t.node[x].info[first].rloc]}

\* A request nobody answered is sent on as it came, without its outer header.
_forward == {[kind |-> "as_is"]}

\* pending_request: the resolver takes the request over.
Pending == {[kind |-> "pending"]}

\* The hole around p below node x, and where no child of x parts from p, p itself.
\* The byte of p that is compared starts at the first one, the bytes of the
\* children at the length of x; both move on at every byte boundary but the
\* first bit after x.
get_hole_eid(t, x, p) ==
    LET start    == Len(x)
        kids     == {t.node[x].link[b] : b \in 1..2} \ {NULL}
        end      == CHOOSE e \in {Len(y) : y \in kids \cup {p}} :
                       \A y \in kids \cup {p} : Len(y) <= e
        moves(c) == Cardinality({d \in (start + 2)..(c - 1) : d % PNBBY = 0})
        at(c, byte) == ((byte + moves(c)) * PNBBY) + ((c - 1) % PNBBY)
        parts(y) == {c \in (start + 1)..end :
                       Bit(p, at(c, 0)) # Bit(y, at(c, start \div PNBBY))}
        alone    == {c \in (start + 1)..end :
                       \A y \in kids : \E d \in parts(y) : d <= c}
    IN  IF kids = {} THEN x
        ELSE IF alone = {} THEN p
        ELSE SubSeq(p, 1, CHOOSE c \in alone : \A d \in alone : c <= d)

\* The answer to a Map-Request for p, the set of messages sent.
DdtRequest(t, p) ==
    LET rn    == db_node_match_prefix(t, p)
        node  == ms_get_target(t, rn)
        hole  == get_hole_eid(t, rn, p)
        up    == TypeAbove(t, node, {"EID", "GEID", "GREID"})
        range == Flags(t, up).range
    IN  CASE /\ ms_node_is_type(t, node, {"MAPP"})
             /\ ~ms_node_is_referral(t, node)
             /\ "MS" \in Fncs
                -> IF ms_node_is_proxy_reply(t, node) THEN _request_reply(t, node)
                   ELSE _request_referral(t, node) \cup _forward_to_etr(t, node)
          [] /\ ms_node_is_type(t, node, {"MAPP"})
             /\ ms_node_is_referral(t, node)
             /\ "NODE" \in Fncs
                -> IF Flags(t, node).A THEN _request_referral(t, node)
                   ELSE _request_referral_negative(hole, "NOT_AUTHORITATIVE")
          [] /\ ~ms_node_is_type(t, node, {"MAPP"})
             /\ Fncs \cap {"MS", "NODE"} # {}
             /\ up = t.top
                -> _request_referral_negative(hole,
                      IF range \cap {"GEID", "GREID"} # {} THEN "DELEGATION_HOLE"
                      ELSE "NOT_AUTHORITATIVE")
          [] /\ ~ms_node_is_type(t, node, {"MAPP"})
             /\ up # t.top
             /\ \/ range = {"EID"} /\ "MS" \in Fncs
                \/ range = {"GEID"} /\ "MS" \in Fncs
                \/ range = {"GREID"} /\ "NODE" \in Fncs
                -> _request_referral_negative(hole,
                      IF range = {"EID"} THEN "MS_NOT_REGISTERED" ELSE "DELEGATION_HOLE")
          [] OTHER -> _forward

PlainRequest(t, p) ==
    LET node == ms_get_target(t, db_node_match_prefix(t, p))
        up   == TypeAbove(t, node, {"EID", "GEID"})
        mapp == ms_node_is_type(t, node, {"MAPP"})
        mine == mapp /\ ~ms_node_is_referral(t, node)
    IN  CASE mine /\ "MS" \in Fncs
                -> IF ms_node_is_proxy_reply(t, node) THEN _request_reply(t, node)
                   ELSE IF _forward_to_etr(t, node) = {} THEN _forward
                   ELSE _forward_to_etr(t, node)
          [] ~mapp /\ "MS" \in Fncs /\ up # t.top -> _request_reply_negative(t, up)
          [] ~mine /\ "MR" \in Fncs /\ (mapp \/ "MS" \notin Fncs) -> Pending
          [] OTHER -> _forward

generic_process_request(t, p, ddt) == IF ddt THEN DdtRequest(t, p) ELSE PlainRequest(t, p)

xtr_generic_process_request(t, p) ==
    LET node == ms_get_target(t, db_node_match_prefix(t, p))
    IN  IF ms_node_is_type(t, node, {"MAPP_XTR"}) THEN _request_reply(t, node) ELSE {}

----------------------------------------------------------------------------
\* Map-Registers: [from, recs, proxy, M, key, auth].

\* The site whose EID range holds p.
_ms_validate_eid(t, p) ==
    LET node == TypeAbove(t, db_node_match_prefix(t, p), {"EID"})
    IN  IF node = t.top THEN NULL ELSE Flags(t, node).rsvd

\* The hash is over the whole message but its nonce.
_ms_recal_hashing(m) == [recs |-> m.recs, proxy |-> m.proxy, M |-> m.M, auth |-> m.auth]

\* As many bytes are compared as the message has for its own authentication
\* data: none are always equal, and more than were stored are taken to differ.
SameHash(stored, m) == stored # NULL /\ (~m.auth \/ stored = _ms_recal_hashing(m))

\* Mutant: the authentication data are not compared.
_ms_validate_register_KeyUnseen(t, h, m) ==
    LET sites == {_ms_validate_eid(t, m.recs[i].eid) : i \in DOMAIN m.recs}
        site  == CHOOSE s \in sites : TRUE
    IN  IF m.recs = <<>> \/ NULL \in sites \/ Cardinality(sites) > 1
        THEN [site |-> NULL, rt |-> -1]
        ELSE [site |-> site, rt |-> IF SameHash(h[site], m) THEN 0 ELSE 1]

\* -1: refused, 0: nothing new, 1: to be applied.
_ms_validate_register(t, h, m) ==
    LET sites == {_ms_validate_eid(t, m.recs[i].eid) : i \in DOMAIN m.recs}
        site  == CHOOSE s \in sites : TRUE
    IN  IF m.recs = <<>> \/ NULL \in sites \/ Cardinality(sites) > 1
        THEN [site |-> NULL, rt |-> -1]
        ELSE [site |-> site,
              rt   |-> CASE SameHash(h[site], m) -> 0
                         [] m.auth /\ m.key # site -> -1
                         [] OTHER -> 1]

\* The nodes below an EID node of the site are freed, the node itself loses its
\* mapping.
_ms_clean_eid_mapping(t, x) ==
    [t EXCEPT !.node = [y \in Nodes(t) \ (Subtree(t, x) \ {x}) |-> t.node[y]],
              !.node[x].link = <<NULL, NULL>>]

\* Mutant: the EID node keeps its mapping.
_ms_clean_site_mapping_NodeKept(t, eids) ==
    Seqs!FoldLeft(LAMBDA u, x : _ms_clean_eid_mapping(u, x), t, eids)

CleanEidNode(t, x) ==
    LET old   == Flags(t, x)
        range == IF old.range = {"MAPP"} THEN old.range ELSE old.range \ {"MAPP"}
    IN  [_ms_clean_eid_mapping(t, x) EXCEPT
            !.node[x].info = NULL,
            !.node[x].flags = [ms_new_node_ex(range) EXCEPT !.rsvd = old.rsvd]]

_ms_clean_site_mapping(t, eids) ==
    Seqs!FoldLeft(LAMBDA u, x : CleanEidNode(u, x), t, eids)

\* No listed EID node was freed with a node above it, by another site's clean or
\* earlier in this one.  (A node at its place that a register made is another
\* one: it has no type EID.)
AllThere(t, eids) ==
    \A i \in DOMAIN eids :
        /\ eids[i] \in Nodes(t)
        /\ ms_node_is_type(t, eids[i], {"EID"})
        /\ \A j \in 1..(i - 1) : eids[i] \notin Subtree(t, eids[j]) \ {eids[j]}

\* A locator address that comes twice keeps its better priority.
add_locator(l, e) ==
    IF \A i \in DOMAIN l : l[i].rloc # e.rloc THEN Append(l, e)
    ELSE [i \in DOMAIN l |-> IF l[i].rloc = e.rloc /\ l[i].priority > e.priority
                             THEN e ELSE l[i]]

_ms_process_register_record(t, r, proxy) ==
    LET new == generic_mapping_set_flags(generic_mapping_new(t, r.eid), r.eid,
                  [ms_new_node_ex({"MAPP"}) EXCEPT !.proxy = proxy])
    IN  db_node_set_info(new, r.eid, Seqs!FoldLeft(add_locator, <<>>, r.locs))

----------------------------------------------------------------------------
Idle == [pc |-> "idle", msg |-> NULL, site |-> NULL, todo |-> <<>>]

\* The EIDs of each site, by the configuration.
EidsOf == [s \in Sites |->
              {Config[k].eid : k \in {k \in DOMAIN Config :
                                         Config[k].kind = "EID" /\ Config[k].site = s}}]

Over(r, p) == Len(r) <= Len(p) /\ SubSeq(p, 1, Len(r)) = r

Within(x, s) == \E p \in EidsOf[s] : Over(p, x)

Init ==
    /\ line = 1
    /\ db = ms_init_db
    /\ eid = [s \in Sites |-> <<>>]
    /\ hashing = [s \in Sites |-> NULL]
    /\ wk = [w \in Workers |-> Idle]
    /\ etr \in [Etrs -> UNION {Mappings[e] : e \in Etrs}]
    /\ \A e \in Etrs : etr[e] \in Mappings[e]
    /\ count = [e \in Etrs |-> 0]
    /\ changes = 0
    /\ net = {}
    /\ sent = NULL
    /\ raced = {s \in Sites : \E k \in DOMAIN Config :
                                Config[k].kind = "REID" /\ Within(Config[k].eid, s)}

\* The sites with an EID-prefix that a site has too, or has one above or below.
Meeting == [s \in Sites |->
               {q \in Sites : \E x \in EidsOf[s], y \in EidsOf[q] : Over(x, y) \/ Over(y, x)}]

\* Worker w is updating site s or one that meets it.
Busy(w, s) == wk[w].pc \in {"clean", "add"} /\ wk[w].site \in Meeting[s]

\* Some worker but w is.
Other(w, s) == \E u \in Workers \ {w} : Busy(u, s)

\* The content of the register goes back to its sender.
_register_notify(m) ==
    sent' = IF m.M THEN [kind |-> "notify", to |-> m.from, recs |-> m.recs, auth |-> m.auth]
            ELSE NULL

\* A worker takes a Map-Register that arrived.
Take(w, m) ==
    /\ wk[w].pc = "idle"
    /\ m \in net
    /\ net' = net \ {m}
    /\ wk' = [wk EXCEPT ![w] = [Idle EXCEPT !.pc = "got", !.msg = m]]
    /\ sent' = NULL
    /\ UNCHANGED <<line, db, eid, hashing, etr, count, changes, raced>>

Apply(w, site) == [wk[w] EXCEPT !.pc = "clean", !.site = site, !.todo = wk[w].msg.recs]

\* Mutant: the Map-Notify is sent before the update.
_register_NotifiedFirst(w) ==
    /\ wk[w].pc = "got"
    /\ LET m == wk[w].msg
           v == _ms_validate_register(db, hashing, m)
       IN  /\ wk' = [wk EXCEPT ![w] = IF v.rt = 1 THEN Apply(w, v.site) ELSE Idle]
           /\ hashing' = IF v.rt = 1
                         THEN [hashing EXCEPT ![v.site] = _ms_recal_hashing(m)]
                         ELSE hashing
           /\ raced' = IF v.rt = 1
                       THEN raced \cup {s \in Meeting[v.site] : s # v.site \/ Other(w, s)}
                       ELSE raced
           /\ IF v.rt >= 0 THEN _register_notify(m) ELSE sent' = NULL
    /\ UNCHANGED <<line, db, eid, etr, count, changes, net>>

\* The register is validated, and its hash stored when it is to be applied.
_register(w) ==
    /\ wk[w].pc = "got"
    /\ LET m == wk[w].msg
           v == IF "MS" \in Fncs THEN _ms_validate_register(db, hashing, m)
                ELSE [site |-> NULL, rt |-> -1]
       IN  /\ wk' = [wk EXCEPT ![w] = IF v.rt = 1 THEN Apply(w, v.site) ELSE Idle]
           /\ hashing' = IF v.rt = 1
                         THEN [hashing EXCEPT ![v.site] = _ms_recal_hashing(m)]
                         ELSE hashing
           /\ raced' = IF v.rt = 1
                       THEN raced \cup {s \in Meeting[v.site] : s # v.site \/ Other(w, s)}
                       ELSE raced
           /\ IF v.rt = 0 THEN _register_notify(m) ELSE sent' = NULL
    /\ UNCHANGED <<line, db, eid, etr, count, changes, net>>

\* A listed node that was freed is used all the same.  An update that is alone
\* from here on, and whose hash is the stored one, leaves nothing of the others.
CleanSite(w) ==
    LET s == wk[w].site
    IN  /\ wk[w].pc = "clean"
        /\ \/ /\ ~AllThere(db, eid[s])
              /\ line' = 0
              /\ UNCHANGED <<db, wk, raced>>
           \/ /\ AllThere(db, eid[s])
              /\ db' = _ms_clean_site_mapping(db, eid[s])
              /\ wk' = [wk EXCEPT ![w].pc = "add"]
              /\ raced' = IF ~Other(w, s) /\ hashing[s] = _ms_recal_hashing(wk[w].msg)
                          THEN raced \ {s} ELSE raced
              /\ UNCHANGED line
        /\ sent' = NULL
        /\ UNCHANGED <<eid, hashing, etr, count, changes, net>>

AddRecord(w) ==
    /\ wk[w].pc = "add"
    /\ wk[w].todo # <<>>
    /\ db' = _ms_process_register_record(db, Head(wk[w].todo), wk[w].msg.proxy)
    /\ wk' = [wk EXCEPT ![w].todo = Tail(@)]
    /\ sent' = NULL
    /\ UNCHANGED <<line, eid, hashing, etr, count, changes, net, raced>>

Registered(w) ==
    /\ wk[w].pc = "add"
    /\ wk[w].todo = <<>>
    /\ _register_notify(wk[w].msg)
    /\ wk' = [wk EXCEPT ![w] = Idle]
    /\ UNCHANGED <<line, db, eid, hashing, etr, count, changes, net, raced>>

\* A referral the resolver is sent is kept in the table unless it is incomplete.
_process_referral_record(r) ==
    /\ "MR" \in Fncs
    /\ ~r.incomplete
    /\ db' = ConfiguredMapping(db, r.eid, r.locs,
                [ms_new_node_ex({"MAPP"}) EXCEPT !.referral = r.act])
    /\ raced' = raced \cup {s \in Sites : Within(r.eid, s)}
    /\ sent' = NULL
    /\ UNCHANGED <<line, eid, hashing, wk, etr, count, changes, net>>

----------------------------------------------------------------------------
\* The xTRs.  Their table holds the configured mappings.
EtrTable ==
    [c \in UNION {Mappings[e] : e \in Etrs} |->
        Seqs!FoldLeft(LAMBDA t, r : ConfiguredMapping(t, r.eid, r.locs,
                                                      ms_new_node_ex({"MAPP_XTR"})),
                      ms_init_db, c.recs)]

\* Mutant: one register, not one per minute.
general_register_process_Once(e) ==
    /\ count[e] = 0
    /\ net' = net \cup {[from |-> e, recs |-> etr[e].recs, proxy |-> etr[e].proxy,
                         M |-> TRUE, key |-> KeyOf[e], auth |-> etr[e].auth]}
    /\ count' = [count EXCEPT ![e] = 1]
    /\ sent' = NULL
    /\ UNCHANGED <<ms, etr, changes>>

\* A record as it is sent: its locators in the order of their addresses.
Announced(r) == [r EXCEPT !.locs = Seqs!FoldLeft(_insert_ip_ordered, <<>>, r.locs)]

\* Once a minute every configured mapping is sent to the map server.
general_register_process(e) ==
    LET M   == count[e] % NotifyEvery = 0
        rec == [i \in DOMAIN etr[e].recs |-> Announced(etr[e].recs[i])]
    IN  /\ net' = IF Cardinality({m \in net : m.from = e}) < MaxInFlight[e]
                  THEN net \cup {[from |-> e, recs |-> rec, proxy |-> etr[e].proxy,
                                  M |-> M, key |-> KeyOf[e], auth |-> etr[e].auth]}
                  ELSE net
        /\ count' = [count EXCEPT ![e] = IF M THEN 1 ELSE @ + 1]
        /\ sent' = NULL
        /\ UNCHANGED <<ms, etr, changes>>

\* The xTR is restarted with another configuration.
Restart(e, mapping) ==
    /\ changes < MaxChanges
    /\ mapping \in Mappings[e] \ {etr[e]}
    /\ etr' = [etr EXCEPT ![e] = mapping]
    /\ count' = [count EXCEPT ![e] = 0]
    /\ changes' = changes + 1
    /\ sent' = NULL
    /\ UNCHANGED <<ms, net>>

\* The path between them: registers are lost, and overtake each other.  A loss is
\* seen when a worker could have taken the register.
Lose(m) ==
    /\ \E w \in Workers : wk[w].pc = "idle"
    /\ m \in net
    /\ net' = net \ {m}
    /\ sent' = NULL
    /\ UNCHANGED <<ms, etr, count, changes>>

\* The message just sent is on its way.
Delivered ==
    /\ sent # NULL
    /\ sent' = NULL
    /\ UNCHANGED <<ms, etr, count, changes, net>>

Worker(w) == _register(w) \/ CleanSite(w) \/ AddRecord(w) \/ Registered(w)

\* What is sent to a map server that does not run yet is lost.
Serve ==
    \/ \E w \in Workers, m \in net : Take(w, m)
    \/ \E r \in Referrals : _process_referral_record(r)
    \/ \E e \in Etrs : \/ general_register_process(e)
                       \/ \E mapping \in Mappings[e] : Restart(e, mapping)
    \/ \E m \in net : Lose(m)

\* A Map-Notify is gone before anything but a worker's step happens.
Next ==
    \/ _parser_config
    \/ Running /\ \E w \in Workers : Worker(w)
    \/ Running /\ sent = NULL /\ Serve
    \/ Delivered

\* The steps of the parser and of a busy worker, seen on line and wk alone: these
\* change by no other step, and nothing holds them up.
Parses == line \in DOMAIN Config /\ line' \in {line + 1, 0}

Works(w) ==
    /\ Running
    /\ wk[w].pc # "idle"
    /\ \/ line' = 0 /\ wk' = wk
       \/ \E next \in {Idle, [wk[w] EXCEPT !.pc = "add"]}
                      \cup {Apply(w, site) : site \in Sites}
                      \cup {[wk[w] EXCEPT !.todo = Tail(@)] : i \in DOMAIN wk[w].todo} :
             wk' = [wk EXCEPT ![w] = next] /\ line' = line

\* The program and its threads go on; an xTR sends once a minute for ever
\* (sleep(60)); the path delivers again and again of what is sent again and again.
Fairness ==
    /\ WF_line(Parses)
    /\ WF_sent(Delivered)
    /\ \A w \in Workers : WF_<<line, wk>>(Works(w))
    /\ \A e \in Etrs :
          /\ SF_<<count, net>>(Running /\ sent = NULL /\ general_register_process(e))
          /\ SF_net(/\ Running /\ sent = NULL
                    /\ \E w \in Workers : \E m \in net : m.from = e /\ Take(w, m))

Spec == Init /\ [][Next]_vars /\ Fairness

----------------------------------------------------------------------------
\* The record of S that covers p most closely.
Closest(S, p) ==
    LET C == {r \in S : Over(r.eid, p)}
    IN  IF C = {} THEN NULL ELSE CHOOSE r \in C : \A q \in C : Len(q.eid) <= Len(r.eid)

SetOf(l) == {l[i] : i \in DOMAIN l}

\* What a register with this content asks for: one mapping per EID, each locator
\* address with its best priority.
Wanted(h) ==
    IF h = NULL THEN {}
    ELSE {[eid |-> r.eid, proxy |-> h.proxy,
           locs |-> {l \in SetOf(r.locs) : \A k \in SetOf(r.locs) :
                        k.rloc = l.rloc => l.priority <= k.priority}] : r \in SetOf(h.recs)}

\* The mappings of site s the table holds.
Stored(t, s) ==
    {[eid |-> x, proxy |-> Flags(t, x).proxy, locs |-> SetOf(t.node[x].info)] :
       x \in {x \in Nodes(t) : /\ ms_node_is_type(t, x, {"MAPP"})
                               /\ ~ms_node_is_referral(t, x)
                               /\ Within(x, s)}}

\* No EID-prefix of the configuration but the k-th is at or above its place.
Lone(k) ==
    \A j \in DOMAIN Config \ {k} : Config[j].kind = "EID" => ~Over(Config[j].eid, Config[k].eid)

\* Types, and: the EID nodes a site's list points to (site_info.eid, used without
\* a test by _ms_clean_site_mapping) stay in the table and stay the site's, but
\* for those that the configuration has placed below another one (parser.c 145).
TypeOK ==
    /\ line \in 0..(Len(Config) + 1)
    /\ \A x \in Nodes(db) : x \in Prefix /\ db.node[x].parent \in Nodes(db) \cup {NULL}
    /\ \A w \in Workers : wk[w].pc \in {"idle", "got", "clean", "add"}
    /\ raced \subseteq Sites
    /\ \A k \in DOMAIN Config :
          k < line /\ Config[k].kind = "EID" /\ Lone(k) =>
              /\ \E i \in DOMAIN eid[Config[k].site] : eid[Config[k].site][i] = Config[k].eid
              /\ Config[k].eid \in Nodes(db)
              /\ ms_node_is_type(db, Config[k].eid, {"EID"})
              /\ Flags(db, Config[k].eid).rsvd = Config[k].site

\* udp.c 2926-2942: a register whose hash is the stored one is taken as "Not need
\* update", so the stored hash must describe what the table holds for the site,
\* nothing missing and nothing left over from earlier registers.
RegisteredExactly ==
    (\A w \in Workers : wk[w].pc \in {"idle", "got"}) =>
        \A s \in Sites : Stored(db, s) = Wanted(hashing[s])

\* It does whenever nobody is updating the site or one that meets it, unless the
\* last update of the site was not alone: another worker was at it, a site that
\* meets it was updated since, or a referral for one of its EIDs was kept; or the
\* configuration delegates one of its EIDs and no update was made yet.
UnracedExactly ==
    Running => \A s \in Sites \ raced :
                  (\A w \in Workers : ~Busy(w, s)) => Stored(db, s) = Wanted(hashing[s])

\* udp.c 2911-2924, 2945-2954: the mappings of a site change only in the update a
\* worker makes for it or for a site that meets it, with a register that has the
\* key of the site it is for or no authentication data, or by a referral for one
\* of its EIDs; whatever EIDs a register names and whatever the other workers do.
SitesIsolated ==
    [][Running /\ db' # db => \A s \in Sites : Stored(db', s) # Stored(db, s) =>
          \/ \E w \in Workers : /\ wk'[w] # wk[w]
                                /\ Busy(w, s)
                                /\ wk[w].msg.auth => wk[w].msg.key = wk[w].site
          \/ wk' = wk /\ \E r \in Referrals : Within(r.eid, s)]_vars

\* udp.c 2705-2708: a Map-Notify is sent for mappings the table holds, unless the
\* register has no authentication data (it is then acknowledged whatever it
\* says), another worker is updating the site or the last update was not alone.
NotifyTrue ==
    [][\A w \in Workers :
         sent' # NULL /\ sent'.kind = "notify" /\ sent'.auth /\ wk'[w] # wk[w] =>
            \A r \in SetOf(sent'.recs) : \E s \in Sites :
               /\ Within(r.eid, s)
               /\ \/ Other(w, s) \/ s \in raced
                  \/ \E x \in Stored(db, s) : x.eid = r.eid]_vars

\* server.c 461-640: a request for an address that some site has registered, when
\* nobody is updating a site the address is in (Steady), is answered with the
\* closest registered mapping (proxy) or sent on to one of its reachable locators,
\* never with another mapping or a negative answer; for an address nobody
\* registered no locator is given.  The xTR answers with its own closest mapping
\* (server.c 643-703).
Right(best, asked, msgs) ==
    IF best = NULL
    THEN \A m \in msgs : /\ m.kind # "forward"
                         /\ m.kind = "reply" => \A r \in m.recs : r.locs = <<>>
    ELSE IF best.proxy
    THEN \E m \in msgs : /\ m.kind = "reply"
                         /\ msgs = {m}
                         /\ \E r \in m.recs : Over(r.eid, asked)
                         /\ SetOf(Closest(m.recs, asked).locs) = best.locs
    ELSE /\ \A m \in msgs : /\ m.kind # "reply"
                            /\ m.kind = "referral" => m.act = "MS_ACK"
                            /\ m.kind = "forward" =>
                                  \E l \in best.locs : l.rloc = m.to /\ l.r
         /\ (\E l \in best.locs : l.r) => \E m \in msgs : m.kind = "forward"

\* Nobody updates a site the address is in, its last update was alone, and the
\* configuration has no range and no delegation inside the site above the address.
Steady(p) ==
    \A s \in Sites : Within(p, s) =>
        /\ s \notin raced
        /\ \A w \in Workers : ~Busy(w, s)
        /\ \A k \in DOMAIN Config :
              Config[k].kind # "EID" /\ Over(Config[k].eid, p) => ~Within(Config[k].eid, s)

AnswersRight ==
    Running => \A p \in Addresses, ddt \in BOOLEAN :
        LET msgs == generic_process_request(db, p, ddt)
        IN  /\ Steady(p) =>
                  Right(Closest(UNION {Wanted(hashing[s]) : s \in Sites}, p), p, msgs)
            /\ \A m \in msgs : m.kind = "forward" /\ m.to \in DOMAIN Home =>
                  LET e    == Home[m.to]
                      mine == Closest(SetOf(etr[e].recs), p)
                      back == xtr_generic_process_request(EtrTable[etr[e]], p)
                  IN  IF mine = NULL THEN back = {}
                      ELSE \A r \in back : SetOf(Closest(r.recs, p).locs) = SetOf(mine.locs)

\* udp.c 3375-3481 with the above: whatever registers are lost or overtaken, the
\* mappings of an xTR with the right key are in the table again and again, if no
\* other site meets its own; not any more after two updates of the site met.
EventuallyRegistered ==
    \A e \in Etrs :
        LET s == KeyOf[e]
        IN  /\ Meeting[s] = {s}
            /\ \A m \in Mappings[e] : m.auth /\ \A r \in SetOf(m.recs) : Within(r.eid, s)
            => []<>(line = 0 \/ s \in raced \/ Stored(db, s) = Wanted(etr[e]))
=============================================================================
