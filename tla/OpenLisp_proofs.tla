--------------------------- MODULE OpenLisp_proofs ---------------------------
(***************************************************************************)
(* The lookup table of the OpenLISP plugin, for every number of slots,     *)
(* EIDs, requests and replies and every configuration.                     *)
(*                                                                         *)
(* The table and the record of what was asked agree (Agree): a slot's      *)
(* counter is the number of requests its lookup sent, lookups have numbers *)
(* of their own, and with random source ports the socket of a slot is its  *)
(* lookup's.  Hence the answer that ends a lookup is an answer to it,      *)
(* whichever nonces of earlier lookups are still in the slot.              *)
(*                                                                         *)
(* What reaches the kernel's tables is the work of three loops, folds over *)
(* the locators of a record, the records of a reply and the local mappings *)
(* (FoldRuns says what a fold computes, element by element, for all three).*)
(***************************************************************************)
EXTENDS OpenLisp, FiniteSetTheorems, SequenceTheorems, NaturalsInduction,
        WellFoundedInduction, TLAPS

Lookup == [active : BOOLEAN, eid : Eids \cup {NULL},
           id : 0..MaxOpened, rx : 0..MaxOpened,
           count : 0..MAX_COUNT, age : 0..MaxAge,
           nonce : [0..MAX_COUNT -> 0..MaxOpened]]
Asked == [eid : Eids, rx : 0..MaxOpened, sent : 0..(MAX_COUNT + 1),
          answered : BOOLEAN]

\* Slots and the lookups they stand for.  A slot keeps its last lookup's number
\* and counter when that ends.
Numbered(lks, reqs) ==
    \A i \in Slot :
        /\ lks[i].active => lks[i].id # 0
        /\ lks[i].id # 0 =>
              /\ lks[i].id \in DOMAIN reqs
              /\ reqs[lks[i].id].sent = lks[i].count
              /\ \A j \in Slot : lks[j].id = lks[i].id => j = i

OwnSockets(lks, reqs) ==
    conf.srcport_rand =>
        /\ \A i \in Slot : lks[i].active => lks[i].rx = lks[i].id
        /\ \A q \in DOMAIN reqs : reqs[q].rx = q

OneEach(lks) ==
    \A i, j \in Slot :
        lks[i].active /\ lks[j].active /\ i # j => lks[i].eid # lks[j].eid

Reasons(lks, reqs) ==
    conf.srcport_rand =>
        \A q \in DOMAIN reqs :
            \/ \E i \in Slot : lks[i].active /\ lks[i].id = q
            \/ reqs[q].answered \/ reqs[q].sent = COUNT

Agree(lks, reqs) ==
    /\ lks \in [Slot -> Lookup]
    /\ reqs \in Seq(Asked) /\ Len(reqs) <= MaxOpened
    /\ Numbered(lks, reqs)
    /\ OwnSockets(lks, reqs)
    /\ OneEach(lks)
    /\ Reasons(lks, reqs)

\* The slot the loop waits for has a lookup.  get_mr may have ended it since
\* (plugin_openlisp.c 800), read_mr not, as it runs in the loop.
Waited(lks, i) ==
    i # NULL => /\ i \in Slot /\ lks[i].id # 0
                /\ conf.srcport_rand => lks[i].active

OpenLispInv ==
    /\ TypeOK /\ OneLookupPerEid /\ EndsForAReason
    /\ ~corrupted => Agree(lookups, opened) /\ Waited(lookups, l)

----------------------------------------------------------------------------
(***************************************************************************)
(* Facts about the operators.                                              *)
(***************************************************************************)
\* The bounds are naturals.
LEMMA Bounds ==
    /\ MAX_LOOKUPS \in Nat \ {0} /\ COUNT \in Nat \ {0}
    /\ MAX_COUNT \in Nat \ {0} /\ timeout \in Nat \ {0}
    /\ MaxOpened \in Nat /\ MaxAge \in Nat /\ COUNT = MAX_COUNT
BY OpenLispAssumption, Zenon

\* The configurations are typed.
LEMMA ConfsTyped == Confs \subseteq Conf
BY OpenLispAssumption, Zenon

\* A slot is a natural number.
LEMMA SlotIsNat == Slot \subseteq Nat
BY Bounds DEF Slot

\* A nonempty set of naturals has a least element.
LEMMA LeastNat ==
    ASSUME NEW S, S \subseteq Nat, S # {}
    PROVE  \E m \in S : \A k \in S : m <= k
<1>1. PICK m \in S : \A k \in S : <<k, m>> \notin OpToRel(<, Nat)
  BY NatLessThanWellFounded, WFMin
<1>2. ASSUME NEW k \in S PROVE m <= k
  <2>1. <<k, m>> \notin {ss \in Nat \X Nat : ss[1] < ss[2]}
    BY <1>1 DEF OpToRel
  <2> QED  BY <2>1
<1> QED  BY <1>2

\* The first slot of a nonempty set of slots is one of them.
LEMMA FirstIn ==
    ASSUME NEW S, S \subseteq Slot, S # {}
    PROVE  Min(S) \in S
<1>1. S \subseteq Nat  BY SlotIsNat
<1>2. \E m \in S : \A k \in S : m <= k  BY <1>1, LeastNat
<1> QED  BY <1>2 DEF Min

\* The slot the loop waits for (plugin_openlisp.c 880-905) is an active one.
LEMMA NextDueActive ==
    ASSUME NEW lks, NEW k \in NextDue(lks)
    PROVE  k # NULL => k \in Slot /\ lks[k].active
BY DEF NextDue, Earliest, Due

\* The loop goes back to its poll.
LEMMA WaitedNext ==
    ASSUME NEW lks, \A i \in Slot : lks[i].active => lks[i].id # 0,
           NEW k \in NextDue(lks)
    PROVE  Waited(lks, k)
BY NextDueActive DEF Waited

----------------------------------------------------------------------------
(***************************************************************************)
(* What the operations do to the table.                                    *)
(***************************************************************************)
\* A lookup that ends keeps everything but its EID and its age.
LEMMA EndedShape ==
    ASSUME NEW s \in Lookup
    PROVE  /\ Ended(s) \in Lookup /\ ~Ended(s).active
           /\ Ended(s).id = s.id /\ Ended(s).count = s.count /\ Ended(s).rx = s.rx
<1> SUFFICES ASSUME NEW x, x = [s EXCEPT !.active = FALSE, !.eid = NULL, !.age = 0]
             PROVE  /\ x \in Lookup /\ ~x.active
                    /\ x.id = s.id /\ x.count = s.count /\ x.rx = s.rx
  BY DEF Ended
<1>1. 0 \in 0..MaxAge  BY Bounds
<1> QED  BY <1>1 DEF Lookup

\* One slot ends, for a reason.
LEMMA SlotEnds ==
    ASSUME NEW lks, NEW reqs, Agree(lks, reqs), NEW i \in Slot,
           NEW x \in Lookup, ~x.active, x.id = lks[i].id, x.count = lks[i].count,
           NEW new, new = [lks EXCEPT ![i] = x],
           conf.srcport_rand /\ lks[i].active =>
               reqs[lks[i].id].answered \/ reqs[lks[i].id].sent = COUNT
    PROVE  Agree(new, reqs)
<1>1. lks \in [Slot -> Lookup]  BY DEF Agree
<1>2. /\ new \in [Slot -> Lookup] /\ new[i] = x
      /\ \A j \in Slot : j # i => new[j] = lks[j]
  BY <1>1
<1>3. \A j \in Slot : /\ new[j].id = lks[j].id /\ new[j].count = lks[j].count
                      /\ new[j].active => new[j] = lks[j]
  BY <1>2
<1>4. Numbered(new, reqs)
  BY <1>3 DEF Agree, Numbered
<1>5. OwnSockets(new, reqs)  BY <1>3 DEF Agree, OwnSockets
<1>6. OneEach(new)  BY <1>3 DEF Agree, OneEach
<1>7. Reasons(new, reqs)
  <2> SUFFICES ASSUME conf.srcport_rand, NEW q \in DOMAIN reqs
               PROVE  \/ \E j \in Slot : new[j].active /\ new[j].id = q
                      \/ reqs[q].answered \/ reqs[q].sent = COUNT
    BY DEF Reasons
  <2>1. \/ \E j \in Slot : lks[j].active /\ lks[j].id = q
        \/ reqs[q].answered \/ reqs[q].sent = COUNT
    BY DEF Agree, Reasons
  <2>2. ASSUME NEW j \in Slot, lks[j].active, lks[j].id = q
        PROVE  \/ new[j].active /\ new[j].id = q
               \/ reqs[q].answered \/ reqs[q].sent = COUNT
    BY <1>2, <2>2
  <2> QED  BY <2>1, <2>2
<1> QED  BY <1>2, <1>4, <1>5, <1>6, <1>7 DEF Agree

\* An entry of the record of requests changes.
LEMMA AskedChanges ==
    ASSUME NEW reqs \in Seq(Asked), NEW q \in DOMAIN reqs, NEW x \in Asked,
           NEW new, new = [reqs EXCEPT ![q] = x]
    PROVE  /\ new \in Seq(Asked) /\ Len(new) = Len(reqs)
           /\ DOMAIN new = DOMAIN reqs
           /\ new[q] = x /\ \A k \in DOMAIN reqs : k # q => new[k] = reqs[k]
<1>1. q \in 1..Len(reqs)  OBVIOUS
<1>2. new \in Seq(Asked) /\ Len(new) = Len(reqs)  BY <1>1, ExceptSeq
<1> QED  BY <1>1, <1>2

\* A request is sent for slot i (plugin_openlisp.c 279-440), and counted.
LEMMA RequestKeeps ==
    ASSUME NEW lks, NEW reqs, Agree(lks, reqs), NEW i \in Slot, lks[i].id # 0,
           conf.srcport_rand => lks[i].active,
           corrupted \in BOOLEAN, ~corrupted, Request(lks, reqs, i)
    PROVE  /\ lookups' \in [Slot -> Lookup]
           /\ opened' \in Seq(Asked) /\ Len(opened') <= MaxOpened
           /\ OneEach(lookups')
           /\ corrupted' \in BOOLEAN /\ (corrupted' => ~conf.srcport_rand)
           /\ ~corrupted' => Agree(lookups', opened')
<1> DEFINE n == lks[i].count
           q == lks[i].id
<1>0. /\ lks \in [Slot -> Lookup] /\ reqs \in Seq(Asked) /\ Len(reqs) <= MaxOpened
      /\ OneEach(lks)
  BY DEF Agree
<1>1. /\ lks[i] \in Lookup /\ n \in 0..MAX_COUNT
      /\ q \in DOMAIN reqs /\ q \in 0..MaxOpened /\ q # 0 /\ reqs[q].sent = n
      /\ \A j \in Slot : lks[j].id = q => j = i
  <2>1. lks[i] \in Lookup  BY <1>0
  <2>2. n \in 0..MAX_COUNT /\ q \in 0..MaxOpened  BY <2>1 DEF Lookup
  <2> QED  BY <2>1, <2>2 DEF Agree, Numbered
<1>2. PICK x : x = [reqs[q] EXCEPT !.sent = n + 1]  OBVIOUS
<1>3. /\ x \in Asked /\ x.sent = n + 1 /\ x.rx = reqs[q].rx
      /\ x.answered = reqs[q].answered
  <2>1. PICK m \in 0..(MAX_COUNT + 1) : m = n + 1  BY <1>1, Bounds
  <2>2. reqs[q] \in Asked  BY <1>0, <1>1
  <2>3. x = [eid |-> reqs[q].eid, rx |-> reqs[q].rx, sent |-> m,
             answered |-> reqs[q].answered]
    BY <1>2, <2>1, <2>2 DEF Asked
  <2> QED  BY <2>1, <2>2, <2>3 DEF Asked
<1>4. opened' = [reqs EXCEPT ![q] = x]
  BY <1>0, <1>1, <1>2 DEF Request
<1>5. /\ opened' \in Seq(Asked) /\ Len(opened') = Len(reqs)
      /\ DOMAIN opened' = DOMAIN reqs
      /\ opened'[q] = x /\ \A k \in DOMAIN reqs : k # q => opened'[k] = reqs[k]
  BY <1>0, <1>1, <1>3, <1>4, AskedChanges
<1>6. CASE n >= MAX_COUNT /\ corrupted' = TRUE /\ lookups' = lks
  <2>1. ~GivesUp(lks[i])  BY DEF Request
  <2>2. ~conf.srcport_rand  BY <1>1, <1>6, <2>1, Bounds DEF GivesUp
  <2> QED  BY <1>0, <1>5, <1>6, <2>2
<1>7. CASE /\ n < MAX_COUNT
           /\ lookups' = [lks EXCEPT ![i].count = n + 1, ![i].nonce[n] = lks[i].id]
           /\ UNCHANGED corrupted
  <2>1. PICK m \in 0..MAX_COUNT, f \in [0..MAX_COUNT -> 0..MaxOpened] :
            /\ m = n + 1
            /\ lookups' = [lks EXCEPT ![i].count = m, ![i].nonce = f]
    <3>1. n + 1 \in 0..MAX_COUNT /\ n \in 0..MAX_COUNT  BY <1>1, <1>7, Bounds
    <3>2. PICK g : g = lks[i].nonce  OBVIOUS
    <3>3. g \in [0..MAX_COUNT -> 0..MaxOpened]  BY <1>1, <3>2 DEF Lookup
    <3>4. PICK f : f = [g EXCEPT ![n] = q]  OBVIOUS
    <3>5. f \in [0..MAX_COUNT -> 0..MaxOpened]  BY <1>1, <3>1, <3>3, <3>4
    <3>6. lookups' = [lks EXCEPT ![i].count = n + 1, ![i].nonce = f]
      BY <1>0, <1>7, <3>2, <3>4 DEF Lookup
    <3> QED  BY <3>1, <3>5, <3>6
  <2>2. /\ lookups' \in [Slot -> Lookup]
        /\ \A j \in Slot : j # i => lookups'[j] = lks[j]
        /\ lookups'[i].count = m /\ lookups'[i].id = q
        /\ lookups'[i].active = lks[i].active
        /\ lookups'[i].rx = lks[i].rx /\ lookups'[i].eid = lks[i].eid
    BY <1>0, <2>1 DEF Lookup
  <2> HIDE DEF n, q
  <2>3. ASSUME NEW j \in Slot
        PROVE  /\ lookups'[j].id = lks[j].id /\ lookups'[j].rx = lks[j].rx
               /\ lookups'[j].active = lks[j].active /\ lookups'[j].eid = lks[j].eid
    <3>1. CASE j = i  BY <2>2, <3>1, Zenon DEF q
    <3>2. CASE j # i  BY <2>2, <3>2, Zenon
    <3> QED  BY <3>1, <3>2
  <2>4. Numbered(lookups', opened')
    <3> SUFFICES ASSUME NEW j \in Slot
                 PROVE  /\ lookups'[j].active => lookups'[j].id # 0
                        /\ lookups'[j].id # 0 =>
                             /\ lookups'[j].id \in DOMAIN opened'
                             /\ opened'[lookups'[j].id].sent = lookups'[j].count
                             /\ \A k \in Slot : lookups'[k].id = lookups'[j].id => k = j
      BY DEF Numbered
    <3>1. /\ lks[j].active => lks[j].id # 0
          /\ lks[j].id # 0 =>
               /\ lks[j].id \in DOMAIN reqs
               /\ reqs[lks[j].id].sent = lks[j].count
               /\ \A k \in Slot : lks[k].id = lks[j].id => k = j
      BY DEF Agree, Numbered
    <3>2. CASE j = i  BY <1>1, <1>3, <1>5, <2>1, <2>2, <2>3, <3>1, <3>2
    <3>3. CASE j # i
      <4>1. lks[j].id # q  BY <1>1, <3>3
      <4> QED  BY <1>5, <2>2, <2>3, <3>1, <3>3, <4>1
    <3> QED  BY <3>2, <3>3
  <2>5. OwnSockets(lookups', opened')
    <3>1. \A k \in DOMAIN reqs : opened'[k].rx = reqs[k].rx  BY <1>3, <1>5
    <3> QED  BY <1>5, <2>3, <3>1 DEF Agree, OwnSockets
  <2>6. OneEach(lookups')  BY <2>3 DEF Agree, OneEach
  <2>7. Reasons(lookups', opened')
    <3> SUFFICES ASSUME conf.srcport_rand, NEW k \in DOMAIN reqs
                 PROVE  \/ \E j \in Slot : lookups'[j].active /\ lookups'[j].id = k
                        \/ opened'[k].answered \/ opened'[k].sent = COUNT
      BY <1>5 DEF Reasons
    <3>1. CASE k = q  BY <2>3, <3>1 DEF q
    <3>2. CASE k # q  BY <1>5, <2>3, <3>2 DEF Agree, Reasons
    <3> QED  BY <3>1, <3>2
  <2>8. Agree(lookups', opened')
    BY <1>0, <1>5, <2>2, <2>4, <2>5, <2>6, <2>7 DEF Agree
  <2>9. corrupted' \in BOOLEAN /\ ~corrupted'  BY <1>7
  <2> QED  BY <1>0, <1>5, <2>2, <2>6, <2>8, <2>9
<1> QED  BY <1>6, <1>7 DEF Request

\* send_mr (plugin_openlisp.c 253-450): a lookup is given up only after COUNT
\* requests.
LEMMA SendKeeps ==
    ASSUME NEW lks, NEW reqs, Agree(lks, reqs), NEW i \in Slot, lks[i].id # 0,
           conf.srcport_rand => lks[i].active,
           corrupted \in BOOLEAN, ~corrupted, send_mr(lks, reqs, i)
    PROVE  /\ lookups' \in [Slot -> Lookup]
           /\ opened' \in Seq(Asked) /\ Len(opened') <= MaxOpened
           /\ OneEach(lookups')
           /\ corrupted' \in BOOLEAN /\ (corrupted' => ~conf.srcport_rand)
           /\ ~corrupted' => Agree(lookups', opened')
<1>0. lks \in [Slot -> Lookup] /\ lks[i] \in Lookup  BY DEF Agree
<1>1. CASE GiveUp(lks, reqs, i)
  <2>1. PICK x : x = Ended(lks[i])  OBVIOUS
  <2>2. x \in Lookup /\ ~x.active /\ x.id = lks[i].id /\ x.count = lks[i].count
    BY <1>0, <2>1, EndedShape
  <2>3. lookups' = [lks EXCEPT ![i] = x] /\ opened' = reqs /\ UNCHANGED corrupted
    BY <1>0, <1>1, <2>1 DEF GiveUp
  <2>4. reqs[lks[i].id].sent = COUNT
    <3>1. lks[i].count \in 0..MAX_COUNT  BY <1>0 DEF Lookup
    <3>2. lks[i].count >= COUNT  BY <1>1 DEF GiveUp, GivesUp
    <3>3. reqs[lks[i].id].sent = lks[i].count  BY DEF Agree, Numbered
    <3> QED  BY <3>1, <3>2, <3>3, Bounds
  <2>5. Agree(lookups', reqs)  BY <2>2, <2>3, <2>4, SlotEnds
  <2> QED  BY <2>3, <2>5 DEF Agree
<1>2. CASE Request(lks, reqs, i)  BY <1>2, RequestKeeps
<1>3. CASE SendFails(lks, reqs, i)  BY <1>3 DEF SendFails, Agree
<1> QED  BY <1>1, <1>2, <1>3 DEF send_mr

\* A free slot is taken for a new lookup (plugin_openlisp.c 184-246), before its
\* first request.
LEMMA OpensSlot ==
    ASSUME Agree(lookups, opened), NEW k \in Slot, ~lookups[k].active,
           NEW e \in Eids, check_eid(e), Len(opened) + 1 <= MaxOpened,
           NEW id, id = Len(opened) + 1,
           NEW rx \in 0..MaxOpened, conf.srcport_rand => rx = id,
           NEW x, x = [lookups[k] EXCEPT !.active = TRUE, !.eid = e, !.id = id,
                                         !.rx = rx, !.count = 0, !.age = 0],
           NEW lks, lks = [lookups EXCEPT ![k] = x],
           NEW reqs, reqs = Append(opened, [eid |-> e, rx |-> rx, sent |-> 0,
                                            answered |-> FALSE])
    PROVE  Agree(lks, reqs) /\ lks[k].id # 0 /\ lks[k].active
<1>0. /\ lookups \in [Slot -> Lookup] /\ lookups[k] \in Lookup
      /\ opened \in Seq(Asked) /\ Len(opened) \in Nat
  BY LenProperties DEF Agree
<1>1. id \in 1..MaxOpened /\ id \in 0..MaxOpened /\ id # 0 /\ id \notin DOMAIN opened
      /\ id \notin 1..Len(opened)
  BY <1>0
<1>2. /\ x \in Lookup /\ x.active /\ x.eid = e /\ x.id = id /\ x.rx = rx
      /\ x.count = 0
  <2>1. 0 \in 0..MaxAge /\ 0 \in 0..MAX_COUNT  BY Bounds
  <2> QED  BY <1>0, <1>1, <2>1 DEF Lookup
<1>3. /\ lks \in [Slot -> Lookup] /\ lks[k] = x
      /\ \A j \in Slot : j # k => lks[j] = lookups[j]
  BY <1>0, <1>2
<1>4. PICK a \in Asked : /\ reqs = Append(opened, a) /\ a.rx = rx /\ a.sent = 0
  <2>1. PICK a : a = [eid |-> e, rx |-> rx, sent |-> 0, answered |-> FALSE]
    OBVIOUS
  <2>2. 0 \in 0..(MAX_COUNT + 1)  BY Bounds
  <2>3. a \in Asked /\ a.rx = rx /\ a.sent = 0  BY <2>1, <2>2 DEF Asked
  <2> QED  BY <2>1, <2>3
<1>5. /\ reqs \in Seq(Asked) /\ Len(reqs) = id /\ reqs[id] = a
      /\ DOMAIN reqs = DOMAIN opened \cup {id}
      /\ \A q \in DOMAIN opened : reqs[q] = opened[q]
  <2>1. /\ reqs \in Seq(Asked) /\ Len(reqs) = id /\ reqs[id] = a
        /\ \A q \in 1..Len(opened) : reqs[q] = opened[q]
    BY <1>0, <1>4, AppendProperties
  <2>2. DOMAIN reqs = 1..id /\ DOMAIN opened = 1..Len(opened)
    BY <1>0, <2>1, LenProperties
  <2>3. 1..id = 1..Len(opened) \cup {id}  BY <1>0
  <2> QED  BY <2>1, <2>2, <2>3
<1>6. Numbered(lks, reqs)
  <2> SUFFICES ASSUME NEW j \in Slot
               PROVE  /\ lks[j].active => lks[j].id # 0
                      /\ lks[j].id # 0 =>
                           /\ lks[j].id \in DOMAIN reqs
                           /\ reqs[lks[j].id].sent = lks[j].count
                           /\ \A m \in Slot : lks[m].id = lks[j].id => m = j
    BY DEF Numbered
  <2>1. ASSUME NEW m \in Slot
        PROVE  /\ lookups[m].active => lookups[m].id # 0
               /\ lookups[m].id # 0 =>
                    /\ lookups[m].id \in DOMAIN opened
                    /\ opened[lookups[m].id].sent = lookups[m].count
                    /\ \A n \in Slot : lookups[n].id = lookups[m].id => n = m
    BY DEF Agree, Numbered
  <2>2. CASE j = k
    <3>1. ASSUME NEW m \in Slot, m # k PROVE lks[m].id # id
      BY <1>1, <1>3, <2>1, <3>1
    <3> QED  BY <1>1, <1>2, <1>3, <1>4, <1>5, <2>2, <3>1
  <2>3. CASE j # k
    <3>1. lks[j] = lookups[j]  BY <1>3, <2>3
    <3>2. lookups[j].id # 0 => lks[k].id # lookups[j].id
      BY <1>1, <1>2, <1>3, <2>1
    <3> QED  BY <1>3, <1>5, <2>1, <3>1, <3>2
  <2> QED  BY <2>2, <2>3
<1>7. OwnSockets(lks, reqs)
  BY <1>2, <1>3, <1>4, <1>5 DEF Agree, OwnSockets
<1>8. OneEach(lks)
  <2>1. \A j \in Slot : lookups[j].active => lookups[j].eid # e  BY DEF check_eid
  <2> QED  BY <1>2, <1>3, <2>1 DEF Agree, OneEach
<1>9. Reasons(lks, reqs)
  <2> SUFFICES ASSUME conf.srcport_rand, NEW q \in DOMAIN reqs
               PROVE  \/ \E j \in Slot : lks[j].active /\ lks[j].id = q
                      \/ reqs[q].answered \/ reqs[q].sent = COUNT
    BY DEF Reasons
  <2>1. CASE q = id  BY <1>2, <1>3, <2>1
  <2>2. CASE q \in DOMAIN opened
    <3>1. \/ \E j \in Slot : lookups[j].active /\ lookups[j].id = q
          \/ opened[q].answered \/ opened[q].sent = COUNT
      BY <2>2 DEF Agree, Reasons
    <3>2. ASSUME NEW j \in Slot, lookups[j].active PROVE lks[j] = lookups[j]
      BY <1>3, <3>2
    <3> QED  BY <1>5, <2>2, <3>1, <3>2
  <2> QED  BY <1>5, <2>1, <2>2
<1>10. Len(reqs) <= MaxOpened  BY <1>5
<1> QED  BY <1>1, <1>2, <1>3, <1>5, <1>6, <1>7, <1>8, <1>9, <1>10 DEF Agree

\* new_lookup, to the end of its first send_mr.
LEMMA NewLookupKeeps ==
    ASSUME Agree(lookups, opened), corrupted \in BOOLEAN, ~corrupted,
           NEW e \in Eids, check_eid(e), new_lookup(e)
    PROVE  /\ lookups' \in [Slot -> Lookup]
           /\ opened' \in Seq(Asked) /\ Len(opened') <= MaxOpened
           /\ OneEach(lookups')
           /\ corrupted' \in BOOLEAN /\ (corrupted' => ~conf.srcport_rand)
           /\ ~corrupted' => Agree(lookups', opened')
<1>1. CASE UNCHANGED <<lookups, opened, corrupted>>
  BY <1>1 DEF Agree
<1> DEFINE id == Len(opened) + 1
           k  == FreeSlot
           x  == [lookups[k] EXCEPT !.active = TRUE, !.eid = e, !.id = id,
                                    !.rx = Socket(k, id), !.count = 0, !.age = 0]
           lks == [lookups EXCEPT ![k] = x]
           reqs == Append(opened, [eid |-> e, rx |-> Socket(k, id), sent |-> 0,
                                   answered |-> FALSE])
<1>2. CASE /\ \E i \in Slot : ~lookups[i].active
           /\ id <= MaxOpened
           /\ send_mr(lks, reqs, k)
  <2>1. k \in Slot /\ ~lookups[k].active
    <3> DEFINE free == {i \in Slot : ~lookups[i].active}
    <3>1. free \subseteq Slot /\ free # {}  BY <1>2
    <3>2. Min(free) \in free  BY <3>1, FirstIn
    <3> QED  BY <3>2 DEF FreeSlot
  <2>2. Socket(k, id) \in 0..MaxOpened /\ (conf.srcport_rand => Socket(k, id) = id)
    <3>1. Len(opened) \in Nat  BY LenProperties DEF Agree
    <3> QED  BY <1>2, <3>1, Bounds DEF Socket
  <2>3. Agree(lks, reqs) /\ lks[k].id # 0 /\ lks[k].active
    <3> HIDE DEF k
    <3> QED  BY <1>2, <2>1, <2>2, OpensSlot
  <2> HIDE DEF lks, reqs, k
  <2> QED  BY <1>2, <2>1, <2>3, SendKeeps
<1> QED  BY <1>1, <1>2 DEF new_lookup

----------------------------------------------------------------------------
(***************************************************************************)
(* The steps.                                                              *)
(***************************************************************************)
\* What a step must leave for the invariant to hold after it.
LEMMA Established ==
    ASSUME OpenLispInv, UNCHANGED conf, process' \in {"started", "running"},
           lookups' \in [Slot -> Lookup], opened' \in Seq(Asked), OneEach(lookups'),
           l' \in Slot \cup {NULL},
           corrupted' \in BOOLEAN, corrupted' => ~conf.srcport_rand,
           ~corrupted' => Agree(lookups', opened') /\ Waited(lookups', l')
    PROVE  OpenLispInv'
<1>0. conf \in Conf  BY DEF OpenLispInv, TypeOK
<1>1. TypeOK'  BY <1>0 DEF TypeOK, Lookup, Asked
<1>2. OneLookupPerEid'  BY DEF OneLookupPerEid, OneEach
<1>3. EndsForAReason'
  <2>1. CASE corrupted'  BY <2>1 DEF EndsForAReason
  <2>2. CASE ~corrupted'  BY <2>2 DEF EndsForAReason, Agree, Reasons
  <2> QED  BY <2>1, <2>2
<1>4. ~corrupted' => (Agree(lookups, opened) /\ Waited(lookups, l))'
  BY DEF Agree, Numbered, OwnSockets, OneEach, Reasons, Waited
<1> QED  BY <1>1, <1>2, <1>3, <1>4 DEF OpenLispInv

\* What the invariant says while the loop runs.
LEMMA RunningShape ==
    ASSUME OpenLispInv, Running
    PROVE  /\ Agree(lookups, opened) /\ Waited(lookups, l)
           /\ process \in {"started", "running"} /\ conf \in Conf
           /\ lookups \in [Slot -> Lookup] /\ opened \in Seq(Asked)
           /\ OneEach(lookups) /\ l \in Slot \cup {NULL}
           /\ corrupted \in BOOLEAN /\ ~corrupted
BY DEF OpenLispInv, TypeOK, Running, Agree, Lookup, Asked

\* An action of the loop, up to its next poll.
LEMMA LoopReturns ==
    ASSUME OpenLispInv, Running, UNCHANGED <<conf, process>>,
           l' \in NextDue(lookups'),
           lookups' \in [Slot -> Lookup], opened' \in Seq(Asked), OneEach(lookups'),
           corrupted' \in BOOLEAN, corrupted' => ~conf.srcport_rand,
           ~corrupted' => Agree(lookups', opened')
    PROVE  OpenLispInv'
<1>1. l' \in Slot \cup {NULL}  BY NextDueActive
<1>2. ASSUME ~corrupted' PROVE Waited(lookups', l')
  <2>1. \A i \in Slot : lookups'[i].active => lookups'[i].id # 0
    BY <1>2 DEF Agree, Numbered
  <2> QED  BY <2>1, WaitedNext
<1> QED  BY <1>1, <1>2, Established, RunningShape

\* A packet without a mapping (plugin_openlisp.c 140-165).
LEMMA MessageStep ==
    ASSUME OpenLispInv, NEW e \in Eids, map_message_handler(e)
    PROVE  OpenLispInv'
<1>0. Running /\ UNCHANGED <<conf, process>> /\ l' \in NextDue(lookups')
  BY DEF map_message_handler, tables
<1>1. CASE check_eid(e) /\ new_lookup(e)
  BY <1>0, <1>1, NewLookupKeeps, RunningShape, LoopReturns
<1>2. CASE UNCHANGED <<lookups, opened, corrupted>>
  <2>1. /\ lookups' = lookups /\ opened' = opened /\ corrupted' = corrupted
    BY <1>2
  <2>2. corrupted' \in BOOLEAN /\ ~corrupted'  BY <1>0, <2>1, RunningShape, Zenon
  <2> QED  BY <1>0, <2>1, <2>2, RunningShape, LoopReturns
<1> QED  BY <1>1, <1>2 DEF map_message_handler

\* The loop starts over.
LEMMA WakesStep ==
    ASSUME OpenLispInv, Wakes
    PROVE  OpenLispInv'
<1>0. /\ Running /\ UNCHANGED <<conf, process>> /\ l' \in NextDue(lookups)
      /\ lookups' = lookups /\ opened' = opened /\ corrupted' = corrupted
  BY DEF Wakes, tables
<1>1. corrupted' \in BOOLEAN /\ ~corrupted'  BY <1>0, RunningShape, Zenon
<1> QED  BY <1>0, <1>1, RunningShape, LoopReturns

\* A lookup is due (plugin_openlisp.c 911-915).
LEMMA RetryStep ==
    ASSUME OpenLispInv, Retry
    PROVE  OpenLispInv'
<1>0. /\ Running /\ UNCHANGED <<conf, process>> /\ l' \in NextDue(lookups')
      /\ l # NULL /\ send_mr(lookups, opened, l)
  BY DEF Retry, Expires, tables
<1>1. l \in Slot /\ lookups[l].id # 0 /\ (conf.srcport_rand => lookups[l].active)
  BY <1>0, RunningShape DEF Waited
<1> QED  BY <1>0, <1>1, SendKeeps, RunningShape, LoopReturns

WithAnswer(reqs, q) == [reqs EXCEPT ![q].answered = TRUE]

\* The answer to lookup q is noted.
LEMMA AnswerNoted ==
    ASSUME Agree(lookups, opened), NEW q \in DOMAIN opened,
           NEW new, new = WithAnswer(opened, q)
    PROVE  Agree(lookups, new) /\ new[q].answered /\ new[q].rx = opened[q].rx
<1>0. opened \in Seq(Asked) /\ opened[q] \in Asked  BY DEF Agree
<1>1. PICK x : x = [opened[q] EXCEPT !.answered = TRUE]  OBVIOUS
<1>2. x \in Asked /\ x.answered /\ x.rx = opened[q].rx /\ x.sent = opened[q].sent
  BY <1>0, <1>1 DEF Asked
<1>3. new = [opened EXCEPT ![q] = x]  BY <1>0, <1>1 DEF WithAnswer
<1>4. /\ new \in Seq(Asked) /\ Len(new) = Len(opened)
      /\ DOMAIN new = DOMAIN opened
      /\ new[q] = x /\ \A k \in DOMAIN opened : k # q => new[k] = opened[k]
  BY <1>0, <1>2, <1>3, AskedChanges
<1>5. \A k \in DOMAIN opened : new[k].sent = opened[k].sent /\ new[k].rx = opened[k].rx
  BY <1>2, <1>4
<1>6. Numbered(lookups, new)  BY <1>4, <1>5 DEF Agree, Numbered
<1>7. OwnSockets(lookups, new)  BY <1>4, <1>5 DEF Agree, OwnSockets
<1>8. Reasons(lookups, new)  BY <1>2, <1>4 DEF Agree, Reasons
<1>9. Agree(lookups, new)  BY <1>4, <1>6, <1>7, <1>8 DEF Agree
<1> QED  BY <1>2, <1>4, <1>9

\* An answer on the socket of slot i (plugin_openlisp.c 739-803): the socket is
\* the lookup's, so the answer is to a request of that lookup, and it ends with
\* that reason.
LEMMA ReadStep ==
    ASSUME OpenLispInv, NEW i \in Slot, NEW q \in DOMAIN opened, NEW recs,
           read_mr(i, q, recs)
    PROVE  OpenLispInv'
<1>0. /\ Running /\ UNCHANGED <<conf, process>> /\ l' \in NextDue(lookups')
      /\ conf.srcport_rand /\ lookups[i].active /\ lookups[i].rx = opened[q].rx
      /\ opened' = WithAnswer(opened, q) /\ UNCHANGED corrupted
  BY DEF read_mr, tables, WithAnswer
<1>1. lookups[i] \in Lookup  BY <1>0, RunningShape
<1>2. lookups[i].id = q
  BY <1>0, RunningShape DEF Agree, OwnSockets
<1>3. Agree(lookups, opened') /\ opened'[q].answered
  BY <1>0, RunningShape, AnswerNoted
<1>4. PICK x : x = Ended(lookups[i])  OBVIOUS
<1>5. x \in Lookup /\ ~x.active /\ x.id = lookups[i].id /\ x.count = lookups[i].count
  BY <1>1, <1>4, EndedShape
<1>6. lookups' = [lookups EXCEPT ![i] = x]
  BY <1>0, <1>4, RunningShape DEF read_mr
<1>7. Agree(lookups', opened')  BY <1>2, <1>3, <1>5, <1>6, SlotEnds
<1>8. lookups' \in [Slot -> Lookup] /\ opened' \in Seq(Asked) /\ OneEach(lookups')
  BY <1>7 DEF Agree
<1>9. corrupted' \in BOOLEAN /\ ~corrupted'  BY <1>0, RunningShape, Zenon
<1> QED  BY <1>0, <1>7, <1>8, <1>9, LoopReturns

\* An answer on the main port (plugin_openlisp.c 808-866).
LEMMA GetStep ==
    ASSUME OpenLispInv, NEW q \in DOMAIN opened, NEW recs, get_mr(q, recs)
    PROVE  OpenLispInv'
<1> DEFINE found == {i \in Slot : Matches(lookups[i], q)}
<1>0. /\ Running /\ UNCHANGED <<conf, process>> /\ UNCHANGED l
      /\ ~conf.srcport_rand
      /\ opened' = WithAnswer(opened, q)
  BY DEF get_mr, tables, WithAnswer
<1>1. Agree(lookups, opened')  BY <1>0, RunningShape, AnswerNoted
<1>2. CASE /\ found # {}
           /\ lookups' = [lookups EXCEPT ![Min(found)].active = FALSE]
           /\ UNCHANGED corrupted
  <2>1. Min(found) \in Slot  BY <1>2, FirstIn
  <2>2. PICK k \in Slot : lookups' = [lookups EXCEPT ![k].active = FALSE]
    BY <1>2, <2>1
  <2>3. PICK x : x = [lookups[k] EXCEPT !.active = FALSE]  OBVIOUS
  <2>4. x \in Lookup /\ ~x.active /\ x.id = lookups[k].id /\ x.count = lookups[k].count
    BY <1>0, <2>3, RunningShape DEF Lookup
  <2>5. lookups' = [lookups EXCEPT ![k] = x]
    BY <1>0, <2>2, <2>3, RunningShape
  <2>6. Agree(lookups', opened')  BY <1>0, <1>1, <2>4, <2>5, SlotEnds
  <2>7. lookups' \in [Slot -> Lookup] /\ opened' \in Seq(Asked) /\ OneEach(lookups')
    BY <2>6 DEF Agree
  <2>8. corrupted' \in BOOLEAN /\ ~corrupted'  BY <1>0, <1>2, RunningShape, Zenon
  <2>9. \A j \in Slot : lookups'[j].id = lookups[j].id
    BY <1>0, <2>4, <2>5, RunningShape
  <2>10. Waited(lookups', l')  BY <1>0, <2>9, RunningShape DEF Waited
  <2>11. process' \in {"started", "running"} /\ l' \in Slot \cup {NULL}
    BY <1>0, RunningShape
  <2> QED  BY <1>0, <2>6, <2>7, <2>8, <2>10, <2>11, Established
<1>3. CASE corrupted' = TRUE /\ UNCHANGED lookups
  <2>1. opened' \in Seq(Asked)  BY <1>1 DEF Agree
  <2>2. process' \in {"started", "running"} /\ l' \in Slot \cup {NULL}
    BY <1>0, RunningShape
  <2>3. lookups' \in [Slot -> Lookup] /\ OneEach(lookups')
    BY <1>0, <1>3, RunningShape
  <2>4. corrupted' \in BOOLEAN /\ corrupted'  BY <1>3
  <2> QED  BY <1>0, <2>1, <2>2, <2>3, <2>4, Established
<1> QED  BY <1>2, <1>3 DEF get_mr

\* Time passes.
LEMMA TickStep ==
    ASSUME OpenLispInv, Tick
    PROVE  OpenLispInv'
<1>0. /\ Running /\ UNCHANGED <<conf, process>> /\ UNCHANGED <<l, opened, corrupted>>
      /\ lookups' = [i \in Slot |->
                       IF (lookups[i].active \/ i = l) /\ lookups[i].age < MaxAge
                       THEN [lookups[i] EXCEPT !.age = @ + 1]
                       ELSE lookups[i]]
  BY DEF Tick, tables
<1>1. ASSUME NEW i \in Slot
      PROVE  /\ lookups'[i] \in Lookup
             /\ lookups'[i].active = lookups[i].active /\ lookups'[i].id = lookups[i].id
             /\ lookups'[i].count = lookups[i].count /\ lookups'[i].rx = lookups[i].rx
             /\ lookups'[i].eid = lookups[i].eid
  <2>0. lookups[i] \in Lookup  BY <1>0, RunningShape
  <2>1. CASE ~((lookups[i].active \/ i = l) /\ lookups[i].age < MaxAge)
    <3>1. lookups'[i] = lookups[i]  BY <1>0, <2>1, Zenon
    <3> QED  BY <2>0, <3>1
  <2>2. CASE (lookups[i].active \/ i = l) /\ lookups[i].age < MaxAge
    <3>1. PICK a \in 0..MaxAge : a = lookups[i].age + 1
      <4>1. lookups[i].age \in 0..MaxAge /\ lookups[i].age < MaxAge
        BY <2>0, <2>2 DEF Lookup
      <4> QED  BY <4>1, Bounds
    <3>2. PICK x : x = [lookups[i] EXCEPT !.age = a]  OBVIOUS
    <3>3. lookups'[i] = x  BY <1>0, <2>2, <3>1, <3>2
    <3>4. /\ x \in Lookup /\ x.active = lookups[i].active /\ x.id = lookups[i].id
          /\ x.count = lookups[i].count /\ x.rx = lookups[i].rx
          /\ x.eid = lookups[i].eid
      BY <2>0, <3>2 DEF Lookup
    <3> QED  BY <3>3, <3>4, Zenon
  <2> QED  BY <2>1, <2>2
<1>2. lookups' \in [Slot -> Lookup]  BY <1>0, <1>1
<1>3. Numbered(lookups', opened')
  BY <1>0, <1>1, RunningShape DEF Agree, Numbered
<1>4. OwnSockets(lookups', opened')
  BY <1>0, <1>1, RunningShape DEF Agree, OwnSockets
<1>5. OneEach(lookups')  BY <1>0, <1>1, RunningShape DEF OneEach
<1>6. Reasons(lookups', opened')
  BY <1>0, <1>1, RunningShape DEF Agree, Reasons
<1>7. Agree(lookups', opened')
  BY <1>0, <1>2, <1>3, <1>4, <1>5, <1>6, RunningShape DEF Agree
<1>8. Waited(lookups', l')  BY <1>0, <1>1, RunningShape DEF Waited
<1>9. corrupted' \in BOOLEAN /\ ~corrupted'  BY <1>0, RunningShape, Zenon
<1>10. /\ process' \in {"started", "running"} /\ l' \in Slot \cup {NULL}
       /\ opened' \in Seq(Asked)
  BY <1>0, RunningShape
<1> QED  BY <1>0, <1>2, <1>5, <1>7, <1>8, <1>9, <1>10, Established

\* The plugin starts, or nothing happens: the lookups are not touched.
LEMMA StartStep ==
    ASSUME OpenLispInv,
           /\ UNCHANGED <<conf, lookups, l, opened, corrupted>>
           /\ process' \in {"started", "running"}
    PROVE  OpenLispInv'
<1>1. TypeOK'  BY DEF OpenLispInv, TypeOK
<1>2. OneLookupPerEid'  BY DEF OpenLispInv, OneLookupPerEid
<1>3. EndsForAReason'  BY DEF OpenLispInv, EndsForAReason
<1>4. ~corrupted' => (Agree(lookups, opened) /\ Waited(lookups, l))'
  BY DEF OpenLispInv, Agree, Numbered, OwnSockets, OneEach, Reasons, Waited
<1> QED  BY <1>1, <1>2, <1>3, <1>4 DEF OpenLispInv

\* No slot has a lookup.
LEMMA OpenLispInit == Init => OpenLispInv
<1> SUFFICES ASSUME Init PROVE OpenLispInv  OBVIOUS
<1>1. NoLookup \in Lookup /\ ~NoLookup.active /\ NoLookup.id = 0
  <2>1. /\ 0 \in 0..MaxOpened /\ 0 \in 0..MAX_COUNT /\ 0 \in 0..MaxAge
    BY Bounds
  <2>2. [k \in 0..MAX_COUNT |-> 0] \in [0..MAX_COUNT -> 0..MaxOpened]
    BY <2>1
  <2> QED  BY <2>1, <2>2 DEF NoLookup, Lookup
<1>2. lookups \in [Slot -> Lookup] /\ \A i \in Slot : lookups[i] = NoLookup
  BY <1>1 DEF Init
<1>3. /\ opened \in Seq(Asked) /\ DOMAIN opened = {} /\ Len(opened) = 0
  BY DEF Init
<1>4. conf \in Conf /\ process \in {"started", "running"} /\ l \in Slot \cup {NULL}
  BY ConfsTyped DEF Init
<1>5. corrupted \in BOOLEAN /\ ~corrupted  BY Zenon DEF Init
<1>6. TypeOK  BY <1>2, <1>3, <1>4, <1>5 DEF TypeOK, Lookup, Asked
<1>7. OneLookupPerEid /\ OneEach(lookups)  BY <1>1, <1>2 DEF OneLookupPerEid, OneEach
<1>8. EndsForAReason /\ Reasons(lookups, opened)  BY <1>3 DEF EndsForAReason, Reasons
<1>9. Numbered(lookups, opened)  BY <1>1, <1>2 DEF Numbered
<1>10. OwnSockets(lookups, opened)  BY <1>1, <1>2, <1>3 DEF OwnSockets
<1>11. Len(opened) <= MaxOpened  BY <1>3, Bounds
<1>12. Waited(lookups, l)  BY DEF Init, Waited
<1> QED  BY <1>2, <1>3, <1>6, <1>7, <1>8, <1>9, <1>10, <1>11, <1>12
         DEF OpenLispInv, Agree

\* Every step keeps the invariant.
LEMMA OpenLispStep == OpenLispInv /\ [Next]_vars => OpenLispInv'
<1> SUFFICES ASSUME OpenLispInv, [Next]_vars PROVE OpenLispInv'  OBVIOUS
<1>1. CASE plugin_openlisp
  <2>1. /\ UNCHANGED <<conf, lookups, l, opened, corrupted>>
        /\ process' \in {"started", "running"}
    BY <1>1 DEF plugin_openlisp
  <2> QED  BY <2>1, StartStep
<1>2. ASSUME NEW e \in Eids, map_message_handler(e) PROVE OpenLispInv'
  BY <1>2, MessageStep
<1>3. CASE Wakes  BY <1>3, WakesStep
<1>4. CASE Retry  BY <1>4, RetryStep
<1>5. ASSUME NEW q \in DOMAIN opened, NEW recs \in Replies, NEW i \in Slot,
             read_mr(i, q, recs)
      PROVE  OpenLispInv'
  BY <1>5, ReadStep
<1>6. ASSUME NEW q \in DOMAIN opened, NEW recs \in Replies, get_mr(q, recs)
      PROVE  OpenLispInv'
  BY <1>6, GetStep
<1>7. CASE Tick  BY <1>7, TickStep
<1>8. CASE UNCHANGED vars
  <2>1. /\ UNCHANGED <<conf, lookups, l, opened, corrupted>> /\ process' = process
    BY <1>8 DEF vars
  <2>2. process' \in {"started", "running"}  BY <2>1 DEF OpenLispInv, TypeOK
  <2> QED  BY <2>1, <2>2, StartStep
<1> QED  BY <1>1, <1>2, <1>3, <1>4, <1>5, <1>6, <1>7, <1>8 DEF Next

----------------------------------------------------------------------------
(***************************************************************************)
(* The theorems.                                                           *)
(***************************************************************************)
\* The lookup table and the record of what was asked agree in every reachable
\* state that is not corrupted.
THEOREM OpenLispInvariant == Spec => []OpenLispInv
BY OpenLispInit, OpenLispStep, PTL DEF Spec

\* Every variable of the loop keeps its type, and with random source ports no
\* nonce is written past those of its slot (plugin_openlisp.c 274, 436-438).
THEOREM OpenLispTyped == Spec => []TypeOK
<1>1. OpenLispInv => TypeOK  BY DEF OpenLispInv
<1> QED  BY <1>1, OpenLispInvariant, PTL

\* An EID is looked up once at a time, however many packets miss it
\* (plugin_openlisp.c 167-180).
THEOREM OpenLispOneLookupPerEid == Spec => []OneLookupPerEid
<1>1. OpenLispInv => OneLookupPerEid  BY DEF OpenLispInv
<1> QED  BY <1>1, OpenLispInvariant, PTL

\* With random source ports a lookup ends because it was answered or because
\* COUNT requests were sent for it, whatever late answers to the earlier lookups
\* of its slot arrive (plugin_openlisp.c 200-228, 780-783, 800).
THEOREM OpenLispEndsForAReason == Spec => []EndsForAReason
<1>1. OpenLispInv => EndsForAReason  BY DEF OpenLispInv
<1> QED  BY <1>1, OpenLispInvariant, PTL

----------------------------------------------------------------------------
(***************************************************************************)
(* The loops.  One round of each, by kind.                                 *)
(***************************************************************************)
FoldOp(kind, t, x) ==
    IF kind = "locators" THEN AddRloc(t, x)
    ELSE IF kind = "records" THEN read_rec(t, x)
    ELSE opl_update(t, x, etr_db[x])

\* The recursive function inside FoldLeft, and the value of FoldLeft.
IsFold(it, kind, base, seq) ==
    it = [s \in SUBSET DOMAIN seq |->
            IF s = {} THEN base
            ELSE FoldOp(kind, it[s \ {Max(s)}], seq[Max(s)])]

Fold(kind, base, seq) == (CHOOSE it : IsFold(it, kind, base, seq))[DOMAIN seq]

\* The loop over the locators (plugin_openlisp.c 452-731) is one of them.
LEMMA LocatorsIsFold ==
    ASSUME NEW locs
    PROVE  FoldLeft(AddRloc, <<>>, locs) = Fold("locators", <<>>, locs)
BY DEF FoldLeft, MapThenFoldSet, Fold, IsFold, FoldOp

\* The loop over the records (plugin_openlisp.c 793-799) is another.
LEMMA RecordsIsFold ==
    ASSUME NEW recs, NEW table
    PROVE  FoldLeft(read_rec, table, recs) = Fold("records", table, recs)
BY DEF FoldLeft, MapThenFoldSet, Fold, IsFold, FoldOp

\* A set of naturals with 0 and the successors of its members is all of them.
LEMMA Induction ==
    ASSUME NEW T, T \subseteq Nat, 0 \in T, \A n \in T : n + 1 \in T
    PROVE  T = Nat
<1>1. SUFFICES ASSUME Nat \ T # {}  PROVE FALSE
  OBVIOUS
<1>2. PICK m \in Nat \ T : \A k \in Nat \ T : m <= k
  BY <1>1, LeastNat
<1>3. m - 1 \in T /\ (m - 1) + 1 = m
  BY <1>2
<1> QED  BY <1>2, <1>3

\* The greatest of a set of numbers that has the last one.
LEMMA MaxIs ==
    ASSUME NEW s, s \subseteq Nat, NEW m \in s, \A k \in s : k <= m
    PROVE  Max(s) = m
<1>1. \A x \in s : (\A y \in s : x >= y) => x = m
  BY SMT
<1>2. \A y \in s : m >= y
  BY SMT
<1> QED  BY <1>1, <1>2 DEF Max

\* g holds the values of a fold, element by element.
FoldRun(g, kind, base, seq, n) ==
    /\ g[0] = base
    /\ \A k \in 1..n : g[k] = FoldOp(kind, g[k - 1], seq[k])

\* The recursion has a solution, by induction on the greatest index.
LEMMA FoldExists ==
    ASSUME NEW kind, NEW base, NEW seq, NEW n \in Nat, DOMAIN seq = 1..n
    PROVE  \E it : IsFold(it, kind, base, seq)
<1> DEFINE value(f, s) == IF s = {} THEN base
                          ELSE FoldOp(kind, f[s \ {Max(s)}], seq[Max(s)])
           Good(f, k) == \A s \in SUBSET (1..k) : f[s] = value(f, s)
           T == {k \in Nat : \E f : Good(f, k)}
<1>1. 0 \in T
  <2>1. Good([s \in SUBSET (1..0) |-> base], 0)
    <3>1. \A s \in SUBSET (1..0) : s = {}  OBVIOUS
    <3> QED  BY <3>1
  <2> QED  BY <2>1
<1>2. ASSUME NEW k \in T  PROVE k + 1 \in T
  <2>1. k \in Nat  BY <1>2
  <2>2. PICK f : Good(f, k)  BY <1>2
  <2>3. PICK h : h = [s \in SUBSET (1..(k + 1)) |->
                        IF k + 1 \in s THEN FoldOp(kind, f[s \ {k + 1}], seq[k + 1])
                        ELSE f[s]]
    OBVIOUS
  <2>4. ASSUME NEW s \in SUBSET (1..k)  PROVE h[s] = f[s]
    <3>1. s \in SUBSET (1..(k + 1)) /\ k + 1 \notin s  BY <2>1
    <3> QED  BY <2>3, <3>1
  <2>5. ASSUME NEW s \in SUBSET (1..(k + 1))  PROVE h[s] = value(h, s)
    <3>1. CASE k + 1 \in s
      <4>1. s \subseteq Nat /\ \A j \in s : j <= k + 1  BY <2>1
      <4>2. Max(s) = k + 1  BY <3>1, <4>1, MaxIs
      <4>3. s \ {k + 1} \in SUBSET (1..k)  BY <2>1
      <4>4. h[s \ {k + 1}] = f[s \ {k + 1}]  BY <2>4, <4>3
      <4>5. h[s] = FoldOp(kind, f[s \ {k + 1}], seq[k + 1])  BY <2>3, <3>1
      <4> QED  BY <3>1, <4>2, <4>4, <4>5
    <3>2. CASE k + 1 \notin s
      <4>1. s \in SUBSET (1..k)  BY <2>1, <3>2
      <4>2. h[s] = value(f, s)  BY <2>2, <2>4, <4>1
      <4>3. CASE s = {}  BY <4>2, <4>3
      <4>4. CASE s # {}
        <5>1. s \ {Max(s)} \in SUBSET (1..k)  BY <4>1
        <5>2. h[s \ {Max(s)}] = f[s \ {Max(s)}]  BY <2>4, <5>1
        <5> QED  BY <4>2, <4>4, <5>2
      <4> QED  BY <4>3, <4>4
    <3> QED  BY <3>1, <3>2
  <2>6. Good(h, k + 1)  BY <2>5
  <2> HIDE DEF Good
  <2> QED  BY <2>1, <2>6
<1>3. T = Nat
  <2>1. T \subseteq Nat  OBVIOUS
  <2> HIDE DEF T
  <2> QED  BY <1>1, <1>2, <2>1, Induction
<1>4. PICK f : Good(f, n)  BY <1>3
<1>5. PICK it : it = [s \in SUBSET (1..n) |-> f[s]]  OBVIOUS
<1>6. ASSUME NEW s \in SUBSET (1..n)  PROVE it[s] = value(it, s)
  <2>1. it[s] = value(f, s)  BY <1>4, <1>5
  <2>2. s \ {Max(s)} \in SUBSET (1..n)  OBVIOUS
  <2>3. it[s \ {Max(s)}] = f[s \ {Max(s)}]  BY <1>5, <2>2
  <2> QED  BY <2>1, <2>3
<1>7. it = [s \in SUBSET (1..n) |-> value(it, s)]
  BY <1>5, <1>6
<1> QED  BY <1>7 DEF IsFold

\* A fold takes the elements from the first to the last.
LEMMA FoldRuns ==
    ASSUME NEW kind, NEW base, NEW seq, NEW n \in Nat, DOMAIN seq = 1..n
    PROVE  \E g : FoldRun(g, kind, base, seq, n) /\ Fold(kind, base, seq) = g[n]
<1>1. PICK it : it = CHOOSE f : IsFold(f, kind, base, seq)  OBVIOUS
<1>2. IsFold(it, kind, base, seq)
  BY <1>1, FoldExists
<1>3. \A s \in SUBSET (1..n) : it[s] = IF s = {} THEN base
                          ELSE FoldOp(kind, it[s \ {Max(s)}], seq[Max(s)])
  BY <1>2 DEF IsFold
<1>4. PICK g : g = [k \in 0..n |-> it[1..k]]  OBVIOUS
<1>5. g[0] = base
  <2>1. 1..0 = {} /\ 0 \in 0..n  OBVIOUS
  <2>2. g[0] = it[{}]  BY <1>4, <2>1
  <2>3. {} \in SUBSET (1..n)  OBVIOUS
  <2> QED  BY <1>3, <2>2, <2>3
<1>6. ASSUME NEW k \in 1..n  PROVE g[k] = FoldOp(kind, g[k - 1], seq[k])
  <2>1. /\ 1..k \in SUBSET (1..n) /\ 1..k # {} /\ k \in 0..n /\ k - 1 \in 0..n
        /\ (1..k) \ {k} = 1..(k - 1) /\ k \in 1..k
        /\ 1..k \subseteq Nat /\ \A j \in 1..k : j <= k
    OBVIOUS
  <2>2. Max(1..k) = k  BY <2>1, MaxIs
  <2>3. it[1..k] = FoldOp(kind, it[1..(k - 1)], seq[k])  BY <1>3, <2>1, <2>2
  <2> QED  BY <1>4, <2>1, <2>3
<1>7. Fold(kind, base, seq) = it[1..n]  BY <1>1 DEF Fold
<1>8. g[n] = it[1..n]  BY <1>4
<1> QED  BY <1>5, <1>6, <1>7, <1>8 DEF FoldRun

\* What the loop over the locators has: every address once, with the lowest of
\* the priorities it was announced with.
Best(rlocs, locs, n, k) ==
    /\ rlocs \in Seq([v : {read_rloc(locs[m]).v : m \in 1..n},
                      addr : {read_rloc(locs[m]).addr : m \in 1..n}, priority : Nat])
    /\ \A i, j \in 1..Len(rlocs) : rlocs[i].addr = rlocs[j].addr => i = j
    /\ \A m \in 1..k : \E i \in 1..Len(rlocs) :
          /\ rlocs[i].addr = read_rloc(locs[m]).addr
          /\ rlocs[i].priority <= locs[m].priority
    /\ \A i \in 1..Len(rlocs) : \E m \in 1..k :
          /\ rlocs[i].addr = read_rloc(locs[m]).addr
          /\ rlocs[i].priority = locs[m].priority
    /\ IsFiniteSet({read_rloc(locs[m]).addr : m \in 1..k})
    /\ Len(rlocs) = Cardinality({read_rloc(locs[m]).addr : m \in 1..k})

\* One more locator (plugin_openlisp.c 705-728).
LEMMA AddRlocKeeps ==
    ASSUME NEW n \in Nat, NEW locs, \A m \in 1..n : locs[m].priority \in Nat,
           NEW k \in 0..(n - 1), NEW rlocs, Best(rlocs, locs, n, k),
           NEW new, new = AddRloc(rlocs, locs[k + 1])
    PROVE  Best(new, locs, n, k + 1)
<1> DEFINE addr(m) == read_rloc(locs[m]).addr
           prio(m) == locs[m].priority
           S == [v : {read_rloc(locs[m]).v : m \in 1..n},
                 addr : {addr(m) : m \in 1..n}, priority : Nat]
           hop == read_rloc(locs[k + 1])
<1>0. k \in Nat /\ k + 1 \in 1..n /\ 1..(k + 1) = 1..k \cup {k + 1}  OBVIOUS
<1>1. PICK rloc : rloc = [v |-> hop.v, addr |-> hop.addr, priority |-> locs[k + 1].priority]
  OBVIOUS
<1>2. rloc \in S /\ rloc.addr = addr(k + 1) /\ rloc.priority = prio(k + 1)
  BY <1>0, <1>1
<1>a. rlocs \in Seq(S)  BY DEF Best
<1> HIDE DEF S
<1>3. PICK N \in Nat : N = Len(rlocs)  BY <1>a
<1>4. /\ rlocs \in Seq(S) /\ DOMAIN rlocs = 1..N
      /\ \A i \in 1..N : rlocs[i] \in S
  BY <1>a, <1>3
<1>5. /\ \A i, j \in 1..N : rlocs[i].addr = rlocs[j].addr => i = j
      /\ \A m \in 1..k : \E i \in 1..N :
            rlocs[i].addr = addr(m) /\ rlocs[i].priority <= prio(m)
      /\ \A i \in 1..N : \E m \in 1..k :
            rlocs[i].addr = addr(m) /\ rlocs[i].priority = prio(m)
  BY <1>3 DEF Best
<1>6. PICK A : A = {addr(m) : m \in 1..k}  OBVIOUS
<1>7. IsFiniteSet(A) /\ N = Cardinality(A)  BY <1>3, <1>6 DEF Best
<1>8. {addr(m) : m \in 1..(k + 1)} = A \cup {addr(k + 1)}
  BY <1>0, <1>6
<1>9. /\ IsFiniteSet(A \cup {addr(k + 1)})
      /\ Cardinality(A \cup {addr(k + 1)}) = IF addr(k + 1) \in A THEN N ELSE N + 1
  BY <1>7, FS_AddElement
<1>10. \A m \in 1..n : prio(m) \in Nat  OBVIOUS
<1>11. PICK same : same = {i \in 1..N : rlocs[i].addr = hop.addr}  OBVIOUS
<1>12. addr(k + 1) = hop.addr  OBVIOUS
<1>13. new = IF same = {} THEN Append(rlocs, rloc)
             ELSE [i \in 1..N |-> IF i \in same /\ rlocs[i].priority > prio(k + 1)
                                  THEN rloc ELSE rlocs[i]]
  BY <1>1, <1>3, <1>11 DEF AddRloc
<1>14. same = {} <=> addr(k + 1) \notin A
  BY <1>5, <1>6, <1>11
<1>15. \A i \in 1..N : rlocs[i].priority \in Nat
  BY <1>4 DEF S
<1> DEFINE Fine(M) ==
      /\ new \in Seq(S) /\ Len(new) = M
      /\ \A i, j \in 1..M : new[i].addr = new[j].addr => i = j
      /\ \A m \in 1..(k + 1) : \E i \in 1..M :
            new[i].addr = addr(m) /\ new[i].priority <= prio(m)
      /\ \A i \in 1..M : \E m \in 1..(k + 1) :
            new[i].addr = addr(m) /\ new[i].priority = prio(m)
      /\ M = Cardinality(A \cup {addr(k + 1)})
<1> HIDE DEF addr, prio, hop
<1>16. CASE same = {}
  <2>1. new = Append(rlocs, rloc)  BY <1>13, <1>16
  <2>2. /\ new \in Seq(S) /\ Len(new) = N + 1
        /\ \A i \in 1..N : new[i] = rlocs[i]
        /\ new[N + 1] = rloc
    BY <1>2, <1>3, <1>4, <2>1
  <2>3. 1..(N + 1) = 1..N \cup {N + 1}  OBVIOUS
  <2>4. \A i \in 1..N : rlocs[i].addr # rloc.addr
    BY <1>2, <1>11, <1>12, <1>16
  <2>5. \A i, j \in 1..(N + 1) : new[i].addr = new[j].addr => i = j
    BY <1>5, <2>2, <2>3, <2>4
  <2>6. ASSUME NEW m \in 1..(k + 1)
        PROVE  \E i \in 1..(N + 1) : new[i].addr = addr(m) /\ new[i].priority <= prio(m)
    <3>1. CASE m = k + 1
      <4>1. N + 1 \in 1..(N + 1)  OBVIOUS
      <4>2. PICK x \in Nat : x = prio(m)  BY <1>0, <1>10, <3>1
      <4>3. new[N + 1].addr = addr(m) /\ new[N + 1].priority = x
        BY <1>2, <2>2, <3>1, <4>2
      <4>4. x <= prio(m)  BY <4>2
      <4> QED  BY <4>1, <4>3, <4>4
    <3>2. CASE m \in 1..k
      <4>1. PICK i \in 1..N : rlocs[i].addr = addr(m) /\ rlocs[i].priority <= prio(m)
        BY <1>5, <3>2
      <4>2. new[i] = rlocs[i] /\ i \in 1..(N + 1)  BY <2>2, <2>3
      <4> QED  BY <4>1, <4>2
    <3> QED  BY <1>0, <3>1, <3>2
  <2>7. ASSUME NEW i \in 1..(N + 1)
        PROVE  \E m \in 1..(k + 1) : new[i].addr = addr(m) /\ new[i].priority = prio(m)
    <3>1. CASE i = N + 1
      BY <1>0, <1>2, <2>2, <3>1
    <3>2. CASE i \in 1..N
      <4>1. PICK m \in 1..k : rlocs[i].addr = addr(m) /\ rlocs[i].priority = prio(m)
        BY <1>5, <3>2
      <4> QED  BY <1>0, <2>2, <3>2, <4>1
    <3> QED  BY <2>3, <3>1, <3>2
  <2>8. N + 1 = Cardinality(A \cup {addr(k + 1)})  BY <1>9, <1>14, <1>16
  <2>9. Fine(N + 1)  BY <2>2, <2>5, <2>6, <2>7, <2>8
  <2> QED  BY <1>8, <1>9, <2>9 DEF Best, S, addr, prio
<1>17. CASE same # {}
  <2>1. new = [i \in 1..N |-> IF i \in same /\ rlocs[i].priority > prio(k + 1)
                              THEN rloc ELSE rlocs[i]]
    BY <1>13, <1>17
  <2>2. \A i \in 1..N : /\ new[i] \in S
                        /\ new[i] = rlocs[i] \/ (i \in same /\ new[i] = rloc)
    BY <1>2, <1>4, <2>1
  <2>3. new \in Seq(S) /\ Len(new) = N
    <3>1. new \in [1..N -> S]  BY <2>1, <2>2, Zenon
    <3> QED  BY <3>1
  <2>4. \A i \in 1..N : new[i].addr = rlocs[i].addr
    BY <1>2, <1>11, <1>12, <2>2
  <2>5. \A i, j \in 1..N : new[i].addr = new[j].addr => i = j
    BY <1>5, <2>4
  <2>6. ASSUME NEW i \in 1..N
        PROVE  /\ new[i].priority <= rlocs[i].priority
               /\ i \in same => new[i].priority <= prio(k + 1)
    <3>1. rlocs[i].priority \in Nat /\ prio(k + 1) \in Nat  BY <1>0, <1>10, <1>15
    <3>2. new[i] = IF i \in same /\ rlocs[i].priority > prio(k + 1)
                   THEN rloc ELSE rlocs[i]
      BY <2>1
    <3> QED  BY <1>2, <3>1, <3>2
  <2>7. ASSUME NEW m \in 1..(k + 1)
        PROVE  \E i \in 1..N : new[i].addr = addr(m) /\ new[i].priority <= prio(m)
    <3>1. CASE m = k + 1
      <4>1. PICK i \in same : TRUE  BY <1>17
      <4>2. i \in 1..N /\ rlocs[i].addr = addr(k + 1)  BY <1>11, <1>12
      <4> QED  BY <2>4, <2>6, <3>1, <4>2
    <3>2. CASE m \in 1..k
      <4>1. PICK i \in 1..N : rlocs[i].addr = addr(m) /\ rlocs[i].priority <= prio(m)
        BY <1>5, <3>2
      <4>2. PICK x \in Nat, y \in Nat, z \in Nat :
              x = new[i].priority /\ y = rlocs[i].priority /\ z = prio(m)
        <5>1. new[i].priority \in Nat  BY <2>2 DEF S
        <5> QED  BY <1>0, <1>10, <1>15, <5>1
      <4>3. x <= z  BY <2>6, <4>1, <4>2
      <4> QED  BY <2>4, <4>1, <4>2, <4>3
    <3> QED  BY <1>0, <3>1, <3>2
  <2>8. ASSUME NEW i \in 1..N
        PROVE  \E m \in 1..(k + 1) : new[i].addr = addr(m) /\ new[i].priority = prio(m)
    <3>1. CASE new[i] = rloc
      BY <1>0, <1>2, <3>1
    <3>2. CASE new[i] = rlocs[i]
      <4>1. PICK m \in 1..k : rlocs[i].addr = addr(m) /\ rlocs[i].priority = prio(m)
        BY <1>5
      <4> QED  BY <1>0, <3>2, <4>1
    <3> QED  BY <2>2, <3>1, <3>2
  <2>9. N = Cardinality(A \cup {addr(k + 1)})  BY <1>9, <1>14, <1>17
  <2>10. Fine(N)  BY <2>3, <2>5, <2>7, <2>8, <2>9
  <2> QED  BY <1>8, <1>9, <2>10 DEF Best, S, addr, prio
<1> QED  BY <1>16, <1>17

\* The loop over the locators of a record (plugin_openlisp.c 700-731).
LEMMA LocatorsBest ==
    ASSUME NEW n \in Nat, NEW locs, DOMAIN locs = 1..n,
           \A m \in 1..n : locs[m].priority \in Nat
    PROVE  Best(Fold("locators", <<>>, locs), locs, n, n)
<1>1. PICK g : /\ FoldRun(g, "locators", <<>>, locs, n)
               /\ Fold("locators", <<>>, locs) = g[n]
  BY FoldRuns
<1>2. g[0] = <<>> /\ \A k \in 1..n : g[k] = AddRloc(g[k - 1], locs[k])
  BY <1>1 DEF FoldRun, FoldOp
<1> DEFINE T == {k \in Nat : k <= n => Best(g[k], locs, n, k)}
<1>3. 0 \in T
  <2>1. {read_rloc(locs[m]).addr : m \in 1..0} = {} /\ 1..0 = {}  OBVIOUS
  <2>2. <<>> \in Seq([v : {read_rloc(locs[m]).v : m \in 1..n},
                      addr : {read_rloc(locs[m]).addr : m \in 1..n}, priority : Nat])
    OBVIOUS
  <2>3. Len(<<>>) = 0  OBVIOUS
  <2> QED  BY <1>2, <2>1, <2>2, <2>3, FS_EmptySet DEF Best
<1>4. ASSUME NEW k \in T  PROVE k + 1 \in T
  <2>1. k \in Nat  BY <1>4
  <2> SUFFICES ASSUME k + 1 <= n PROVE Best(g[k + 1], locs, n, k + 1)  BY <2>1
  <2>2. k \in 0..(n - 1) /\ k + 1 \in 1..n /\ (k + 1) - 1 = k  BY <2>1
  <2>3. Best(g[k], locs, n, k)  BY <1>4, <2>1
  <2>4. g[k + 1] = AddRloc(g[k], locs[k + 1])  BY <1>2, <2>2
  <2> QED  BY <2>2, <2>3, <2>4, AddRlocKeeps
<1>5. T = Nat
  <2>1. T \subseteq Nat  OBVIOUS
  <2> HIDE DEF T
  <2> QED  BY <1>3, <1>4, <2>1, Induction
<1> QED  BY <1>1, <1>5

\* What read_rec writes for a record.
Entry(rec) ==
    LET rlocs == FoldLeft(AddRloc, <<>>, rec.locs)
    IN  IF rlocs = <<>> /\ conf.petr THEN PetrRlocs ELSE rlocs

\* The least of some naturals.
LEMMA MinIs ==
    ASSUME NEW s, s \subseteq Nat, NEW m \in s, \A k \in s : m <= k
    PROVE  Min(s) = m
<1>1. \A x \in s : (\A y \in s : x =< y) => x = m
  BY SMT
<1>2. \A y \in s : m =< y
  BY SMT
<1> QED  BY <1>1, <1>2 DEF Min

\* A record's entry is what the record announces (plugin_openlisp.c 705-728).
LEMMA EntryAnnounces ==
    ASSUME NEW rec \in Record
    PROVE  Announces(rec, Entry(rec))
<1> DEFINE addr(m) == read_rloc(rec.locs[m]).addr
           prio(m) == rec.locs[m].priority
<1>1. PICK F : F = FoldLeft(AddRloc, <<>>, rec.locs)  OBVIOUS
<1>2. PICK locs : locs = rec.locs  OBVIOUS
<1>3. locs \in Seq(Locator)  BY <1>2 DEF Record
<1>4. PICK n \in Nat : n = Len(locs) /\ DOMAIN locs = 1..n
  BY <1>3
<1>5. \A m \in 1..n : locs[m].priority \in Nat
  <2>1. \A m \in 1..n : locs[m] \in Locator  BY <1>3, <1>4
  <2>2. ASSUME NEW x \in Locator  PROVE x.priority \in Nat
    <3>1. x.priority \in 0..255  BY DEF Locator
    <3> QED  BY <3>1
  <2> QED  BY <2>1, <2>2
<1>6. Best(F, locs, n, n)
  <2>1. F = Fold("locators", <<>>, locs)  BY <1>1, <1>2, LocatorsIsFold
  <2> QED  BY <1>4, <1>5, <2>1, LocatorsBest
<1>a. PICK U : U = [v : {read_rloc(locs[m]).v : m \in 1..n},
                    addr : {read_rloc(locs[m]).addr : m \in 1..n}, priority : Nat]
  OBVIOUS
<1>b. F \in Seq(U)  BY <1>6, <1>a DEF Best
<1>7. PICK N \in Nat : N = Len(F)  BY <1>b
<1>8. Entry(rec) = IF F = <<>> /\ conf.petr THEN PetrRlocs ELSE F
  BY <1>1 DEF Entry
<1>9. CASE locs = <<>>
  <2>1. n = 0 /\ 1..n = {}  BY <1>4, <1>9
  <2>2. N = 0
    <3>1. \A i \in 1..N : \E m \in 1..n : TRUE  BY <1>6, <1>7 DEF Best
    <3>2. N # 0 => 1 \in 1..N  OBVIOUS
    <3> QED  BY <2>1, <3>1, <3>2
  <2>3. F = <<>>  BY <1>b, <1>7, <2>2, EmptySeq
  <2> QED  BY <1>2, <1>8, <1>9, <2>3 DEF Announces
<1>10. CASE locs # <<>>
  <2>1. 1 \in 1..n
    <3>1. n # 0  BY <1>3, <1>4, <1>10
    <3> QED  BY <3>1
  <2>2. F # <<>>
    <3>1. \E i \in 1..N : TRUE  BY <1>6, <1>7, <2>1 DEF Best
    <3>2. N # 0  BY <3>1
    <3> QED  BY <1>7, <3>2
  <2>3. N = Cardinality({addr(m) : m \in 1..n})  BY <1>2, <1>6, <1>7 DEF Best
  <2>4. ASSUME NEW a \in {addr(m) : m \in 1..n}
        PROVE  \E i \in 1..N :
                 /\ F[i].addr = a
                 /\ F[i].priority = Min({prio(x) : x \in {m \in 1..n : addr(m) = a}})
    <3>1. PICK m \in 1..n : a = addr(m)  OBVIOUS
    <3>2. PICK i \in 1..N : F[i].addr = a
      BY <1>2, <1>6, <1>7, <3>1 DEF Best
    <3>3. PICK ps : ps = {prio(x) : x \in {y \in 1..n : addr(y) = a}}  OBVIOUS
    <3>4. ps \subseteq Nat  BY <1>2, <1>5, <3>3
    <3>5. F[i].priority \in ps
      <4>1. PICK y \in 1..n : F[i].addr = addr(y) /\ F[i].priority = prio(y)
        BY <1>2, <1>6, <1>7 DEF Best
      <4> QED  BY <3>2, <3>3, <4>1
    <3>6. ASSUME NEW q \in ps  PROVE F[i].priority <= q
      <4>1. PICK y \in 1..n : addr(y) = a /\ q = prio(y)  BY <3>3
      <4>2. PICK j \in 1..N : F[j].addr = a /\ F[j].priority <= q
        BY <1>2, <1>6, <1>7, <4>1 DEF Best
      <4>3. j = i  BY <1>6, <1>7, <3>2, <4>2 DEF Best
      <4> QED  BY <4>2, <4>3
    <3>7. Min(ps) = F[i].priority  BY <3>4, <3>5, <3>6, MinIs
    <3> QED  BY <3>2, <3>3, <3>7
  <2>5. Entry(rec) = F  BY <1>8, <2>2
  <2> QED  BY <1>2, <1>4, <1>7, <1>10, <2>3, <2>4, <2>5 DEF Announces
<1> QED  BY <1>9, <1>10

\* A table after the loop over the records has old entries and entries of the
\* records, none of them refused (plugin_openlisp.c 793-799).
LEMMA ReadRecords ==
    ASSUME NEW table, NEW recs \in Seq(Record),
           NEW p \in DOMAIN read_records(table, recs)
    PROVE  \/ p \in DOMAIN table /\ read_records(table, recs)[p] = table[p]
           \/ \E j \in 1..Len(recs) :
                /\ ~Refused(recs[j]) /\ opl_add_mapp(recs[j].eid) = p
                /\ read_records(table, recs)[p] = Entry(recs[j])
<1> DEFINE bad == {k \in 1..Len(recs) : Refused(recs[k])}
           n == IF bad = {} THEN Len(recs) ELSE Min(bad) - 1
<1>1. PICK N \in Nat : N = Len(recs)  OBVIOUS
<1>2. n \in 0..N /\ \A j \in 1..n : ~Refused(recs[j])
  <2>1. CASE bad = {}
    BY <1>1, <2>1
  <2>2. CASE bad # {}
    <3>1. bad \subseteq Nat  BY <1>1
    <3>2. PICK m \in bad : \A k \in bad : m <= k  BY <2>2, <3>1, LeastNat
    <3>3. Min(bad) = m  BY <3>1, <3>2, MinIs
    <3>4. n = m - 1 /\ m \in 1..N  BY <1>1, <2>2, <3>3
    <3> HIDE DEF n
    <3>5. ASSUME NEW j \in 1..(m - 1) PROVE ~Refused(recs[j])
      <4>1. j \in 1..N /\ ~(m <= j)  BY <3>4
      <4>2. j \notin bad  BY <3>2, <4>1
      <4> QED  BY <1>1, <4>1, <4>2
    <3> QED  BY <3>4, <3>5
  <2> QED  BY <2>1, <2>2
<1>3. PICK c \in 0..N : c = n  BY <1>2
<1> HIDE DEF n
<1>4. PICK seq : seq = SubSeq(recs, 1, c)  OBVIOUS
<1>5. DOMAIN seq = 1..c /\ \A j \in 1..c : seq[j] = recs[j]
  BY <1>1, <1>3, <1>4
<1>6. read_records(table, recs) = Fold("records", table, seq)
  <2>1. read_records(table, recs) = FoldLeft(read_rec, table, seq)
    BY <1>3, <1>4 DEF read_records, n
  <2> QED  BY <2>1, RecordsIsFold
<1>7. PICK g : FoldRun(g, "records", table, seq, c) /\ read_records(table, recs) = g[c]
  BY <1>3, <1>5, <1>6, FoldRuns
<1>8. g[0] = table /\ \A k \in 1..c : g[k] = read_rec(g[k - 1], recs[k])
  BY <1>5, <1>7 DEF FoldRun, FoldOp
<1> DEFINE From(k, q) ==
      \/ q \in DOMAIN table /\ g[k][q] = table[q]
      \/ \E j \in 1..k : opl_add_mapp(recs[j].eid) = q /\ g[k][q] = Entry(recs[j])
           T == {k \in Nat : k <= c => \A q \in DOMAIN g[k] : From(k, q)}
<1>9. 0 \in T
  BY <1>8
<1>10. ASSUME NEW k \in T  PROVE k + 1 \in T
  <2>1. k \in Nat  BY <1>10
  <2> SUFFICES ASSUME k + 1 <= c, NEW q \in DOMAIN g[k + 1]  PROVE From(k + 1, q)
    BY <2>1
  <2>2. k + 1 \in 1..c /\ (k + 1) - 1 = k /\ k + 1 \in 1..(k + 1) /\ 1..k \subseteq 1..(k + 1)
    BY <1>3, <2>1
  <2>3. \A x \in DOMAIN g[k] : From(k, x)  BY <1>3, <1>10, <2>1
  <2>4. g[k + 1] = read_rec(g[k], recs[k + 1])  BY <1>8, <2>2
  <2>5. PICK key : key = opl_add_mapp(recs[k + 1].eid)  OBVIOUS
  <2>6. g[k + 1] = [x \in DOMAIN g[k] \cup {key} |->
                      IF x \in DOMAIN g[k] THEN g[k][x] ELSE Entry(recs[k + 1])]
    BY <2>4, <2>5 DEF read_rec, opl_add, kernel_add, Entry
  <2>7. CASE q \in DOMAIN g[k]
    <3>1. g[k + 1][q] = g[k][q]  BY <2>6, <2>7
    <3>2. From(k, q)  BY <2>3, <2>7
    <3> QED  BY <2>2, <3>1, <3>2
  <2>8. CASE q \notin DOMAIN g[k]
    <3>1. q = key /\ g[k + 1][q] = Entry(recs[k + 1])  BY <2>6, <2>8
    <3> QED  BY <2>2, <2>5, <3>1
  <2> QED  BY <2>7, <2>8
<1>11. T = Nat
  <2>1. T \subseteq Nat  OBVIOUS
  <2> HIDE DEF T
  <2> QED  BY <1>9, <1>10, <2>1, Induction
<1>12. From(c, p)
  <2>1. c \in Nat /\ c <= c  BY <1>3
  <2> QED  BY <1>7, <1>11, <2>1
<1>13. 1..c \subseteq 1..Len(recs)  BY <1>1, <1>3
<1> QED  BY <1>2, <1>3, <1>7, <1>12, <1>13

----------------------------------------------------------------------------
\* The default prefix and the host with the address 0, which the kernel is given
\* alike (plugin_openlisp.c 1100-1151), are not both local.
NoZeroHostBesideDefault ==
    ~(<<>> \in DOMAIN etr_db /\ [b \in 1..Width |-> 0] \in DOMAIN etr_db)

\* Then different prefixes are different entries of the kernel.
LEMMA KeysDiffer ==
    ASSUME NoZeroHostBesideDefault, NEW p \in DOMAIN etr_db, NEW q \in DOMAIN etr_db,
           opl_add_mapp(p) = opl_add_mapp(q)
    PROVE  p = q
<1>1. PICK W \in Nat \ {0} : W = Width  BY OpenLispAssumption, Zenon
<1>2. DOMAIN etr_db \subseteq EidPrefix  BY OpenLispAssumption, Zenon
<1>3. PICK m \in 0..W, n \in 0..W : p \in [1..m -> {0, 1}] /\ q \in [1..n -> {0, 1}]
  BY <1>1, <1>2 DEF EidPrefix, BoundedSeq, SeqOf
<1>4. Len(p) = m /\ Len(q) = n  BY <1>3
<1> DEFINE padded(x, k) == [b \in 1..W |-> IF b <= k THEN x[b] ELSE 0]
<1>5. /\ opl_add_mapp(p) = IF m \in 1..(W - 1) THEN p ELSE padded(p, m)
      /\ opl_add_mapp(q) = IF n \in 1..(W - 1) THEN q ELSE padded(q, n)
  BY <1>1, <1>4 DEF opl_add_mapp
<1>6. \A i, j \in 0..W : 1..i = 1..j => i = j
  <2> SUFFICES ASSUME NEW i \in 0..W, NEW j \in 0..W, 1..i = 1..j, i < j PROVE FALSE
    OBVIOUS
  <2>1. j \in 1..j /\ j \notin 1..i  OBVIOUS
  <2> QED  BY <2>1
<1>7. ASSUME NEW x, NEW k \in 0..W, x \in [1..k -> {0, 1}], k \notin 1..(W - 1)
      PROVE  /\ DOMAIN padded(x, k) = 1..W
             /\ \/ k = W /\ padded(x, k) = x
                \/ x = <<>> /\ padded(x, k) = [b \in 1..W |-> 0]
  <2>1. k = 0 \/ k = W  BY <1>7
  <2>2. CASE k = W
    <3>1. \A b \in 1..W : padded(x, k)[b] = x[b]  BY <2>2
    <3>2. padded(x, k) = x  BY <1>7, <2>2, <3>1
    <3> QED  BY <2>2, <3>2
  <2>3. CASE k = 0
    <3>1. x = <<>>
      <4>1. Len(x) = 0  BY <1>7, <2>3
      <4>2. x \in Seq({0, 1})  BY <1>7
      <4> QED  BY <4>1, <4>2, EmptySeq
    <3>2. \A b \in 1..W : padded(x, k)[b] = 0  BY <2>3
    <3>3. padded(x, k) = [b \in 1..W |-> 0]  BY <3>2
    <3> QED  BY <2>3, <3>1, <3>3
  <2> QED  BY <2>1, <2>2, <2>3
<1> HIDE DEF padded
<1>8. CASE m \in 1..(W - 1) /\ n \in 1..(W - 1)
  BY <1>5, <1>8
<1>9. CASE m \in 1..(W - 1) /\ n \notin 1..(W - 1)
  <2>1. 1..m = 1..W  BY <1>3, <1>5, <1>7, <1>9
  <2> QED  BY <1>6, <1>9, <2>1
<1>10. CASE m \notin 1..(W - 1) /\ n \in 1..(W - 1)
  <2>1. 1..n = 1..W  BY <1>3, <1>5, <1>7, <1>10
  <2> QED  BY <1>6, <1>10, <2>1
<1>11. CASE m \notin 1..(W - 1) /\ n \notin 1..(W - 1)
  <2>1. padded(p, m) = padded(q, n)  BY <1>5, <1>11
  <2>2. \/ m = W /\ padded(p, m) = p
        \/ p = <<>> /\ padded(p, m) = [b \in 1..W |-> 0]
    BY <1>3, <1>7, <1>11
  <2>3. \/ n = W /\ padded(q, n) = q
        \/ q = <<>> /\ padded(q, n) = [b \in 1..W |-> 0]
    BY <1>3, <1>7, <1>11
  <2> QED  BY <1>1, <2>1, <2>2, <2>3 DEF NoZeroHostBesideDefault
<1> QED  BY <1>8, <1>9, <1>10, <1>11

\* SetToSeq lists the members of a finite set, each once.
LEMMA Listed ==
    ASSUME NEW S, IsFiniteSet(S)
    PROVE  \E n \in Nat :
             /\ DOMAIN SetToSeq(S) = 1..n
             /\ \A k \in 1..n : SetToSeq(S)[k] \in S
             /\ \A x \in S : \E k \in 1..n : SetToSeq(S)[k] = x
             /\ \A j, k \in 1..n : SetToSeq(S)[j] = SetToSeq(S)[k] => j = k
<1>1. PICK n \in Nat : n = Cardinality(S)  BY FS_CardinalityType
<1>2. \E f \in [1..n -> S] : IsInjective(f)
  <2>1. ExistsBijection(1..n, S)  BY <1>1, FS_CardinalityType
  <2> QED  BY <2>1 DEF ExistsBijection, Bijection, Injection, IsInjective
<1>3. PICK f : f = SetToSeq(S)  OBVIOUS
<1>4. f \in [1..n -> S] /\ IsInjective(f)
  BY <1>1, <1>2, <1>3 DEF SetToSeq
<1>5. f \in Injection(1..n, S)  BY <1>4 DEF Injection
<1>6. Cardinality(1..n) = n
  <2>1. 1 \in Int /\ n \in Int  OBVIOUS
  <2>2. Cardinality(1..n) = IF 1 > n THEN 0 ELSE n - 1 + 1  BY <2>1, FS_Interval
  <2> QED  BY <2>2
<1>7. f \in Surjection(1..n, S)  BY <1>1, <1>5, <1>6, FS_Injection
<1>8. \A x \in S : \E k \in 1..n : f[k] = x  BY <1>7 DEF Surjection
<1> QED  BY <1>3, <1>4, <1>8 DEF IsInjective

\* The entry of a local mapping.
LocalEntry(p) == IF etr_db[p] = <<>> /\ conf.petr THEN PetrRlocs ELSE etr_db[p]

\* opl_update leaves one entry for p, whatever was there.
IsUpdate(new, table, p, key) ==
    new = [q \in DOMAIN table \cup {key} |->
             IF q = key THEN LocalEntry(p) ELSE table[q]]

\* That is what it does (plugin_openlisp.c 1391-1398).
LEMMA UpdateShape ==
    ASSUME NEW table, NEW p, NEW key, key = opl_add_mapp(p),
           NEW new, new = opl_update(table, p, etr_db[p])
    PROVE  IsUpdate(new, table, p, key)
<1>1. PICK left : left = [q \in DOMAIN table \ {key} |-> table[q]]  OBVIOUS
<1>2. DOMAIN left = DOMAIN table \ {key}  BY <1>1
<1>3. new = [q \in DOMAIN left \cup {key} |->
               IF q \in DOMAIN left THEN left[q] ELSE LocalEntry(p)]
  BY <1>1 DEF opl_update, opl_add, opl_del, kernel_add, kernel_delete, LocalEntry
<1>4. DOMAIN left \cup {key} = DOMAIN table \cup {key}  BY <1>2
<1>5. \A q \in DOMAIN left : q # key /\ left[q] = table[q]  BY <1>1, <1>2
<1>6. \A q \in DOMAIN table \cup {key} : q \notin DOMAIN left <=> q = key  BY <1>2
<1> QED  BY <1>3, <1>4, <1>5, <1>6 DEF IsUpdate

\* It leaves the others.
LEMMA UpdateKeeps ==
    ASSUME NEW table, NEW p, NEW new, new = opl_update(table, p, etr_db[p]),
           NEW q \in DOMAIN table, q # opl_add_mapp(p)
    PROVE  q \in DOMAIN new /\ new[q] = table[q]
<1>1. PICK key : key = opl_add_mapp(p)  OBVIOUS
<1>2. IsUpdate(new, table, p, key)  BY <1>1, UpdateShape
<1> QED  BY <1>1, <1>2 DEF IsUpdate

\* And it sets its own.
LEMMA UpdateSets ==
    ASSUME NEW table, NEW p, NEW new, new = opl_update(table, p, etr_db[p])
    PROVE  opl_add_mapp(p) \in DOMAIN new /\ new[opl_add_mapp(p)] = LocalEntry(p)
<1>1. PICK key : key = opl_add_mapp(p)  OBVIOUS
<1>2. IsUpdate(new, table, p, key)  BY <1>1, UpdateShape
<1> QED  BY <1>1, <1>2 DEF IsUpdate

\* The loop over the local mappings (plugin_openlisp.c 961-972) installs them all.
LEMMA LocalsFold ==
    ASSUME NoZeroHostBesideDefault, NEW table, NEW new,
           new = Fold("local", table, SetToSeq(DOMAIN etr_db)),
           NEW p \in DOMAIN etr_db
    PROVE  opl_add_mapp(p) \in DOMAIN new /\ new[opl_add_mapp(p)] = LocalEntry(p)
<1>1. PICK ps : ps = SetToSeq(DOMAIN etr_db)  OBVIOUS
<1>2. IsFiniteSet(DOMAIN etr_db)  BY OpenLispAssumption, Zenon
<1>3. PICK n \in Nat : /\ DOMAIN ps = 1..n
                       /\ \A k \in 1..n : ps[k] \in DOMAIN etr_db
                       /\ \A x \in DOMAIN etr_db : \E k \in 1..n : ps[k] = x
                       /\ \A j, k \in 1..n : ps[j] = ps[k] => j = k
  BY <1>1, <1>2, Listed
<1>4. new = Fold("local", table, ps)  BY <1>1
<1>5. PICK g : FoldRun(g, "local", table, ps, n) /\ new = g[n]
  BY <1>3, <1>4, FoldRuns
<1>6. \A k \in 1..n : g[k] = opl_update(g[k - 1], ps[k], etr_db[ps[k]])
  BY <1>5 DEF FoldRun, FoldOp
<1> DEFINE Has(t, q) == opl_add_mapp(q) \in DOMAIN t /\ t[opl_add_mapp(q)] = LocalEntry(q)
           T == {k \in Nat : k <= n => \A j \in 1..k : Has(g[k], ps[j])}
<1>7. 0 \in T  OBVIOUS
<1>8. ASSUME NEW k \in T  PROVE k + 1 \in T
  <2>1. k \in Nat  BY <1>8
  <2> SUFFICES ASSUME k + 1 <= n, NEW j \in 1..(k + 1)  PROVE Has(g[k + 1], ps[j])
    BY <2>1
  <2>2. k + 1 \in 1..n /\ (k + 1) - 1 = k /\ j \in 1..n  BY <2>1
  <2>3. g[k + 1] = opl_update(g[k], ps[k + 1], etr_db[ps[k + 1]])  BY <1>6, <2>2
  <2>4. CASE j = k + 1
    BY <2>3, <2>4, UpdateSets
  <2>5. CASE j # k + 1
    <3>1. j \in 1..k  BY <2>1, <2>5
    <3>2. Has(g[k], ps[j])  BY <1>8, <2>1, <3>1
    <3>3. ps[j] # ps[k + 1]  BY <1>3, <2>2, <2>5
    <3>4. opl_add_mapp(ps[j]) # opl_add_mapp(ps[k + 1])
      BY <1>3, <2>2, <3>3, KeysDiffer
    <3>5. PICK t, q, u, key :
            /\ t = g[k] /\ q = ps[k + 1] /\ u = g[k + 1]
            /\ key = opl_add_mapp(ps[j])
      OBVIOUS
    <3>6. u = opl_update(t, q, etr_db[q]) /\ key \in DOMAIN t /\ key # opl_add_mapp(q)
      BY <2>3, <3>2, <3>4, <3>5
    <3>7. key \in DOMAIN u /\ u[key] = t[key]
      BY <3>6, UpdateKeeps
    <3> QED  BY <3>2, <3>5, <3>7
  <2> QED  BY <2>4, <2>5
<1>9. T = Nat
  <2>1. T \subseteq Nat  OBVIOUS
  <2> HIDE DEF T
  <2> QED  BY <1>7, <1>8, <2>1, Induction
<1>10. PICK j \in 1..n : ps[j] = p  BY <1>3
<1>11. Has(g[n], ps[j])  BY <1>9
<1> QED  BY <1>5, <1>10, <1>11

\* Once the plugin runs, the kernel's database has every mapping of the
\* configuration, whatever an earlier process left there, provided that the
\* default prefix and the host 0 are not both local (plugin_openlisp.c 961-972).
THEOREM OpenLispLocals == NoZeroHostBesideDefault => (Spec => []LocalsInstalled)
<1> SUFFICES ASSUME NoZeroHostBesideDefault PROVE Spec => []LocalsInstalled  OBVIOUS
<1>1. Init => LocalsInstalled
  BY DEF Init, LocalsInstalled
<1>2. LocalsInstalled /\ [Next]_vars => LocalsInstalled'
  <2> SUFFICES ASSUME LocalsInstalled, [Next]_vars  PROVE LocalsInstalled'  OBVIOUS
  <2>1. CASE plugin_openlisp
    <3> SUFFICES ASSUME conf'.fncs # {}, NEW p \in DOMAIN etr_db
                 PROVE  /\ opl_add_mapp(p) \in DOMAIN database'
                        /\ database'[opl_add_mapp(p)] =
                             (IF etr_db[p] = <<>> /\ conf'.petr THEN PetrRlocs ELSE etr_db[p])
      BY DEF LocalsInstalled, opl_add_mapp
    <3>1. conf' = conf /\ conf.fncs # {}  BY <2>1 DEF plugin_openlisp
    <3>2. database' = Fold("local", database, SetToSeq(DOMAIN etr_db))
      BY <2>1, <3>1 DEF plugin_openlisp, FoldLeft, MapThenFoldSet, Fold, IsFold, FoldOp
    <3>3. /\ opl_add_mapp(p) \in DOMAIN database'
          /\ database'[opl_add_mapp(p)] = LocalEntry(p)
      BY <3>2, LocalsFold
    <3> QED  BY <3>1, <3>3 DEF LocalEntry
  <2>2. ASSUME UNCHANGED <<conf, process, database>>  PROVE LocalsInstalled'
    BY <2>2 DEF LocalsInstalled, opl_add_mapp
  <2>3. CASE \E eid \in Eids : map_message_handler(eid)
    BY <2>2, <2>3 DEF map_message_handler, tables
  <2>4. CASE Wakes \/ Retry \/ Tick
    BY <2>2, <2>4 DEF Wakes, Retry, Tick, tables
  <2>5. CASE \E q \in DOMAIN opened, recs \in Replies, i \in Slot : read_mr(i, q, recs)
    BY <2>2, <2>5 DEF read_mr, tables
  <2>6. CASE \E q \in DOMAIN opened, recs \in Replies : get_mr(q, recs)
    BY <2>2, <2>6 DEF get_mr, tables
  <2>7. CASE UNCHANGED vars
    BY <2>2, <2>7 DEF vars
  <2> QED  BY <2>1, <2>3, <2>4, <2>5, <2>6, <2>7 DEF Next
<1> QED  BY <1>1, <1>2, PTL DEF Spec

\* What a record means depends on the configuration alone.
LEMMA SameConf ==
    ASSUME conf' = conf, NEW rec, NEW value
    PROVE  /\ Refused(rec)' <=> Refused(rec)
           /\ Announces(rec, value)' <=> Announces(rec, value)
<1>1. ASSUME NEW hops, NEW k  PROVE StopsAt(hops, k)' <=> StopsAt(hops, k)
  BY DEF StopsAt, is_my_addr
<1>2. ASSUME NEW hops  PROVE elp_hop(hops)' = elp_hop(hops)
  <2>1. {k \in 1..Len(hops) : StopsAt(hops, k)'} = {k \in 1..Len(hops) : StopsAt(hops, k)}
    BY <1>1
  <2> QED  BY <2>1 DEF elp_hop
<1>3. ASSUME NEW loc  PROVE read_rloc(loc)' = read_rloc(loc)
  BY <1>2 DEF read_rloc
<1>4. Refused(rec)' <=> Refused(rec)
  BY <1>3 DEF Refused
<1>5. {read_rloc(rec.locs[k])'.addr : k \in 1..Len(rec.locs)}
        = {read_rloc(rec.locs[k]).addr : k \in 1..Len(rec.locs)}
  BY <1>3
<1>6. ASSUME NEW a
      PROVE  {m \in 1..Len(rec.locs) : read_rloc(rec.locs[m])'.addr = a}
               = {m \in 1..Len(rec.locs) : read_rloc(rec.locs[m]).addr = a}
  BY <1>3
<1> DEFINE A == {read_rloc(rec.locs[k]).addr : k \in 1..Len(rec.locs)}
           least(a) == Min({rec.locs[n].priority : n \in
                              {m \in 1..Len(rec.locs) : read_rloc(rec.locs[m]).addr = a}})
           primed(a) == Min({rec.locs[n].priority : n \in
                              {m \in 1..Len(rec.locs) : read_rloc(rec.locs[m])'.addr = a}})
<1>7. \A a : primed(a) = least(a)
  BY <1>6
<1>8. Announces(rec, value) <=>
        IF rec.locs = <<>> THEN value = IF conf.petr THEN PetrRlocs ELSE <<>>
        ELSE /\ Len(value) = Cardinality(A)
             /\ \A a \in A : \E k \in 1..Len(value) :
                  value[k].addr = a /\ value[k].priority = least(a)
  BY DEF Announces
<1>9. Announces(rec, value)' <=>
        IF rec.locs = <<>> THEN value = IF conf'.petr THEN PetrRlocs ELSE <<>>
        ELSE /\ Len(value) = Cardinality(A)
             /\ \A a \in A : \E k \in 1..Len(value) :
                  value[k].addr = a /\ value[k].priority = primed(a)
  BY <1>5 DEF Announces
<1> HIDE DEF A, least, primed
<1>10. Announces(rec, value)' <=> Announces(rec, value)
  BY <1>7, <1>8, <1>9
<1> QED  BY <1>4, <1>10

\* Every entry of the kernel's cache is that of a record some Map-Reply announced
\* and the plugin did not refuse, with each address once and the best priority
\* announced for it (plugin_openlisp.c 705-728).
THEOREM OpenLispCache == Spec => []CacheAsAnnounced
<1>1. Init => CacheAsAnnounced
  BY DEF Init, CacheAsAnnounced
<1> DEFINE Right(p, value) ==
      \E rec \in UNION {ToSet(recs) : recs \in Replies} :
         ~Refused(rec) /\ opl_add_mapp(rec.eid) = p /\ Announces(rec, value)
<1>2. CacheAsAnnounced /\ [Next]_vars => CacheAsAnnounced'
  <2> SUFFICES ASSUME CacheAsAnnounced, [Next]_vars  PROVE CacheAsAnnounced'  OBVIOUS
  <2>1. ASSUME conf' = conf, \A p \in DOMAIN cache' : Right(p, cache'[p])
        PROVE  CacheAsAnnounced'
    <3>1. \A rec, value : /\ Refused(rec)' <=> Refused(rec)
                          /\ Announces(rec, value)' <=> Announces(rec, value)
      BY <2>1, SameConf
    <3> QED  BY <2>1, <3>1 DEF CacheAsAnnounced
  <2>2. \A p \in DOMAIN cache : Right(p, cache[p])  BY DEF CacheAsAnnounced
  <2> HIDE DEF Right
  <2>3. ASSUME UNCHANGED <<conf, cache>>  PROVE CacheAsAnnounced'
    BY <2>1, <2>2, <2>3
  <2>4. ASSUME NEW recs \in Replies, conf' = conf, cache' = read_records(cache, recs)
        PROVE  CacheAsAnnounced'
    <3> SUFFICES ASSUME NEW p \in DOMAIN cache'  PROVE Right(p, cache'[p])
      BY <2>1, <2>4
    <3>1. recs \in Seq(Record)  BY OpenLispAssumption, Zenon
    <3>2. CASE p \in DOMAIN cache /\ cache'[p] = cache[p]
      BY <2>2, <3>2
    <3>3. CASE \E j \in 1..Len(recs) :
                 /\ ~Refused(recs[j]) /\ opl_add_mapp(recs[j].eid) = p
                 /\ cache'[p] = Entry(recs[j])
      <4>1. PICK j \in 1..Len(recs) :
                 /\ ~Refused(recs[j]) /\ opl_add_mapp(recs[j].eid) = p
                 /\ cache'[p] = Entry(recs[j])
        BY <3>3
      <4>2. recs[j] \in Record /\ recs[j] \in ToSet(recs)  BY <3>1 DEF ToSet
      <4>3. Announces(recs[j], cache'[p])  BY <4>1, <4>2, EntryAnnounces
      <4>4. recs[j] \in UNION {ToSet(r) : r \in Replies}  BY <4>2
      <4> QED  BY <4>1, <4>3, <4>4 DEF Right
    <3> QED  BY <2>4, <3>1, <3>2, <3>3, ReadRecords
  <2>5. CASE plugin_openlisp
    BY <2>3, <2>5 DEF plugin_openlisp
  <2>6. CASE \E eid \in Eids : map_message_handler(eid)
    BY <2>3, <2>6 DEF map_message_handler, tables
  <2>7. CASE Wakes \/ Retry \/ Tick
    BY <2>3, <2>7 DEF Wakes, Retry, Tick, tables
  <2>8. CASE \E q \in DOMAIN opened, recs \in Replies, i \in Slot : read_mr(i, q, recs)
    BY <2>4, <2>8 DEF read_mr, tables
  <2>9. CASE \E q \in DOMAIN opened, recs \in Replies : get_mr(q, recs)
    BY <2>4, <2>9 DEF get_mr, tables
  <2>10. CASE UNCHANGED vars
    BY <2>3, <2>10 DEF vars
  <2> QED  BY <2>5, <2>6, <2>7, <2>8, <2>9, <2>10 DEF Next
<1> QED  BY <1>1, <1>2, PTL DEF Spec

==============================================================================
