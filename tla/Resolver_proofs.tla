-------------------------- MODULE Resolver_proofs --------------------------
(***************************************************************************)
(* The invariants of the receive loop, the packet queue and the map        *)
(* resolver, for every number of workers, lookups, packets and nonces and  *)
(* every set of answers.                                                   *)
(*                                                                         *)
(* The heart of the induction is ownership.  A packet is, at any time, in  *)
(* the queue, in the hands of one worker, or in one slot of mr_lookups;    *)
(* while a slot is filled both the worker and the slot have it.  It enters *)
(* a slot once, so that two lookups never share it (Owned).  Hence the     *)
(* packet a thread releases is nobody else's but that of a worker which is *)
(* still filling the slot, and CountExact, which the wrapping counter      *)
(* ipq_no needs, survives every release.  The bound on the packets in      *)
(* process counts the threads between a release and its signal, and the    *)
(* releases themselves (Room).                                             *)
(***************************************************************************)
EXTENDS Resolver, FiniteSetTheorems, SequenceTheorems, NaturalsInduction,
        WellFoundedInduction, TLAPS

ThreadState == [pc : PC, pke : Nat \cup {NULL}, idx : Nat \cup {NULL},
                recs : Seq(Record)]
PollState == [l : {NULL} \cup Idx, to : 0..timeout,
              ready : SUBSET (Idx \X {4, 6}), sock : {NULL} \cup (Nat \X {4, 6})]

\* The pcs of a worker and of the event loop; in those of AtSlot a thread has a slot; in those of
\* Filling the slot has the worker's packet.
WorkerPC == {"idle", "pending", "claim", "keep", "nonce", "start", "match",
             "apply", "release", "released", "free", "signal"}
LoopPC == {"scan", "expire", "expired", "events", "apply", "release", "released",
           "recv"}
AtSlot == {"claim", "keep", "nonce", "start", "apply", "release", "released",
           "expire", "expired", "recv"}
Filling == {"nonce", "start"}
Releasing == {"released", "expired"}

\* Threads that have released a packet and not yet signalled it.
Signalling == {t \in Thread : th[t].pc \in {"signal", "released", "expired"}}

\* The packets the network may still deliver and those delivered.
Deliveries == left.request + left.other + Len(content) <= MaxRequests + MaxOthers

\* Where each kind of thread can be, and with which slot.
MayBe(t, r) ==
    /\ r.pc \in (IF t = MR THEN LoopPC ELSE WorkerPC)
    /\ r.pc \in AtSlot => r.idx \in Idx
    /\ t = MR => r.idx \in 0..MAX_LOOKUPS

Places == \A t \in Thread : MayBe(t, th[t])

\* Who has which packet.
QueueOwns ==
    \A k \in DOMAIN queue :
        /\ queue[k] \in allocated
        /\ \A j \in DOMAIN queue : queue[j] = queue[k] => j = k

WorkersOwn ==
    \A w \in Worker :
        /\ th[w].pc = "idle" <=> th[w].pke = NULL
        /\ th[w].pke # NULL =>
              /\ th[w].pke \in DOMAIN content
              /\ th[w].pc \notin {"signal", "nonce", "start"} => th[w].pke \in allocated
              /\ \A k \in DOMAIN queue : queue[k] # th[w].pke
              /\ \A v \in Worker : th[v].pke = th[w].pke => v = w

SlotsOwn ==
    \A i \in Idx : lookups[i].pke # NULL =>
        /\ lookups[i].pke \in DOMAIN content
        /\ \A j \in Idx : lookups[j].pke = lookups[i].pke => j = i
        /\ \A w \in Worker : th[w].pke = lookups[i].pke =>
                                 th[w].pc \in Filling /\ th[w].idx = i
        /\ \A k \in DOMAIN queue : queue[k] # lookups[i].pke

\* An active lookup has a packet that is not released, unless a worker has not
\* put it there yet, or a thread that has released it is still at the slot.
ActiveHeld ==
    \A i \in Idx : lookups[i].active =>
        \/ \E w \in Worker : th[w].pc = "keep" /\ th[w].idx = i
        \/ \E t \in Thread : th[t].pc \in Releasing /\ th[t].idx = i
        \/ lookups[i].pke # NULL /\ lookups[i].pke \in allocated

Owned == QueueOwns /\ WorkersOwn /\ SlotsOwn /\ ActiveHeld

Counted ==
    (ipq_no + (IF main = "poll" THEN 0 ELSE 1)) % UIntMod = Cardinality(allocated)

\* A packet that waits to be counted takes a place of its own.  The last line is
\* about the releases that were signalled.
Turn == IF main \in {"poll", "woken"} THEN 1 ELSE 0

Fits(held, signals, received, turn, wakeups) ==
    /\ held + signals <= received
    /\ held + signals + turn <= PK_POOL_MAX + Cardinality(Thread) + wakeups
    /\ held + signals + turn <= PK_POOL_MAX + wakeups + received - held

Room == Fits(Cardinality(allocated), Cardinality(Signalling), Len(content), Turn,
             spurious)

ResolverInv == /\ TypeOK
               /\ IsFiniteSet(mr_fds)
               /\ Deliveries
               /\ Places
               /\ Owned
               /\ Counted
               /\ Room

----------------------------------------------------------------------------
(***************************************************************************)
(* Facts about the operators.                                              *)
(***************************************************************************)
\* The bounds are naturals.
LEMMA Bounds ==
    /\ MAX_LOOKUPS \in Nat \ {0} /\ MR_MAX_LOOKUP \in Nat \ {0}
    /\ PK_POOL_MAX \in Nat \ {0} /\ Rlocs \in Nat \ {0} /\ timeout \in Nat \ {0}
    /\ MaxRequests \in Nat /\ MaxOthers \in Nat /\ UIntMod \in Nat \ {0}
    /\ MaxRequests + MaxOthers < UIntMod
    /\ MaxAge \in Nat
<1>1. /\ MAX_LOOKUPS \in Nat \ {0} /\ MR_MAX_LOOKUP \in Nat \ {0}
      /\ PK_POOL_MAX \in Nat \ {0} /\ Rlocs \in Nat \ {0} /\ timeout \in Nat \ {0}
  BY ResolverAssumption, Zenon
<1>2. MaxRequests \in Nat /\ MaxOthers \in Nat /\ UIntMod \in Nat
  BY ResolverAssumption, Zenon
<1>3. PK_POOL_MAX + MaxRequests + MaxOthers < UIntMod
  BY ResolverAssumption, Zenon
<1>4. MaxAge \in Nat
  <2>1. \A a, b \in Nat : a * b \in Nat  OBVIOUS
  <2> QED  BY <1>1, <2>1 DEF MaxAge
<1> QED  BY <1>1, <1>2, <1>3, <1>4

\* The least slot of a nonempty set of slots exists, so First finds one of them.
LEMMA FirstIn ==
    ASSUME NEW S, S \subseteq Idx, S # {}
    PROVE  First(S) \in S
<1>0. S \subseteq Nat  BY ResolverAssumption DEF Idx
<1>1. PICK m \in S : \A k \in S : <<k, m>> \notin OpToRel(<, Nat)
  BY <1>0, NatLessThanWellFounded, WFMin
<1>2. ASSUME NEW k \in S PROVE m <= k
  <2>1. <<k, m>> \notin {ss \in Nat \X Nat : ss[1] < ss[2]}
    BY <1>1 DEF OpToRel
  <2> QED  BY <1>0, <2>1
<1>3. \E i \in S : \A j \in S : i <= j  BY <1>2
<1> QED  BY <1>3 DEF First

\* A slot is a natural number.
LEMMA SlotIsNat == Idx \subseteq Nat
BY Bounds DEF Idx

\* send_mr_ddt (udp.c 3588-3655) touches the counter and the locators only.
LEMMA SendKeeps ==
    ASSUME NEW s \in Lookup, NEW x \in send_mr_ddt(s)
    PROVE  /\ x \in Lookup
           /\ x.active = s.active /\ x.pke = s.pke /\ x.last_eid = s.last_eid
<1>0. MR_MAX_LOOKUP \in Nat  BY Bounds
<1> DEFINE sent == IF s.count > MR_MAX_LOOKUP THEN s.count ELSE s.count + 1
<1>1. sent \in 0..(MR_MAX_LOOKUP + 1) /\ MR_MAX_LOOKUP + 1 \in 0..(MR_MAX_LOOKUP + 1)
  BY <1>0 DEF Lookup
<1>2. CASE ~s.active
  BY <1>2 DEF send_mr_ddt
<1>3. CASE s.active /\ s.rlocs = 0
  <2>1. x = [s EXCEPT !.count = MR_MAX_LOOKUP + 1]
    BY <1>3 DEF send_mr_ddt
  <2> QED  BY <1>1, <2>1 DEF Lookup
<1>4. CASE s.active /\ s.rlocs # 0
  <2>1. x \in {[s EXCEPT !.count = sent],
               [s EXCEPT !.count = sent, !.rlocs = @ - 1]}
    BY <1>4 DEF send_mr_ddt
  <2>2. s.rlocs - 1 \in Nat  BY <1>4 DEF Lookup
  <2> HIDE DEF sent
  <2> QED  BY <1>1, <2>1, <2>2 DEF Lookup
<1> QED  BY <1>2, <1>3, <1>4

\* What a send leaves of the table.
SameSlots(lks) ==
    \A j \in Idx : /\ lks[j].pke = lookups[j].pke
                   /\ lks[j].active = lookups[j].active
                   /\ lks[j].last_eid = lookups[j].last_eid

LEMMA SlotSent ==
    ASSUME NEW lks \in [Idx -> Lookup], SameSlots(lks), NEW i \in Idx, Send(lks, i)
    PROVE  lookups' \in [Idx -> Lookup] /\ SameSlots(lookups')
<1>1. PICK x \in send_mr_ddt(lks[i]) : lookups' = [lks EXCEPT ![i] = x]
  BY DEF Send
<1>2. /\ x \in Lookup
      /\ x.active = lks[i].active /\ x.pke = lks[i].pke
      /\ x.last_eid = lks[i].last_eid
  BY <1>1, SendKeeps
<1>3. lookups' \in [Idx -> Lookup]  BY <1>1, <1>2
<1>4. ASSUME NEW j \in Idx
      PROVE  /\ lookups'[j].pke = lookups[j].pke
             /\ lookups'[j].active = lookups[j].active
             /\ lookups'[j].last_eid = lookups[j].last_eid
  <2>1. CASE j = i
    <3>1. lookups'[i] = x  BY <1>1
    <3> QED  BY <1>2, <2>1, <3>1, Zenon DEF SameSlots
  <2>2. CASE j # i
    <3>1. lookups'[j] = lks[j]  BY <1>1, <2>2
    <3> QED  BY <3>1 DEF SameSlots
  <2> QED  BY <2>1, <2>2
<1> QED  BY <1>3, <1>4 DEF SameSlots

\* One slot gets other contents, by which it stays what it was to its owners.
LEMMA SlotChanged ==
    ASSUME lookups \in [Idx -> Lookup], NEW i \in Idx, NEW x \in Lookup,
           x.active = lookups[i].active, x.pke = lookups[i].pke,
           x.last_eid = lookups[i].last_eid,
           NEW lks, lks = [lookups EXCEPT ![i] = x]
    PROVE  lks \in [Idx -> Lookup] /\ SameSlots(lks)
<1>1. lks \in [Idx -> Lookup]  OBVIOUS
<1>2. ASSUME NEW j \in Idx
      PROVE  /\ lks[j].pke = lookups[j].pke
             /\ lks[j].active = lookups[j].active
             /\ lks[j].last_eid = lookups[j].last_eid
  <2>1. CASE j = i
    <3>1. lks[i] = x  OBVIOUS
    <3> QED  BY <2>1, <3>1, Zenon
  <2>2. CASE j # i
    <3>1. lks[j] = lookups[j]  BY <2>2
    <3> QED  BY <3>1
  <2> QED  BY <2>1, <2>2
<1> QED  BY <1>1, <1>2 DEF SameSlots

\* The threads are finitely many.
LEMMA ThreadsFinite ==
    /\ IsFiniteSet(Thread) /\ Cardinality(Thread) \in Nat
    /\ Cardinality(Thread) >= 1
<1>1. IsFiniteSet(Worker \cup {MR}) /\ Cardinality(Worker \cup {MR}) = Cardinality(Worker) + 1
  BY ResolverAssumption, FS_AddElement
<1>2. Cardinality(Worker) \in Nat  BY ResolverAssumption, FS_CardinalityType
<1> QED  BY <1>1, <1>2 DEF Thread

\* So are those between a release and its signal.
LEMMA SignallingFinite ==
    /\ IsFiniteSet(Signalling) /\ Cardinality(Signalling) \in Nat
    /\ Cardinality(Signalling) <= Cardinality(Thread)
<1>1. Signalling \subseteq Thread  BY DEF Signalling
<1> QED  BY <1>1, ThreadsFinite, FS_Subset, FS_CardinalityType

\* The packets not released are no more than those received, and ipq_no can
\* count them.
LEMMA AllocatedFinite ==
    ASSUME ResolverInv
    PROVE  /\ IsFiniteSet(allocated) /\ Cardinality(allocated) \in Nat
           /\ Cardinality(allocated) < UIntMod
           /\ Cardinality(allocated) <= Len(content)
<1>1. Len(content) \in Nat /\ DOMAIN content = 1..Len(content)
  BY DEF ResolverInv, TypeOK
<1>2. IsFiniteSet(1..Len(content)) /\ Cardinality(1..Len(content)) = Len(content)
  <2>1. 1 \in Int /\ Len(content) \in Int  BY <1>1
  <2>2. /\ IsFiniteSet(1..Len(content))
        /\ Cardinality(1..Len(content))
              = IF 1 > Len(content) THEN 0 ELSE Len(content) - 1 + 1
    BY <2>1, FS_Interval, Zenon
  <2> QED  BY <1>1, <2>2
<1>3. allocated \subseteq 1..Len(content)  BY <1>1 DEF allocated
<1>4. /\ IsFiniteSet(allocated) /\ Cardinality(allocated) \in Nat
      /\ Cardinality(allocated) <= Len(content)
  BY <1>2, <1>3, FS_Subset, FS_CardinalityType
<1>5. Len(content) < UIntMod
  <2>1. left.request \in Nat /\ left.other \in Nat
    BY DEF ResolverInv, TypeOK
  <2>2. left.request + left.other + Len(content) <= MaxRequests + MaxOthers
    BY DEF ResolverInv, Deliveries
  <2> QED  BY <1>1, <2>1, <2>2, Bounds
<1> QED  BY <1>1, <1>4, <1>5, Bounds

\* Counting up and down modulo 2^w.
LEMMA CountUp ==
    ASSUME NEW n \in 0..(UIntMod - 1)
    PROVE  (n + 1) % UIntMod = IF n = UIntMod - 1 THEN 0 ELSE n + 1
<1>1. ASSUME NEW U \in Nat \ {0}, NEW k \in 0..(U - 1)
      PROVE  (k + 1) % U = IF k = U - 1 THEN 0 ELSE k + 1
  BY <1>1
<1> QED  BY <1>1, Bounds

\* A release before its count takes the counter from 0 to its greatest value.
LEMMA CountDown ==
    ASSUME NEW n \in 0..(UIntMod - 1)
    PROVE  (n + UIntMod - 1) % UIntMod = IF n = 0 THEN UIntMod - 1 ELSE n - 1
<1>1. ASSUME NEW U \in Nat \ {0}, NEW k \in 0..(U - 1)
      PROVE  (k + U - 1) % U = IF k = 0 THEN U - 1 ELSE k - 1
  BY <1>1
<1> QED  BY <1>1, Bounds

\* A value in range is its own residue.
LEMMA CountSame ==
    ASSUME NEW n \in 0..(UIntMod - 1)
    PROVE  (n + 0) % UIntMod = n
<1>1. ASSUME NEW U \in Nat \ {0}, NEW k \in 0..(U - 1)
      PROVE  (k + 0) % U = k
  BY <1>1
<1> QED  BY <1>1, Bounds

\* Thread ids.
LEMMA ThreadIds ==
    /\ MR \in Thread /\ Worker \subseteq Thread
    /\ \A w \in Worker : w # MR
    /\ \A t \in Thread : t = MR \/ t \in Worker
BY ResolverAssumption DEF Thread

----------------------------------------------------------------------------
(***************************************************************************)
(* What a step may do to packets: nothing, release one, or signal that.    *)
(***************************************************************************)
\* A step without effect but on crashed.
LEMMA Stutters ==
    ASSUME ResolverInv, crashed' \in BOOLEAN, UNCHANGED <<main, ipq_no, content, queue>>,
           UNCHANGED <<lookups, open, fd0, mr_fds>>, UNCHANGED <<poll, th, left, spurious>>
    PROVE  ResolverInv'
<1>1. TypeOK'  BY DEF ResolverInv, TypeOK
<1>2. UNCHANGED <<allocated, Signalling, Turn>>  BY DEF allocated, Signalling, Turn
<1>3. Deliveries' /\ Counted' /\ Room' /\ IsFiniteSet(mr_fds)'
  BY <1>2 DEF ResolverInv, Deliveries, Counted, Room
<1>4. Places'  BY DEF ResolverInv, Places
<1>5. Owned'
  BY <1>2 DEF ResolverInv, Owned, QueueOwns, WorkersOwn, SlotsOwn, ActiveHeld
<1> QED  BY <1>1, <1>3, <1>4, <1>5 DEF ResolverInv

\* Undefined behaviour ends the run in the state it is met in.
LEMMA CrashStep == ResolverInv /\ Crash => ResolverInv' /\ lookups' = lookups
<1> SUFFICES ASSUME ResolverInv, Crash  PROVE ResolverInv' /\ lookups' = lookups
  OBVIOUS
<1>1. /\ UNCHANGED <<main, ipq_no, content, queue>>
      /\ UNCHANGED <<lookups, open, fd0, mr_fds>> /\ UNCHANGED <<poll, th, left, spurious>>
      /\ crashed' \in BOOLEAN
  BY DEF Crash, pool, loop
<1> QED  BY <1>1, Stutters

\* What the invariant says of the types.
LEMMA Shape ==
    ASSUME ResolverInv
    PROVE  /\ main \in {"poll", "count", "wait", "woken"}
           /\ ipq_no \in 0..(UIntMod - 1)
           /\ content \in Seq(Packet \cup {NULL}) /\ queue \in Seq(Nat)
           /\ lookups \in [Idx -> Lookup]
           /\ DOMAIN open \subseteq Nat /\ fd0 \in {"quiet", "readable", "closed"}
           /\ mr_fds \subseteq Idx \X (Nat \cup {NULL}) /\ IsFiniteSet(mr_fds)
           /\ 2 * Cardinality(mr_fds) <= MAX_LOOKUPS + 1
           /\ poll \in PollState
           /\ th \in [Thread -> ThreadState]
           /\ left \in [request : Nat, other : Nat] /\ spurious \in Nat
           /\ crashed \in BOOLEAN
BY DEF ResolverInv, TypeOK, ThreadState, PollState

\* A step that neither releases a packet nor gives a signal.
LEMMA KeepsRoom ==
    ASSUME ResolverInv, UNCHANGED <<main, ipq_no, content, spurious>>,
           Signalling' \subseteq Signalling
    PROVE  Counted' /\ Room'
<1>0. allocated' = allocated /\ Turn' = Turn  BY DEF allocated, Turn
<1>1. Counted'  BY <1>0 DEF ResolverInv, Counted
<1>2. Cardinality(Signalling') <= Cardinality(Signalling) /\ Cardinality(Signalling') \in Nat
  BY SignallingFinite, FS_Subset, FS_CardinalityType
<1>3. Len(content) \in Nat /\ spurious \in Nat /\ Turn \in {0, 1}
  BY Shape DEF Turn
<1>4. Room'
  <2>1. PICK a \in Nat : a = Cardinality(allocated)  BY AllocatedFinite
  <2>2. PICK g \in Nat : g = Cardinality(Signalling)  BY SignallingFinite
  <2>3. PICK h \in Nat : h = Cardinality(Signalling')  BY <1>2
  <2>4. Fits(a, g, Len(content), Turn, spurious)
    BY <2>1, <2>2 DEF ResolverInv, Room
  <2>5. h <= g  BY <1>2, <2>2, <2>3
  <2>6. Fits(a, h, Len(content), Turn, spurious)
    BY <1>3, <2>4, <2>5, ThreadsFinite, Bounds DEF Fits
  <2> QED  BY <1>0, <2>1, <2>3, <2>6 DEF Room
<1> QED  BY <1>1, <1>4

\* A step that signals a release (udp.c 193): the receive loop may go on.
LEMMA SignalsRoom ==
    ASSUME ResolverInv, UNCHANGED <<ipq_no, content, spurious>>, Signal,
           NEW t \in Signalling, Signalling' = Signalling \ {t}
    PROVE  Counted' /\ Room' /\ main' \in {"poll", "count", "wait", "woken"}
<1>0. allocated' = allocated  BY DEF allocated
<1>1. main \in {"poll", "count", "wait", "woken"}  BY Shape
<1>2. main' = IF main = "wait" THEN "woken" ELSE main  BY DEF Signal
<1>3. Counted'  BY <1>0, <1>1, <1>2 DEF ResolverInv, Counted
<1>4. Cardinality(Signalling') = Cardinality(Signalling) - 1
  BY SignallingFinite, FS_RemoveElement
<1>5. Len(content) \in Nat /\ spurious \in Nat /\ Turn \in {0, 1} /\ Turn' \in {0, 1}
      /\ Turn' <= Turn + 1
  BY Shape DEF Turn
<1>6. Room'
  <2>1. PICK a \in Nat : a = Cardinality(allocated)  BY AllocatedFinite
  <2>2. PICK g \in Nat : g = Cardinality(Signalling)  BY SignallingFinite
  <2>3. Fits(a, g, Len(content), Turn, spurious)
    BY <2>1, <2>2 DEF ResolverInv, Room
  <2>4. PICK u \in {0, 1} : u = Turn'  BY <1>5
  <2>5. Fits(a, g - 1, Len(content), u, spurious)
    BY <1>5, <2>3, <2>4, ThreadsFinite, Bounds DEF Fits
  <2>6. Cardinality(Signalling') = g - 1  BY <1>4, <2>2
  <2> QED  BY <1>0, <2>1, <2>4, <2>5, <2>6 DEF Room
<1> QED  BY <1>1, <1>2, <1>3, <1>6

\* udp_free_pk (udp.c 179-198) of a packet not released yet, by thread t.
LEMMA ReleasesRoom ==
    ASSUME ResolverInv, NEW p \in allocated, udp_free_pk(p),
           UNCHANGED <<main, spurious>>,
           NEW t \in Thread \ Signalling, Signalling' = Signalling \cup {t}
    PROVE  /\ content' \in Seq(Packet \cup {NULL}) /\ Len(content') = Len(content)
           /\ DOMAIN content' = DOMAIN content
           /\ allocated' = allocated \ {p}
           /\ ipq_no' \in 0..(UIntMod - 1)
           /\ Counted' /\ Room'
<1>0. content \in Seq(Packet \cup {NULL}) /\ ipq_no \in 0..(UIntMod - 1)
  BY Shape
<1>1. p \in 1..Len(content)  BY <1>0 DEF allocated
<1>2. content' = [content EXCEPT ![p] = NULL]  BY DEF udp_free_pk
<1>3. content' \in Seq(Packet \cup {NULL}) /\ Len(content') = Len(content)
  BY <1>0, <1>1, <1>2, ExceptSeq
<1>4. DOMAIN content' = DOMAIN content  BY <1>0, <1>3
<1>5. allocated' = allocated \ {p}
  BY <1>0, <1>1, <1>2, <1>4 DEF allocated
<1>6. /\ Cardinality(allocated') = Cardinality(allocated) - 1
      /\ Cardinality(allocated) >= 1
  <2>1. Cardinality(allocated \ {p}) = Cardinality(allocated) - 1
        /\ IsFiniteSet(allocated \ {p})
    BY AllocatedFinite, FS_RemoveElement
  <2>2. Cardinality(allocated \ {p}) \in Nat  BY <2>1, FS_CardinalityType
  <2> QED  BY <1>5, <2>1, <2>2, AllocatedFinite
<1>7. ipq_no' = IF ipq_no = 0 THEN UIntMod - 1 ELSE ipq_no - 1
  BY <1>0, CountDown DEF udp_free_pk
<1>8. ipq_no' \in 0..(UIntMod - 1)  BY <1>0, <1>7, Bounds
<1>9. Counted'
  <2>1. CASE main = "poll"
    <3>1. ipq_no = Cardinality(allocated)
      BY <1>0, <2>1, CountSame DEF ResolverInv, Counted
    <3>2. (ipq_no' + 0) % UIntMod = ipq_no'  BY <1>8, CountSame
    <3> QED  BY <1>6, <1>7, <2>1, <3>1, <3>2, AllocatedFinite DEF Counted
  <2>2. CASE main # "poll"
    <3>1. (ipq_no + 1) % UIntMod = Cardinality(allocated)
      BY <2>2 DEF ResolverInv, Counted
    <3>2. (ipq_no + 1) % UIntMod = IF ipq_no = UIntMod - 1 THEN 0 ELSE ipq_no + 1
      BY <1>0, CountUp
    <3>3. (ipq_no' + 1) % UIntMod = IF ipq_no' = UIntMod - 1 THEN 0 ELSE ipq_no' + 1
      BY <1>8, CountUp
    <3>4. (ipq_no' + 1) % UIntMod = Cardinality(allocated')
      BY <1>0, <1>6, <1>7, <3>1, <3>2, <3>3, AllocatedFinite, Bounds
    <3> QED  BY <2>2, <3>4 DEF Counted
  <2> QED  BY <2>1, <2>2
<1>10. Room'
  <2>1. Cardinality(Signalling') = Cardinality(Signalling) + 1
    BY SignallingFinite, FS_AddElement
  <2>2. Len(content) \in Nat /\ spurious \in Nat /\ Turn \in {0, 1} /\ Turn' = Turn
    BY Shape DEF Turn
  <2>3. PICK a \in Nat : a = Cardinality(allocated)  BY AllocatedFinite
  <2>4. PICK g \in Nat : g = Cardinality(Signalling)  BY SignallingFinite
  <2>5. Fits(a, g, Len(content), Turn, spurious)
    BY <2>3, <2>4 DEF ResolverInv, Room
  <2>6. a >= 1  BY <1>6, <2>3
  <2>7. Fits(a - 1, g + 1, Len(content), Turn, spurious)
    BY <2>2, <2>5, <2>6, ThreadsFinite, Bounds DEF Fits
  <2>8. Cardinality(allocated') = a - 1 /\ Cardinality(Signalling') = g + 1
    BY <1>6, <2>1, <2>3, <2>4
  <2> QED  BY <1>3, <2>2, <2>7, <2>8 DEF Room
<1> QED  BY <1>3, <1>4, <1>5, <1>8, <1>9, <1>10

\* The types of what the receive loop does not touch.
Polls == /\ fd0 \in {"quiet", "readable", "closed"}
         /\ mr_fds \subseteq Idx \X (Nat \cup {NULL}) /\ IsFiniteSet(mr_fds)
         /\ 2 * Cardinality(mr_fds) <= MAX_LOOKUPS + 1
         /\ poll \in PollState
Shaped == /\ lookups \in [Idx -> Lookup]
          /\ DOMAIN open \subseteq Nat /\ Polls
          /\ th \in [Thread -> ThreadState]
          /\ left \in [request : Nat, other : Nat]
          /\ crashed \in BOOLEAN

\* What remains of a step that gives no signal and releases nothing.
LEMMA QuietStep ==
    ASSUME ResolverInv, UNCHANGED <<main, ipq_no, content, queue, spurious>>,
           Shaped', left'.request + left'.other <= left.request + left.other,
           Signalling' \subseteq Signalling, Places', Owned'
    PROVE  ResolverInv'
<1>1. TypeOK'  BY Shape DEF TypeOK, Shaped, Polls, ThreadState, PollState
<1>2. Deliveries'
  <2>1. left \in [request : Nat, other : Nat] /\ left' \in [request : Nat, other : Nat]
        /\ Len(content) \in Nat
    BY Shape DEF Shaped
  <2> QED  BY <2>1, Bounds DEF ResolverInv, Deliveries
<1>3. Counted' /\ Room'  BY KeepsRoom
<1>4. IsFiniteSet(mr_fds)'  BY DEF Shaped, Polls
<1> QED  BY <1>1, <1>2, <1>3, <1>4 DEF ResolverInv

\* One thing less is left to come.
LEMMA UsesOne ==
    ASSUME left \in [request : Nat, other : Nat], NEW what \in {"request", "other"},
           Uses(what)
    PROVE  /\ left' \in [request : Nat, other : Nat]
           /\ left'.request + left'.other + 1 = left.request + left.other
<1>1. CASE what = "request"
  <2>1. left' = [left EXCEPT !.request = @ - 1] /\ left.request > 0
    BY <1>1 DEF Uses
  <2>2. left' = [request |-> left.request - 1, other |-> left.other]  BY <2>1
  <2> QED  BY <2>1, <2>2
<1>2. CASE what = "other"
  <2>1. left' = [left EXCEPT !.other = @ - 1] /\ left.other > 0
    BY <1>2 DEF Uses
  <2>2. left' = [request |-> left.request, other |-> left.other - 1]  BY <2>1
  <2> QED  BY <2>1, <2>2
<1> QED  BY <1>1, <1>2

----------------------------------------------------------------------------
(***************************************************************************)
(* The receive loop.                                                       *)
(***************************************************************************)
\* udp_get_pk (udp.c 1994-2084) hands over a packet nobody has yet.
LEMMA ArriveStep ==
    ASSUME ResolverInv, NEW c \in Arrivals, udp_get_pk(c)
    PROVE  ResolverInv'
<1> DEFINE n == Len(content) + 1
<1>0. /\ content \in Seq(Packet \cup {NULL}) /\ Len(content) \in Nat
      /\ queue \in Seq(Nat) /\ ipq_no \in 0..(UIntMod - 1) /\ spurious \in Nat
      /\ DOMAIN content = 1..Len(content)
  BY Shape
<1>1. c \in Packet /\ c # NULL  BY ResolverAssumption DEF Arrivals, Packet
<1>2. /\ main = "poll" /\ main' = "count"
      /\ content' = Append(content, c) /\ queue' = Append(queue, n)
      /\ UNCHANGED <<ipq_no, lookups, open, fd0, mr_fds>>
      /\ UNCHANGED <<poll, th, spurious, crashed>>
  BY DEF udp_get_pk, loop
<1>3. /\ content' \in Seq(Packet \cup {NULL}) /\ Len(content') = Len(content) + 1
      /\ DOMAIN content' = 1..n
      /\ \A k \in 1..Len(content) : content'[k] = content[k]
      /\ content'[n] = c
  BY <1>0, <1>1, <1>2
<1>4. allocated' = allocated \cup {n} /\ n \notin DOMAIN content
  BY <1>0, <1>1, <1>3 DEF allocated
<1>5. /\ queue' \in Seq(Nat) /\ DOMAIN queue' = DOMAIN queue \cup {Len(queue) + 1}
      /\ \A k \in DOMAIN queue : queue'[k] = queue[k]
      /\ queue'[Len(queue) + 1] = n
      /\ Len(queue) + 1 \notin DOMAIN queue
  BY <1>0, <1>2
<1>U. /\ left' \in [request : Nat, other : Nat]
      /\ left'.request + left'.other + 1 = left.request + left.other
  <2>1. PICK what \in {"request", "other"} : Uses(what)
    <3>1. (IF c.kind = "request" THEN "request" ELSE "other") \in {"request", "other"}
      OBVIOUS
    <3> QED  BY <3>1 DEF udp_get_pk
  <2> QED  BY <2>1, UsesOne, Shape
<1>6. TypeOK'
  BY <1>2, <1>3, <1>5, <1>U DEF ResolverInv, TypeOK
<1>7. Deliveries'
  <2>1. left \in [request : Nat, other : Nat]  BY Shape
  <2> QED  BY <1>0, <1>3, <1>U, <2>1, Bounds DEF ResolverInv, Deliveries
<1>8. Places' /\ IsFiniteSet(mr_fds)'  BY <1>2 DEF ResolverInv, Places
<1>9. Owned'
  <2> HIDE DEF n
  <2>0. DOMAIN content \subseteq DOMAIN content' /\ n \in DOMAIN content'
    BY <1>0, <1>3 DEF n
  <2>1. QueueOwns'
    <3>1. \A k \in DOMAIN queue : queue[k] \in DOMAIN content /\ queue[k] \in allocated
      BY DEF ResolverInv, Owned, QueueOwns, allocated
    <3> QED  BY <1>4, <1>5, <3>1 DEF ResolverInv, Owned, QueueOwns
  <2>2. WorkersOwn'
    BY <1>2, <1>4, <1>5, <2>0 DEF ResolverInv, Owned, WorkersOwn
  <2>3. SlotsOwn'
    BY <1>2, <1>4, <1>5, <2>0 DEF ResolverInv, Owned, SlotsOwn
  <2>4. ActiveHeld'
    BY <1>2, <1>4 DEF ResolverInv, Owned, ActiveHeld
  <2> QED  BY <2>1, <2>2, <2>3, <2>4 DEF Owned
<1>10. Cardinality(allocated') = Cardinality(allocated) + 1
  <2>1. n \notin allocated  BY <1>4 DEF allocated
  <2> QED  BY <1>4, <2>1, AllocatedFinite, FS_AddElement
<1>11. Counted'
  <2>1. ipq_no = Cardinality(allocated)
    BY <1>0, <1>2, CountSame DEF ResolverInv, Counted
  <2>2. Cardinality(allocated) + 1 < UIntMod
    <3>2. Len(content) + 1 <= MaxRequests + MaxOthers
      <4>1. left' \in [request : Nat, other : Nat]  BY <1>U
      <4> QED  BY <1>0, <1>3, <1>7, <4>1, Bounds DEF Deliveries
    <3> QED  BY <1>0, <3>2, AllocatedFinite, Bounds
  <2>3. (ipq_no + 1) % UIntMod = ipq_no + 1
    BY <1>0, <2>1, <2>2, CountUp, AllocatedFinite, Bounds
  <2> QED  BY <1>2, <1>10, <2>1, <2>3 DEF Counted
<1>12. Room'
  <2>1. Signalling' = Signalling  BY <1>2 DEF Signalling
  <2>2. PICK a \in Nat : a = Cardinality(allocated)  BY AllocatedFinite
  <2>3. PICK g \in Nat : g = Cardinality(Signalling)  BY SignallingFinite
  <2>4. Fits(a, g, Len(content), 1, spurious)
    BY <1>2, <2>2, <2>3 DEF ResolverInv, Room, Turn
  <2>5. Fits(a + 1, g, Len(content) + 1, 0, spurious)
    BY <1>0, <2>4, ThreadsFinite, Bounds DEF Fits
  <2>6. Cardinality(allocated') = a + 1 /\ Turn' = 0
    BY <1>2, <1>10, <2>2 DEF Turn
  <2> QED  BY <1>2, <1>3, <2>1, <2>3, <2>5, <2>6 DEF Room
<1> QED  BY <1>6, <1>7, <1>8, <1>9, <1>11, <1>12 DEF ResolverInv

\* The packet is counted (udp.c 2234-2239), at once only if fewer than
\* PK_POOL_MAX are in process.
LEMMA CountStep ==
    ASSUME ResolverInv, CountPacket
    PROVE  ResolverInv'
<1>0. main \in {"poll", "count", "wait", "woken"} /\ ipq_no \in 0..(UIntMod - 1)
      /\ Len(content) \in Nat /\ spurious \in Nat
  BY Shape
<1>1. /\ UNCHANGED <<content, queue, lookups, open, fd0, mr_fds>>
      /\ UNCHANGED <<poll, th, left, spurious, crashed>>
      /\ UNCHANGED <<allocated, Signalling>>
  BY DEF CountPacket, allocated, Signalling, loop
<1>2. (ipq_no + 1) % UIntMod = Cardinality(allocated)
  BY DEF ResolverInv, Counted, CountPacket
<1>3. main' \in {"poll", "wait"}
      /\ ipq_no' = IF main' = "poll" THEN (ipq_no + 1) % UIntMod ELSE ipq_no
  BY DEF CountPacket
<1>4. ipq_no' \in 0..(UIntMod - 1)
  BY <1>0, <1>2, <1>3, AllocatedFinite, Bounds
<1>5. TypeOK' /\ IsFiniteSet(mr_fds)'  BY <1>1, <1>3, <1>4 DEF ResolverInv, TypeOK
<1>6. Deliveries' /\ Places'
  BY <1>1 DEF ResolverInv, Deliveries, Places
<1>7. Owned'
  BY <1>1 DEF ResolverInv, Owned, QueueOwns, WorkersOwn, SlotsOwn, ActiveHeld
<1>8. Counted'
  <2>1. CASE main' = "poll"
    <3>1. ipq_no' = Cardinality(allocated)  BY <1>2, <1>3, <2>1
    <3>2. (ipq_no' + 0) % UIntMod = ipq_no'  BY <1>4, CountSame
    <3> QED  BY <1>1, <2>1, <3>1, <3>2 DEF Counted
  <2>2. CASE main' = "wait"  BY <1>1, <1>2, <1>3, <2>2 DEF Counted
  <2> QED  BY <1>3, <2>1, <2>2
<1>9. Room'
  <2>1. PICK a \in Nat : a = Cardinality(allocated)  BY AllocatedFinite
  <2>2. PICK g \in Nat : g = Cardinality(Signalling)  BY SignallingFinite
  <2>3. Fits(a, g, Len(content), Turn, spurious)
    BY <2>1, <2>2 DEF ResolverInv, Room
  <2>4. CASE main = "count" /\ (ipq_no + 1) % UIntMod < PK_POOL_MAX /\ main' = "poll"
    <3>1. a < PK_POOL_MAX /\ g <= Cardinality(Thread)
      BY <1>2, <2>1, <2>2, <2>4, SignallingFinite
    <3>2. a + g <= Len(content)  BY <2>3 DEF Fits
    <3>3. Fits(a, g, Len(content), 1, spurious)
      BY <1>0, <3>1, <3>2, ThreadsFinite, Bounds DEF Fits
    <3> QED  BY <1>1, <2>1, <2>2, <2>4, <3>3 DEF Room, Turn
  <2>5. CASE main = "count" /\ main' = "wait"
    BY <1>1, <2>5 DEF ResolverInv, Room, Turn
  <2>6. CASE main = "woken" /\ main' = "poll"
    BY <1>1, <2>6 DEF ResolverInv, Room, Turn
  <2> QED  BY <2>4, <2>5, <2>6 DEF CountPacket
<1> QED  BY <1>5, <1>6, <1>7, <1>8, <1>9 DEF ResolverInv

\* A spurious wake-up passes the limit by one packet more.
LEMMA SpuriousStep ==
    ASSUME ResolverInv, Spurious
    PROVE  ResolverInv'
<1>0. Len(content) \in Nat /\ spurious \in Nat  BY Shape
<1>1. /\ main = "wait" /\ main' = "woken" /\ spurious' = spurious + 1
      /\ UNCHANGED <<ipq_no, content, queue, lookups, open, fd0, mr_fds>>
      /\ UNCHANGED <<poll, th, crashed>>
      /\ UNCHANGED <<allocated, Signalling>>
  BY DEF Spurious, allocated, Signalling, loop
<1>2. /\ left' \in [request : Nat, other : Nat]
      /\ left'.request + left'.other + 1 = left.request + left.other
  BY UsesOne, Shape DEF Spurious
<1>3. TypeOK' /\ IsFiniteSet(mr_fds)'  BY <1>0, <1>1, <1>2 DEF ResolverInv, TypeOK
<1>4. Deliveries' /\ Places'
  <2>1. left \in [request : Nat, other : Nat]  BY Shape
  <2>2. Deliveries'  BY <1>0, <1>1, <1>2, <2>1, Bounds DEF ResolverInv, Deliveries
  <2> QED  BY <1>1, <2>2 DEF ResolverInv, Places
<1>5. Owned'
  BY <1>1 DEF ResolverInv, Owned, QueueOwns, WorkersOwn, SlotsOwn, ActiveHeld
<1>6. Counted'  BY <1>1 DEF ResolverInv, Counted
<1>7. Room'
  <2>1. PICK a \in Nat : a = Cardinality(allocated)  BY AllocatedFinite
  <2>2. PICK g \in Nat : g = Cardinality(Signalling)  BY SignallingFinite
  <2>3. Fits(a, g, Len(content), 0, spurious)
    BY <1>1, <2>1, <2>2 DEF ResolverInv, Room, Turn
  <2>4. Fits(a, g, Len(content), 1, spurious + 1)
    BY <1>0, <2>3, ThreadsFinite, Bounds DEF Fits
  <2> QED  BY <1>1, <2>1, <2>2, <2>4 DEF Room, Turn
<1> QED  BY <1>3, <1>4, <1>5, <1>6, <1>7 DEF ResolverInv

----------------------------------------------------------------------------
(***************************************************************************)
(* The steps of one thread.                                                *)
(***************************************************************************)
\* An EID-prefix followed is replaced by a longer one inside it or forgotten.
Follows ==
    \A i \in Idx : \/ lookups'[i].last_eid = lookups[i].last_eid
                   \/ lookups[i].last_eid = NULL
                   \/ lookups'[i].last_eid = NULL
                   \/ IsStrictPrefix(lookups[i].last_eid, lookups'[i].last_eid)

\* One thread moves and the others stay where they are.
LEMMA ThreadMoves ==
    ASSUME ResolverInv, NEW t \in Thread, NEW r \in ThreadState,
           th' = [th EXCEPT ![t] = r]
    PROVE  /\ th' \in [Thread -> ThreadState] /\ th'[t] = r
           /\ \A u \in Thread : u # t => th'[u] = th[u]
           /\ MayBe(t, r) => Places'
<1>1. th \in [Thread -> ThreadState]  BY Shape
<1>2. /\ th' \in [Thread -> ThreadState] /\ th'[t] = r
      /\ \A u \in Thread : u # t => th'[u] = th[u]
  BY <1>1
<1>3. MayBe(t, r) => Places'
  <2> SUFFICES ASSUME MayBe(t, r), NEW u \in Thread  PROVE MayBe(u, th'[u])
    BY DEF Places, MayBe
  <2>1. CASE u = t  BY <1>2, <2>1
  <2>2. CASE u # t
    <3>1. MayBe(u, th[u])  BY DEF ResolverInv, Places
    <3> QED  BY <1>2, <2>2, <3>1
  <2> QED  BY <2>1, <2>2
<1> QED  BY <1>2, <1>3

\* The shape of the threads' states, and where they are.
LEMMA ThreadShape ==
    ASSUME ResolverInv, NEW t \in Thread
    PROVE  /\ th[t] \in ThreadState /\ Idle \in ThreadState /\ Scanning \in ThreadState
           /\ MayBe(t, th[t])
           /\ t \in Worker => MayBe(t, Idle)
           /\ MayBe(MR, Scanning)
<1>1. th[t] \in ThreadState  BY Shape
<1>2. Idle \in ThreadState /\ Scanning \in ThreadState
  BY DEF ThreadState, Idle, Scanning, PC
<1>3. MayBe(t, th[t])  BY DEF ResolverInv, Places
<1>4. t \in Worker => MayBe(t, Idle)
  BY ThreadIds DEF MayBe, Idle, WorkerPC, AtSlot
<1>5. MayBe(MR, Scanning)
  BY Bounds DEF MayBe, Scanning, LoopPC, AtSlot
<1> QED  BY <1>1, <1>2, <1>3, <1>4, <1>5

\* A worker with a packet in hand knows it.
LEMMA InHand ==
    ASSUME ResolverInv, NEW w \in Worker, th[w].pc \notin {"idle", "signal"}
    PROVE  /\ th[w].pke \in DOMAIN content
           /\ th[w].pke # NULL /\ th[w].pke \in Nat
           /\ th[w].pc \notin Filling => th[w].pke \in allocated
           /\ th[w].pke \in allocated => content[th[w].pke] \in Packet
<1>1. th[w].pke # NULL /\ th[w].pke \in DOMAIN content
      /\ (th[w].pc \notin Filling => th[w].pke \in allocated)
  BY DEF ResolverInv, Owned, WorkersOwn, Filling
<1>2. content \in Seq(Packet \cup {NULL})  BY Shape
<1> QED  BY <1>1, <1>2 DEF allocated

\* A worker that goes from th[t] to r keeps its packet or forgets it.
Retains(t, r) ==
    t \in Worker =>
        /\ th[t].pc # "keep"
        /\ \/ r.pke = NULL /\ r.pc = "idle"
           \/ /\ r.pke = th[t].pke /\ r.pc # "idle"
              /\ th[t].pc \notin {"idle", "signal"}
              /\ th[t].pc \in Filling => r.pc \in Filling /\ r.idx = th[t].idx

\* The lookups after the step of a thread that goes to r: only one where it has
\* still to put a packet becomes active, and where it has released one is not.
Activates(t, r) ==
    /\ \A i \in Idx :
          /\ lookups'[i].pke = lookups[i].pke
          /\ lookups'[i].active => \/ lookups[i].active
                                   \/ t \in Worker /\ r.pc = "keep" /\ r.idx = i
    /\ th[t].pc \in Releasing => ~lookups'[th[t].idx].active

LEMMA OneMoves ==
    ASSUME ResolverInv, NEW t \in Thread, NEW r \in ThreadState,
           th' = [th EXCEPT ![t] = r], UNCHANGED <<content, queue>>,
           Retains(t, r), Activates(t, r)
    PROVE  Owned'
<1>1. /\ th'[t] = r /\ \A u \in Thread : u # t => th'[u] = th[u]
  BY ThreadMoves
<1>2. allocated' = allocated  BY DEF allocated
<1>3. QueueOwns'  BY <1>2 DEF ResolverInv, Owned, QueueOwns
<1>4. ASSUME NEW w \in Worker, th'[w].pke # NULL
      PROVE  /\ th'[w].pke = th[w].pke
             /\ th'[w].pc \notin {"signal", "nonce", "start"}
                    => th[w].pc \notin {"signal", "nonce", "start"}
             /\ th[w].pc \in Filling => th'[w].pc \in Filling /\ th'[w].idx = th[w].idx
  <2>1. CASE w = t  BY <1>1, <1>4, <2>1 DEF Retains, Filling
  <2>2. CASE w # t
    <3>1. th'[w] = th[w]  BY <1>1, <2>2, ThreadIds
    <3> QED  BY <3>1
  <2> QED  BY <2>1, <2>2
<1>5. WorkersOwn'
  <2>1. ASSUME NEW w \in Worker
        PROVE  th'[w].pc = "idle" <=> th'[w].pke = NULL
    <3>1. CASE w = t
      <4>1. th[w].pc = "idle" <=> th[w].pke = NULL
        BY DEF ResolverInv, Owned, WorkersOwn
      <4> QED  BY <1>1, <3>1, <4>1 DEF Retains
    <3>2. CASE w # t
      <4>1. th'[w] = th[w]  BY <1>1, <3>2, ThreadIds
      <4> QED  BY <4>1 DEF ResolverInv, Owned, WorkersOwn
    <3> QED  BY <3>1, <3>2
  <2>2. ASSUME NEW w \in Worker, th'[w].pke # NULL
        PROVE  /\ th'[w].pke \in DOMAIN content
               /\ th'[w].pc \notin {"signal", "nonce", "start"} => th'[w].pke \in allocated
               /\ \A k \in DOMAIN queue : queue[k] # th'[w].pke
               /\ \A v \in Worker : th'[v].pke = th'[w].pke => v = w
    <3>1. /\ th[w].pke \in DOMAIN content
          /\ th[w].pc \notin {"signal", "nonce", "start"} => th[w].pke \in allocated
          /\ \A k \in DOMAIN queue : queue[k] # th[w].pke
          /\ \A v \in Worker : th[v].pke = th[w].pke => v = w
      BY <1>4, <2>2 DEF ResolverInv, Owned, WorkersOwn
    <3> QED  BY <1>4, <2>2, <3>1
  <2> QED  BY <1>2, <2>1, <2>2 DEF WorkersOwn
<1>6. SlotsOwn'
  <2> SUFFICES ASSUME NEW i \in Idx, lookups[i].pke # NULL
               PROVE  /\ lookups[i].pke \in DOMAIN content
                      /\ \A j \in Idx : lookups'[j].pke = lookups[i].pke => j = i
                      /\ \A w \in Worker : th'[w].pke = lookups[i].pke =>
                                               th'[w].pc \in Filling /\ th'[w].idx = i
                      /\ \A k \in DOMAIN queue : queue[k] # lookups[i].pke
    BY DEF SlotsOwn, Activates
  <2>1. /\ lookups[i].pke \in DOMAIN content
        /\ \A j \in Idx : lookups[j].pke = lookups[i].pke => j = i
        /\ \A w \in Worker : th[w].pke = lookups[i].pke =>
                                 th[w].pc \in Filling /\ th[w].idx = i
        /\ \A k \in DOMAIN queue : queue[k] # lookups[i].pke
    BY DEF ResolverInv, Owned, SlotsOwn
  <2> QED  BY <1>4, <2>1 DEF Activates
<1>7. ActiveHeld'
  <2> SUFFICES ASSUME NEW i \in Idx, lookups'[i].active
               PROVE  \/ \E w \in Worker : th'[w].pc = "keep" /\ th'[w].idx = i
                      \/ \E u \in Thread : th'[u].pc \in Releasing /\ th'[u].idx = i
                      \/ lookups'[i].pke # NULL /\ lookups'[i].pke \in allocated
    BY <1>2 DEF ActiveHeld, Releasing
  <2>1. CASE t \in Worker /\ r.pc = "keep" /\ r.idx = i  BY <1>1, <2>1
  <2>2. CASE lookups[i].active
    <3>1. CASE \E w \in Worker : th[w].pc = "keep" /\ th[w].idx = i
      <4>1. PICK w \in Worker : th[w].pc = "keep" /\ th[w].idx = i  BY <3>1
      <4>2. th'[w] = th[w]  BY <1>1, <4>1, ThreadIds DEF Retains
      <4> QED  BY <4>1, <4>2
    <3>2. CASE \E u \in Thread : th[u].pc \in Releasing /\ th[u].idx = i
      <4>1. PICK u \in Thread : th[u].pc \in Releasing /\ th[u].idx = i  BY <3>2
      <4>2. th'[u] = th[u]  BY <1>1, <4>1 DEF Activates
      <4> QED  BY <4>1, <4>2
    <3>3. CASE lookups[i].pke # NULL /\ lookups[i].pke \in allocated
      BY <3>3 DEF Activates
    <3> QED  BY <2>2, <3>1, <3>2, <3>3 DEF ResolverInv, Owned, ActiveHeld
  <2> QED  BY <2>1, <2>2 DEF Activates
<1> QED  BY <1>3, <1>5, <1>6, <1>7 DEF Owned

\* A thread's step that gives no signal and releases nothing.
LEMMA MoveStep ==
    ASSUME ResolverInv, NEW t \in Thread, NEW r \in ThreadState,
           th' = [th EXCEPT ![t] = r], MayBe(t, r),
           UNCHANGED <<main, ipq_no, content, queue, spurious>>,
           UNCHANGED <<fd0, mr_fds, poll, left, crashed>>,
           lookups' \in [Idx -> Lookup], DOMAIN open' \subseteq Nat,
           Retains(t, r), Activates(t, r),
           r.pc \notin {"signal", "released", "expired"}
    PROVE  ResolverInv'
<1>1. th' \in [Thread -> ThreadState] /\ Places'
      /\ th'[t] = r /\ \A u \in Thread : u # t => th'[u] = th[u]
  BY ThreadMoves
<1>2. Owned'  BY OneMoves
<1>3. Signalling' \subseteq Signalling  BY <1>1 DEF Signalling
<1>4. Shaped' /\ left'.request + left'.other <= left.request + left.other
  BY <1>1, Shape DEF Shaped, Polls
<1> QED  BY <1>1, <1>2, <1>3, <1>4, QuietStep

\* The slots are left alone by a thread that has not released one.
LEMMA SlotsAlone ==
    ASSUME ResolverInv, NEW t \in Thread, NEW r, th[t].pc \notin Releasing,
           lookups' = lookups \/ SameSlots(lookups')
    PROVE  Activates(t, r) /\ Follows
BY DEF Activates, SameSlots, Follows

----------------------------------------------------------------------------
(***************************************************************************)
(* The workers.                                                            *)
(***************************************************************************)
\* _lisp_process (udp.c 1909-1990) takes the packet at the head of the queue.
LEMMA TakesStep ==
    ASSUME ResolverInv, NEW w \in Worker, _lisp_process(w)
    PROVE  ResolverInv'
<1> DEFINE p == Head(queue)
<1>0. /\ queue \in Seq(Nat) /\ queue # <<>> /\ Len(queue) \in Nat \ {0}
      /\ content \in Seq(Packet \cup {NULL})
  BY Shape DEF _lisp_process
<1>1. /\ p = queue[1] /\ 1 \in DOMAIN queue /\ queue' \in Seq(Nat)
      /\ \A k \in DOMAIN queue' : queue'[k] = queue[k + 1] /\ k + 1 \in DOMAIN queue
                                  /\ k \in Nat \ {0}
  BY <1>0 DEF _lisp_process
<1>2. p \in allocated /\ p \in Nat /\ p # NULL /\ p \in DOMAIN content
  BY <1>0, <1>1, ResolverAssumption DEF ResolverInv, Owned, QueueOwns, allocated
<1>3. PICK x \in {"pending", "match", "free"} :
          th' = [th EXCEPT ![w] = [pc |-> x, pke |-> p, idx |-> NULL, recs |-> <<>>]]
  BY DEF _lisp_process
<1>4. /\ UNCHANGED <<main, ipq_no, content, lookups, open, fd0, mr_fds>>
      /\ UNCHANGED <<poll, left, spurious, crashed>>
  BY DEF _lisp_process, loop
<1> HIDE DEF p
<1>5. [pc |-> x, pke |-> p, idx |-> NULL, recs |-> <<>>] \in ThreadState
  BY <1>2 DEF ThreadState, PC
<1>6. /\ th' \in [Thread -> ThreadState]
      /\ th'[w] = [pc |-> x, pke |-> p, idx |-> NULL, recs |-> <<>>]
      /\ \A u \in Thread : u # w => th'[u] = th[u]
      /\ Places'
  <2>1. MayBe(w, [pc |-> x, pke |-> p, idx |-> NULL, recs |-> <<>>])
    BY ThreadIds DEF MayBe, WorkerPC, AtSlot
  <2> QED  BY <1>3, <1>5, <2>1, ThreadMoves, ThreadIds
<1>7. TypeOK' /\ IsFiniteSet(mr_fds)'
  BY <1>1, <1>4, <1>6 DEF ResolverInv, TypeOK, ThreadState
<1>8. Deliveries'  BY <1>4 DEF ResolverInv, Deliveries
<1>10. allocated' = allocated  BY <1>4 DEF allocated
<1>11. \A k \in DOMAIN queue' : queue'[k] # p
  BY <1>1 DEF ResolverInv, Owned, QueueOwns
<1>12. QueueOwns'
  BY <1>1, <1>10 DEF ResolverInv, Owned, QueueOwns
<1>13. WorkersOwn'
  <2>1. \A v \in Worker : th[v].pke # p
    BY <1>1, <1>2 DEF ResolverInv, Owned, WorkersOwn
  <2>2. ASSUME NEW v \in Worker, v # w, th'[v].pke # NULL
        PROVE  /\ th'[v].pke \in DOMAIN content
               /\ th'[v].pc \notin {"signal", "nonce", "start"} => th'[v].pke \in allocated
               /\ \A k \in DOMAIN queue' : queue'[k] # th'[v].pke
               /\ \A u \in Worker : th'[u].pke = th'[v].pke => u = v
    <3>1. th'[v] = th[v]  BY <1>6, <2>2, ThreadIds
    <3>2. /\ th[v].pke \in DOMAIN content
          /\ th[v].pc \notin {"signal", "nonce", "start"} => th[v].pke \in allocated
          /\ \A k \in DOMAIN queue : queue[k] # th[v].pke
          /\ \A u \in Worker : th[u].pke = th[v].pke => u = v
      BY <2>2, <3>1 DEF ResolverInv, Owned, WorkersOwn
    <3>3. \A k \in DOMAIN queue' : queue'[k] # th'[v].pke  BY <1>1, <3>1, <3>2
    <3>4. \A u \in Worker : th'[u].pke = th'[v].pke => u = v
      BY <1>6, <2>1, <2>2, <3>1, <3>2, ThreadIds
    <3> QED  BY <3>1, <3>2, <3>3, <3>4
  <2>3. \A v \in Worker : v # w => (th'[v].pc = "idle" <=> th'[v].pke = NULL)
    BY <1>6, ThreadIds DEF ResolverInv, Owned, WorkersOwn
  <2>4. \A u \in Worker : th'[u].pke = p => u = w
    BY <1>6, <2>1, ThreadIds
  <2> QED  BY <1>2, <1>4, <1>6, <1>10, <1>11, <2>2, <2>3, <2>4 DEF WorkersOwn
<1>14. SlotsOwn'
  <2> SUFFICES ASSUME NEW i \in Idx, lookups[i].pke # NULL
               PROVE  /\ lookups[i].pke \in DOMAIN content
                      /\ \A j \in Idx : lookups[j].pke = lookups[i].pke => j = i
                      /\ \A v \in Worker : th'[v].pke = lookups[i].pke =>
                                               th'[v].pc \in Filling /\ th'[v].idx = i
                      /\ \A k \in DOMAIN queue' : queue'[k] # lookups[i].pke
    BY <1>4 DEF SlotsOwn
  <2>1. /\ lookups[i].pke \in DOMAIN content
        /\ \A j \in Idx : lookups[j].pke = lookups[i].pke => j = i
        /\ \A v \in Worker : th[v].pke = lookups[i].pke =>
                                 th[v].pc \in Filling /\ th[v].idx = i
        /\ \A k \in DOMAIN queue : queue[k] # lookups[i].pke
    BY DEF ResolverInv, Owned, SlotsOwn
  <2>2. \A k \in DOMAIN queue' : queue'[k] # lookups[i].pke  BY <1>1, <2>1
  <2>3. th'[w].pke = p /\ p # lookups[i].pke  BY <1>1, <1>6, <2>1
  <2>4. \A v \in Worker : th'[v].pke = lookups[i].pke =>
                              th'[v].pc \in Filling /\ th'[v].idx = i
    BY <1>6, <2>1, <2>3, ThreadIds
  <2> QED  BY <2>1, <2>2, <2>4
<1>15. ActiveHeld'
  <2>1. th[w].pc = "idle"  BY DEF _lisp_process
  <2>2. ASSUME NEW t \in Thread, th[t].pc \in Releasing \cup {"keep"}
        PROVE  th'[t] = th[t]
    BY <1>6, <2>1, <2>2 DEF Releasing
  <2> QED  BY <1>4, <1>10, <2>2, ThreadIds DEF ResolverInv, Owned, ActiveHeld
<1>16. Counted' /\ Room'
  <2>1. Signalling' \subseteq Signalling
    BY <1>6, ThreadIds DEF Signalling
  <2> QED  BY <1>4, <2>1, KeepsRoom
<1> QED  BY <1>6, <1>7, <1>8, <1>12, <1>13, <1>14, <1>15, <1>16
         DEF ResolverInv, Owned

\* The worker releases the packet it has in hand (udp.c 179-192).
LEMMA FreeStep ==
    ASSUME ResolverInv, NEW w \in Worker, FreeOwn(w)
    PROVE  ResolverInv'
<1> DEFINE p == th[w].pke
<1>0. th[w].pc = "free"  BY DEF FreeOwn
<1>1. p \in allocated /\ p \in DOMAIN content /\ p # NULL
  BY <1>0, InHand DEF Filling
<1>2. /\ UNCHANGED <<main, queue, lookups, open, fd0, mr_fds>>
      /\ UNCHANGED <<poll, left, spurious, crashed>> /\ udp_free_pk(p)
  BY DEF FreeOwn, loop
<1>3. th' = [th EXCEPT ![w] = [th[w] EXCEPT !.pc = "signal"]]
  BY DEF FreeOwn, Goto
<1>4. [th[w] EXCEPT !.pc = "signal"] \in ThreadState
      /\ MayBe(w, [th[w] EXCEPT !.pc = "signal"])
  <2>1. th[w] \in ThreadState  BY ThreadIds, ThreadShape
  <2> QED  BY <2>1, ThreadIds DEF ThreadState, PC, MayBe, WorkerPC, AtSlot
<1>5. /\ th' \in [Thread -> ThreadState]
      /\ th'[w] = [th[w] EXCEPT !.pc = "signal"]
      /\ \A u \in Thread : u # w => th'[u] = th[u]
      /\ Places'
  BY <1>3, <1>4, ThreadMoves, ThreadIds
<1>6. th'[w].pc = "signal" /\ th'[w].pke = p /\ \A u \in Thread : th'[u].pke = th[u].pke
  <2>1. th[w] \in ThreadState  BY ThreadIds, ThreadShape
  <2>2. th'[w].pc = "signal" /\ th'[w].pke = p  BY <1>5, <2>1 DEF ThreadState
  <2>3. ASSUME NEW u \in Thread  PROVE th'[u].pke = th[u].pke
    BY <1>5, <2>2
  <2> QED  BY <2>2, <2>3
<1>7. w \in Thread \ Signalling /\ Signalling' = Signalling \cup {w}
  BY <1>0, <1>5, <1>6, ThreadIds DEF Signalling
<1>8. /\ content' \in Seq(Packet \cup {NULL}) /\ Len(content') = Len(content)
      /\ DOMAIN content' = DOMAIN content
      /\ allocated' = allocated \ {p}
      /\ ipq_no' \in 0..(UIntMod - 1)
      /\ Counted' /\ Room'
  BY <1>1, <1>2, <1>7, ReleasesRoom
<1> HIDE DEF p
<1>9. TypeOK' /\ IsFiniteSet(mr_fds)'
  BY <1>2, <1>5, <1>8 DEF ResolverInv, TypeOK, ThreadState
<1>10. Deliveries'  BY <1>2, <1>8 DEF ResolverInv, Deliveries
<1>12. /\ \A k \in DOMAIN queue : queue[k] # p
       /\ \A v \in Worker : th[v].pke = p => v = w
  BY <1>1 DEF p, ResolverInv, Owned, WorkersOwn
<1>13. \A i \in Idx : lookups[i].pke # p
  BY <1>0, <1>1 DEF p, ResolverInv, Owned, SlotsOwn, Filling
<1>14. QueueOwns'
  BY <1>2, <1>8, <1>12 DEF ResolverInv, Owned, QueueOwns
<1>15. WorkersOwn'
  <2> SUFFICES ASSUME NEW v \in Worker
        PROVE  /\ th'[v].pc = "idle" <=> th[v].pke = NULL
               /\ th[v].pke # NULL =>
                    /\ th[v].pke \in DOMAIN content
                    /\ th'[v].pc \notin {"signal", "nonce", "start"}
                           => th[v].pke \in allocated \ {p}
                    /\ \A k \in DOMAIN queue : queue[k] # th[v].pke
                    /\ \A u \in Worker : th[u].pke = th[v].pke => u = v
    BY <1>2, <1>6, <1>8, ThreadIds DEF WorkersOwn
  <2>1. /\ th[v].pc = "idle" <=> th[v].pke = NULL
        /\ th[v].pke # NULL =>
             /\ th[v].pke \in DOMAIN content
             /\ th[v].pc \notin {"signal", "nonce", "start"} => th[v].pke \in allocated
             /\ \A k \in DOMAIN queue : queue[k] # th[v].pke
             /\ \A u \in Worker : th[u].pke = th[v].pke => u = v
    BY DEF ResolverInv, Owned, WorkersOwn
  <2>2. CASE v = w  BY <1>0, <1>1, <1>6, <2>1, <2>2 DEF p
  <2>3. CASE v # w
    <3>1. th'[v] = th[v]  BY <1>5, <2>3, ThreadIds
    <3> QED  BY <1>12, <2>1, <2>3, <3>1
  <2> QED  BY <2>2, <2>3
<1>16. SlotsOwn'
  <2> SUFFICES ASSUME NEW i \in Idx, lookups[i].pke # NULL
               PROVE  /\ lookups[i].pke \in DOMAIN content
                      /\ \A j \in Idx : lookups[j].pke = lookups[i].pke => j = i
                      /\ \A v \in Worker : th'[v].pke = lookups[i].pke =>
                                               th'[v].pc \in Filling /\ th'[v].idx = i
                      /\ \A k \in DOMAIN queue : queue[k] # lookups[i].pke
    BY <1>2, <1>8 DEF SlotsOwn
  <2>1. /\ lookups[i].pke \in DOMAIN content
        /\ \A j \in Idx : lookups[j].pke = lookups[i].pke => j = i
        /\ \A v \in Worker : th[v].pke = lookups[i].pke =>
                                 th[v].pc \in Filling /\ th[v].idx = i
        /\ \A k \in DOMAIN queue : queue[k] # lookups[i].pke
    BY DEF ResolverInv, Owned, SlotsOwn
  <2>2. \A v \in Worker : th'[v].pke = lookups[i].pke =>
                              th'[v].pc \in Filling /\ th'[v].idx = i
    BY <1>5, <1>6, <1>13, <2>1, ThreadIds
  <2> QED  BY <2>1, <2>2
<1>17. ActiveHeld'
  <2>1. ASSUME NEW t \in Thread, th[t].pc \in Releasing \cup {"keep"}
        PROVE  th'[t] = th[t]
    BY <1>0, <1>5, <2>1 DEF Releasing
  <2> QED  BY <1>2, <1>8, <1>13, <2>1, ThreadIds DEF ResolverInv, Owned, ActiveHeld
<1> QED  BY <1>5, <1>8, <1>9, <1>10, <1>14, <1>15, <1>16, <1>17
         DEF ResolverInv, Owned

\* pthread_cond_signal after the release (udp.c 193).
LEMMA SignalStep ==
    ASSUME ResolverInv, NEW w \in Worker, SignalOwn(w)
    PROVE  ResolverInv'
<1>0. th[w].pc = "signal" /\ Signal /\ th' = [th EXCEPT ![w] = Idle]  BY DEF SignalOwn
<1>1. /\ UNCHANGED <<ipq_no, content, queue, lookups, open, fd0, mr_fds>>
      /\ UNCHANGED <<poll, left, spurious, crashed>>
  BY DEF SignalOwn, loop
<1>2. /\ th' \in [Thread -> ThreadState] /\ th'[w] = Idle
      /\ \A u \in Thread : u # w => th'[u] = th[u]
      /\ Places'
  BY <1>0, ThreadMoves, ThreadShape, ThreadIds
<1>3. w \in Signalling /\ Signalling' = Signalling \ {w}
  BY <1>0, <1>2, ThreadIds DEF Signalling, Idle
<1>4. Counted' /\ Room' /\ main' \in {"poll", "count", "wait", "woken"}
  BY <1>0, <1>1, <1>3, SignalsRoom
<1>5. TypeOK' /\ IsFiniteSet(mr_fds)'
  BY <1>1, <1>2, <1>4 DEF ResolverInv, TypeOK, ThreadState
<1>6. Deliveries'  BY <1>1 DEF ResolverInv, Deliveries
<1>7. Owned'
  <2>1. Retains(w, Idle)  BY <1>0 DEF Retains, Idle
  <2>2. Activates(w, Idle)  BY <1>0, <1>1, SlotsAlone, ThreadIds DEF Releasing
  <2>3. w \in Thread /\ Idle \in ThreadState  BY ThreadIds, ThreadShape
  <2> QED  BY <1>0, <1>1, <2>1, <2>2, <2>3, OneMoves
<1> QED  BY <1>2, <1>4, <1>5, <1>6, <1>7 DEF ResolverInv

\* What the macros of a step leave alone.
LEMMA Unchanged ==
    /\ UNCHANGED pool => UNCHANGED <<main, ipq_no, content, queue>>
    /\ UNCHANGED loop => UNCHANGED <<fd0, mr_fds, poll>>
BY DEF pool, loop

\* A Map-Request: sent again, given a slot to fill, or forgotten (udp.c 3787-3814).
LEMMA PendingStep ==
    ASSUME ResolverInv, NEW w \in Worker, pending_request(w)
    PROVE  ResolverInv' /\ Follows
<1> DEFINE nonce == content[th[w].pke].nonce
           same  == {i \in Idx : lookups[i].active /\ lookups[i].nonce = nonce}
           free  == {i \in Idx : ~lookups[i].active}
           reset == [lookups EXCEPT ![First(same)].count = 0]
<1>0. th[w].pc = "pending" /\ w \in Thread  BY ThreadIds DEF pending_request
<1>1. /\ lookups \in [Idx -> Lookup] /\ DOMAIN open \subseteq Nat
      /\ th[w] \in ThreadState /\ Idle \in ThreadState /\ MayBe(w, Idle)
  BY <1>0, Shape, ThreadShape
<1>2. th[w].pc \notin Releasing /\ Retains(w, Idle)
  BY <1>0 DEF Releasing, Retains, Idle
<1>3. CASE /\ same # {} /\ Send(reset, First(same))
           /\ th' = [th EXCEPT ![w] = Idle]
           /\ UNCHANGED <<pool, open, loop, left, spurious, crashed>>
  <2>1. First(same) \in Idx  BY <1>3, FirstIn
  <2>2. PICK k \in Idx : k = First(same)  BY <2>1
  <2>3. PICK x : x = [lookups[k] EXCEPT !.count = 0]  OBVIOUS
  <2>4. /\ x \in Lookup /\ x.active = lookups[k].active /\ x.pke = lookups[k].pke
        /\ x.last_eid = lookups[k].last_eid
    <3>1. lookups[k] \in Lookup /\ 0 \in 0..(MR_MAX_LOOKUP + 1)  BY <1>1, Bounds
    <3> HIDE DEF same, free, reset, nonce
    <3> QED  BY <2>3, <3>1 DEF Lookup
  <2>5. PICK lks : lks = [lookups EXCEPT ![k] = x]  OBVIOUS
  <2>6. Send(lks, k)  BY <1>3, <2>2, <2>3, <2>5
  <2>7. lks \in [Idx -> Lookup] /\ SameSlots(lks)  BY <1>1, <2>4, <2>5, SlotChanged
  <2>8. lookups' \in [Idx -> Lookup] /\ SameSlots(lookups')  BY <2>6, <2>7, SlotSent
  <2>9. Activates(w, Idle) /\ Follows  BY <1>0, <1>2, <2>8, SlotsAlone
  <2>10. /\ UNCHANGED <<main, ipq_no, content, queue, spurious>>
         /\ UNCHANGED <<fd0, mr_fds, poll, left, crashed>> /\ open' = open
    BY <1>3, Unchanged
  <2>11. th' = [th EXCEPT ![w] = Idle]  BY <1>3
  <2>12. Idle.pc \notin {"signal", "released", "expired"}  BY DEF Idle
  <2> HIDE DEF same, reset, free
  <2> QED  BY <1>0, <1>1, <1>2, <2>8, <2>9, <2>10, <2>11, <2>12, MoveStep
<1>4. CASE Crash
  BY <1>4, CrashStep DEF Follows
<1>5. CASE \E r \in {Idle} \cup {[th[w] EXCEPT !.pc = "claim", !.idx = k] : k \in Idx} :
               /\ th' = [th EXCEPT ![w] = r]
               /\ UNCHANGED <<pool, lookups, open, loop, left, spurious, crashed>>
  <2>1. PICK r \in {Idle} \cup {[th[w] EXCEPT !.pc = "claim", !.idx = k] : k \in Idx} :
               /\ th' = [th EXCEPT ![w] = r]
               /\ UNCHANGED <<pool, lookups, open, loop, left, spurious, crashed>>
    BY <1>5
  <2>2. r \in ThreadState /\ MayBe(w, r) /\ Retains(w, r)
        /\ r.pc \notin {"signal", "released", "expired"}
    <3>1. CASE r = Idle
      BY <1>1, <1>2, <3>1 DEF Idle
    <3>2. CASE r # Idle
      <4>1. PICK k \in Idx : r = [th[w] EXCEPT !.pc = "claim", !.idx = k]
        BY <2>1, <3>2
      <4>2. r \in ThreadState /\ r.pc = "claim" /\ r.idx = k /\ r.pke = th[w].pke
        BY <1>1, <4>1, SlotIsNat DEF ThreadState, PC
      <4>3. MayBe(w, r)
        BY <4>2, ThreadIds DEF MayBe, WorkerPC
      <4>4. Retains(w, r)  BY <1>0, <4>2 DEF Retains, Filling
      <4> QED  BY <4>2, <4>3, <4>4
    <3> QED  BY <3>1, <3>2
  <2>3. /\ UNCHANGED <<main, ipq_no, content, queue, spurious>>
        /\ UNCHANGED <<fd0, mr_fds, poll, left, crashed>>
        /\ open' = open /\ lookups' = lookups
    BY <2>1, Unchanged
  <2>4. Activates(w, r) /\ Follows  BY <1>0, <1>2, <2>3, SlotsAlone
  <2>5. lookups' \in [Idx -> Lookup] /\ DOMAIN open' \subseteq Nat  BY <1>1, <2>3
  <2> QED  BY <1>0, <2>1, <2>2, <2>3, <2>4, <2>5, MoveStep
<1>6. CASE /\ free # {}
           /\ th' = [th EXCEPT ![w].pc = "claim", ![w].idx = First(free)]
           /\ UNCHANGED <<pool, lookups, open, loop, left, spurious, crashed>>
  <2>1. First(free) \in Idx
    <3>1. free \subseteq Idx  OBVIOUS
    <3>2. First(free) \in free  BY <1>6, <3>1, FirstIn
    <3> QED  BY <3>1, <3>2
  <2>2. th' = [th EXCEPT ![w] = [th[w] EXCEPT !.pc = "claim", !.idx = First(free)]]
    BY <1>6
  <2> HIDE DEF free
  <2> QED  BY <1>5, <1>6, <2>1, <2>2
<1>7. CASE /\ th' = [th EXCEPT ![w] = Idle]
           /\ UNCHANGED <<pool, lookups, open, loop, left, spurious, crashed>>
  BY <1>5, <1>7
<1> QED  BY <1>3, <1>4, <1>6, <1>7 DEF pending_request

\* The slot becomes active, with the packet it had (udp.c 3745-3749).
LEMMA ClaimStep ==
    ASSUME ResolverInv, NEW w \in Worker, claim_slot(w)
    PROVE  ResolverInv' /\ Follows
<1>0. th[w].pc = "claim" /\ w \in Thread  BY ThreadIds DEF claim_slot
<1>1. /\ lookups \in [Idx -> Lookup] /\ DOMAIN open \subseteq Nat
      /\ th[w] \in ThreadState /\ th[w].idx \in Idx
      /\ th[w].pke \in Nat
  <2>1. MayBe(w, th[w])  BY <1>0, ThreadShape
  <2>2. th[w].idx \in Idx  BY <1>0, <2>1 DEF MayBe, AtSlot
  <2> QED  BY <1>0, <2>2, Shape, ThreadShape, InHand
<1>2. PICK k \in Idx, p \in Nat : k = th[w].idx /\ p = th[w].pke  BY <1>1
<1>3. PICK x : x = [lookups[k] EXCEPT !.active = TRUE, !.last_eid = NULL, !.rx = p,
                                      !.count = 0]
  OBVIOUS
<1>4. x \in Lookup /\ x.active /\ x.pke = lookups[k].pke /\ x.last_eid = NULL
  <2>1. lookups[k] \in Lookup /\ 0 \in 0..(MR_MAX_LOOKUP + 1)  BY <1>1, Bounds
  <2> QED  BY <1>2, <1>3, <2>1 DEF Lookup
<1>5. lookups' = [lookups EXCEPT ![k] = x]
  BY <1>1, <1>2, <1>3 DEF claim_slot
<1>6. /\ lookups' \in [Idx -> Lookup] /\ lookups'[k] = x
      /\ \A i \in Idx : i # k => lookups'[i] = lookups[i]
  BY <1>1, <1>4, <1>5
<1>7. PICK r : r = [th[w] EXCEPT !.pc = "keep"]  OBVIOUS
<1>8. /\ r \in ThreadState /\ r.pc = "keep" /\ r.idx = k /\ r.pke = p
      /\ th' = [th EXCEPT ![w] = r]
  BY <1>1, <1>2, <1>7 DEF ThreadState, PC, claim_slot, Goto
<1>9. MayBe(w, r)  BY <1>8, ThreadIds DEF MayBe, WorkerPC
<1>10. Retains(w, r)  BY <1>0, <1>2, <1>8 DEF Retains, Filling
<1>11. Activates(w, r)
  BY <1>0, <1>4, <1>6, <1>8 DEF Activates, Releasing
<1>12. Follows  BY <1>4, <1>6 DEF Follows
<1>13. /\ UNCHANGED <<main, ipq_no, content, queue, spurious>>
       /\ UNCHANGED <<fd0, mr_fds, poll, left, crashed>>
  BY Unchanged DEF claim_slot
<1>14. DOMAIN open' \subseteq Nat
  <2>1. DOMAIN open' = DOMAIN open \cup {p}  BY <1>2 DEF claim_slot
  <2> QED  BY <1>1, <2>1
<1>15. r.pc \notin {"signal", "released", "expired"}  BY <1>8
<1> QED  BY <1>0, <1>6, <1>8, <1>9, <1>10, <1>11, <1>12, <1>13, <1>14, <1>15, MoveStep

\* The slot gets the worker's packet, and both have it (udp.c 3750-3761).
LEMMA KeepStep ==
    ASSUME ResolverInv, NEW w \in Worker, keep_packet(w)
    PROVE  ResolverInv' /\ Follows
<1>0. th[w].pc = "keep" /\ w \in Thread  BY ThreadIds DEF keep_packet
<1>1. /\ lookups \in [Idx -> Lookup] /\ th[w] \in ThreadState /\ th[w].idx \in Idx
      /\ th[w].pke \in Nat /\ th[w].pke \in allocated /\ th[w].pke # NULL
      /\ th[w].pke \in DOMAIN content
  <2>1. MayBe(w, th[w])  BY <1>0, ThreadShape
  <2>2. th[w].idx \in Idx  BY <1>0, <2>1 DEF MayBe, AtSlot
  <2> QED  BY <1>0, <2>2, Shape, ThreadShape, InHand DEF Filling
<1>2. PICK k \in Idx, p \in Nat : k = th[w].idx /\ p = th[w].pke  BY <1>1
<1>3. PICK x : x = [lookups[k] EXCEPT !.pke = p]  OBVIOUS
<1>4. /\ x \in Lookup /\ x.active = lookups[k].active /\ x.pke = p
      /\ x.last_eid = lookups[k].last_eid
  BY <1>1, <1>3 DEF Lookup
<1>5. lookups' = [lookups EXCEPT ![k] = x]
  BY <1>1, <1>2, <1>3 DEF keep_packet
<1>6. /\ lookups' \in [Idx -> Lookup] /\ lookups'[k] = x
      /\ \A i \in Idx : i # k => lookups'[i] = lookups[i]
  BY <1>1, <1>4, <1>5
<1>7. PICK r : r = [th[w] EXCEPT !.pc = "nonce"]  OBVIOUS
<1>8. /\ r \in ThreadState /\ r.pc = "nonce" /\ r.idx = k /\ r.pke = p
      /\ th' = [th EXCEPT ![w] = r]
  BY <1>1, <1>2, <1>7 DEF ThreadState, PC, keep_packet, Goto
<1>9. MayBe(w, r)  BY <1>8, ThreadIds DEF MayBe, WorkerPC
<1>10. /\ th' \in [Thread -> ThreadState] /\ th'[w] = r /\ Places'
       /\ \A u \in Thread : u # w => th'[u] = th[u]
  BY <1>0, <1>8, <1>9, ThreadMoves
<1>11. Follows  BY <1>4, <1>6 DEF Follows
<1>12. /\ UNCHANGED <<main, ipq_no, content, queue, spurious>>
       /\ UNCHANGED <<open, fd0, mr_fds, poll, left, crashed>> /\ allocated' = allocated
  BY Unchanged DEF keep_packet, allocated
<1>13. /\ \A j \in Idx : lookups[j].pke # p
       /\ \A q \in DOMAIN queue : queue[q] # p
       /\ \A v \in Worker : th[v].pke = p => v = w
  BY <1>0, <1>1, <1>2 DEF ResolverInv, Owned, SlotsOwn, WorkersOwn, Filling
<1>14. QueueOwns'  BY <1>12 DEF ResolverInv, Owned, QueueOwns
<1>15. \A v \in Worker : /\ th'[v].pke = th[v].pke
                         /\ v # w => th'[v] = th[v]
  BY <1>2, <1>8, <1>10, ThreadIds
<1>16. WorkersOwn'
  BY <1>0, <1>1, <1>2, <1>8, <1>10, <1>12, <1>13, <1>15 DEF ResolverInv, Owned, WorkersOwn
<1>17. SlotsOwn'
  <2>1. ASSUME NEW i \in Idx, lookups'[i].pke # NULL
        PROVE  /\ lookups'[i].pke \in DOMAIN content
               /\ \A j \in Idx : lookups'[j].pke = lookups'[i].pke => j = i
               /\ \A v \in Worker : th'[v].pke = lookups'[i].pke =>
                                        th'[v].pc \in Filling /\ th'[v].idx = i
               /\ \A q \in DOMAIN queue : queue[q] # lookups'[i].pke
    <3>1. CASE i = k
      <4>1. lookups'[i].pke = p  BY <1>4, <1>6, <3>1
      <4>2. \A j \in Idx : lookups'[j].pke = p => j = i  BY <1>6, <1>13, <3>1
      <4>3. \A v \in Worker : th'[v].pke = p => th'[v].pc \in Filling /\ th'[v].idx = i
        BY <1>8, <1>10, <1>13, <1>15, <3>1 DEF Filling
      <4> QED  BY <1>1, <1>2, <1>13, <4>1, <4>2, <4>3
    <3>2. CASE i # k
      <4>1. lookups'[i] = lookups[i] /\ lookups[i].pke # p  BY <1>6, <1>13, <3>2
      <4>2. /\ lookups[i].pke \in DOMAIN content
            /\ \A j \in Idx : lookups[j].pke = lookups[i].pke => j = i
            /\ \A v \in Worker : th[v].pke = lookups[i].pke =>
                                     th[v].pc \in Filling /\ th[v].idx = i
            /\ \A q \in DOMAIN queue : queue[q] # lookups[i].pke
        BY <2>1, <4>1 DEF ResolverInv, Owned, SlotsOwn
      <4>3. \A j \in Idx : lookups'[j].pke = lookups[i].pke => j = i
        BY <1>4, <1>6, <4>1, <4>2
      <4>4. \A v \in Worker : th'[v].pke = lookups[i].pke =>
                                  th'[v].pc \in Filling /\ th'[v].idx = i
        BY <1>2, <1>15, <4>1, <4>2
      <4> QED  BY <4>1, <4>2, <4>3, <4>4
    <3> QED  BY <3>1, <3>2
  <2> QED  BY <1>12, <2>1 DEF SlotsOwn, Filling
<1>18. ActiveHeld'
  <2> SUFFICES ASSUME NEW i \in Idx, lookups'[i].active
               PROVE  \/ \E v \in Worker : th'[v].pc = "keep" /\ th'[v].idx = i
                      \/ \E u \in Thread : th'[u].pc \in Releasing /\ th'[u].idx = i
                      \/ lookups'[i].pke # NULL /\ lookups'[i].pke \in allocated
    BY <1>12 DEF ActiveHeld, Releasing
  <2>1. CASE i = k  BY <1>1, <1>2, <1>4, <1>6, <2>1
  <2>2. CASE i # k
    <3>1. lookups'[i] = lookups[i]  BY <1>6, <2>2
    <3>2. CASE \E v \in Worker : th[v].pc = "keep" /\ th[v].idx = i
      BY <1>2, <1>15, <2>2, <3>2
    <3>3. CASE \E u \in Thread : th[u].pc \in Releasing /\ th[u].idx = i
      BY <1>2, <1>10, <2>2, <3>3
    <3>4. CASE lookups[i].pke # NULL /\ lookups[i].pke \in allocated
      BY <3>1, <3>4
    <3> QED  BY <3>1, <3>2, <3>3, <3>4 DEF ResolverInv, Owned, ActiveHeld
  <2> QED  BY <2>1, <2>2
<1>19. Owned'  BY <1>14, <1>16, <1>17, <1>18 DEF Owned
<1>20. Signalling' \subseteq Signalling  BY <1>8, <1>10 DEF Signalling
<1>21. Shaped' /\ left'.request + left'.other <= left.request + left.other
  BY <1>6, <1>10, <1>12, Shape DEF Shaped, Polls
<1> QED  BY <1>10, <1>11, <1>12, <1>19, <1>20, <1>21, QuietStep

\* The nonce of the packet, if that is still there (udp.c 3762-3767).
LEMMA NonceStep ==
    ASSUME ResolverInv, NEW w \in Worker, copy_nonce(w)
    PROVE  ResolverInv' /\ Follows
<1>0. th[w].pc = "nonce" /\ w \in Thread  BY ThreadIds DEF copy_nonce
<1>1. CASE Crash  BY <1>1, CrashStep DEF Follows
<1>2. CASE /\ th[w].pke \in allocated
           /\ lookups' = [lookups EXCEPT ![th[w].idx].nonce = content[th[w].pke].nonce]
           /\ Goto(w, "start")
           /\ UNCHANGED <<pool, open, loop, left, spurious, crashed>>
  <2>1. /\ lookups \in [Idx -> Lookup] /\ DOMAIN open \subseteq Nat
        /\ th[w] \in ThreadState /\ th[w].idx \in Idx
        /\ content[th[w].pke] \in Packet /\ th[w].pke # NULL
    <3>1. MayBe(w, th[w])  BY <1>0, ThreadShape
    <3>2. th[w].idx \in Idx  BY <1>0, <3>1 DEF MayBe, AtSlot
    <3> QED  BY <1>0, <1>2, <3>2, Shape, ThreadShape, InHand
  <2>2. PICK k \in Idx, n \in Nonce \cup {NULL} :
            k = th[w].idx /\ n = content[th[w].pke].nonce
    BY <2>1 DEF Packet
  <2>3. PICK x : x = [lookups[k] EXCEPT !.nonce = n]  OBVIOUS
  <2>4. /\ x \in Lookup /\ x.active = lookups[k].active /\ x.pke = lookups[k].pke
        /\ x.last_eid = lookups[k].last_eid
    BY <2>1, <2>3 DEF Lookup
  <2>5. lookups' = [lookups EXCEPT ![k] = x]  BY <1>2, <2>1, <2>2, <2>3
  <2>6. lookups' \in [Idx -> Lookup] /\ SameSlots(lookups')
    BY <2>1, <2>4, <2>5, SlotChanged
  <2>7. PICK r : r = [th[w] EXCEPT !.pc = "start"]  OBVIOUS
  <2>8. /\ r \in ThreadState /\ r.pc = "start" /\ r.idx = th[w].idx
        /\ r.pke = th[w].pke /\ th' = [th EXCEPT ![w] = r]
    BY <1>2, <2>1, <2>7 DEF ThreadState, PC, Goto
  <2>9. MayBe(w, r)  BY <2>1, <2>8, ThreadIds DEF MayBe, WorkerPC
  <2>10. Retains(w, r)  BY <1>0, <2>8 DEF Retains, Filling
  <2>11. Activates(w, r) /\ Follows  BY <1>0, <2>6, SlotsAlone DEF Releasing
  <2>12. /\ UNCHANGED <<main, ipq_no, content, queue, spurious>>
         /\ UNCHANGED <<fd0, mr_fds, poll, left, crashed>> /\ open' = open
    BY <1>2, Unchanged
  <2>13. DOMAIN open' \subseteq Nat /\ r.pc \notin {"signal", "released", "expired"}
    BY <2>1, <2>8, <2>12
  <2> QED  BY <1>0, <2>6, <2>8, <2>9, <2>10, <2>11, <2>12, <2>13, MoveStep
<1> QED  BY <1>1, <1>2 DEF copy_nonce

\* The rest of the slot, and the request is sent (udp.c 3769-3785).
LEMMA FillStep ==
    ASSUME ResolverInv, NEW w \in Worker, mr_new_lookup(w)
    PROVE  ResolverInv' /\ Follows
<1>0. th[w].pc = "start" /\ w \in Thread  BY ThreadIds DEF mr_new_lookup
<1>1. /\ lookups \in [Idx -> Lookup] /\ DOMAIN open \subseteq Nat
      /\ Idle \in ThreadState /\ MayBe(w, Idle) /\ th[w].idx \in Idx
  <2>1. MayBe(w, th[w])  BY <1>0, ThreadShape
  <2>2. th[w].idx \in Idx  BY <1>0, <2>1 DEF MayBe, AtSlot
  <2> QED  BY <1>0, <2>2, Shape, ThreadShape
<1>2. PICK k \in Idx : k = th[w].idx  BY <1>1
<1>3. PICK x : x = Started(lookups[k])  OBVIOUS
<1>4. /\ x \in Lookup /\ x.active = lookups[k].active /\ x.pke = lookups[k].pke
      /\ x.last_eid = lookups[k].last_eid
  <2>1. lookups[k] \in Lookup /\ 0 \in 0..MaxAge /\ Rlocs \in Nat  BY <1>1, Bounds
  <2>2. x = [lookups[k] EXCEPT !.list = "live", !.rlocs = Rlocs, !.age = 0]
    BY <1>3 DEF Started
  <2> QED  BY <2>1, <2>2 DEF Lookup
<1>5. PICK lks : lks = [lookups EXCEPT ![k] = x]  OBVIOUS
<1>6. Send(lks, k)
  <2>1. [lookups EXCEPT ![k] = Started(@)] = lks  BY <1>1, <1>3, <1>5
  <2>2. Send([lookups EXCEPT ![k] = Started(@)], k)  BY <1>2 DEF mr_new_lookup
  <2> QED  BY <2>1, <2>2
<1>7. lks \in [Idx -> Lookup] /\ SameSlots(lks)  BY <1>1, <1>4, <1>5, SlotChanged
<1>8. lookups' \in [Idx -> Lookup] /\ SameSlots(lookups')  BY <1>6, <1>7, SlotSent
<1>9. Retains(w, Idle) /\ th[w].pc \notin Releasing
  BY <1>0 DEF Retains, Idle, Releasing
<1>10. Activates(w, Idle) /\ Follows  BY <1>0, <1>8, <1>9, SlotsAlone
<1>11. /\ UNCHANGED <<main, ipq_no, content, queue, spurious>>
       /\ UNCHANGED <<fd0, mr_fds, poll, left, crashed>> /\ open' = open
       /\ th' = [th EXCEPT ![w] = Idle]
  BY Unchanged DEF mr_new_lookup
<1>12. Idle.pc \notin {"signal", "released", "expired"}  BY DEF Idle
<1> QED  BY <1>0, <1>1, <1>8, <1>9, <1>10, <1>11, <1>12, MoveStep

\* get_mr_ddt (udp.c 3890-3945): the slot with the answer's nonce.
LEMMA MatchStep ==
    ASSUME ResolverInv, NEW w \in Worker, get_mr_ddt(w)
    PROVE  ResolverInv' /\ Follows
<1> DEFINE c == content[th[w].pke]
           S == {i \in Searched : lookups[i].nonce = c.nonce}
<1>0. /\ th[w].pc = "match" /\ w \in Thread
      /\ UNCHANGED <<pool, lookups, open, loop, left, spurious>>
  BY ThreadIds DEF get_mr_ddt
<1>1. /\ lookups \in [Idx -> Lookup] /\ DOMAIN open \subseteq Nat
      /\ th[w] \in ThreadState /\ c \in Packet
  BY <1>0, Shape, ThreadShape, InHand DEF Filling
<1>2. CASE Crash  BY <1>2, CrashStep DEF Follows
<1>3. CASE \E r \in ThreadState :
               /\ r.pc \in {"free", "apply"} /\ (r.pc = "apply" => r.idx \in Idx)
               /\ r.pke = th[w].pke
               /\ th' = [th EXCEPT ![w] = r] /\ UNCHANGED crashed
  <2>1. PICK r \in ThreadState :
               /\ r.pc \in {"free", "apply"} /\ (r.pc = "apply" => r.idx \in Idx)
               /\ r.pke = th[w].pke
               /\ th' = [th EXCEPT ![w] = r] /\ UNCHANGED crashed
    BY <1>3
  <2>2. MayBe(w, r)  BY <2>1, ThreadIds DEF MayBe, WorkerPC, AtSlot
  <2>3. Retains(w, r)  BY <1>0, <2>1 DEF Retains, Filling
  <2>4. /\ UNCHANGED <<main, ipq_no, content, queue, spurious>>
        /\ UNCHANGED <<fd0, mr_fds, poll, left, crashed>>
        /\ open' = open /\ lookups' = lookups
    BY <1>0, <2>1, Unchanged
  <2>5. Activates(w, r) /\ Follows  BY <1>0, <2>4, SlotsAlone DEF Releasing
  <2>6. /\ lookups' \in [Idx -> Lookup] /\ DOMAIN open' \subseteq Nat
        /\ r.pc \notin {"signal", "released", "expired"}
    BY <1>1, <2>1, <2>4
  <2> HIDE DEF c, S
  <2> QED  BY <1>0, <2>1, <2>2, <2>3, <2>4, <2>5, <2>6, MoveStep
<1>4. CASE Goto(w, "free") /\ UNCHANGED crashed
  <2>1. PICK r : r = [th[w] EXCEPT !.pc = "free"]  OBVIOUS
  <2>2. /\ r \in ThreadState /\ r.pc = "free" /\ r.pke = th[w].pke
        /\ th' = [th EXCEPT ![w] = r]
    BY <1>1, <1>4, <2>1 DEF ThreadState, PC, Goto
  <2> QED  BY <1>3, <1>4, <2>2
<1>5. CASE /\ S # {}
           /\ th' = [th EXCEPT ![w].pc = "apply", ![w].idx = First(S), ![w].recs = c.recs]
           /\ UNCHANGED crashed
  <2>1. First(S) \in Idx
    <3>1. S \subseteq Idx  BY DEF Searched
    <3>2. First(S) \in S  BY <1>5, <3>1, FirstIn
    <3> QED  BY <3>1, <3>2
  <2>2. PICK k \in Idx : k = First(S)  BY <2>1
  <2>3. c.recs \in Seq(Record)
    <3>1. Answers \subseteq Seq(Record)  BY ResolverAssumption, Zenon
    <3>2. PICK y \in Answers \cup {<<>>} : y = c.recs  BY <1>1 DEF Packet
    <3>3. \A R : <<>> \in Seq(R)  OBVIOUS
    <3>4. y \in Answers => y \in Seq(Record)  BY <3>1, Zenon
    <3>5. y = <<>> => y \in Seq(Record)  BY <3>3, Zenon
    <3>6. y \in Seq(Record)  BY <3>4, <3>5, Zenon
    <3> QED  BY <3>2, <3>6, Zenon
  <2>4. PICK r : r = [th[w] EXCEPT !.pc = "apply", !.idx = k, !.recs = c.recs]
    OBVIOUS
  <2>5. r \in ThreadState /\ r.pc = "apply" /\ r.idx = k /\ r.pke = th[w].pke
    BY <1>1, <2>3, <2>4, SlotIsNat DEF ThreadState, PC
  <2>6. th' = [th EXCEPT ![w] = r]  BY <1>5, <2>2, <2>4
  <2> QED  BY <1>3, <1>5, <2>5, <2>6
<1> QED  BY <1>2, <1>4, <1>5 DEF get_mr_ddt

----------------------------------------------------------------------------
(***************************************************************************)
(* Answers and releases, by a worker or the event loop.                    *)
(***************************************************************************)
LEMMA Answering ==
    ASSUME ResolverInv, NEW t \in Thread,
           th[t].pc \in {"apply", "release", "released", "expire", "expired"}
    PROVE  /\ th[t].idx \in Idx /\ th[t] \in ThreadState
           /\ lookups \in [Idx -> Lookup] /\ lookups[th[t].idx] \in Lookup
           /\ DOMAIN open \subseteq Nat
           /\ th[t].pc \in {"expire", "expired"} => t = MR
           /\ t \in Worker => th[t].pc \notin {"keep", "idle", "signal"} \cup Filling
<1>1. MayBe(t, th[t])  BY ThreadShape
<1>2. th[t].idx \in Idx  BY <1>1 DEF MayBe, AtSlot
<1>3. th[t].pc \in {"expire", "expired"} => t = MR
  BY <1>1 DEF MayBe, WorkerPC
<1>4. th[t].pc \notin {"keep", "idle", "signal"} \cup Filling  BY DEF Filling
<1> QED  BY <1>2, <1>3, <1>4, ThreadShape, Shape

\* One record of an answer (udp.c 3912-3983, 4052-4144): a slot changes only by
\* adopting an EID-prefix inside its last one, and longer.
LEMMA RecordStep ==
    ASSUME ResolverInv, NEW t \in Thread, process_record(t)
    PROVE  ResolverInv' /\ Follows
<1> DEFINE i == th[t].idx
           s == lookups[i]
           q == Head(th[t].recs)
<1>0. th[t].pc = "apply" /\ th[t].recs # <<>>  BY DEF process_record
<1>1. /\ i \in Idx /\ th[t] \in ThreadState /\ s \in Lookup
      /\ lookups \in [Idx -> Lookup] /\ DOMAIN open \subseteq Nat
  BY <1>0, Answering
<1>2. q \in Record /\ Tail(th[t].recs) \in Seq(Record)
  <2>1. th[t].recs \in Seq(Record)  BY <1>1 DEF ThreadState
  <2> QED  BY <1>0, <2>1, HeadTailProperties
<1>3. CASE Crash
  BY <1>3, CrashStep DEF Follows
<1>4. CASE /\ ~Dangling(t, s, q)
           /\ lookups' = IF Adopts(s, q)
                         THEN [lookups EXCEPT ![i].last_eid = q.eid,
                                              ![i].rlocs = @ + q.rlocs]
                         ELSE lookups
           /\ th' = [th EXCEPT ![t].recs = Tail(@),
                               ![t].pc = IF Ends(t, s, q) THEN "release" ELSE @]
           /\ UNCHANGED <<pool, open, loop, left, spurious, crashed>>
  <2>1. PICK x \in {"apply", "release"}, y \in Seq(Record) :
            th' = [th EXCEPT ![t] = [th[t] EXCEPT !.recs = y, !.pc = x]]
    <3>1. (IF Ends(t, s, q) THEN "release" ELSE th[t].pc) \in {"apply", "release"}
      BY <1>0
    <3>2. th' = [th EXCEPT ![t] = [th[t] EXCEPT !.recs = Tail(th[t].recs),
                           !.pc = IF Ends(t, s, q) THEN "release" ELSE th[t].pc]]
      BY <1>1, <1>4, Shape
    <3> QED  BY <1>2, <3>1, <3>2
  <2>2. PICK r : r = [th[t] EXCEPT !.recs = y, !.pc = x]  OBVIOUS
  <2>3. /\ r \in ThreadState /\ r.pc = x /\ r.pke = th[t].pke /\ r.idx = i
        /\ th' = [th EXCEPT ![t] = r]
    BY <1>1, <2>1, <2>2 DEF ThreadState, PC
  <2>4. MayBe(t, r)
    <3>1. MayBe(t, th[t])  BY ThreadShape
    <3> QED  BY <1>1, <2>3, <3>1 DEF MayBe, WorkerPC, LoopPC
  <2>5. Retains(t, r)  BY <1>0, <2>3 DEF Retains, Filling
  <2>6. /\ lookups' \in [Idx -> Lookup]
        /\ \A j \in Idx : j # i => lookups'[j] = lookups[j]
        /\ lookups'[i].pke = s.pke /\ lookups'[i].active = s.active
        /\ \/ lookups'[i].last_eid = s.last_eid
           \/ s.last_eid = NULL
           \/ IsStrictPrefix(s.last_eid, lookups'[i].last_eid)
    <3>1. CASE ~Adopts(s, q)
      <4>1. lookups' = lookups  BY <1>4, <3>1
      <4> QED  BY <1>1, <4>1
    <3>2. CASE Adopts(s, q)
      <4>1. PICK e \in Seq({0, 1}), n \in Nat : e = q.eid /\ n = s.rlocs + q.rlocs
        <5>1. q.eid \in Seq({0, 1}) /\ q.rlocs \in Nat  BY <1>2 DEF Record
        <5>2. s.rlocs \in Nat
          <6>1. \A a \in Lookup : a.rlocs \in Nat  BY DEF Lookup
          <6> HIDE DEF s
          <6> QED  BY <1>1, <6>1
        <5>3. s.rlocs + q.rlocs \in Nat
          <6> HIDE DEF s, q
          <6> QED  BY <5>1, <5>2
        <5> QED  BY <5>1, <5>3
      <4>2. PICK z : z = [s EXCEPT !.last_eid = e, !.rlocs = n]  OBVIOUS
      <4>3. /\ z \in Lookup /\ z.pke = s.pke /\ z.active = s.active /\ z.last_eid = e
        BY <1>1, <4>2 DEF Lookup
      <4>4. lookups' = [lookups EXCEPT ![i] = z]
        BY <1>1, <1>4, <3>2, <4>1, <4>2
      <4>5. s.last_eid = NULL \/ IsStrictPrefix(s.last_eid, e)
        <5>1. s.last_eid # NULL =>
                  IsPrefix(s.last_eid, q.eid) /\ Len(q.eid) > Len(s.last_eid)
          BY <3>2 DEF Adopts, Loops
        <5>2. Len(e) \in Nat  BY LenProperties
        <5> QED  BY <4>1, <5>1, <5>2 DEF IsStrictPrefix
      <4> HIDE DEF i, s, q
      <4>6. /\ lookups' \in [Idx -> Lookup] /\ lookups'[i] = z
            /\ \A j \in Idx : j # i => lookups'[j] = lookups[j]
        BY <1>1, <4>3, <4>4
      <4> QED  BY <4>3, <4>5, <4>6
    <3> QED  BY <3>1, <3>2
  <2> HIDE DEF q
  <2>7. Activates(t, r) /\ Follows
    <3>1. ASSUME NEW j \in Idx
          PROVE  /\ lookups'[j].pke = lookups[j].pke
                 /\ lookups'[j].active => lookups[j].active
                 /\ \/ lookups'[j].last_eid = lookups[j].last_eid
                    \/ lookups[j].last_eid = NULL
                    \/ IsStrictPrefix(lookups[j].last_eid, lookups'[j].last_eid)
      <4>1. CASE j = i  BY <2>6, <4>1
      <4>2. CASE j # i
        <5>1. lookups'[j] = lookups[j]  BY <2>6, <4>2
        <5> QED  BY <5>1
      <4> QED  BY <4>1, <4>2
    <3> HIDE DEF i, s
    <3> QED  BY <1>0, <3>1 DEF Activates, Follows, Releasing
  <2>8. /\ UNCHANGED <<main, ipq_no, content, queue, spurious>>
        /\ UNCHANGED <<fd0, mr_fds, poll, left, crashed>> /\ open' = open
    BY <1>4, Unchanged
  <2>9. DOMAIN open' \subseteq Nat /\ r.pc \notin {"signal", "released", "expired"}
    BY <1>1, <2>3, <2>8
  <2> HIDE DEF i, s
  <2> QED  BY <2>3, <2>4, <2>5, <2>6, <2>7, <2>8, <2>9, MoveStep
<1> QED  BY <1>3, <1>4 DEF process_record

\* Where a thread goes when it leaves an answer or free_lookups.
LEMMA DoneShape ==
    ASSUME ResolverInv, NEW t \in Thread,
           th[t].pc \in {"apply", "release", "released", "expire", "expired"},
           NEW r, \/ r = [th[t] EXCEPT !.pc = Done(t)]
                  \/ r = [th[t] EXCEPT !.pc = "scan", !.idx = @ + 1] /\ t = MR
    PROVE  /\ r \in ThreadState /\ MayBe(t, r)
           /\ r.pc \in {"scan", "events", "free"} /\ Retains(t, r)
<1>1. /\ th[t].idx \in Idx /\ th[t] \in ThreadState
      /\ t \in Worker => th[t].pc \notin {"keep", "idle", "signal"} \cup Filling
  BY Answering
<1>2. CASE r = [th[t] EXCEPT !.pc = Done(t)]
  <2>1. Done(t) \in PC /\ Done(t) \in {"free", "events"} /\ (Done(t) = "events" <=> t = MR)
    BY DEF Done, PC
  <2>2. r \in ThreadState /\ r.pc = Done(t) /\ r.pke = th[t].pke /\ r.idx = th[t].idx
    BY <1>1, <1>2, <2>1 DEF ThreadState
  <2>3. th[t].idx \in 0..MAX_LOOKUPS  BY <1>1, Bounds DEF Idx
  <2>4. MayBe(t, r)  BY <2>1, <2>2, <2>3, ThreadIds DEF MayBe, WorkerPC, LoopPC, AtSlot
  <2>5. Retains(t, r)  BY <1>1, <2>1, <2>2 DEF Retains
  <2> QED  BY <2>1, <2>2, <2>4, <2>5
<1>3. CASE r = [th[t] EXCEPT !.pc = "scan", !.idx = @ + 1] /\ t = MR
  <2>1. th[t].idx + 1 \in Nat /\ th[t].idx + 1 \in 0..MAX_LOOKUPS
    BY <1>1, Bounds DEF Idx
  <2>2. r \in ThreadState /\ r.pc = "scan" /\ r.pke = th[t].pke /\ r.idx = th[t].idx + 1
    BY <1>1, <1>3, <2>1 DEF ThreadState, PC
  <2>3. MayBe(t, r)  BY <1>3, <2>1, <2>2 DEF MayBe, LoopPC, AtSlot
  <2>4. Retains(t, r)  BY <1>3, ThreadIds DEF Retains
  <2> QED  BY <2>2, <2>3, <2>4
<1> QED  BY <1>2, <1>3

\* The request is sent on (udp.c 3985, 4146).
LEMMA SendOnStep ==
    ASSUME ResolverInv, NEW t \in Thread, SendOn(t)
    PROVE  ResolverInv' /\ Follows
<1>0. th[t].pc = "apply"  BY DEF SendOn
<1>1. /\ th[t].idx \in Idx /\ lookups \in [Idx -> Lookup] /\ DOMAIN open \subseteq Nat
  BY <1>0, Answering
<1>2. CASE Crash  BY <1>2, CrashStep DEF Follows
<1>3. CASE /\ Send(lookups, th[t].idx) /\ Goto(t, Done(t))
           /\ UNCHANGED <<pool, open, loop, left, spurious, crashed>>
  <2>1. SameSlots(lookups)  BY DEF SameSlots
  <2>2. lookups' \in [Idx -> Lookup] /\ SameSlots(lookups')
    BY <1>1, <1>3, <2>1, SlotSent
  <2>3. PICK r : r = [th[t] EXCEPT !.pc = Done(t)]  OBVIOUS
  <2>4. /\ r \in ThreadState /\ MayBe(t, r)
        /\ r.pc \in {"scan", "events", "free"} /\ Retains(t, r)
    BY <1>0, <2>3, DoneShape
  <2>5. th' = [th EXCEPT ![t] = r]  BY <1>3, <2>3 DEF Goto
  <2>6. Activates(t, r) /\ Follows  BY <1>0, <2>2, SlotsAlone DEF Releasing
  <2>7. /\ UNCHANGED <<main, ipq_no, content, queue, spurious>>
        /\ UNCHANGED <<fd0, mr_fds, poll, left, crashed>> /\ open' = open
    BY <1>3, Unchanged
  <2>8. DOMAIN open' \subseteq Nat /\ r.pc \notin {"signal", "released", "expired"}
    BY <1>1, <2>4, <2>7
  <2> QED  BY <2>2, <2>4, <2>5, <2>6, <2>7, <2>8, MoveStep
<1> QED  BY <1>2, <1>3 DEF SendOn

LEMMA Resumes ==
    ASSUME ResolverInv, NEW t \in Thread, Resume(t),
           th[t].pc \in {"release", "released", "expire", "expired"}
    PROVE  \E r \in ThreadState :
              /\ MayBe(t, r) /\ r.pc \in {"scan", "events", "free"} /\ Retains(t, r)
              /\ th' = [th EXCEPT ![t] = r]
<1>1. th[t].idx \in Idx /\ th[t] \in ThreadState
      /\ (th[t].pc \in {"expire", "expired"} => t = MR)
  BY Answering
<1>2. PICK r : /\ \/ r = [th[t] EXCEPT !.pc = Done(t)]
                  \/ r = [th[t] EXCEPT !.pc = "scan", !.idx = @ + 1] /\ t = MR
               /\ th' = [th EXCEPT ![t] = r]
  <2>1. CASE th[t].pc \in {"expire", "expired"}
    <3>1. PICK r : r = [th[t] EXCEPT !.pc = "scan", !.idx = @ + 1]  OBVIOUS
    <3>2. th' = [th EXCEPT ![t] = r]  BY <1>1, <2>1, <3>1, Shape DEF Resume
    <3> QED  BY <1>1, <2>1, <3>1, <3>2
  <2>2. CASE th[t].pc \notin {"expire", "expired"}
    <3>1. PICK r : r = [th[t] EXCEPT !.pc = Done(t)]  OBVIOUS
    <3>2. th' = [th EXCEPT ![t] = r]  BY <2>2, <3>1 DEF Resume, Goto
    <3> QED  BY <3>1, <3>2
  <2> QED  BY <2>1, <2>2
<1> QED  BY <1>2, DoneShape

\* free_lookups (udp.c 3821-3832) up to the signal: the packet released is the
\* slot's, and nobody else has it but a worker that still fills the slot.
LEMMA FreeLookupStep ==
    ASSUME ResolverInv, NEW t \in Thread, free_lookups(t)
    PROVE  ResolverInv' /\ Follows
<1> DEFINE i == th[t].idx
           s == lookups[i]
           p == s.pke
<1>0. th[t].pc \in {"release", "expire"}  BY DEF free_lookups
<1>1. /\ i \in Idx /\ (th[t].pc = "expire" => t = MR) /\ th[t] \in ThreadState
      /\ lookups \in [Idx -> Lookup] /\ DOMAIN open \subseteq Nat
  BY <1>0, Answering
<1>2. /\ UNCHANGED <<main, queue, lookups, open, fd0, mr_fds>>
      /\ UNCHANGED <<poll, left, spurious>>
  BY DEF free_lookups, loop
<1>3. Follows  BY <1>2 DEF Follows
<1>4. CASE Crash  BY <1>3, <1>4, CrashStep
<1>5. CASE ~s.active /\ Resume(t) /\ UNCHANGED <<ipq_no, content, crashed>>
  <2>1. PICK r \in ThreadState :
            /\ MayBe(t, r) /\ r.pc \in {"scan", "events", "free"} /\ Retains(t, r)
            /\ th' = [th EXCEPT ![t] = r]
    BY <1>0, <1>5, Resumes
  <2>2. Activates(t, r)  BY <1>0, <1>2, SlotsAlone DEF Releasing
  <2>3. /\ UNCHANGED <<main, ipq_no, content, queue, spurious>>
        /\ UNCHANGED <<fd0, mr_fds, poll, left, crashed>>
        /\ lookups' \in [Idx -> Lookup] /\ DOMAIN open' \subseteq Nat
        /\ r.pc \notin {"signal", "released", "expired"}
    BY <1>1, <1>2, <1>5, <2>1
  <2> QED  BY <1>3, <2>1, <2>2, <2>3, MoveStep
<1>6. CASE /\ s.active /\ p \in allocated
           /\ udp_free_pk(p)
           /\ Goto(t, IF th[t].pc = "expire" THEN "expired" ELSE "released")
           /\ UNCHANGED crashed
  <2>1. PICK x \in {"expired", "released"} :
            /\ Goto(t, x)
            /\ x = "expired" => t = MR
    BY <1>0, <1>1, <1>6
  <2>2. PICK r : r = [th[t] EXCEPT !.pc = x]  OBVIOUS
  <2>3. /\ r \in ThreadState /\ r.pc = x /\ r.pke = th[t].pke /\ r.idx = i
        /\ th' = [th EXCEPT ![t] = r]
    BY <1>1, <2>1, <2>2 DEF ThreadState, PC, Goto
  <2>4. MayBe(t, r)
    <3>1. MayBe(t, th[t])  BY ThreadShape
    <3> QED  BY <1>1, <2>1, <2>3, <3>1, ThreadIds DEF MayBe, WorkerPC, LoopPC
  <2>5. /\ th' \in [Thread -> ThreadState] /\ th'[t] = r /\ Places'
        /\ \A u \in Thread : u # t => th'[u] = th[u]
    BY <2>3, <2>4, ThreadMoves
  <2>6. t \in Thread \ Signalling /\ Signalling' = Signalling \cup {t}
    BY <1>0, <2>3, <2>5 DEF Signalling
  <2>7. /\ content' \in Seq(Packet \cup {NULL}) /\ Len(content') = Len(content)
        /\ DOMAIN content' = DOMAIN content
        /\ allocated' = allocated \ {p}
        /\ ipq_no' \in 0..(UIntMod - 1)
        /\ Counted' /\ Room'
    BY <1>2, <1>6, <2>6, ReleasesRoom
  <2>8. p # NULL
    <3>1. NULL \notin allocated
      <4>1. content \in Seq(Packet \cup {NULL})  BY Shape
      <4>2. DOMAIN content \subseteq Nat  BY <4>1
      <4> QED  BY <4>2, ResolverAssumption DEF allocated
    <3> QED  BY <1>6, <3>1
  <2>9. /\ \A j \in Idx : lookups[j].pke = p => j = i
        /\ \A w \in Worker : th[w].pke = p => th[w].pc \in Filling
        /\ \A k \in DOMAIN queue : queue[k] # p
    BY <1>1, <2>8 DEF ResolverInv, Owned, SlotsOwn
  <2> HIDE DEF p, s, i
  <2>10. TypeOK' /\ IsFiniteSet(mr_fds)'
    BY <1>2, <1>6, <2>5, <2>7 DEF ResolverInv, TypeOK, ThreadState
  <2>11. Deliveries'  BY <1>2, <2>7 DEF ResolverInv, Deliveries
  <2>12. QueueOwns'  BY <1>2, <2>7, <2>9 DEF ResolverInv, Owned, QueueOwns
  <2>13. \A v \in Worker : /\ th'[v].pke = th[v].pke
                           /\ th'[v] = th[v] \/ v = t
    BY <2>3, <2>5, ThreadIds
  <2>14. WorkersOwn'
    <3> SUFFICES ASSUME NEW v \in Worker
          PROVE  /\ th'[v].pc = "idle" <=> th[v].pke = NULL
                 /\ th[v].pke # NULL =>
                      /\ th[v].pke \in DOMAIN content
                      /\ th'[v].pc \notin {"signal", "nonce", "start"}
                             => th[v].pke \in allocated \ {p}
                      /\ \A k \in DOMAIN queue : queue[k] # th[v].pke
                      /\ \A u \in Worker : th[u].pke = th[v].pke => u = v
      BY <1>2, <2>7, <2>13 DEF WorkersOwn
    <3>1. /\ th[v].pc = "idle" <=> th[v].pke = NULL
          /\ th[v].pke # NULL =>
               /\ th[v].pke \in DOMAIN content
               /\ th[v].pc \notin {"signal", "nonce", "start"} => th[v].pke \in allocated
               /\ \A k \in DOMAIN queue : queue[k] # th[v].pke
               /\ \A u \in Worker : th[u].pke = th[v].pke => u = v
      BY DEF ResolverInv, Owned, WorkersOwn
    <3>2. /\ th'[v].pc = "idle" <=> th[v].pc = "idle"
          /\ th'[v].pc \in {"signal", "nonce", "start"}
                 <=> th[v].pc \in {"signal", "nonce", "start"}
      BY <1>0, <2>3, <2>5, <2>13
    <3>3. th[v].pke = p => th[v].pc \in {"nonce", "start"}  BY <2>9 DEF Filling
    <3> QED  BY <3>1, <3>2, <3>3
  <2>15. SlotsOwn'
    <3> SUFFICES ASSUME NEW j \in Idx, lookups[j].pke # NULL
                 PROVE  /\ lookups[j].pke \in DOMAIN content
                        /\ \A k \in Idx : lookups[k].pke = lookups[j].pke => k = j
                        /\ \A v \in Worker : th'[v].pke = lookups[j].pke =>
                                                 th'[v].pc \in Filling /\ th'[v].idx = j
                        /\ \A k \in DOMAIN queue : queue[k] # lookups[j].pke
      BY <1>2, <2>7 DEF SlotsOwn
    <3>1. /\ lookups[j].pke \in DOMAIN content
          /\ \A k \in Idx : lookups[k].pke = lookups[j].pke => k = j
          /\ \A v \in Worker : th[v].pke = lookups[j].pke =>
                                   th[v].pc \in Filling /\ th[v].idx = j
          /\ \A k \in DOMAIN queue : queue[k] # lookups[j].pke
      BY DEF ResolverInv, Owned, SlotsOwn
    <3>2. \A v \in Worker : v = t => th[v].pc \notin Filling  BY <1>0 DEF Filling
    <3>3. \A v \in Worker : th'[v].pke = lookups[j].pke =>
                                th'[v].pc \in Filling /\ th'[v].idx = j
      BY <2>13, <3>1, <3>2
    <3> QED  BY <3>1, <3>3
  <2>16. ActiveHeld'
    <3> SUFFICES ASSUME NEW j \in Idx, lookups[j].active
                 PROVE  \/ \E w \in Worker : th'[w].pc = "keep" /\ th'[w].idx = j
                        \/ \E u \in Thread : th'[u].pc \in Releasing /\ th'[u].idx = j
                        \/ lookups[j].pke # NULL /\ lookups[j].pke \in allocated \ {p}
      BY <1>2, <2>7 DEF ActiveHeld
    <3>1. \/ \E w \in Worker : th[w].pc = "keep" /\ th[w].idx = j
          \/ \E u \in Thread : th[u].pc \in Releasing /\ th[u].idx = j
          \/ lookups[j].pke # NULL /\ lookups[j].pke \in allocated
      BY DEF ResolverInv, Owned, ActiveHeld
    <3>2. CASE j = i  BY <2>3, <2>5, <3>2 DEF Releasing
    <3>3. CASE j # i
      <4>1. lookups[j].pke # p  BY <2>9, <3>3
      <4>2. ASSUME NEW u \in Thread, th[u].pc \in Releasing \cup {"keep"}
            PROVE  th'[u] = th[u]
        BY <1>0, <2>5, <4>2 DEF Releasing
      <4> QED  BY <3>1, <4>1, <4>2, ThreadIds
    <3> QED  BY <3>2, <3>3
  <2> QED  BY <1>3, <2>5, <2>7, <2>10, <2>11, <2>12, <2>14, <2>15, <2>16
           DEF ResolverInv, Owned
<1> QED  BY <1>4, <1>5, <1>6 DEF free_lookups

\* The rest of free_lookups: the signal, then the slot is free.
LEMMA ClearStep ==
    ASSUME ResolverInv, NEW t \in Thread, ClearLookup(t)
    PROVE  ResolverInv' /\ Follows
<1>0. th[t].pc \in {"released", "expired"}  BY DEF ClearLookup
<1>1. /\ th[t].idx \in Idx /\ lookups \in [Idx -> Lookup] /\ DOMAIN open \subseteq Nat
  BY <1>0, Answering
<1>2. PICK i \in Idx : i = th[t].idx  BY <1>1
<1>3. CASE Crash  BY <1>3, CrashStep DEF Follows
<1>4. CASE /\ Signal
           /\ lookups' = [lookups EXCEPT ![i] = Cleared(@)]
           /\ open' = [q \in DOMAIN open \ {lookups[i].rx} |-> open[q]]
           /\ Resume(t)
           /\ UNCHANGED <<ipq_no, content, queue, loop, left, spurious, crashed>>
  <2>1. PICK r \in ThreadState :
            /\ MayBe(t, r) /\ r.pc \in {"scan", "events", "free"} /\ Retains(t, r)
            /\ th' = [th EXCEPT ![t] = r]
    BY <1>0, <1>4, Resumes
  <2>2. PICK s \in Lookup : s = lookups[i]  BY <1>1
  <2>3. PICK x : x = Cleared(s)  OBVIOUS
  <2>4. x \in Lookup /\ ~x.active /\ x.last_eid = NULL /\ x.pke = lookups[i].pke
    <3>1. x \in Lookup /\ ~x.active /\ x.last_eid = NULL /\ x.pke = s.pke
      BY <2>3 DEF Lookup, Cleared
    <3> QED  BY <2>2, <3>1
  <2>5. lookups' = [lookups EXCEPT ![i] = x]  BY <1>1, <1>4, <2>2, <2>3
  <2>6. /\ lookups' \in [Idx -> Lookup] /\ lookups'[i] = x
        /\ \A j \in Idx : j # i => lookups'[j] = lookups[j]
    BY <1>1, <2>4, <2>5
  <2>7. Follows /\ Activates(t, r)
    BY <1>2, <2>4, <2>6 DEF Follows, Activates
  <2>8. /\ UNCHANGED <<ipq_no, content, queue, spurious>>
        /\ UNCHANGED <<fd0, mr_fds, poll, left, crashed>> /\ Signal
    BY <1>4, Unchanged
  <2>9. DOMAIN open' \subseteq Nat
    <3>1. DOMAIN open' = DOMAIN open \ {lookups[i].rx}  BY <1>4
    <3> QED  BY <1>1, <3>1
  <2>10. /\ th' \in [Thread -> ThreadState] /\ th'[t] = r /\ Places'
         /\ \A u \in Thread : u # t => th'[u] = th[u]
    BY <2>1, ThreadMoves
  <2>11. t \in Signalling /\ Signalling' = Signalling \ {t}
    BY <1>0, <2>1, <2>10 DEF Signalling
  <2>12. Counted' /\ Room' /\ main' \in {"poll", "count", "wait", "woken"}
    BY <2>8, <2>11, SignalsRoom
  <2>13. TypeOK' /\ IsFiniteSet(mr_fds)'
    BY <2>6, <2>8, <2>9, <2>10, <2>12 DEF ResolverInv, TypeOK, ThreadState
  <2>14. Deliveries'  BY <2>8 DEF ResolverInv, Deliveries
  <2>15. Owned'  BY <2>1, <2>7, <2>8, OneMoves
  <2> QED  BY <2>7, <2>10, <2>12, <2>13, <2>14, <2>15 DEF ResolverInv
<1> QED
  <2>1. \/ Crash
        \/ /\ Signal
           /\ lookups' = [lookups EXCEPT ![th[t].idx] = Cleared(@)]
           /\ open' = [q \in DOMAIN open \ {lookups[th[t].idx].rx} |-> open[q]]
           /\ Resume(t)
           /\ UNCHANGED <<ipq_no, content, queue, loop, left, spurious, crashed>>
    BY DEF ClearLookup
  <2> QED  BY <1>2, <1>3, <1>4, <2>1

----------------------------------------------------------------------------
(***************************************************************************)
(* The event loop and the network.                                         *)
(***************************************************************************)
\* A step by which no thread moves, no packet and no owner changes.
LEMMA StillStep ==
    ASSUME ResolverInv, UNCHANGED <<main, ipq_no, content, queue, spurious, th>>,
           lookups' \in [Idx -> Lookup], lookups' = lookups \/ SameSlots(lookups'),
           DOMAIN open' \subseteq Nat, Polls',
           left' \in [request : Nat, other : Nat],
           left'.request + left'.other <= left.request + left.other,
           crashed' \in BOOLEAN
    PROVE  ResolverInv' /\ Follows
<1>1. \A i \in Idx : /\ lookups'[i].pke = lookups[i].pke
                     /\ lookups'[i].active = lookups[i].active
                     /\ lookups'[i].last_eid = lookups[i].last_eid
  BY DEF SameSlots
<1>2. allocated' = allocated /\ Signalling' = Signalling  BY DEF allocated, Signalling
<1>3. QueueOwns' /\ WorkersOwn'
  BY <1>2 DEF ResolverInv, Owned, QueueOwns, WorkersOwn
<1>4. SlotsOwn'
  BY <1>1 DEF ResolverInv, Owned, SlotsOwn
<1>5. ActiveHeld'
  BY <1>1, <1>2 DEF ResolverInv, Owned, ActiveHeld
<1>6. Places'  BY DEF ResolverInv, Places
<1>7. Shaped'  BY Shape DEF Shaped
<1>8. Follows  BY <1>1 DEF Follows
<1>9. Owned'  BY <1>3, <1>4, <1>5 DEF Owned
<1> QED  BY <1>2, <1>6, <1>7, <1>8, <1>9, QuietStep

\* A step of mr_event_loop (udp.c 4176-4249) that leaves the packets alone.
LEMMA LoopStep ==
    ASSUME ResolverInv, NEW r \in ThreadState, th' = [th EXCEPT ![MR] = r],
           MayBe(MR, r), th[MR].pc \notin Releasing,
           r.pc \notin {"signal", "released", "expired"},
           UNCHANGED <<main, ipq_no, content, queue, spurious>>,
           lookups' \in [Idx -> Lookup], lookups' = lookups \/ SameSlots(lookups'),
           DOMAIN open' \subseteq Nat, Polls',
           left' \in [request : Nat, other : Nat],
           left'.request + left'.other <= left.request + left.other,
           crashed' \in BOOLEAN
    PROVE  ResolverInv' /\ Follows
<1>0. MR \in Thread  BY ThreadIds
<1>1. th' \in [Thread -> ThreadState] /\ Places'
      /\ th'[MR] = r /\ \A u \in Thread : u # MR => th'[u] = th[u]
  BY <1>0, ThreadMoves
<1>2. Retains(MR, r)  BY ThreadIds DEF Retains
<1>3. Activates(MR, r) /\ Follows  BY <1>0, SlotsAlone
<1>4. Owned'  BY <1>0, <1>2, <1>3, OneMoves
<1>5. Signalling' \subseteq Signalling  BY <1>0, <1>1 DEF Signalling
<1>6. Shaped'  BY <1>1 DEF Shaped
<1> QED  BY <1>1, <1>3, <1>4, <1>5, <1>6, QuietStep

\* What the invariant says of the parts the event loop reads.
LEMMA LoopShape ==
    ASSUME ResolverInv
    PROVE  /\ left \in [request : Nat, other : Nat]
           /\ left.request + left.other <= left.request + left.other
           /\ lookups \in [Idx -> Lookup] /\ DOMAIN open \subseteq Nat
           /\ Polls /\ crashed \in BOOLEAN
           /\ MR \in Thread /\ th[MR] \in ThreadState /\ MayBe(MR, th[MR])
           /\ th = [th EXCEPT ![MR] = th[MR]]
<1>1. left.request + left.other <= left.request + left.other  BY Shape
<1>2. Polls  BY Shape DEF Polls
<1>3. MR \in Thread /\ th[MR] \in ThreadState /\ MayBe(MR, th[MR])
  BY ThreadIds, ThreadShape
<1>4. th = [th EXCEPT ![MR] = th[MR]]  BY Shape
<1> QED  BY <1>1, <1>2, <1>3, <1>4, Shape

\* The loop starts again (udp.c 4178-4180).
LEMMA RoundStarts ==
    ASSUME ResolverInv, NextRound, fd0' = fd0
    PROVE  /\ Polls' /\ th' = [th EXCEPT ![MR] = Scanning]
           /\ Scanning \in ThreadState /\ MayBe(MR, Scanning)
           /\ Scanning.pc \notin {"signal", "released", "expired"}
<1>1. /\ mr_fds' = {} /\ poll' = NoPoll /\ th' = [th EXCEPT ![MR] = Scanning]
  BY DEF NextRound
<1>2. IsFiniteSet({}) /\ Cardinality({}) = 0  BY FS_EmptySet
<1>3. NoPoll \in PollState  BY Bounds DEF NoPoll, PollState
<1>4. fd0' \in {"quiet", "readable", "closed"}  BY Shape
<1>5. Polls'  BY <1>1, <1>2, <1>3, <1>4, Bounds DEF Polls
<1>6. Scanning.pc \notin {"signal", "released", "expired"}  BY DEF Scanning
<1> QED  BY <1>1, <1>5, <1>6, LoopShape, ThreadShape

\* The time until the next send is a natural number (udp.c 4206-4213).
LEMMA DeltaNat ==
    ASSUME NEW s \in Lookup
    PROVE  delta(s) \in Nat
<1>1. PICK a \in Nat : a = s.age  BY Bounds DEF Lookup
<1>2. PICK m \in Nat : m = s.count * timeout
  <2>1. s.count \in Nat  BY Bounds DEF Lookup
  <2>2. \A x, y \in Nat : x * y \in Nat  OBVIOUS
  <2> QED  BY <2>1, <2>2, Bounds
<1>3. timeout \div 2 \in Nat
  <2>1. \A x \in Nat : x \div 2 \in Nat  OBVIOUS
  <2> QED  BY <2>1, Bounds
<1>4. delta(s) = IF m <= a THEN timeout \div 2 ELSE m - a  BY <1>1, <1>2 DEF delta
<1> QED  BY <1>3, <1>4

\* One slot of the scan (udp.c 4190-4231).
LEMMA ScanStep ==
    ASSUME ResolverInv, scan_lookup
    PROVE  ResolverInv' /\ Follows
<1>0. /\ th[MR].pc = "scan" /\ th[MR].idx \in Idx
      /\ UNCHANGED <<main, ipq_no, content, queue, spurious>>
      /\ UNCHANGED <<lookups, open, fd0, left>>
  BY DEF scan_lookup, pool
<1>1. th[MR].pc \notin Releasing  BY <1>0 DEF Releasing
<1>2. PICK i \in Idx : i = th[MR].idx  BY <1>0
<1>3. lookups[i] \in Lookup /\ lookups[i].rx \in Nat \cup {NULL}
  <2>1. \A a \in Lookup : a.rx \in Nat \cup {NULL}  BY DEF Lookup
  <2> QED  BY <2>1, LoopShape
<1>4. PICK n \in Nat : n = i + 1 /\ n \in 0..MAX_LOOKUPS
  BY Bounds DEF Idx
<1>5. PICK r : r = [th[MR] EXCEPT !.idx = n]  OBVIOUS
<1>6. /\ r \in ThreadState /\ r.pc = "scan" /\ r.idx = n
      /\ MayBe(MR, r) /\ r.pc \notin {"signal", "released", "expired"}
  <2>1. r \in ThreadState /\ r.pc = "scan" /\ r.idx = n
    BY <1>0, <1>5, LoopShape DEF ThreadState
  <2> QED  BY <1>4, <2>1 DEF MayBe, LoopPC, AtSlot
<1>7. th' = [th EXCEPT ![MR].idx = @ + 1] => th' = [th EXCEPT ![MR] = r]
  BY <1>2, <1>4, <1>5
<1>8. CASE th' = [th EXCEPT ![MR].idx = @ + 1] /\ UNCHANGED <<mr_fds, poll, crashed>>
  <2>1. Polls' /\ crashed' \in BOOLEAN
    BY <1>0, <1>8, LoopShape DEF Polls
  <2> QED  BY <1>0, <1>1, <1>6, <1>7, <1>8, <2>1, LoopShape, LoopStep
<1>9. CASE Goto(MR, "expire") /\ UNCHANGED <<mr_fds, poll, crashed>>
  <2>1. PICK x : x = [th[MR] EXCEPT !.pc = "expire"]  OBVIOUS
  <2>2. /\ x \in ThreadState /\ x.pc = "expire" /\ x.idx = i
        /\ th' = [th EXCEPT ![MR] = x]
    BY <1>2, <1>9, <2>1, LoopShape DEF ThreadState, PC, Goto
  <2>3. MayBe(MR, x) /\ x.pc \notin {"signal", "released", "expired"}
    BY <2>2, Bounds DEF MayBe, LoopPC, Idx
  <2>4. Polls' /\ crashed' \in BOOLEAN
    BY <1>0, <1>9, LoopShape DEF Polls
  <2> QED  BY <1>0, <1>1, <2>2, <2>3, <2>4, LoopShape, LoopStep
<1>10. CASE crashed' = TRUE /\ UNCHANGED <<mr_fds, poll, th>>
  <2>1. Polls' /\ crashed' \in BOOLEAN
    BY <1>0, <1>10, LoopShape DEF Polls
  <2> QED  BY <1>0, <1>10, <2>1, LoopShape, StillStep
<1>11. CASE /\ 2 * Cardinality(mr_fds) + 1 <= MAX_LOOKUPS
            /\ mr_fds' = mr_fds \cup {<<i, lookups[i].rx>>}
            /\ \/ /\ delta(lookups[i]) <= poll.to
                  /\ poll' = [poll EXCEPT !.l = i, !.to = delta(lookups[i])]
               \/ poll' = poll
            /\ th' = [th EXCEPT ![MR].idx = @ + 1]
            /\ UNCHANGED crashed
  <2>1. poll' \in PollState
    <3>1. poll \in PollState  BY Shape
    <3>2. PICK d \in Nat : d = delta(lookups[i])  BY <1>3, DeltaNat
    <3>3. CASE poll' = poll  BY <3>1, <3>3
    <3>4. CASE d <= poll.to /\ poll' = [poll EXCEPT !.l = i, !.to = d]
      <4>1. d \in 0..timeout  BY <3>1, <3>4, Bounds DEF PollState
      <4> QED  BY <3>1, <3>4, <4>1 DEF PollState
    <3> QED  BY <1>11, <3>2, <3>3, <3>4
  <2>2. mr_fds' \subseteq Idx \X (Nat \cup {NULL})
    BY <1>3, <1>11, Shape
  <2>3. PICK x : x = <<i, lookups[i].rx>>  OBVIOUS
  <2>4. /\ IsFiniteSet(mr_fds')
        /\ 2 * Cardinality(mr_fds') <= MAX_LOOKUPS + 1
    <3>1. IsFiniteSet(mr_fds) /\ 2 * Cardinality(mr_fds) <= MAX_LOOKUPS + 1
      BY Shape
    <3>2. mr_fds' = mr_fds \cup {x}  BY <1>11, <2>3
    <3>3. PICK a \in Nat : a = Cardinality(mr_fds)  BY <3>1, FS_CardinalityType
    <3>4. CASE x \in mr_fds
      <4>1. mr_fds' = mr_fds  BY <3>2, <3>4
      <4> QED  BY <3>1, <4>1
    <3>5. CASE x \notin mr_fds
      <4>1. IsFiniteSet(mr_fds') /\ Cardinality(mr_fds') = a + 1
        BY <3>1, <3>2, <3>3, <3>5, FS_AddElement
      <4>2. 2 * a + 1 <= MAX_LOOKUPS  BY <1>11, <3>3
      <4>3. 2 * (a + 1) <= MAX_LOOKUPS + 1  BY <4>2, Bounds
      <4> QED  BY <4>1, <4>3
    <3> QED  BY <3>4, <3>5
  <2>5. Polls' /\ crashed' \in BOOLEAN
    BY <1>0, <1>11, <2>1, <2>2, <2>4, LoopShape DEF Polls
  <2> QED  BY <1>0, <1>1, <1>6, <1>7, <1>11, <2>5, LoopShape, LoopStep
<1> QED  BY <1>2, <1>8, <1>9, <1>10, <1>11 DEF scan_lookup

\* Time passes (udp.c 4206-4215).
LEMMA TickStep ==
    ASSUME ResolverInv, Tick
    PROVE  ResolverInv' /\ Follows
<1>1. /\ UNCHANGED <<main, ipq_no, content, queue, spurious, th>>
      /\ UNCHANGED <<open, fd0, mr_fds, left, crashed>>
  BY DEF Tick, pool
<1>2. poll' \in PollState
  <2>1. poll \in PollState  BY Shape
  <2>2. CASE poll' = poll  BY <2>1, <2>2
  <2>3. CASE poll.to > 0 /\ poll' = [poll EXCEPT !.to = @ - 1]
    <3>1. poll.to - 1 \in 0..timeout  BY <2>1, <2>3, Bounds DEF PollState
    <3> QED  BY <2>1, <2>3, <3>1 DEF PollState
  <2> QED  BY <2>2, <2>3 DEF Tick
<1>3. ASSUME NEW i \in Idx
      PROVE  /\ lookups'[i] \in Lookup
             /\ lookups'[i].pke = lookups[i].pke
             /\ lookups'[i].active = lookups[i].active
             /\ lookups'[i].last_eid = lookups[i].last_eid
  <2>1. PICK s \in Lookup : s = lookups[i]  BY LoopShape
  <2>2. PICK x : x = IF s.age < MaxAge THEN [s EXCEPT !.age = @ + 1] ELSE s
    OBVIOUS
  <2>3. lookups'[i] = x  BY <2>1, <2>2 DEF Tick
  <2>4. /\ x \in Lookup /\ x.pke = s.pke /\ x.active = s.active
        /\ x.last_eid = s.last_eid
    <3>1. CASE s.age < MaxAge
      <4>1. s.age + 1 \in 0..MaxAge  BY <3>1, Bounds DEF Lookup
      <4> QED  BY <2>2, <3>1, <4>1 DEF Lookup
    <3>2. CASE ~(s.age < MaxAge)  BY <2>2, <3>2
    <3> QED  BY <3>1, <3>2
  <2> QED  BY <2>1, <2>3, <2>4
<1>4. lookups' \in [Idx -> Lookup]
  <2>1. lookups' = [i \in Idx |-> lookups'[i]]  BY DEF Tick
  <2> QED  BY <1>3, <2>1
<1>5. SameSlots(lookups')  BY <1>3 DEF SameSlots
<1>6. Polls'  BY <1>1, <1>2, LoopShape DEF Polls
<1>7. /\ DOMAIN open' \subseteq Nat /\ left' \in [request : Nat, other : Nat]
      /\ left'.request + left'.other <= left.request + left.other
      /\ crashed' \in BOOLEAN
  BY <1>1, LoopShape
<1> QED  BY <1>1, <1>4, <1>5, <1>6, <1>7, StillStep

\* poll runs out and the request of its slot is sent again (udp.c 4234-4238).
LEMMA TimeoutStep ==
    ASSUME ResolverInv, poll_timeout
    PROVE  ResolverInv' /\ Follows
<1>0. /\ th[MR].pc = "scan" /\ UNCHANGED <<main, ipq_no, content, queue, spurious>>
      /\ UNCHANGED <<open, fd0, left>>
  BY DEF poll_timeout, InPoll, pool
<1>1. th[MR].pc \notin Releasing  BY <1>0 DEF Releasing
<1>2. CASE NextRound /\ UNCHANGED <<lookups, crashed>>
  <2>1. crashed' \in BOOLEAN  BY <1>2, LoopShape
  <2> QED  BY <1>0, <1>1, <1>2, <2>1, RoundStarts, LoopShape, LoopStep
<1>3. CASE /\ poll.l # NULL /\ Send(lookups, poll.l) /\ NextRound /\ UNCHANGED crashed
  <2>1. poll.l \in Idx  BY <1>3, Shape DEF PollState
  <2>2. SameSlots(lookups)  BY DEF SameSlots
  <2>3. lookups' \in [Idx -> Lookup] /\ SameSlots(lookups')
    BY <1>3, <2>1, <2>2, SlotSent, LoopShape
  <2>4. crashed' \in BOOLEAN  BY <1>3, LoopShape
  <2> QED  BY <1>0, <1>1, <1>3, <2>3, <2>4, RoundStarts, LoopShape, LoopStep
<1>4. CASE crashed' = TRUE /\ UNCHANGED <<lookups, mr_fds, poll, th>>
  <2>1. Polls' /\ crashed' \in BOOLEAN
    BY <1>0, <1>4, LoopShape DEF Polls
  <2> QED  BY <1>0, <1>4, <2>1, LoopShape, StillStep
<1> QED  BY <1>2, <1>3, <1>4 DEF poll_timeout

\* poll returns for nothing, or all its descriptors are handled.
LEMMA RoundEnds ==
    ASSUME ResolverInv, poll_closed \/ poll_signal \/ events_done
    PROVE  ResolverInv' /\ Follows
<1>1. /\ th[MR].pc \in {"scan", "events"} /\ NextRound
      /\ UNCHANGED <<main, ipq_no, content, queue, spurious>>
      /\ UNCHANGED <<lookups, open, fd0, crashed>>
      /\ UNCHANGED left \/ Uses("other")
  BY DEF poll_closed, poll_signal, events_done, InPoll, pool
<1>2. th[MR].pc \notin Releasing  BY <1>1 DEF Releasing
<1>3. /\ left' \in [request : Nat, other : Nat]
      /\ left'.request + left'.other <= left.request + left.other
  <2>1. CASE UNCHANGED left  BY <2>1, LoopShape
  <2>2. CASE Uses("other")
    <3>1. /\ left' \in [request : Nat, other : Nat]
          /\ left'.request + left'.other + 1 = left.request + left.other
      BY <2>2, UsesOne, LoopShape
    <3> QED  BY <3>1, LoopShape
  <2> QED  BY <1>1, <2>1, <2>2
<1> QED  BY <1>1, <1>2, <1>3, RoundStarts, LoopShape, LoopStep

\* poll returns with descriptors to read.
LEMMA ReadyStep ==
    ASSUME ResolverInv, poll_ready
    PROVE  ResolverInv' /\ Follows
<1>1. /\ th[MR].pc = "scan" /\ Goto(MR, "events")
      /\ poll' = [poll EXCEPT !.ready = Readable]
      /\ UNCHANGED <<main, ipq_no, content, queue, spurious>>
      /\ UNCHANGED <<lookups, open, fd0, mr_fds, left, crashed>>
  BY DEF poll_ready, InPoll, pool
<1>2. Readable \in SUBSET (Idx \X {4, 6})
  <2>1. \A e \in mr_fds : e[1] \in Idx  BY Shape
  <2> QED  BY <2>1 DEF Readable
<1>3. poll' \in PollState  BY <1>1, <1>2, Shape DEF PollState
<1>4. Polls'  BY <1>1, <1>3, LoopShape DEF Polls
<1>5. PICK r : r = [th[MR] EXCEPT !.pc = "events"]  OBVIOUS
<1>6. /\ r \in ThreadState /\ r.pc = "events" /\ r.idx = th[MR].idx
      /\ th' = [th EXCEPT ![MR] = r]
  BY <1>1, <1>5, LoopShape DEF ThreadState, PC, Goto
<1>7. MayBe(MR, r) /\ r.pc \notin {"signal", "released", "expired"}
      /\ th[MR].pc \notin Releasing
  BY <1>1, <1>6, LoopShape DEF MayBe, LoopPC, AtSlot, Releasing
<1> QED  BY <1>1, <1>4, <1>6, <1>7, LoopShape, LoopStep

\* The loop goes to a socket of slot i, or finds it closed (udp.c 3836-3871).
LEMMA ReadStep ==
    ASSUME ResolverInv, NEW i \in Idx, NEW v \in {4, 6}, read_mr_ddt(i, v)
    PROVE  ResolverInv' /\ Follows
<1>1. /\ th[MR].pc = "events" /\ <<i, v>> \in poll.ready
      /\ UNCHANGED <<main, ipq_no, content, queue, spurious>>
      /\ UNCHANGED <<lookups, open, fd0, mr_fds, left, crashed>>
  BY DEF read_mr_ddt, pool
<1>2. poll \in PollState /\ poll.ready \ {<<i, v>>} \in SUBSET (Idx \X {4, 6})
  BY Shape DEF PollState
<1>3. PICK p : p = lookups[i].rx  OBVIOUS
<1>4. CASE /\ p \in DOMAIN open
           /\ th' = [th EXCEPT ![MR].pc = "recv", ![MR].idx = i]
           /\ poll' = [poll EXCEPT !.ready = @ \ {<<i, v>>}, !.sock = <<p, v>>]
  <2>1. <<p, v>> \in {NULL} \cup (Nat \X {4, 6})  BY <1>4, LoopShape
  <2>2. poll' = [poll EXCEPT !.ready = poll.ready \ {<<i, v>>}, !.sock = <<p, v>>]
    BY <1>4
  <2>3. poll' \in PollState
    <3>1. PICK y \in SUBSET (Idx \X {4, 6}) : y = poll.ready \ {<<i, v>>}  BY <1>2
    <3>2. PICK z \in {NULL} \cup (Nat \X {4, 6}) : z = <<p, v>>  BY <2>1
    <3>3. poll' = [poll EXCEPT !.ready = y, !.sock = z]  BY <2>2, <3>1, <3>2
    <3> QED  BY <1>2, <3>3 DEF PollState
  <2>4. Polls'  BY <1>1, <2>3, LoopShape DEF Polls
  <2>5. PICK r : r = [th[MR] EXCEPT !.pc = "recv", !.idx = i]  OBVIOUS
  <2>6. /\ r \in ThreadState /\ r.pc = "recv" /\ r.idx = i
        /\ th' = [th EXCEPT ![MR] = r]
    BY <1>4, <2>5, LoopShape, SlotIsNat DEF ThreadState, PC
  <2>7. MayBe(MR, r) /\ r.pc \notin {"signal", "released", "expired"}
        /\ th[MR].pc \notin Releasing
    <3>1. i \in 0..MAX_LOOKUPS  BY Bounds DEF Idx
    <3> QED  BY <1>1, <2>6, <3>1 DEF MayBe, LoopPC, Releasing
  <2> QED  BY <1>1, <2>4, <2>6, <2>7, LoopShape, LoopStep
<1>5. CASE th' = th /\ poll' = [poll EXCEPT !.ready = @ \ {<<i, v>>}]
  <2>1. poll' \in PollState
    <3>1. PICK y \in SUBSET (Idx \X {4, 6}) : y = poll.ready \ {<<i, v>>}  BY <1>2
    <3>2. poll' = [poll EXCEPT !.ready = y]  BY <1>5, <3>1
    <3> QED  BY <1>2, <3>2 DEF PollState
  <2>2. Polls'  BY <1>1, <2>1, LoopShape DEF Polls
  <2> QED  BY <1>1, <1>5, <2>2, LoopShape, StillStep
<1> QED  BY <1>3, <1>4, <1>5 DEF read_mr_ddt

\* A datagram is received and dropped, or is the answer to handle (udp.c 3857-3893).
LEMMA RecvStep ==
    ASSUME ResolverInv, NEW nonce \in Nonce, NEW recs \in Answers, recvfrom(nonce, recs)
    PROVE  ResolverInv' /\ Follows
<1>1. /\ th[MR].pc = "recv" /\ poll' = [poll EXCEPT !.sock = NULL]
      /\ UNCHANGED <<main, ipq_no, content, queue, spurious>>
      /\ UNCHANGED <<lookups, fd0, mr_fds, left, crashed>>
  BY DEF recvfrom, pool
<1>2. poll' \in PollState  BY <1>1, Shape DEF PollState
<1>3. Polls'  BY <1>1, <1>2, LoopShape DEF Polls
<1>4. DOMAIN open' \subseteq Nat
  <2>1. DOMAIN open' = DOMAIN open  BY DEF recvfrom
  <2> QED  BY <2>1, LoopShape
<1>5. recs \in Seq(Record) /\ <<>> \in Seq(Record)
  <2>1. \A R : <<>> \in Seq(R)  OBVIOUS
  <2>2. recs \in Seq(Record)  BY ResolverAssumption, Zenon
  <2> QED  BY <2>1, <2>2, Zenon
<1>6. PICK x \in {"apply", "events"}, y \in Seq(Record) :
          th' = [th EXCEPT ![MR].pc = x, ![MR].recs = y]
  <2>1. CASE lookups[th[MR].idx].nonce = nonce
    <3>1. th' = [th EXCEPT ![MR].pc = "apply", ![MR].recs = recs]
      BY <2>1 DEF recvfrom
    <3> QED  BY <1>5, <3>1
  <2>2. CASE lookups[th[MR].idx].nonce # nonce
    <3>1. th' = [th EXCEPT ![MR].pc = "events", ![MR].recs = <<>>]
      BY <2>2 DEF recvfrom
    <3> QED  BY <1>5, <3>1
  <2> QED  BY <2>1, <2>2
<1>7. PICK r : r = [th[MR] EXCEPT !.pc = x, !.recs = y]  OBVIOUS
<1>8. /\ r \in ThreadState /\ r.pc = x /\ r.idx = th[MR].idx
      /\ th' = [th EXCEPT ![MR] = r]
  BY <1>6, <1>7, LoopShape DEF ThreadState, PC
<1>9. MayBe(MR, r) /\ r.pc \notin {"signal", "released", "expired"}
      /\ th[MR].pc \notin Releasing
  BY <1>1, <1>8, LoopShape DEF MayBe, LoopPC, AtSlot, Releasing
<1> QED  BY <1>1, <1>3, <1>4, <1>8, <1>9, LoopShape, LoopStep

\* A datagram arrives, or descriptor 0 changes.
LEMMA OutsideStep ==
    ASSUME ResolverInv,
           \/ \E p \in DOMAIN open, v \in {4, 6} : Datagram(p, v)
           \/ \E state \in {"quiet", "readable", "closed"} : Descriptor0(state)
    PROVE  ResolverInv' /\ Follows
<1>1. /\ UNCHANGED <<main, ipq_no, content, queue, spurious, th>>
      /\ UNCHANGED <<lookups, mr_fds, poll, crashed>> /\ Uses("other")
      /\ fd0' \in {"quiet", "readable", "closed"} /\ DOMAIN open' = DOMAIN open
  BY Shape DEF Datagram, Descriptor0, pool, loop
<1>2. /\ left' \in [request : Nat, other : Nat]
      /\ left'.request + left'.other + 1 = left.request + left.other
  BY <1>1, UsesOne, LoopShape
<1>3. left'.request + left'.other <= left.request + left.other
  BY <1>2, LoopShape
<1>4. Polls'  BY <1>1, LoopShape DEF Polls
<1> QED  BY <1>1, <1>2, <1>3, <1>4, LoopShape, StillStep

----------------------------------------------------------------------------
(***************************************************************************)
(* The theorems.                                                           *)
(***************************************************************************)
\* Nothing is received, nobody has a packet, every slot is free.
LEMMA ResolverInit == Init => ResolverInv
<1> SUFFICES ASSUME Init PROVE ResolverInv  OBVIOUS
<1>1. DOMAIN content = {} /\ Len(content) = 0 /\ content \in Seq(Packet \cup {NULL})
  BY DEF Init
<1>2. allocated = {} /\ Cardinality(allocated) = 0
  BY <1>1, FS_EmptySet DEF allocated
<1>3. /\ th \in [Thread -> ThreadState] /\ th[MR] = Scanning
      /\ \A w \in Worker : th[w] = Idle
  <2>1. Idle \in ThreadState /\ Scanning \in ThreadState
    BY DEF ThreadState, Idle, Scanning, PC
  <2> QED  BY <2>1, ThreadIds DEF Init
<1>4. Signalling = {} /\ Cardinality(Signalling) = 0
  <2>1. Signalling = {}  BY <1>3, ThreadIds DEF Signalling, Idle, Scanning
  <2> QED  BY <2>1, FS_EmptySet
<1>5. lookups \in [Idx -> Lookup] /\ \A i \in Idx : lookups[i] = NoLookup
  <2>1. NoLookup \in Lookup  BY Bounds DEF NoLookup, Lookup
  <2> QED  BY <2>1 DEF Init
<1>6. /\ left \in [request : Nat, other : Nat]
      /\ left.request = MaxRequests /\ left.other = MaxOthers
  BY Bounds DEF Init
<1>7. /\ mr_fds = {} /\ IsFiniteSet(mr_fds) /\ Cardinality(mr_fds) = 0
  BY FS_EmptySet DEF Init
<1>8. TypeOK
  <2>1. ipq_no \in 0..(UIntMod - 1) /\ spurious \in Nat  BY Bounds DEF Init
  <2>2. /\ main \in {"poll", "count", "wait", "woken"} /\ queue \in Seq(Nat)
        /\ DOMAIN open \subseteq Nat
    BY DEF Init
  <2>3. fd0 \in {"quiet", "readable", "closed"}
    <3>1. Fd0 \subseteq {"quiet", "readable", "closed"}  BY ResolverAssumption, Zenon
    <3> QED  BY <3>1 DEF Init
  <2>4. poll \in PollState  BY Bounds DEF Init, NoPoll, PollState
  <2>5. 2 * Cardinality(mr_fds) <= MAX_LOOKUPS + 1
        /\ mr_fds \subseteq Idx \X (Nat \cup {NULL})
    BY <1>7, Bounds
  <2>6. crashed \in BOOLEAN  BY Zenon DEF Init
  <2> QED  BY <1>1, <1>3, <1>5, <1>6, <2>1, <2>2, <2>3, <2>4, <2>5, <2>6
           DEF TypeOK, ThreadState, PollState
<1>9. Deliveries  BY <1>1, <1>6, Bounds DEF Deliveries
<1>10. Places
  <2>1. \A w \in Worker : MayBe(w, Idle)
    BY ThreadIds DEF MayBe, Idle, WorkerPC, AtSlot
  <2>2. MayBe(MR, Scanning)  BY Bounds DEF MayBe, Scanning, LoopPC, AtSlot
  <2> QED  BY <1>3, <2>1, <2>2, ThreadIds DEF Places
<1>11. Owned
  <2>1. QueueOwns  BY DEF Init, QueueOwns
  <2>2. WorkersOwn  BY <1>3 DEF WorkersOwn, Idle
  <2>3. SlotsOwn /\ ActiveHeld  BY <1>5 DEF SlotsOwn, ActiveHeld, NoLookup
  <2> QED  BY <2>1, <2>2, <2>3 DEF Owned
<1>12. Counted
  <2>1. (0 + 0) % UIntMod = 0  BY Bounds
  <2> QED  BY <1>2, <2>1 DEF Init, Counted
<1>13. Room
  <2>1. Turn = 1 /\ spurious = 0  BY DEF Init, Turn
  <2>2. Fits(0, 0, 0, 1, 0)  BY Bounds, ThreadsFinite DEF Fits
  <2> QED  BY <1>1, <1>2, <1>4, <2>1, <2>2 DEF Room
<1> QED  BY <1>7, <1>8, <1>9, <1>10, <1>11, <1>12, <1>13 DEF ResolverInv

\* The table is what it was.
LEMMA FollowsSame == lookups' = lookups => Follows
BY DEF Follows

\* A step of the network or of the system.
LEMMA EnvironmentStep == ResolverInv /\ Environment => ResolverInv' /\ Follows
<1>1. ASSUME ResolverInv, NEW c \in Arrivals, udp_get_pk(c)  PROVE ResolverInv' /\ Follows
  <2>1. lookups' = lookups  BY <1>1 DEF udp_get_pk
  <2> QED  BY <1>1, <2>1, ArriveStep, FollowsSame
<1>2. ASSUME ResolverInv, Spurious  PROVE ResolverInv' /\ Follows
  <2>1. lookups' = lookups  BY <1>2 DEF Spurious
  <2> QED  BY <1>2, <2>1, SpuriousStep, FollowsSame
<1> QED  BY <1>1, <1>2, OutsideStep, RoundEnds DEF Environment

\* A step of a worker.
LEMMA WorkersStep ==
    ASSUME ResolverInv, NEW w \in Worker, WorkerStep(w)
    PROVE  ResolverInv' /\ Follows
<1>1. CASE _lisp_process(w)
  <2>1. lookups' = lookups  BY <1>1 DEF _lisp_process
  <2> QED  BY <1>1, <2>1, TakesStep, FollowsSame
<1>2. CASE FreeOwn(w)
  <2>1. lookups' = lookups  BY <1>2 DEF FreeOwn
  <2> QED  BY <1>2, <2>1, FreeStep, FollowsSame
<1>3. CASE SignalOwn(w)
  <2>1. lookups' = lookups  BY <1>3 DEF SignalOwn
  <2> QED  BY <1>3, <2>1, SignalStep, FollowsSame
<1>4. CASE pending_request(w) \/ get_mr_ddt(w)  BY <1>4, PendingStep, MatchStep
<1>5. CASE claim_slot(w) \/ keep_packet(w) \/ copy_nonce(w) \/ mr_new_lookup(w)
  BY <1>5, ClaimStep, KeepStep, NonceStep, FillStep
<1> QED  BY <1>1, <1>2, <1>3, <1>4, <1>5 DEF WorkerStep

\* Every step of every thread keeps the invariant, and what a lookup follows
\* descends.
LEMMA ResolverStep == ResolverInv /\ [Next]_vars => ResolverInv' /\ Follows
<1> SUFFICES ASSUME ResolverInv, [Next]_vars PROVE ResolverInv' /\ Follows
  OBVIOUS
<1>1. CASE Environment  BY <1>1, EnvironmentStep
<1>2. CASE MainStep
  <2>1. lookups' = lookups  BY <1>2 DEF MainStep, CountPacket
  <2> QED  BY <1>2, <2>1, CountStep, FollowsSame DEF MainStep
<1>3. ASSUME NEW w \in Worker, WorkerStep(w) PROVE ResolverInv' /\ Follows
  BY <1>3, WorkersStep
<1>4. ASSUME NEW t \in Thread, AnswerStep(t) PROVE ResolverInv' /\ Follows
  BY <1>4, RecordStep, SendOnStep, FreeLookupStep, ClearStep DEF AnswerStep
<1>5. CASE EventStep
  BY <1>5, ScanStep, TimeoutStep, RoundEnds, ReadyStep, ReadStep, RecvStep
     DEF EventStep
<1>6. CASE Tick  BY <1>6, TickStep
<1>7. CASE UNCHANGED vars
  <2>1. /\ UNCHANGED <<main, ipq_no, content, queue>>
        /\ UNCHANGED <<lookups, open, fd0, mr_fds>>
        /\ UNCHANGED <<poll, th, left, spurious>> /\ crashed' = crashed
    BY <1>7 DEF vars
  <2> QED  BY <2>1, Shape, Stutters, FollowsSame
<1> QED  BY <1>1, <1>2, <1>3, <1>4, <1>5, <1>6, <1>7 DEF Next

\* The inductive invariant of the resolver holds in every reachable state.
THEOREM ResolverInvariant == Spec => []ResolverInv
<1>1. ResolverInv /\ [Next]_vars => ResolverInv'  BY ResolverStep
<1> QED  BY <1>1, ResolverInit, PTL DEF Spec

\* Every variable keeps its type: mr_event_loop writes at most one entry past
\* each of its arrays before it crashes (udp.c 3561-3564, 4216-4223).
THEOREM ResolverTyped == Spec => []TypeOK
<1>1. ResolverInv => TypeOK  BY DEF ResolverInv
<1> QED  BY <1>1, ResolverInvariant, PTL

\* ipq_no, which wraps below zero when udp_free_pk overtakes the receive loop
\* (udp.c 190-192, 2234-2239), is the number of packets not released, less the
\* one not counted yet.
THEOREM ResolverCountExact == Spec => []CountExact
<1>1. ResolverInv => CountExact  BY DEF ResolverInv, Counted, CountExact
<1> QED  BY <1>1, ResolverInvariant, PTL

\* The limit PK_POOL_MAX, tested once and after the packet was queued (udp.c
\* 2235-2236), is passed by no more packets than there are threads and spurious
\* wake-ups, and by no more than releases and spurious wake-ups.
THEOREM ResolverInProcessBounded == Spec => []InProcessBounded
<1>1. ResolverInv => InProcessBounded
  <2> SUFFICES ASSUME ResolverInv PROVE InProcessBounded  OBVIOUS
  <2>1. PICK a \in Nat : a = Cardinality(allocated)  BY AllocatedFinite
  <2>2. PICK g \in Nat : g = Cardinality(Signalling)  BY SignallingFinite
  <2>3. Len(content) \in Nat /\ DOMAIN content = 1..Len(content) /\ spurious \in Nat
    BY Shape
  <2>4. PICK d \in Nat : d = Cardinality(DOMAIN content \ allocated)
                         /\ d = Len(content) - a
    <3>1. IsFiniteSet(1..Len(content)) /\ Cardinality(1..Len(content)) = Len(content)
      <4>1. 1 \in Int /\ Len(content) \in Int  BY <2>3
      <4>2. /\ IsFiniteSet(1..Len(content))
            /\ Cardinality(1..Len(content))
                  = IF 1 > Len(content) THEN 0 ELSE Len(content) - 1 + 1
        BY <4>1, FS_Interval, Zenon
      <4> QED  BY <2>3, <4>2
    <3>2. allocated = (1..Len(content)) \cap allocated  BY <2>3 DEF allocated
    <3>3. /\ IsFiniteSet((1..Len(content)) \ allocated)
          /\ Cardinality((1..Len(content)) \ allocated)
                = Cardinality(1..Len(content))
                  - Cardinality((1..Len(content)) \cap allocated)
      BY <3>1, AllocatedFinite, FS_Difference, Zenon
    <3>4. Cardinality((1..Len(content)) \ allocated) \in Nat
      BY <3>3, FS_CardinalityType
    <3> QED  BY <2>1, <2>3, <3>1, <3>2, <3>3, <3>4
  <2>5. Fits(a, g, Len(content), Turn, spurious)
    BY <2>1, <2>2 DEF ResolverInv, Room
  <2>6. Turn \in {0, 1}  BY DEF Turn
  <2>7. /\ a - PK_POOL_MAX - spurious <= Cardinality(Thread)
        /\ a - PK_POOL_MAX - spurious <= d
    BY <2>3, <2>4, <2>5, <2>6, ThreadsFinite, Bounds DEF Fits
  <2> QED  BY <2>1, <2>4, <2>7 DEF InProcessBounded
<1> QED  BY <1>1, ResolverInvariant, PTL

\* An active lookup's packet is not released, is no other lookup's and in the
\* hands of no worker but the one that fills the slot, except while a worker has
\* not put it there yet (udp.c 3749-3750) or a thread is inside free_lookups for
\* that slot (3821-3832): a pending packet has one owner.
THEOREM ResolverPendingHeld == Spec => []PendingHeld
<1>1. ResolverInv => PendingHeld
  <2> SUFFICES ASSUME ResolverInv, NEW i \in Idx, lookups[i].active,
                      ~\E t \in Thread : th[t].pc \in {"released", "expired"}
                                         /\ th[t].idx = i,
                      ~\E w \in Worker : th[w].pc = "keep" /\ th[w].idx = i
               PROVE  /\ lookups[i].pke \in allocated
                      /\ \A j \in Idx \ {i} : lookups[j].active =>
                            lookups[j].pke # lookups[i].pke
                      /\ \A w \in Worker : th[w].pke = lookups[i].pke =>
                            th[w].pc \in {"nonce", "start"} /\ th[w].idx = i
                      /\ \A k \in DOMAIN queue : queue[k] # lookups[i].pke
    BY DEF PendingHeld
  <2>1. lookups[i].pke # NULL /\ lookups[i].pke \in allocated
    BY DEF ResolverInv, Owned, ActiveHeld, Releasing
  <2> QED  BY <2>1 DEF ResolverInv, Owned, SlotsOwn, Filling
<1> QED  BY <1>1, ResolverInvariant, PTL

\* Within one lookup the EID-prefix followed only gets longer and stays inside
\* the last: "to prevent loop" (udp.c 3571), whichever threads apply answers.
THEOREM ResolverReferralsDescend == Spec => ReferralsDescend
<1> DEFINE Descends ==
             \A i \in Idx :
                LET last == lookups[i].last_eid
                    next == lookups'[i].last_eid
                IN  NULL \notin {last, next} /\ next # last => IsStrictPrefix(last, next)
<1>1. ResolverInv /\ [Next]_vars => [Descends]_vars
  <2>1. Follows => Descends  BY Zenon DEF Follows
  <2> QED  BY <2>1, ResolverStep
<1> QED  BY <1>1, ResolverInvariant, PTL DEF Spec, ReferralsDescend

=============================================================================
