------------------------------ MODULE Resolver ------------------------------
(***************************************************************************)
(* The receive loop, the packet queue and the map resolver of the control  *)
(* plane (udp.c).  Three kinds of threads share the table mr_lookups, the  *)
(* counter ipq_no and the packets, and only ipq_no has a lock:             *)
(*   - the receive loop (udp_start_communication) gives every packet to    *)
(*     the thread pool, counts it, and waits when PK_POOL_MAX are counted; *)
(*   - a worker of the pool (_lisp_process) handles a packet and releases  *)
(*     it, unless it is a Map-Request the resolver keeps pending;          *)
(*   - the resolver's event loop (mr_event_loop) sends pending requests    *)
(*     again, reads the answers that come to a lookup's own socket and     *)
(*     ends the lookups that were sent too often.                          *)
(* A packet is named by its number of arrival, and so are the two sockets  *)
(* of the lookup it asks for.  What a thread does between two accesses to  *)
(* what it shares is one step, and so is the work on one record.           *)
(* Undefined behaviour (the use of a released packet or list, an access    *)
(* past an array) ends the run with crashed = TRUE.                        *)
(*                                                                         *)
(* mr_event_loop gives poll two entries for each lookup, but sets the      *)
(* descriptor of the first only: every second one is descriptor 0, the     *)
(* standard input, or what came in its place when a daemon closed it.      *)
(* Time is counted in seconds, and passes while that thread is in poll or  *)
(* blocked.                                                                *)
(***************************************************************************)
EXTENDS Integers, FiniteSets, Sequences, SequencesExt

CONSTANTS
    Worker,          \* threads of the pool cpp
    MR,              \* the thread of mr_event_loop
    Nonce,           \* nonces of Map-Requests and Map-Referrals
    Answers,         \* Map-Referrals the network delivers: sequences of records
    MAX_LOOKUPS,     \* size of mr_lookups
    MR_MAX_LOOKUP,   \* sends after which a lookup is given up
    timeout,         \* MAP_REPLY_TIMEOUT
    PK_POOL_MAX,     \* packets in process before the receive loop waits
    UIntMod,         \* values of an unsigned int
    Rlocs,           \* locators of the node a request is resolved from
    MaxRequests,     \* bound: Map-Requests received
    MaxOthers,       \* bound: other packets, datagrams on a lookup's socket, spurious
                     \* wake-ups, signals and changes of descriptor 0
    Fd0,             \* what descriptor 0 may be at first
    NULL

\* A record of a Map-Referral: its action, its EID-prefix as a sequence of bits,
\* and the number of its locators.
Act == {"NODE_REFERRAL", "MS_REFERRAL", "MS_ACK", "MS_NOT_REGISTERED",
        "DELEGATION_HOLE", "NOT_AUTHORITATIVE"}
Record == [act : Act, eid : Seq({0, 1}), rlocs : Nat]

\* A packet received on the main port; only a Map-Referral has records.
Packet == [kind : {"request", "referral", "other"}, nonce : Nonce \cup {NULL},
           recs : Answers \cup {<<>>}]

ASSUME ResolverAssumption ==
    /\ IsFiniteSet(Worker) /\ MR \notin Worker
    /\ Answers \subseteq Seq(Record) \ {<<>>}   \* one without records is dropped
    /\ {MAX_LOOKUPS, MR_MAX_LOOKUP, timeout, PK_POOL_MAX, Rlocs} \subseteq Nat \ {0}
    /\ {MaxRequests, MaxOthers, UIntMod} \subseteq Nat
    /\ PK_POOL_MAX + MaxRequests + MaxOthers < UIntMod
    /\ Fd0 \subseteq {"quiet", "readable", "closed"}
    /\ NULL \notin Nat /\ NULL \notin Packet

VARIABLES
    main,       \* the receive loop: "poll", "count", "wait", "woken"
    ipq_no,     \* packets in process, unsigned
    content,    \* what each packet holds, NULL once it is released
    queue,      \* jobs of the pool nobody took yet
    lookups,    \* mr_lookups
    open,       \* the open sockets rx and rx6 of lookups, and which has a datagram
    fd0,        \* descriptor 0
    mr_fds,     \* slots polled, each with the rx that is in mr_fds
    poll,       \* locals of mr_event_loop
    th,         \* program counter and locals of the workers and of MR
    left,       \* what the network and the system may still do
    spurious,   \* spurious wake-ups so far
    crashed

vars == <<main, ipq_no, content, queue, lookups, open, fd0, mr_fds, poll, th, left,
          spurious, crashed>>
pool == <<main, ipq_no, content, queue>>
loop == <<fd0, mr_fds, poll>>

allocated == {p \in DOMAIN content : content[p] # NULL}
Thread == Worker \cup {MR}
Idx == 0..(MAX_LOOKUPS - 1)

\* struct eid_pending: rx stands for rx and rx6; list is the list rlocs, of rlocs
\* locators not tried yet: none so far, live, or destroyed and still pointed to.
\* rloc_cur is the last of them, NULL if there are none.  count saturates one
\* above the limit; age is the time since start, up to where it is overdue.
MaxAge == timeout * MR_MAX_LOOKUP
NoLookup == [active |-> FALSE, nonce |-> NULL, pke |-> NULL, rx |-> NULL,
             last_eid |-> NULL, list |-> "none", rlocs |-> 0, count |-> 0,
             age |-> MaxAge]

Idle == [pc |-> "idle", pke |-> NULL, idx |-> NULL, recs |-> <<>>]
Scanning == [pc |-> "scan", pke |-> NULL, idx |-> 0, recs |-> <<>>]

\* l: the slot whose deadline poll waits for; to: the time left; ready: what poll
\* returned; sock: the socket that is read.
NoPoll == [l |-> NULL, to |-> timeout, ready |-> {}, sock |-> NULL]

Init ==
    /\ main = "poll" /\ ipq_no = 0 /\ content = <<>>
    /\ queue = <<>>
    /\ lookups = [i \in Idx |-> NoLookup]
    /\ open = <<>> /\ fd0 \in Fd0
    /\ mr_fds = {} /\ poll = NoPoll
    /\ th = [t \in Thread |-> IF t = MR THEN Scanning ELSE Idle]
    /\ left = [request |-> MaxRequests, other |-> MaxOthers]
    /\ spurious = 0
    /\ crashed = FALSE

Goto(t, pc) == th' = [th EXCEPT ![t].pc = pc]
Crash == crashed' = TRUE
         /\ UNCHANGED <<pool, lookups, open, loop, th, left, spurious>>

----------------------------------------------------------------------------
\* One thing less is left to come.
Uses(what) == left[what] > 0 /\ left' = [left EXCEPT ![what] = @ - 1]

\* The receive loop: udp_get_pk copies the packet and queues the job.
Arrivals ==
    [kind : {"other"}, nonce : {NULL}, recs : {<<>>}]
    \cup [kind : {"request"}, nonce : Nonce, recs : {<<>>}]
    \cup [kind : {"referral"}, nonce : Nonce, recs : Answers]

udp_get_pk(c) ==
    /\ main = "poll"
    /\ Uses(IF c.kind = "request" THEN "request" ELSE "other")
    /\ content' = Append(content, c)
    /\ queue' = Append(queue, Len(content) + 1)
    /\ main' = "count"
    /\ UNCHANGED <<ipq_no, lookups, open, loop, th, spurious, crashed>>

\* Mutant: ipq_no + 1 does not wrap.
CountPacket_NoWrap ==
    /\ \/ main = "count" /\ ipq_no + 1 < PK_POOL_MAX /\ main' = "poll"
       \/ main = "count" /\ ipq_no + 1 >= PK_POOL_MAX /\ main' = "wait"
       \/ main = "woken" /\ main' = "poll"
    /\ ipq_no' = IF main' = "poll" THEN (ipq_no + 1) % UIntMod ELSE ipq_no
    /\ UNCHANGED <<content, queue, lookups, open, loop, th, left, spurious, crashed>>

\* Mutant: the limit is not tested.
CountPacket_NeverWaits ==
    /\ main = "count"
    /\ main' = "poll"
    /\ ipq_no' = (ipq_no + 1) % UIntMod
    /\ UNCHANGED <<content, queue, lookups, open, loop, th, left, spurious, crashed>>

\* Mutant: a packet that had to wait is not counted.
CountPacket_WokenUncounted ==
    /\ \/ main = "count" /\ (ipq_no + 1) % UIntMod < PK_POOL_MAX /\ main' = "poll"
       \/ main = "count" /\ (ipq_no + 1) % UIntMod >= PK_POOL_MAX /\ main' = "wait"
       \/ main = "woken" /\ main' = "poll"
    /\ ipq_no' = IF main = "count" /\ main' = "poll" THEN (ipq_no + 1) % UIntMod
                 ELSE ipq_no
    /\ UNCHANGED <<content, queue, lookups, open, loop, th, left, spurious, crashed>>

\* The queued packet is counted, after a wait when too many are: the test is
\* an if, not a loop.
CountPacket ==
    /\ \/ main = "count" /\ (ipq_no + 1) % UIntMod < PK_POOL_MAX /\ main' = "poll"
       \/ main = "count" /\ (ipq_no + 1) % UIntMod >= PK_POOL_MAX /\ main' = "wait"
       \/ main = "woken" /\ main' = "poll"
    /\ ipq_no' = IF main' = "poll" THEN (ipq_no + 1) % UIntMod ELSE ipq_no
    /\ UNCHANGED <<content, queue, lookups, open, loop, th, left, spurious, crashed>>

\* pthread_cond_wait may return without a signal; nothing is looked at again.
Spurious ==
    /\ main = "wait" /\ main' = "woken"
    /\ Uses("other")
    /\ spurious' = spurious + 1
    /\ UNCHANGED <<ipq_no, content, queue, lookups, open, loop, th, crashed>>

\* pthread_cond_signal(&ipq_cv).
Signal == main' = IF main = "wait" THEN "woken" ELSE main

\* udp_free_pk up to its signal, which follows after the unlock.
udp_free_pk(p) ==
    /\ content' = [content EXCEPT ![p] = NULL]
    /\ ipq_no' = (ipq_no + UIntMod - 1) % UIntMod

----------------------------------------------------------------------------
\* Mutant: a lookup without locators stays.
send_mr_ddt_EmptyIgnored(s) ==
    LET sent == IF s.count > MR_MAX_LOOKUP THEN s.count ELSE s.count + 1
    IN  IF ~s.active \/ s.rlocs = 0 THEN {s}
        ELSE {[s EXCEPT !.count = sent],
              [s EXCEPT !.count = sent, !.rlocs = @ - 1]}

\* The ways a send of send_mr_ddt leaves lookup s: no locator left ends the
\* lookup, a failed send keeps the locator, a send uses it up.
send_mr_ddt(s) ==
    LET sent == IF s.count > MR_MAX_LOOKUP THEN s.count ELSE s.count + 1
    IN  IF ~s.active THEN {s}
        ELSE IF s.rlocs = 0 THEN {[s EXCEPT !.count = MR_MAX_LOOKUP + 1]}
        ELSE {[s EXCEPT !.count = sent],
              [s EXCEPT !.count = sent, !.rlocs = @ - 1]}

\* rloc_cur points into a list that was destroyed.
CurDangles(s) == s.active /\ s.rlocs > 0 /\ s.list = "gone"

\* Lookup i, as the caller left it in lks, is sent.
Send(lks, i) ==
    /\ ~CurDangles(lks[i])
    /\ \E s \in send_mr_ddt(lks[i]) : lookups' = [lks EXCEPT ![i] = s]

\* A worker takes the next job: _lisp_process and the type of the packet.
_lisp_process(w) ==
    /\ th[w].pc = "idle"
    /\ queue # <<>>
    /\ queue' = Tail(queue)
    /\ th' = [th EXCEPT ![w] =
                [pc |-> CASE content[Head(queue)].kind = "request" -> "pending"
                          [] content[Head(queue)].kind = "referral" -> "match"
                          [] OTHER -> "free",
                 pke |-> Head(queue), idx |-> NULL, recs |-> <<>>]]
    /\ UNCHANGED <<main, ipq_no, content, lookups, open, loop, left, spurious, crashed>>

\* Release the worker's own packet, then signal.
FreeOwn(w) ==
    /\ th[w].pc = "free"
    /\ udp_free_pk(th[w].pke)
    /\ Goto(w, "signal")
    /\ UNCHANGED <<main, queue, lookups, open, loop, left, spurious, crashed>>

SignalOwn(w) ==
    /\ th[w].pc = "signal"
    /\ Signal
    /\ th' = [th EXCEPT ![w] = Idle]
    /\ UNCHANGED <<ipq_no, content, queue, lookups, open, loop, left, spurious, crashed>>

----------------------------------------------------------------------------
\* The first slot in S, the order of every search of the table.
First(S) == CHOOSE i \in S : \A j \in S : i <= j

\* A request whose nonce a lookup already has sends that lookup again; nobody
\* releases the new packet.  Otherwise mr_new_lookup searches a slot, and gives
\* up, again without releasing the packet, when the table is full.
pending_request(w) ==
    LET nonce == content[th[w].pke].nonce
        same  == {i \in Idx : lookups[i].active /\ lookups[i].nonce = nonce}
        free  == {i \in Idx : ~lookups[i].active}
        reset == [lookups EXCEPT ![First(same)].count = 0]
    IN  /\ th[w].pc = "pending"
        /\ \/ /\ same # {} /\ Send(reset, First(same))
              /\ th' = [th EXCEPT ![w] = Idle]
              /\ UNCHANGED <<pool, open, loop, left, spurious, crashed>>
           \/ same # {} /\ CurDangles(reset[First(same)]) /\ Crash
           \/ /\ same = {} /\ free # {}
              /\ th' = [th EXCEPT ![w].pc = "claim", ![w].idx = First(free)]
              /\ UNCHANGED <<pool, lookups, open, loop, left, spurious, crashed>>
           \/ /\ same = {} /\ free = {}
              /\ th' = [th EXCEPT ![w] = Idle]
              /\ UNCHANGED <<pool, lookups, open, loop, left, spurious, crashed>>

\* mr_new_lookup fills the slot found, whoever filled it meanwhile, a few fields
\* at a time: first, with its new sockets, it is active (3745-3749) ...
claim_slot(w) ==
    LET p == th[w].pke IN
    /\ th[w].pc = "claim"
    /\ lookups' = [lookups EXCEPT ![th[w].idx] =
                      [@ EXCEPT !.active = TRUE, !.last_eid = NULL, !.rx = p,
                                !.count = 0]]
    /\ open' = [q \in DOMAIN open \cup {p} |->
                  IF q \in DOMAIN open THEN open[q] ELSE {}]
    /\ Goto(w, "keep")
    /\ UNCHANGED <<pool, loop, left, spurious, crashed>>

\* ... then it has the packet (3750-3761) ...
keep_packet(w) ==
    /\ th[w].pc = "keep"
    /\ lookups' = [lookups EXCEPT ![th[w].idx].pke = th[w].pke]
    /\ Goto(w, "nonce")
    /\ UNCHANGED <<pool, open, loop, left, spurious, crashed>>

\* ... and the nonce (3762-3767), read from a packet that is not the worker's
\* alone any more ...
copy_nonce(w) ==
    /\ th[w].pc = "nonce"
    /\ \/ th[w].pke \notin allocated /\ Crash
       \/ /\ th[w].pke \in allocated
          /\ lookups' = [lookups EXCEPT ![th[w].idx].nonce = content[th[w].pke].nonce]
          /\ Goto(w, "start")
          /\ UNCHANGED <<pool, open, loop, left, spurious, crashed>>

Started(s) == [s EXCEPT !.list = "live", !.rlocs = Rlocs, !.age = 0]

\* Mutant: the worker releases the pending packet.
mr_new_lookup_Released(w) ==
    LET i == th[w].idx IN
    /\ th[w].pc = "start"
    /\ Send([lookups EXCEPT ![i] = Started(@)], i)
    /\ Goto(w, "free")
    /\ UNCHANGED <<pool, open, loop, left, spurious, crashed>>

\* ... and last the locators of the node and the start time (3769-3784); the
\* request is sent to the last locator.
mr_new_lookup(w) ==
    LET i == th[w].idx IN
    /\ th[w].pc = "start"
    /\ Send([lookups EXCEPT ![i] = Started(@)], i)
    /\ th' = [th EXCEPT ![w] = Idle]
    /\ UNCHANGED <<pool, open, loop, left, spurious, crashed>>

\* get_mr_ddt looks for the nonce in the first mr_nfds - 1 slots, active or
\* not; mr_nfds is unsigned, so that 0 - 1 searches past the table.
mr_nfds == 2 * Cardinality(mr_fds)

Searched == {i \in Idx : mr_nfds = 0 \/ i < mr_nfds - 1}

get_mr_ddt(w) ==
    LET c == content[th[w].pke]
        S == {i \in Searched : lookups[i].nonce = c.nonce}
    IN  /\ th[w].pc = "match"
        /\ \/ /\ S = {} /\ mr_nfds = 0
              /\ Crash
           \/ /\ S = {} /\ mr_nfds # 0
              /\ Goto(w, "free")
              /\ UNCHANGED crashed
           \/ /\ S # {}
              /\ th' = [th EXCEPT ![w].pc = "apply", ![w].idx = First(S),
                                  ![w].recs = c.recs]
              /\ UNCHANGED crashed
        /\ UNCHANGED <<pool, lookups, open, loop, left, spurious>>

\* The next record of an answer for slot th[t].idx, in a worker (get_mr_ddt) or
\* in the event loop (read_mr_ddt).  An answer that ends the lookup, or that
\* leads outside the last EID-prefix, releases it; a longer EID-prefix is
\* adopted with its locators; the remaining actions change nothing.
Loops(s, r) == s.last_eid # NULL /\ ~IsPrefix(s.last_eid, r.eid)

Ends(t, s, r) ==
    \/ r.act \in {"MS_ACK", "DELEGATION_HOLE", "NOT_AUTHORITATIVE"}
    \/ r.act \in {"NODE_REFERRAL", "MS_REFERRAL"} /\ Loops(s, r)

Adopts(s, r) ==
    /\ r.act \in {"NODE_REFERRAL", "MS_REFERRAL"}
    /\ ~Loops(s, r)
    /\ s.last_eid # NULL => Len(r.eid) > Len(s.last_eid)

\* What a record uses that may be gone: the list of locators it extends or
\* counts, and the request a worker answers negatively at a hole.
Dangling(t, s, r) ==
    \/ (Adopts(s, r) \/ r.act = "MS_NOT_REGISTERED") /\ s.list # "live"
    \/ r.act = "DELEGATION_HOLE" /\ t # MR /\ s.pke \notin allocated

\* Mutant: any EID-prefix is adopted.
process_record_LoopUnseen(t) ==
    LET i == th[t].idx
        s == lookups[i]
        r == Head(th[t].recs)
    IN  /\ th[t].pc = "apply"
        /\ th[t].recs # <<>>
        /\ \/ /\ Dangling(t, s, r)
              /\ Crash
           \/ /\ ~Dangling(t, s, r)
              /\ lookups' = IF r.act \in {"NODE_REFERRAL", "MS_REFERRAL"}
                            THEN [lookups EXCEPT ![i].last_eid = r.eid,
                                                 ![i].rlocs = @ + r.rlocs]
                            ELSE lookups
              /\ th' = [th EXCEPT ![t].recs = Tail(@),
                                  ![t].pc = IF Ends(t, s, r) THEN "release" ELSE @]
              /\ UNCHANGED <<pool, open, loop, left, spurious, crashed>>

process_record(t) ==
    LET i == th[t].idx
        s == lookups[i]
        r == Head(th[t].recs)
    IN  /\ th[t].pc = "apply"
        /\ th[t].recs # <<>>
        /\ \/ /\ Dangling(t, s, r)
              /\ Crash
           \/ /\ ~Dangling(t, s, r)
              /\ lookups' = IF Adopts(s, r)
                            THEN [lookups EXCEPT ![i].last_eid = r.eid,
                                                 ![i].rlocs = @ + r.rlocs]
                            ELSE lookups
              /\ th' = [th EXCEPT ![t].recs = Tail(@),
                                  ![t].pc = IF Ends(t, s, r) THEN "release" ELSE @]
              /\ UNCHANGED <<pool, open, loop, left, spurious, crashed>>

\* Where a thread goes when it is done with an answer or with a release: the
\* worker releases its own packet, the event loop looks at its next socket.
Done(t) == IF t = MR THEN "events" ELSE "free"

\* The last record is done: send the request on.
SendOn(t) ==
    LET i == th[t].idx IN
    /\ th[t].pc = "apply"
    /\ th[t].recs = <<>>
    /\ \/ CurDangles(lookups[i]) /\ Crash
       \/ /\ Send(lookups, i)
          /\ Goto(t, Done(t))
          /\ UNCHANGED <<pool, open, loop, left, spurious, crashed>>

Resume(t) ==
    IF th[t].pc \in {"expire", "expired"}
    THEN th' = [th EXCEPT ![t].pc = "scan", ![t].idx = @ + 1]
    ELSE Goto(t, Done(t))

\* free_lookups: the test and the release of the packet, then its signal and
\* the rest of the slot.  pc "expire" is the call made while scanning.
free_lookups(t) ==
    LET s == lookups[th[t].idx]
    IN  /\ th[t].pc \in {"release", "expire"}
        /\ \/ /\ ~s.active
              /\ Resume(t)
              /\ UNCHANGED <<ipq_no, content, crashed>>
           \/ /\ s.active /\ s.pke \notin allocated
              /\ Crash
           \/ /\ s.active /\ s.pke \in allocated
              /\ udp_free_pk(s.pke)
              /\ Goto(t, IF th[t].pc = "expire" THEN "expired" ELSE "released")
              /\ UNCHANGED crashed
        /\ UNCHANGED <<main, queue, lookups, open, loop, left, spurious>>

Cleared(s) == [s EXCEPT !.active = FALSE, !.last_eid = NULL,
                        !.list = IF @ = "live" THEN "gone" ELSE @]

\* The rest of free_lookups: the signal, and the slot is cleared and its list
\* destroyed.  The sockets are those the slot has by now.
ClearLookup(t) ==
    LET i == th[t].idx
        s == lookups[i]
    IN  /\ th[t].pc \in {"released", "expired"}
        /\ \/ s.list = "gone" /\ Crash
           \/ /\ s.list # "gone"
              /\ Signal
              /\ lookups' = [lookups EXCEPT ![i] = Cleared(@)]
              /\ open' = [q \in DOMAIN open \ {s.rx} |-> open[q]]
              /\ Resume(t)
              /\ UNCHANGED <<ipq_no, content, queue, loop, left, spurious, crashed>>

----------------------------------------------------------------------------
\* The network and the system: a datagram for rx (4) or rx6 (6) of a lookup, of
\* which a socket holds one; descriptor 0 becomes readable, is closed or reused.
Datagram(p, v) ==
    /\ Uses("other")
    /\ open' = [open EXCEPT ![p] = @ \cup {v}]
    /\ UNCHANGED <<pool, lookups, loop, th, spurious, crashed>>

Descriptor0(state) ==
    /\ Uses("other")
    /\ fd0' = state
    /\ UNCHANGED <<pool, lookups, open, mr_fds, poll, th, spurious, crashed>>

\* Mutant: what is overdue gives poll a negative time-out, with which it waits
\* for ever.
delta_Negative(s) == s.count * timeout - s.age

\* Time until the next send of a lookup, in whole seconds: an overdue one has
\* half a time-out.
delta(s) == IF s.count * timeout <= s.age THEN timeout \div 2
            ELSE s.count * timeout - s.age

\* The event loop.  One round of its scan: an active lookup that was sent too
\* often is released, any other active one is polled.  Its two entries may be
\* past the end of the arrays.  l is the slot with the least delta below one
\* timeout; of two within a second either may be it.
scan_lookup ==
    LET i == th[MR].idx
        s == lookups[i]
    IN  /\ th[MR].pc = "scan" /\ i \in Idx
        /\ \/ /\ ~s.active
              /\ th' = [th EXCEPT ![MR].idx = @ + 1]
              /\ UNCHANGED <<mr_fds, poll, crashed>>
           \/ /\ s.active /\ s.count > MR_MAX_LOOKUP
              /\ Goto(MR, "expire")
              /\ UNCHANGED <<mr_fds, poll, crashed>>
           \/ /\ s.active /\ s.count <= MR_MAX_LOOKUP
              /\ 2 * Cardinality(mr_fds) + 1 > MAX_LOOKUPS
              /\ crashed' = TRUE
              /\ UNCHANGED <<mr_fds, poll, th>>
           \/ /\ s.active /\ s.count <= MR_MAX_LOOKUP
              /\ 2 * Cardinality(mr_fds) + 1 <= MAX_LOOKUPS
              /\ mr_fds' = mr_fds \cup {<<i, s.rx>>}
              /\ \/ delta(s) <= poll.to /\ poll' = [poll EXCEPT !.l = i, !.to = delta(s)]
                 \/ delta(s) >= poll.to /\ poll' = poll
              /\ th' = [th EXCEPT ![MR].idx = @ + 1]
              /\ UNCHANGED crashed
        /\ UNCHANGED <<pool, lookups, open, fd0, left, spurious>>

InPoll == th[MR].pc = "scan" /\ th[MR].idx = MAX_LOOKUPS

\* The loop starts again; mr_nfds is 0.
NextRound == /\ mr_fds' = {} /\ poll' = NoPoll
             /\ th' = [th EXCEPT ![MR] = Scanning]

\* Time passes while the thread sleeps.
Tick ==
    /\ InPoll \/ th[MR].pc = "recv"
    /\ InPoll => poll.to > 0
    /\ poll' = IF InPoll THEN [poll EXCEPT !.to = @ - 1] ELSE poll
    /\ lookups' = [i \in Idx |-> IF lookups[i].age < MaxAge
                                 THEN [lookups[i] EXCEPT !.age = @ + 1]
                                 ELSE lookups[i]]
    /\ UNCHANGED <<pool, open, fd0, mr_fds, th, left, spurious, crashed>>

\* poll runs out, and the request of slot l, if there is one, is sent again.
poll_timeout ==
    /\ InPoll /\ poll.to = 0
    /\ \/ /\ poll.l = NULL
          /\ NextRound
          /\ UNCHANGED <<lookups, crashed>>
       \/ /\ poll.l # NULL /\ Send(lookups, poll.l)
          /\ NextRound
          /\ UNCHANGED crashed
       \/ /\ poll.l # NULL /\ CurDangles(lookups[poll.l])
          /\ crashed' = TRUE
          /\ UNCHANGED <<lookups, mr_fds, poll, th>>
    /\ UNCHANGED <<pool, open, fd0, left, spurious>>

\* poll returns at once, with nothing to read: one of its descriptors is closed.
poll_closed ==
    /\ InPoll
    /\ \/ fd0 = "closed" /\ mr_fds # {}
       \/ \E e \in mr_fds : e[2] \notin DOMAIN open
    /\ NextRound
    /\ UNCHANGED <<pool, lookups, open, fd0, left, spurious, crashed>>

\* poll is interrupted by a signal.
poll_signal ==
    /\ InPoll
    /\ Uses("other")
    /\ NextRound
    /\ UNCHANGED <<pool, lookups, open, fd0, spurious, crashed>>

\* poll returns because descriptors are readable: the rx of some lookups, and
\* with descriptor 0 the second entry of every lookup.
Readable ==
    {<<e[1], 4>> : e \in {e \in mr_fds : e[2] \in DOMAIN open /\ 4 \in open[e[2]]}}
    \cup (IF fd0 = "readable" THEN {<<e[1], 6>> : e \in mr_fds} ELSE {})

poll_ready ==
    /\ InPoll /\ Readable # {}
    /\ poll' = [poll EXCEPT !.ready = Readable]
    /\ Goto(MR, "events")
    /\ UNCHANGED <<pool, lookups, open, fd0, mr_fds, left, spurious, crashed>>

\* The entries are handled from the last to the first.  read_mr_ddt goes to the
\* socket rx or rx6 that the slot has by now; on a closed one it fails.
read_mr_ddt(i, v) ==
    /\ th[MR].pc = "events"
    /\ <<i, v>> \in poll.ready
    /\ \A e \in poll.ready : e[1] < i \/ (e[1] = i /\ e[2] <= v)
    /\ LET p == lookups[i].rx IN
       \/ /\ p \in DOMAIN open
          /\ th' = [th EXCEPT ![MR].pc = "recv", ![MR].idx = i]
          /\ poll' = [poll EXCEPT !.ready = @ \ {<<i, v>>}, !.sock = <<p, v>>]
       \/ /\ p \notin DOMAIN open
          /\ poll' = [poll EXCEPT !.ready = @ \ {<<i, v>>}]
          /\ th' = th
    /\ UNCHANGED <<pool, lookups, open, fd0, mr_fds, left, spurious, crashed>>

\* recvfrom blocks until the socket has a datagram.  One that is no Map-Referral
\* or has another nonce is dropped.
recvfrom(nonce, recs) ==
    LET p == poll.sock[1]
        v == poll.sock[2]
        same == lookups[th[MR].idx].nonce = nonce
    IN  /\ th[MR].pc = "recv"
        /\ p \in DOMAIN open /\ v \in open[p]
        /\ open' = [open EXCEPT ![p] = @ \ {v}]
        /\ th' = [th EXCEPT ![MR].pc = IF same THEN "apply" ELSE "events",
                            ![MR].recs = IF same THEN recs ELSE <<>>]
        /\ poll' = [poll EXCEPT !.sock = NULL]
        /\ UNCHANGED <<pool, lookups, fd0, mr_fds, left, spurious, crashed>>

events_done ==
    /\ th[MR].pc = "events"
    /\ poll.ready = {}
    /\ NextRound
    /\ UNCHANGED <<pool, lookups, open, fd0, left, spurious, crashed>>

----------------------------------------------------------------------------
MainStep == CountPacket

WorkerStep(w) ==
    \/ _lisp_process(w) \/ FreeOwn(w) \/ SignalOwn(w)
    \/ pending_request(w) \/ claim_slot(w) \/ keep_packet(w) \/ copy_nonce(w)
    \/ mr_new_lookup(w) \/ get_mr_ddt(w)

AnswerStep(t) ==
    process_record(t) \/ SendOn(t) \/ free_lookups(t) \/ ClearLookup(t)

EventStep ==
    \/ scan_lookup \/ poll_timeout \/ poll_closed \/ poll_ready \/ events_done
    \/ \E i \in Idx, v \in {4, 6} : read_mr_ddt(i, v)
    \/ \E n \in Nonce, recs \in Answers : recvfrom(n, recs)

Environment ==
    \/ \E c \in Arrivals : udp_get_pk(c)
    \/ Spurious
    \/ \E p \in DOMAIN open, v \in {4, 6} : Datagram(p, v)
    \/ \E state \in {"quiet", "readable", "closed"} : Descriptor0(state)
    \/ poll_signal

Next ==
    /\ ~crashed
    /\ \/ Environment
       \/ MainStep
       \/ \E w \in Worker : WorkerStep(w)
       \/ \E t \in Thread : AnswerStep(t)
       \/ EventStep
       \/ Tick

\* Threads are scheduled and time passes; the network need not deliver.
Fairness ==
    /\ WF_vars(~crashed /\ MainStep)
    /\ \A w \in Worker : WF_vars(~crashed /\ (WorkerStep(w) \/ AnswerStep(w)))
    /\ WF_vars(~crashed /\ (EventStep \/ AnswerStep(MR)))
    /\ WF_vars(~crashed /\ Tick)

Spec == Init /\ [][Next]_vars /\ Fairness

----------------------------------------------------------------------------
Lookup == [active : BOOLEAN, nonce : Nonce \cup {NULL}, pke : Nat \cup {NULL},
           rx : Nat \cup {NULL}, last_eid : Seq({0, 1}) \cup {NULL},
           list : {"none", "live", "gone"}, rlocs : Nat,
           count : 0..(MR_MAX_LOOKUP + 1), age : 0..MaxAge]
PC == {"idle", "pending", "claim", "keep", "nonce", "start", "match", "apply",
       "release", "released", "free", "signal", "scan", "expire", "expired",
       "events", "recv"}

TypeOK ==
    /\ main \in {"poll", "count", "wait", "woken"}
    /\ ipq_no \in 0..(UIntMod - 1)
    /\ content \in Seq(Packet \cup {NULL})
    /\ queue \in Seq(Nat)
    /\ lookups \in [Idx -> Lookup]
    /\ DOMAIN open \subseteq Nat
    /\ fd0 \in {"quiet", "readable", "closed"}
    /\ mr_fds \subseteq Idx \X (Nat \cup {NULL})
    /\ 2 * Cardinality(mr_fds) <= MAX_LOOKUPS + 1
    /\ poll \in [l : {NULL} \cup Idx, to : 0..timeout,
                 ready : SUBSET (Idx \X {4, 6}), sock : {NULL} \cup (Nat \X {4, 6})]
    /\ th \in [Thread -> [pc : PC, pke : Nat \cup {NULL}, idx : Nat \cup {NULL},
                          recs : Seq(Record)]]
    /\ left \in [request : Nat, other : Nat] /\ spurious \in Nat
    /\ crashed \in BOOLEAN

\* udp_free_pk may release a packet before the receive loop has counted it, so
\* that the unsigned ipq_no passes through its greatest value (udp.c 190-192,
\* 2234-2239); it is nevertheless the number of packets not released, less the
\* one not counted yet.
CountExact ==
    ~crashed =>
        (ipq_no + (IF main = "poll" THEN 0 ELSE 1)) % UIntMod = Cardinality(allocated)

\* The limit of udp.c 2235 is tested once and after the packet was queued: it
\* is passed, but by no more than one packet for each thread that may signal a
\* release whose place was already given away, of which there are no more than
\* releases, and one for each spurious wake-up.
InProcessBounded ==
    LET released == DOMAIN content \ allocated
        spare    == Cardinality(allocated) - PK_POOL_MAX - spurious
    IN  ~crashed => /\ spare <= Cardinality(Thread)
                    /\ spare <= Cardinality(released)

\* mr_lookups owns its packets: an active lookup's packet is not released, is
\* no other lookup's and in the hands of no worker but one that is still filling
\* the slot.  The exceptions last as long as a thread is between 3749 and 3750
\* (the slot is active and has the packet of its last lookup) or between the
\* release and the end of free_lookups for that slot (udp.c 3745-3785, 3820-3830).
PendingHeld ==
    \A i \in Idx : lookups[i].active =>
        \/ \E t \in Thread : th[t].pc \in {"released", "expired"} /\ th[t].idx = i
        \/ \E w \in Worker : th[w].pc = "keep" /\ th[w].idx = i
        \/ /\ lookups[i].pke \in allocated
           /\ \A j \in Idx \ {i} : lookups[j].active => lookups[j].pke # lookups[i].pke
           /\ \A w \in Worker : th[w].pke = lookups[i].pke =>
                                    th[w].pc \in {"nonce", "start"} /\ th[w].idx = i
           /\ \A k \in DOMAIN queue : queue[k] # lookups[i].pke

\* "Last eid-prefix received by MR - to prevent loop" (udp.c 3571): within one
\* lookup the EID-prefix followed only gets longer and stays inside the last.
ReferralsDescend ==
    [][\A i \in Idx :
          LET last == lookups[i].last_eid
              next == lookups'[i].last_eid
          IN  NULL \notin {last, next} /\ next # last => IsStrictPrefix(last, next)]_vars

\* The event loop hangs: in recvfrom on a socket nobody sends to, which it reads
\* because descriptor 0 is readable, or in polls that return at once and for
\* nothing because descriptor 0 is closed.
Hangs == <>[](th[MR].pc = "recv") \/ <>[](fd0 = "closed")

\* Unless it hangs, mr_event_loop ends every lookup, whatever is answered, sent
\* in vain or never answered (udp.c 4206-4238).
LookupsEnd ==
    \/ Hangs
    \/ \A i \in Idx : lookups[i].active ~> (~lookups[i].active \/ crashed)

\* The receive loop comes back to its poll: "get next packet if number packet
\* waitting < PK_POOL_MAX" (udp.c 2229).
ReceiveLoopLives == (main = "wait") ~> (main = "poll" \/ crashed)

\* Packets nobody will release: a Map-Request that repeated a nonce or found no
\* slot, or whose slot was given to another one or freed while it was filled.
Lost == {p \in allocated : /\ \A k \in DOMAIN queue : queue[k] # p
                           /\ \A w \in Worker : th[w].pke # p
                           /\ \A i \in Idx : lookups[i].active => lookups[i].pke # p}

\* It does, unless the event loop hangs or a packet is lost (udp.c 190-193,
\* 2234-2239, 3674, 3809): no signal is missed, and every packet that some
\* thread or lookup holds is released.
ReceiveLoopResumes ==
    \/ Hangs
    \/ (main = "wait") ~> (main = "poll" \/ crashed \/ Lost # {})
============================================================================
