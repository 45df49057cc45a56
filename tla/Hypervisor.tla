----------------------------- MODULE Hypervisor -----------------------------
(***************************************************************************)
(* The four threads of hylisphv around the shared tables, and the control  *)
(* planes that talk to it.                                                 *)
(*                                                                         *)
(*   rs   the registering server          controlplanes/register.c         *)
(*   mmm  the map messages muxer          mapmessages/mux.c                *)
(*   mmd  the map messages demuxer        mapmessages/demux.c              *)
(*   cpd  the control packets demuxer     controlpackets/demux.c           *)
(*   cp   the control planes              hylisp-cp/plugin_hv/plugin_hv.c  *)
(*                                                                         *)
(* Both read-write locks are implicit in the program counters: a thread    *)
(* that reads the tables over several steps holds them from one pc to the  *)
(* next, and rs waits until nobody does.  rs itself holds the write lock   *)
(* of control_planes within one step and that of assignments while sweep   *)
(* is on.  Where the lock prefers writers (FreeBSD's does), a thread that  *)
(* holds no read lock yet does not pass a waiting writer; the second of    *)
(* the two locks every reader takes is then granted regardless.            *)
(*                                                                         *)
(* The muxer updates assignments while it holds READ locks only, so a      *)
(* demuxer may be scanning meanwhile: it is then in torn, and what its     *)
(* scan yields is open.                                                    *)
(*                                                                         *)
(* Datagram sockets are bounded sequences; a write to a full one or to one *)
(* whose owner is gone fails (FreeBSD does not block there), and each      *)
(* caller reacts to the failure as its code does.  The kernel's mapping    *)
(* socket and the raw socket are external: the demuxers read any message   *)
(* at any time, what is written to them leaves the model.                  *)
(***************************************************************************)
EXTENDS Tables, Sequences

CONSTANTS LookupEids,   \* EIDs of the messages the demuxers receive
          Busy,         \* which of the demuxers receives any
          PortOf,       \* [Sockets -> Ports], the -p option of each plane
          Script,       \* [Sockets -> Seq(MapMessage)], what it writes
          EastActions,  \* subset of {"DEREGISTER", "UNKNOWN"} planes send
          MayCrash,     \* planes may die
          WriterPreference, \* a waiting writer keeps new readers out
          EastRoom, PingRoom, NorthRoom, SouthRoom   \* socket buffers

MapMessage == [type : {"ADD", "DELETE", "OTHER"}, db : BOOLEAN,
               eid : AnnouncedEids]
EastMessage == [action : {"REGISTER", "DEREGISTER", "UNKNOWN"},
                socket : Sockets, port : Ports]

ASSUME HypervisorAssumption ==
    /\ LookupEids \subseteq Eid
    /\ Busy \subseteq {"mmd", "cpd"}
    /\ PortOf \in [Sockets -> Ports]
    /\ Script \in [Sockets -> Seq(MapMessage)]
    /\ EastActions \subseteq {"DEREGISTER", "UNKNOWN"}
    /\ MayCrash \in BOOLEAN
    /\ WriterPreference \in BOOLEAN
    /\ {EastRoom, PingRoom, NorthRoom, SouthRoom} \subseteq Nat \ {0}

VARIABLES
    rs,        \* [pc, msg, to, i, id]: registering server and its locals
    mmm,       \* [pc, ready, from, msg]: muxer and its locals
    mmm_poll,  \* the descriptors the muxer polls, after the ping socket
    mmd,       \* [pc, eid, to]: demuxer of map messages and its locals
    cpd,       \* [pc, eid, to]: demuxer of control packets and its locals
    torn,      \* demuxers whose scan ran beside an update
    eastbound, \* queue of the register socket
    pings,     \* datagrams queued on poll_update
    outbox,    \* [Sockets -> Seq(MapMessage)], plane to hypervisor
    inbox,     \* [Sockets -> Seq({"ACK", "MAP"})], hypervisor to plane
    cp,        \* [Sockets -> state of the control plane]
    sent       \* [Sockets -> Nat], how much of its script it has written

threadVars == <<rs, mmm, mmm_poll, mmd, cpd, torn>>
channelVars == <<eastbound, pings, outbox, inbox>>
planeVars == <<cp, sent>>
vars == <<tablesVars, threadVars, channelVars, planeVars>>

----------------------------------------------------------------------------
\* Locks.
pcOf == [mmd |-> mmd.pc, cpd |-> cpd.pc, mmm |-> mmm.pc]
Scanning == {t \in {"mmd", "cpd"} : pcOf[t] = "scan"}
PlanesReaders == {t \in DOMAIN pcOf : pcOf[t] \in {"scan", "copy", "locked"}}
AssignmentsReaders == {t \in DOMAIN pcOf : pcOf[t] \in {"scan", "locked"}}
PlanesWrlock == PlanesReaders = {}
AssignmentsWrlock == AssignmentsReaders = {}
\* Mutant: readers pass a waiting writer.
PlanesRdlock_ReadersFirst == TRUE

PlanesRdlock == WriterPreference => rs.pc # "wrlock"
\* Mutant: the second read lock is not taken.
AssignmentsRdlock_Missing == TRUE

AssignmentsRdlock == ~sweep.on

\* fatal(): the process ends; the other threads end with it.
Fatal == /\ hv' = "fatal"
         /\ UNCHANGED <<planesVars, assignmentsVars, sweep>>

\* A datagram of the hypervisor to the plane behind a northbound socket.
Deliverable(s) == cp[s] # "down" /\ Len(inbox[s]) < NorthRoom
Deliver(recipients, datagram) ==
    inbox' = [s \in Sockets |-> IF s \in recipients /\ Deliverable(s)
                                THEN Append(inbox[s], datagram) ELSE inbox[s]]

\* The sockets mmm_poll should hold, and the registered sockets as a set.
Registered == [i \in LivePlanes |-> control_planes[i].socket_descriptor]
RegisteredSockets == {control_planes[i].socket_descriptor : i \in LivePlanes}

\* A demuxer that holds no EID; locals out of scope are reset throughout.
RsAt(pc) == [pc |-> pc, msg |-> {}, to |-> {}, i |-> 0, id |-> 0]
At(pc, to) == [pc |-> pc, eid |-> get_undefined_eid, to |-> to]

Init ==
    /\ TablesInit
    /\ rs = RsAt("start")
    /\ mmm = [pc |-> "start", ready |-> {}, from |-> {}, msg |-> {}]
    /\ mmm_poll = [i \in {} |-> i]
    /\ mmd = At("read", {})
    /\ cpd = At("start", {})
    /\ torn = {}
    /\ eastbound = <<>>
    /\ pings = 0
    /\ outbox = [s \in Sockets |-> <<>>]
    /\ inbox = [s \in Sockets |-> <<>>]
    /\ cp = [s \in Sockets |-> "off"]
    /\ sent = [s \in Sockets |-> 0]

----------------------------------------------------------------------------
(***************************************************************************)
(* rs: the registering server.                                             *)
(***************************************************************************)
\* init_control_planes, init_assignments, bind.
RsStart ==
    /\ rs.pc = "start"
    /\ rs' = RsAt("recv")
    /\ UNCHANGED <<tablesVars, mmm, mmm_poll, mmd, cpd, torn, channelVars,
                   planeVars>>

\* recv(): a request waits for the write lock of control_planes; a message of
\* another action, or of the wrong length, is ignored.
RsRecv ==
    /\ rs.pc = "recv"
    /\ eastbound # <<>>
    /\ eastbound' = Tail(eastbound)
    /\ \/ /\ Head(eastbound).action \in {"REGISTER", "DEREGISTER"}
          /\ rs' = [rs EXCEPT !.pc = "wrlock", !.msg = {Head(eastbound)}]
       \/ /\ Head(eastbound).action = "UNKNOWN"
          /\ UNCHANGED rs
    /\ UNCHANGED <<tablesVars, mmm, mmm_poll, mmd, cpd, torn, pings, outbox,
                   inbox, planeVars>>

Granted(action, msg) == /\ rs.pc = "wrlock"
                        /\ msg.action = action
                        /\ PlanesWrlock

\* register_control_plane up to the unlock.  connect() fails when the plane
\* that sent the request is gone, and that is fatal.
RsRegister ==
    /\ \E msg \in rs.msg :
        /\ Granted("REGISTER", msg)
        /\ \/ /\ cp[msg.socket] = "down"
              /\ Fatal
              /\ UNCHANGED rs
           \/ /\ cp[msg.socket] # "down"
              /\ add_control_plane(msg.socket, msg.port)
              /\ rs' = [RsAt("ack") EXCEPT !.to = {msg.socket}]
    /\ UNCHANGED <<mmm, mmm_poll, mmd, cpd, torn, channelVars, planeVars>>

\* ack_registration: passes the westbound descriptor, which is -1 until cpd
\* has opened it.
AckFails == cpd.pc = "start" \/ \E s \in rs.to : ~Deliverable(s)

RsAck ==
    /\ rs.pc = "ack"
    /\ \/ AckFails /\ Fatal /\ UNCHANGED <<rs, inbox>>
       \/ /\ ~AckFails
          /\ Deliver(rs.to, "ACK")
          /\ rs' = RsAt("ping")
          /\ UNCHANGED tablesVars
    /\ UNCHANGED <<mmm, mmm_poll, mmd, cpd, torn, eastbound, pings, outbox,
                   planeVars>>

\* Mutants: pings pile up beyond the socket; a full socket is fatal.
RsPing_Unbounded ==
    /\ rs.pc = "ping"
    /\ pings' = pings + 1
    /\ rs' = RsAt("recv")
    /\ UNCHANGED <<tablesVars, mmm, mmm_poll, mmd, cpd, torn, eastbound,
                   outbox, inbox, planeVars>>

RsPing_FullIsFatal ==
    /\ rs.pc = "ping"
    /\ \/ /\ mmm.pc = "start" \/ pings = PingRoom
          /\ Fatal
          /\ UNCHANGED <<rs, pings>>
       \/ /\ mmm.pc # "start" /\ pings < PingRoom
          /\ pings' = pings + 1
          /\ rs' = RsAt("recv")
          /\ UNCHANGED tablesVars
    /\ UNCHANGED <<mmm, mmm_poll, mmd, cpd, torn, eastbound, outbox, inbox,
                   planeVars>>

\* ping_mmm: the first connect() needs the muxer's socket to be bound; a full
\* socket only costs a warning.
RsPing ==
    /\ rs.pc = "ping"
    /\ \/ mmm.pc = "start" /\ Fatal /\ UNCHANGED <<rs, pings>>
       \/ /\ mmm.pc # "start"
          /\ pings' = IF pings < PingRoom THEN pings + 1 ELSE pings
          /\ rs' = RsAt("recv")
          /\ UNCHANGED tablesVars
    /\ UNCHANGED <<mmm, mmm_poll, mmd, cpd, torn, eastbound, outbox, inbox,
                   planeVars>>

\* The first registered plane with the port of the message.
IsFirstWithPort(i, port) ==
    /\ control_planes[i].port = port
    /\ \A j \in 0..(i - 1) : control_planes[j].port # port

\* deregister_control_plane up to the first unlock.
RsDeregister ==
    /\ \E msg \in rs.msg :
        /\ Granted("DEREGISTER", msg)
        /\ \/ \E i \in LivePlanes :
                /\ IsFirstWithPort(i, msg.port)
                /\ remove_control_plane(i)
                /\ rs' = [RsAt("clean") EXCEPT !.i = i,
                                               !.id = control_planes[i].id]
           \/ /\ \A i \in LivePlanes : control_planes[i].port # msg.port
              /\ rs' = [RsAt("clean") EXCEPT !.i = control_planes_ctr]
              /\ UNCHANGED tablesVars
    /\ UNCHANGED <<mmm, mmm_poll, mmd, cpd, torn, channelVars, planeVars>>

\* Mutant: no ping when there is no assignment to remove.
RsClean_Returns ==
    /\ rs.pc = "clean"
    /\ AssignmentsWrlock
    /\ \/ /\ rs.i < control_planes_ctr
          /\ remove_assignee(rs.id)
          /\ rs' = RsAt("sweep")
       \/ /\ rs.i >= control_planes_ctr
          /\ rs' = RsAt("recv")
          /\ UNCHANGED tablesVars
    /\ UNCHANGED <<mmm, mmm_poll, mmd, cpd, torn, channelVars, planeVars>>

\* The second half compares the index with the counter already decremented,
\* and passes an id where remove_assignee takes an index.
RsClean ==
    /\ rs.pc = "clean"
    /\ AssignmentsWrlock
    /\ \/ /\ rs.i < control_planes_ctr
          /\ remove_assignee(rs.id)
          /\ rs' = RsAt("sweep")
       \/ /\ rs.i >= control_planes_ctr
          /\ rs' = RsAt("ping")
          /\ UNCHANGED tablesVars
    /\ UNCHANGED <<mmm, mmm_poll, mmd, cpd, torn, channelVars, planeVars>>

RsSweep ==
    /\ rs.pc = "sweep"
    /\ \/ (SweepDiscard \/ SweepKeep) /\ UNCHANGED rs
       \/ SweepEnd /\ rs' = RsAt("ping")
    /\ UNCHANGED <<mmm, mmm_poll, mmd, cpd, torn, channelVars, planeVars>>

----------------------------------------------------------------------------
(***************************************************************************)
(* mmm: the muxer of map messages.                                         *)
(***************************************************************************)
\* Opens the mapping socket and binds poll_update.
MuxStart ==
    /\ mmm.pc = "start"
    /\ mmm' = [mmm EXCEPT !.pc = "poll"]
    /\ UNCHANGED <<tablesVars, rs, mmm_poll, mmd, cpd, torn, channelVars,
                   planeVars>>

ReadySlots == {i \in DOMAIN mmm_poll : outbox[mmm_poll[i]] # <<>>}

\* poll() returns.  A ping is served first, and the update it causes clears
\* every revents: the other ready sockets wait for the next poll().
MuxPoll ==
    /\ mmm.pc = "poll"
    /\ \/ pings > 0 /\ mmm' = [mmm EXCEPT !.pc = "update"]
       \/ /\ pings = 0
          /\ ReadySlots # {}
          /\ mmm' = [mmm EXCEPT !.pc = "work", !.ready = ReadySlots]
    /\ UNCHANGED <<tablesVars, rs, mmm_poll, mmd, cpd, torn, channelVars,
                   planeVars>>

\* update_mmm_poll takes the read lock and drains the ping socket ...
MuxDrain ==
    /\ mmm.pc = "update"
    /\ PlanesRdlock
    /\ pings' = 0
    /\ mmm' = [mmm EXCEPT !.pc = "copy"]
    /\ UNCHANGED <<tablesVars, rs, mmm_poll, mmd, cpd, torn, eastbound,
                   outbox, inbox, planeVars>>

\* Mutant: the last plane is left out.
MuxCopy_AllButLast ==
    /\ mmm.pc = "copy"
    /\ mmm_poll' = [i \in 0..(control_planes_ctr - 2) |-> Registered[i]]
    /\ mmm' = [mmm EXCEPT !.pc = "poll"]
    /\ UNCHANGED <<tablesVars, rs, mmd, cpd, torn, channelVars, planeVars>>

\* ... then copies the descriptors and unlocks.
MuxCopy ==
    /\ mmm.pc = "copy"
    /\ mmm_poll' = Registered
    /\ mmm' = [mmm EXCEPT !.pc = "poll"]
    /\ UNCHANGED <<tablesVars, rs, mmd, cpd, torn, channelVars, planeVars>>

\* The slots that poll() found ready, in order.
NextSlot(i) == /\ i \in mmm.ready
               /\ \A j \in mmm.ready : i <= j
AfterSlot(i) == IF mmm.ready = {i} THEN "poll" ELSE "work"
IsLocal(msg) == msg.db /\ msg.type \in {"ADD", "DELETE"}

\* process_message on a message that concerns no assignment: relayed.
MuxRelay ==
    /\ mmm.pc = "work"
    /\ \E i \in mmm.ready :
        LET s == mmm_poll[i] IN
        /\ NextSlot(i)
        /\ ~IsLocal(Head(outbox[s]))
        /\ outbox' = [outbox EXCEPT ![s] = Tail(@)]
        /\ mmm' = [mmm EXCEPT !.pc = AfterSlot(i), !.ready = @ \ {i}]
    /\ UNCHANGED <<tablesVars, rs, mmm_poll, mmd, cpd, torn, eastbound, pings,
                   inbox, planeVars>>

\* process_message on one that does: received, and both read locks taken ...
MuxLock ==
    /\ mmm.pc = "work"
    /\ PlanesRdlock /\ AssignmentsRdlock
    /\ \E i \in mmm.ready :
        LET s == mmm_poll[i] IN
        /\ NextSlot(i)
        /\ IsLocal(Head(outbox[s]))
        /\ outbox' = [outbox EXCEPT ![s] = Tail(@)]
        /\ mmm' = [mmm EXCEPT !.pc = "locked", !.from = {i},
                              !.msg = {Head(outbox[s])}]
    /\ UNCHANGED <<tablesVars, rs, mmm_poll, mmd, cpd, torn, eastbound, pings,
                   inbox, planeVars>>

Update(msg, index) ==
    LET item == [eid |-> msg.eid, assignee_index |-> index] IN
    \/ msg.type = "ADD" /\ add_assignment(item)
    \/ msg.type = "DELETE" /\ remove_assignment(item)

\* ... then the sender's index is looked up, the table updated if the sender
\* is still registered, the locks released and the message relayed.
MuxAssign ==
    /\ mmm.pc = "locked"
    /\ \E i \in mmm.from, msg \in mmm.msg :
        /\ \/ \E k \in LivePlanes :
                /\ control_planes[k].socket_descriptor = mmm_poll[i]
                /\ Update(msg, k)
           \/ /\ mmm_poll[i] \notin RegisteredSockets
              /\ UNCHANGED tablesVars
        /\ mmm' = [pc |-> AfterSlot(i), ready |-> mmm.ready \ {i},
                   from |-> {}, msg |-> {}]
    /\ torn' = IF assignmentsVars' = assignmentsVars THEN torn
               ELSE torn \cup Scanning
    /\ UNCHANGED <<rs, mmm_poll, mmd, cpd, channelVars, planeVars>>

----------------------------------------------------------------------------
(***************************************************************************)
(* mmd: the demuxer of map messages.                                       *)
(***************************************************************************)
\* It waits for the muxer to open the mapping socket; then a message of the
\* data plane arrives and both read locks are taken ...
MmdRead ==
    /\ mmd.pc = "read" /\ "mmd" \in Busy
    /\ mmm.pc # "start"
    /\ PlanesRdlock /\ AssignmentsRdlock
    /\ \E eid \in LookupEids :
        mmd' = [pc |-> "scan", eid |-> eid, to |-> {}]
    /\ UNCHANGED <<tablesVars, rs, mmm, mmm_poll, cpd, torn, channelVars,
                   planeVars>>

\* What a scan beside an update can end in: a signal, no recipient that is a
\* northbound socket, or whatever slot it takes for the answer.
TornRecipients == {{}} \cup {{control_planes[i].socket_descriptor} :
                               i \in DOMAIN control_planes}

\* ... and released once the recipient is known.
MmdSort ==
    /\ mmd.pc = "scan"
    /\ torn' = torn \ {"mmd"}
    /\ LET found == sort(mmd.eid) IN
       \/ /\ "mmd" \notin torn /\ found.code = "ONE"
          /\ mmd' = At("deliver",
                       {control_planes[found.index].socket_descriptor})
          /\ UNCHANGED tablesVars
       \/ /\ "mmd" \notin torn /\ found.code # "ONE"
          /\ mmd' = At("broadcast", {})
          /\ UNCHANGED tablesVars
       \/ /\ "mmd" \in torn
          /\ \/ \E to \in TornRecipients :
                  mmd' = At("deliver", to)
             \/ mmd' = At("broadcast", {})
          /\ UNCHANGED tablesVars
       \/ "mmd" \in torn /\ Crash /\ UNCHANGED mmd
    /\ UNCHANGED <<rs, mmm, mmm_poll, cpd, channelVars, planeVars>>

\* The locks are no longer held: the recipient may have deregistered.
MmdDeliver ==
    /\ mmd.pc \in {"deliver", "broadcast"}
    /\ Deliver(IF mmd.pc = "deliver" THEN mmd.to ELSE RegisteredSockets, "MAP")
    /\ mmd' = At("read", {})
    /\ UNCHANGED <<tablesVars, rs, mmm, mmm_poll, cpd, torn, eastbound, pings,
                   outbox, planeVars>>

----------------------------------------------------------------------------
(***************************************************************************)
(* cpd: the demuxer of control packets.  What it injects leaves through    *)
(* the raw socket.                                                         *)
(***************************************************************************)
\* Binds UDP port 4342 and publishes the descriptor.
CpdStart ==
    /\ cpd.pc = "start"
    /\ cpd' = At("read", {})
    /\ UNCHANGED <<tablesVars, rs, mmm, mmm_poll, mmd, torn, channelVars,
                   planeVars>>

CpdRead ==
    /\ cpd.pc = "read" /\ "cpd" \in Busy
    /\ PlanesRdlock /\ AssignmentsRdlock
    /\ \E eid \in LookupEids :
        cpd' = [pc |-> "scan", eid |-> eid, to |-> {}]
    /\ UNCHANGED <<tablesVars, rs, mmm, mmm_poll, mmd, torn, channelVars,
                   planeVars>>

\* One and none both name a plane (none: the default one, index 0).
CpdSort ==
    /\ cpd.pc = "scan"
    /\ torn' = torn \ {"cpd"}
    /\ LET found == sort(cpd.eid) IN
       \/ /\ "cpd" \notin torn /\ found.code \in {"ONE", "NON"}
          /\ cpd' = At("inject", {control_planes[found.index].port})
          /\ UNCHANGED tablesVars
       \/ /\ "cpd" \notin torn /\ found.code = "ALL"
          /\ cpd' = At("toall", {})
          /\ UNCHANGED tablesVars
       \/ /\ "cpd" \notin torn /\ found.code = "ERR"
          /\ cpd' = At("read", {})
          /\ UNCHANGED tablesVars
       \/ /\ "cpd" \in torn
          /\ \/ \E port \in Ports :
                  cpd' = At("inject", {port})
             \/ cpd' = At("toall", {})
             \/ cpd' = At("read", {})
          /\ UNCHANGED tablesVars
       \/ "cpd" \in torn /\ Crash /\ UNCHANGED cpd
    /\ UNCHANGED <<rs, mmm, mmm_poll, mmd, channelVars, planeVars>>

\* inject_datagram_ipv4, to one port or, under a new read lock, to all.
CpdInject ==
    /\ cpd.pc \in {"inject", "toall"}
    /\ cpd' = At("read", {})
    /\ UNCHANGED <<tablesVars, rs, mmm, mmm_poll, mmd, torn, channelVars,
                   planeVars>>

----------------------------------------------------------------------------
(***************************************************************************)
(* cp: the control planes.                                                 *)
(***************************************************************************)
East(action, s) == [action |-> action, socket |-> s, port |-> PortOf[s]]

\* register_virtual_plane up to the write; exit(0) if the hypervisor does
\* not listen yet or its socket is full.
CpRegister(s) ==
    /\ cp[s] = "off"
    /\ \/ /\ rs.pc # "start" /\ Len(eastbound) < EastRoom
          /\ eastbound' = Append(eastbound, East("REGISTER", s))
          /\ cp' = [cp EXCEPT ![s] = "waiting"]
       \/ /\ rs.pc = "start" \/ Len(eastbound) >= EastRoom
          /\ cp' = [cp EXCEPT ![s] = "down"]
          /\ UNCHANGED eastbound
    /\ UNCHANGED <<tablesVars, threadVars, pings, outbox, inbox, sent>>

\* recvmsg(): whatever datagram comes first ends the wait for the ACK; later
\* ones are the data plane's messages.
CpReceive(s) ==
    /\ cp[s] \in {"waiting", "up", "left"}
    /\ inbox[s] # <<>>
    /\ inbox' = [inbox EXCEPT ![s] = Tail(@)]
    /\ cp' = [cp EXCEPT ![s] = IF @ = "waiting" THEN "up" ELSE @]
    /\ UNCHANGED <<tablesVars, threadVars, eastbound, pings, outbox, sent>>

\* The next message of the script; lost if the socket is full.
CpSend(s) ==
    /\ cp[s] = "up"
    /\ sent[s] < Len(Script[s])
    /\ sent' = [sent EXCEPT ![s] = @ + 1]
    /\ outbox' = IF Len(outbox[s]) < SouthRoom
                 THEN [outbox EXCEPT ![s] = Append(@, Script[s][sent[s] + 1])]
                 ELSE outbox
    /\ UNCHANGED <<tablesVars, threadVars, eastbound, pings, inbox, cp>>

\* The other eastbound messages: a plane that leaves (ACTION_DEREGISTER of
\* hylisphv.h), and a process that writes something else altogether.
CpEast(s, action) ==
    /\ cp[s] = (IF action = "DEREGISTER" THEN "up" ELSE "off")
    /\ Len(eastbound) < EastRoom
    /\ eastbound' = Append(eastbound, East(action, s))
    /\ cp' = [cp EXCEPT ![s] = "left"]
    /\ UNCHANGED <<tablesVars, threadVars, pings, outbox, inbox, sent>>

CpCrash(s) ==
    /\ MayCrash
    /\ cp[s] \notin {"off", "down"}
    /\ cp' = [cp EXCEPT ![s] = "down"]
    /\ inbox' = [inbox EXCEPT ![s] = <<>>]
    /\ UNCHANGED <<tablesVars, threadVars, eastbound, pings, outbox, sent>>

----------------------------------------------------------------------------
RsNext == \/ RsStart \/ RsRecv \/ RsRegister \/ RsAck \/ RsPing
          \/ RsDeregister \/ RsClean \/ RsSweep
MuxNext == \/ MuxStart \/ MuxPoll \/ MuxDrain \/ MuxCopy \/ MuxRelay
           \/ MuxLock \/ MuxAssign
MmdNext == MmdRead \/ MmdSort \/ MmdDeliver
CpdNext == CpdStart \/ CpdRead \/ CpdSort \/ CpdInject
CpNext == \E s \in Sockets :
            \/ CpRegister(s) \/ CpReceive(s) \/ CpSend(s) \/ CpCrash(s)
            \/ \E action \in EastActions : CpEast(s, action)

Next == hv = "up" /\ (RsNext \/ MuxNext \/ MmdNext \/ CpdNext \/ CpNext)

(***************************************************************************)
(* Fairness: every thread of the hypervisor runs, and a control plane      *)
(* reads its socket.  A demuxer that has read a message goes on; messages  *)
(* need not arrive.  That is weak fairness; that the registering server is *)
(* not starved by readers that overlap comes from WriterPreference.        *)
(***************************************************************************)
Up(action) == hv = "up" /\ action

Fairness ==
    /\ WF_vars(Up(RsNext))
    /\ WF_vars(Up(MuxNext))
    /\ WF_vars(Up(MmdSort)) /\ WF_vars(Up(MmdDeliver))
    /\ WF_vars(Up(CpdStart)) /\ WF_vars(Up(CpdSort)) /\ WF_vars(Up(CpdInject))
    /\ \A s \in Sockets : WF_vars(Up(CpReceive(s)))

Spec == Init /\ [][Next]_vars
FairSpec == Spec /\ Fairness

----------------------------------------------------------------------------
\* Types of the threads, the channels and the planes.
RsTypeOK ==
    rs \in [pc : {"start", "recv", "wrlock", "ack", "clean", "sweep", "ping"},
            msg : SUBSET EastMessage, to : SUBSET Sockets, i : Nat, id : Nat]

MuxTypeOK ==
    /\ mmm \in [pc : {"start", "poll", "update", "copy", "work", "locked"},
                ready : SUBSET Nat, from : SUBSET Nat, msg : SUBSET MapMessage]
    /\ DOMAIN mmm_poll \subseteq Nat
    /\ mmm_poll \in [DOMAIN mmm_poll -> Sockets]
    /\ mmm.ready \subseteq DOMAIN mmm_poll
    /\ mmm.from \subseteq DOMAIN mmm_poll

DemuxTypeOK ==
    /\ mmd \in [pc : {"read", "scan", "deliver", "broadcast"}, eid : Eid,
                to : SUBSET Sockets]
    /\ cpd \in [pc : {"start", "read", "scan", "inject", "toall"}, eid : Eid,
                to : SUBSET Ports]
    /\ torn \subseteq {"mmd", "cpd"}

ChannelsTypeOK ==
    /\ eastbound \in Seq(EastMessage)
    /\ pings \in 0..PingRoom
    /\ outbox \in [Sockets -> Seq(MapMessage)]
    /\ inbox \in [Sockets -> Seq({"ACK", "MAP"})]
    /\ cp \in [Sockets -> {"off", "waiting", "up", "left", "down"}]
    /\ sent \in [Sockets -> Nat]

TypeOK == /\ TablesTypeOK /\ RsTypeOK /\ MuxTypeOK
          /\ DemuxTypeOK /\ ChannelsTypeOK

\* The muxer never works on an outdated set of sockets for good (mux.c:163-192,
\* register.c:178-179, 212): unless a ping is queued, about to be sent, or
\* being served, mmm_poll is exactly the registered sockets, in their order.
\* So a ping lost to a full socket costs nothing, and no change is missed by
\* draining the pings before the descriptors are copied.
PollSetFresh ==
    hv = "up" =>
        \/ mmm_poll = Registered
        \/ pings > 0
        \/ mmm.pc = "copy"
        \/ rs.pc \in {"ack", "clean", "sweep", "ping"}

\* Why a registration can end the hypervisor (the fatal() calls of
\* register.c:162-164, 226-229, 275-279): a thread had not started yet, the
\* plane died, or messages of the data plane, and nothing else, filled its
\* socket before the ACK.  Otherwise no sequence of requests, whatever else
\* the threads do, ends the process.
Answering == rs.to \cup {msg.socket : msg \in rs.msg}

FatalHasCause ==
    hv = "fatal" =>
        \/ mmm.pc = "start" \/ cpd.pc = "start"
        \/ \E s \in Answering :
              \/ cp[s] = "down"
              \/ inbox[s] = [n \in 1..NorthRoom |-> "MAP"]

\* Every registration that reached the hypervisor is answered (register.c:133-180),
\* whatever locks the other threads take and however many messages the demuxers
\* relay, unless the process ends or the plane dies.
RegistrationAnswered ==
    \A s \in Sockets : cp[s] = "waiting" ~> (cp[s] # "waiting" \/ hv # "up")

\* Every message a registered plane has written is taken up by the muxer
\* (mux.c:90-112) unless the plane is removed or the process ends: a socket is
\* neither forgotten by an update of the poll set nor starved by pings or by
\* the sockets before it.
MessagesMuxed ==
    \A s \in Sockets :
        (s \in RegisteredSockets /\ outbox[s] # <<>>)
            ~> (outbox[s] = <<>> \/ s \notin RegisteredSockets \/ hv # "up")
=============================================================================
